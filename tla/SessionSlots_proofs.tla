------------------------- MODULE SessionSlots_proofs -------------------------
(* The slots of the current actor of SessionRuntime: its root slot and its   *)
(* handles are never stale (RootSlotIsLive), its requests are the questions  *)
(* tasks wait on (PendingMatchesAsker), nothing is left in it when its       *)
(* operations are finished (NothingLeaks), and the idle reaper never takes   *)
(* it from under work in progress (ReclaimSparesWork).                       *)
EXTENDS SessionRuntime_proofs

USE DEF vars, registryVars, queueVars, workerVars, actorVars, opVars, stopVars

-----------------------------------------------------------------------------
(* Generations: an actor that was not created yet is blank *)

Blank(a) ==
  /\ closing[a] = "open" /\ pc[a] = "select" /\ idle[a] = "fresh"
  /\ control[a] = <<>> /\ normal[a] = <<>>
  /\ handles[a] = {} /\ pending[a] = {}

Generations ==
  /\ cur <= made
  /\ \A o \in Ops : owner[o] <= made /\ target[o] <= made
  /\ \A a \in Actors : a > made => Blank(a)

LEMMA Numbers ==
  ASSUME TypeOK
  PROVE  /\ cur \in Nat /\ made \in Nat /\ \A a \in Actors : a \in Nat \ {0}
         /\ \A o \in Ops : owner[o] \in Nat /\ target[o] \in Nat
         /\ \A n \in 0..MaxActors : n \in Nat
BY BoundsAssumption DEF TypeOK, Actors

LEMMA EnsureEffect ==
  ASSUME TypeOK, Generations, NEW a \in Actors, EnsureActor(a)
  PROVE  /\ cur' = a /\ a <= made' /\ made <= made' /\ made' \in Nat
         /\ cur # 0 => cur' = cur /\ made' = made
         /\ cur = 0 => cur' > made
BY Numbers DEF EnsureActor, Generations

\* What keeps the actors to come blank.
LEMMA BlankStays ==
  ASSUME TypeOK, Generations, made <= made', made' \in Nat, cur' <= made',
         \A o \in Ops : owner'[o] <= made' /\ target'[o] <= made',
         \A a \in Actors : a > made' =>
           /\ closing'[a] = closing[a] /\ pc'[a] = pc[a] /\ idle'[a] = idle[a]
           /\ control'[a] = control[a] /\ normal'[a] = normal[a]
           /\ handles'[a] \subseteq handles[a] /\ pending'[a] \subseteq pending[a]
  PROVE  Generations'
<1> SUFFICES ASSUME NEW a \in Actors, a > made' PROVE Blank(a)'
  BY DEF Generations
<1>1. a > made
  BY Numbers
<1>2. Blank(a)
  BY <1>1 DEF Generations
<1> QED BY <1>2 DEF Blank

\* Steps that leave the generations and what belongs to them alone.
LEMMA BlankSame ==
  ASSUME TypeOK, Generations, UNCHANGED <<made, owner, target>>, cur' \in {cur, 0},
         \A a \in Actors : Blank(a) /\ a > made =>
           /\ closing'[a] = closing[a] /\ pc'[a] = pc[a] /\ idle'[a] = idle[a]
           /\ control'[a] = control[a] /\ normal'[a] = normal[a]
           /\ handles'[a] \subseteq handles[a] /\ pending'[a] \subseteq pending[a]
  PROVE  Generations'
<1>1. \A a \in Actors : a > made => Blank(a)
  BY DEF Generations
<1>2. made \in Nat /\ cur' <= made' /\ \A o \in Ops : owner'[o] <= made' /\ target'[o] <= made'
  BY Numbers DEF Generations
<1> QED BY <1>1, <1>2, BlankStays

LEMMA RefreshKeepsFresh ==
  ASSUME TypeOK, NEW S, RefreshIdle(S), NEW a \in Actors, idle[a] = "fresh"
  PROVE  idle'[a] = "fresh"
BY DEF RefreshIdle

LEMMA ReleaseKeepsSelect ==
  ASSUME NEW o, Release(o), NEW a \in Actors, pc[a] = "select"
  PROVE  pc'[a] = "select"
BY DEF Release

LEMMA BlankSubmit ==
  ASSUME TypeOK, Generations, NEW o \in Ops, NEW a \in Actors,
         Submit(o, a) \/ SubmitPreemptive(o, a)
  PROVE  Generations'
<1>1. EnsureActor(a) /\ owner' = [owner EXCEPT ![o] = a] /\ target' = target
  BY DEF Submit, SubmitPreemptive, Accept
<1>2. /\ cur' = a /\ a <= made' /\ made <= made' /\ made' \in Nat
  BY <1>1, EnsureEffect
<1>3. \A p \in Ops : owner'[p] <= made' /\ target'[p] <= made'
  BY <1>1, <1>2, Numbers DEF TypeOK, Generations
<1>4. UNCHANGED <<closing, pc>>
  BY DEF Submit, SubmitPreemptive
<1>5. ASSUME NEW b \in Actors, b > made'
      PROVE  /\ idle'[b] = idle[b] /\ control'[b] = control[b] /\ normal'[b] = normal[b]
             /\ handles'[b] \subseteq handles[b] /\ pending'[b] \subseteq pending[b]
  <2>1. b # a
    BY <1>2, <1>5, Numbers
  <2>2. idle'[b] = idle[b] /\ control'[b] = control[b] /\ normal'[b] = normal[b]
    BY <2>1 DEF Submit, SubmitPreemptive, TypeOK
  <2>3. handles'[b] \subseteq handles[b] /\ pending'[b] \subseteq pending[b]
    BY <2>1 DEF Submit, SubmitPreemptive, InterruptBody, RespondBody, DropDoneHandles,
                ActiveTasks, CancelCurrentPending
  <2> QED BY <2>2, <2>3
<1> QED BY <1>2, <1>3, <1>4, <1>5, BlankStays

LEMMA BlankWorker ==
  ASSUME TypeOK, Generations, NEW a \in Actors, Worker(a)
  PROVE  Generations'
<1>1. /\ UNCHANGED <<made, owner, target, cur, closing, handles, pending>>
  BY DEF Worker, TakeNormal, TakeControl, ArmGetters, GetterTakesControl, GetterTakesNormal,
         ResumeWithOne, ResumeWithBoth, TakeFrame
<1>2. ASSUME NEW b \in Actors, Blank(b), b > made
      PROVE  /\ pc'[b] = pc[b] /\ idle'[b] = idle[b]
             /\ control'[b] = control[b] /\ normal'[b] = normal[b]
  <2>1. b # a
    <3>1. a <= made \/ pc[a] = "waiting"
      BY DEF Worker, TakeNormal, TakeControl, ArmGetters, GetterTakesControl,
             GetterTakesNormal, ResumeWithOne, ResumeWithBoth
    <3> QED BY <1>2, <3>1, Numbers DEF Blank
  <2>2. control'[b] = control[b] /\ normal'[b] = normal[b]
    <3>1. /\ control' = control \/ \E q : control' = [control EXCEPT ![a] = q]
          /\ normal' = normal \/ \E q : normal' = [normal EXCEPT ![a] = q]
      BY Zenon DEF Worker, TakeNormal, TakeControl, ArmGetters, GetterTakesControl,
             GetterTakesNormal, ResumeWithOne, ResumeWithBoth
    <3> QED BY <2>1, <3>1 DEF TypeOK
  <2>3. CASE ArmGetters(a) \/ GetterTakesControl(a) \/ GetterTakesNormal(a)
    BY <2>1, <2>2, <2>3 DEF ArmGetters, GetterTakesControl, GetterTakesNormal, TypeOK
  <2>4. CASE TakeNormal(a) \/ TakeControl(a) \/ ResumeWithOne(a) \/ ResumeWithBoth(a)
    <3>1. PICK x : Begin(a, x)
      <4>1. CASE TakeNormal(a)
        BY <4>1 DEF TakeNormal
      <4>2. CASE TakeControl(a)
        BY <4>2 DEF TakeControl
      <4>3. CASE ResumeWithOne(a) \/ ResumeWithBoth(a)
        BY <4>3 DEF ResumeWithOne, ResumeWithBoth
      <4> QED BY <2>4, <4>1, <4>2, <4>3
    <3>2. idle'[b] = idle[b] /\ pc'[b] = pc[b]
      BY <1>2, <2>1, <3>1, RefreshKeepsFresh, BeginPc DEF Begin, Blank
    <3> QED BY <2>2, <3>2
  <2> QED BY <2>3, <2>4 DEF Worker
<1> QED BY <1>1, <1>2, BlankSame

LEMMA BlankHandler ==
  ASSUME TypeOK, OnePlace, Generations, NEW a \in Actors, NEW o \in Ops,
         \/ FailItem(a, o) \/ RunPlain(a, o) \/ InitDone(a, o)
         \/ RegisterTask(a, o) \/ CompactCancels(a, o) \/ RunInterrupt(a, o) \/ RunRespond(a, o)
         \/ RunCloseRefused(a, o) \/ CloseAwaitsItself(a, o) \/ CloseDone(a, o)
  PROVE  Generations'
<1>1. /\ UNCHANGED <<made, owner, target, control, normal, cur>>
  BY DEF FailItem, RunPlain, InitDone, RegisterTask, CompactCancels, RunInterrupt, RunRespond,
         RunCloseRefused, CloseAwaitsItself, CloseDone
<1>2. ASSUME NEW b \in Actors, Blank(b), b > made
      PROVE  /\ pc'[b] = pc[b] /\ idle'[b] = idle[b] /\ closing'[b] = closing[b]
             /\ handles'[b] \subseteq handles[b] /\ pending'[b] \subseteq pending[b]
  <2>1. cur # b /\ target[o] # b
    BY <1>2, Numbers DEF Generations
  <2>2. pc'[b] = pc[b]
    <3>1. Release(o) \/ UNCHANGED pc
      BY DEF FailItem, RunPlain, InitDone, RegisterTask, CompactCancels, RunInterrupt,
             RunRespond, RunCloseRefused, CloseAwaitsItself, CloseDone
    <3> QED BY <1>2, <3>1, ReleaseKeepsSelect DEF Blank
  <2>3. idle'[b] = idle[b]
    <3>1. CASE InitDone(a, o)
      BY <1>2, <2>1, <3>1 DEF InitDone, Blank
    <3>2. CASE RegisterTask(a, o)
      BY <2>1, <3>2 DEF RegisterTask, TypeOK
    <3>3. CASE ~InitDone(a, o) /\ ~RegisterTask(a, o)
      <4>1. (\E S : RefreshIdle(S)) \/ UNCHANGED idle
        BY <3>3 DEF FailItem, RunPlain, CompactCancels, RunInterrupt,
             RunRespond, RunCloseRefused, CloseAwaitsItself, CloseDone
      <4> QED BY <1>2, <4>1, RefreshKeepsFresh DEF Blank
    <3> QED BY <3>1, <3>2, <3>3
  <2>4. closing'[b] = closing[b]
    <3>1. CASE CloseAwaitsItself(a, o)
      <4>1. closing[a] = "joining" /\ closing' = [closing EXCEPT ![a] = "abandoned"]
        BY <3>1 DEF CloseAwaitsItself
      <4> QED BY <1>2, <4>1 DEF Blank, TypeOK
    <3>2. CASE ~CloseAwaitsItself(a, o)
      BY <3>2 DEF FailItem, RunPlain, InitDone, RegisterTask, CompactCancels, RunInterrupt,
             RunRespond, RunCloseRefused, CloseDone
    <3> QED BY <3>1, <3>2
  <2>5. handles'[b] \subseteq handles[b]
    <3>1. CASE RegisterTask(a, o)
      BY <2>1, <3>1 DEF RegisterTask, TypeOK
    <3>2. CASE CompactCancels(a, o) \/ RunInterrupt(a, o)
      BY <3>2 DEF CompactCancels, RunInterrupt, InterruptBody, DropDoneHandles, ActiveTasks
    <3>3. CASE ~RegisterTask(a, o) /\ ~CompactCancels(a, o) /\ ~RunInterrupt(a, o)
      BY <3>3 DEF FailItem, RunPlain, InitDone, RunRespond, RunCloseRefused,
                  CloseAwaitsItself, CloseDone, RespondBody
    <3> QED BY <3>1, <3>2, <3>3
  <2>6. pending'[b] \subseteq pending[b]
    BY <2>1 DEF FailItem, RunPlain, InitDone, RegisterTask, CompactCancels, RunInterrupt,
             RunRespond, RunCloseRefused, CloseAwaitsItself, CloseDone, InterruptBody, RespondBody,
             CancelCurrentPending
  <2> QED BY <2>2, <2>3, <2>4, <2>5, <2>6
<1> QED BY <1>1, <1>2, BlankSame
LEMMA StopBodyBlank ==
  ASSUME TypeOK, Generations, cur # 0, StopBody(cur), NEW b \in Actors, b > made
  PROVE  /\ closing'[b] = closing[b] /\ handles'[b] \subseteq handles[b]
         /\ pending'[b] \subseteq pending[b]
<1>1. b # cur /\ cur \in Actors
  BY Numbers, ActorsAreNumbers DEF Generations, TypeOK
<1> QED BY <1>1 DEF StopBody, DropDoneHandles, ActiveTasks, TypeOK

LEMMA BlankClose ==
  ASSUME TypeOK, Generations, NEW a \in Actors, NEW o \in Ops,
         InitLoaded(a, o) \/ RunClose(a, o)
  PROVE  Generations'
<1>1. CASE InitLoaded(a, o)
  <2>1. PICK b \in Actors : EnsureActor(b) /\ target' = [target EXCEPT ![o] = b]
    BY <1>1 DEF InitLoaded
  <2>2. UNCHANGED <<owner, closing, pc, idle, control, normal, handles, pending>>
    BY <1>1 DEF InitLoaded
  <2>3. /\ cur' = b /\ b <= made' /\ made <= made' /\ made' \in Nat
    BY <2>1, EnsureEffect
  <2>4. ASSUME NEW p \in Ops
        PROVE  owner'[p] <= made' /\ target'[p] <= made'
    <3>1. owner[p] <= made /\ target[p] <= made /\ owner[p] \in Nat /\ target[p] \in Nat
      BY Numbers DEF Generations
    <3>2. target'[p] \in {b, target[p]} /\ b \in Nat /\ made \in Nat
      BY <2>1, Numbers DEF TypeOK
    <3> QED BY <2>2, <2>3, <3>1, <3>2
  <2> QED BY <2>2, <2>3, <2>4, BlankStays
<1>2. CASE RunClose(a, o)
  <2>1. /\ cur # 0 /\ StopBody(cur) /\ cur' = 0 /\ target' = [target EXCEPT ![o] = cur]
        /\ UNCHANGED <<made, owner, pc, idle, control, normal>>
    BY <1>2 DEF RunClose
  <2>2. made \in Nat /\ cur' <= made /\ made <= made
    BY <2>1, Numbers
  <2>3. \A p \in Ops : owner'[p] <= made' /\ target'[p] <= made'
    BY <2>1, Numbers DEF TypeOK, Generations
  <2>4. \A b \in Actors : b > made => /\ closing'[b] = closing[b]
                                      /\ handles'[b] \subseteq handles[b]
                                      /\ pending'[b] \subseteq pending[b]
    BY <2>1, StopBodyBlank
  <2> QED BY <2>1, <2>2, <2>3, <2>4, BlankStays
<1> QED BY <1>1, <1>2

LEMMA BlankTasks ==
  ASSUME TypeOK, Generations, NEW o \in Ops,
         \/ EndInterrupt(o) \/ TaskStarts(o) \/ TaskDies(o)
         \/ TaskResumes(o) \/ TaskEnds(o) \/ WrapperFinishes(o)
  PROVE  Generations'
<1>1. UNCHANGED <<made, owner, target, cur, control, normal, closing>>
  BY DEF EndInterrupt, TaskStarts, TaskDies, TaskResumes, TaskEnds, WrapperFinishes
<1>2. ASSUME NEW b \in Actors, Blank(b), b > made
      PROVE  /\ pc'[b] = pc[b] /\ idle'[b] = idle[b]
             /\ handles'[b] \subseteq handles[b] /\ pending'[b] \subseteq pending[b]
  <2>1. pc'[b] = pc[b]
    <3>1. Release(o) \/ UNCHANGED pc
      BY DEF EndInterrupt, TaskStarts, TaskDies, TaskResumes, TaskEnds, WrapperFinishes
    <3> QED BY <1>2, <3>1, ReleaseKeepsSelect DEF Blank
  <2>2. idle'[b] = idle[b]
    <3>1. (\E S : RefreshIdle(S)) \/ UNCHANGED idle
      BY DEF EndInterrupt, TaskStarts, TaskDies, TaskResumes, TaskEnds, WrapperFinishes
    <3> QED BY <1>2, <3>1, RefreshKeepsFresh DEF Blank
  <2>3. handles'[b] \subseteq handles[b] /\ pending'[b] \subseteq pending[b]
    BY DEF EndInterrupt, TaskStarts, TaskDies, TaskResumes, TaskEnds, WrapperFinishes,
           RemoveTask, CancelCurrentPending
  <2> QED BY <2>1, <2>2, <2>3
<1> QED BY <1>1, <1>2, BlankSame

LEMMA BlankInteraction ==
  ASSUME TypeOK, Generations, NEW o \in Ops, NEW a \in Actors,
         TaskAsks(o, a) \/ InteractionCancelled(o, a)
  PROVE  Generations'
<1>1. CASE TaskAsks(o, a)
  <2>1. /\ EnsureActor(a)
        /\ pending' = [pending EXCEPT ![a] = @ \cup {o}]
        /\ idle' = [idle EXCEPT ![a] = "active"]
        /\ UNCHANGED <<owner, target, closing, pc, control, normal, handles>>
    BY <1>1 DEF TaskAsks
  <2>2. /\ cur' = a /\ a <= made' /\ made <= made' /\ made' \in Nat
    BY <2>1, EnsureEffect
  <2>3. \A p \in Ops : owner'[p] <= made' /\ target'[p] <= made'
    BY <2>1, <2>2, Numbers DEF Generations
  <2>4. ASSUME NEW b \in Actors, b > made'
        PROVE  pending'[b] = pending[b] /\ idle'[b] = idle[b]
    <3>1. b # a
      BY <2>2, <2>4, Numbers
    <3> QED BY <2>1, <3>1 DEF TypeOK
  <2> QED BY <2>1, <2>2, <2>3, <2>4, BlankStays
<1>2. CASE InteractionCancelled(o, a)
  <2>1. /\ o \in pending[a] /\ pending' = [pending EXCEPT ![a] = @ \ {o}] /\ RefreshIdle({a})
        /\ UNCHANGED <<made, owner, target, cur, closing, pc, control, normal, handles>>
    BY <1>2 DEF InteractionCancelled
  <2>2. ASSUME NEW b \in Actors, Blank(b), b > made
        PROVE  idle'[b] = idle[b] /\ pending'[b] \subseteq pending[b]
    BY <2>1, <2>2, RefreshKeepsFresh DEF Blank, TypeOK
  <2> QED BY <2>1, <2>2, BlankSame
<1> QED BY <1>1, <1>2

LEMMA BlankClosing ==
  ASSUME TypeOK, Generations, NEW a \in Actors,
         CloseIdle(a) \/ ObserveIdle(a) \/ TTLPasses(a) \/ PostStop(a) \/ JoinWorker(a)
  PROVE  Generations'
<1>1. UNCHANGED <<made, owner, target, pc, pending>> /\ cur' \in {cur, 0}
  BY DEF CloseIdle, ObserveIdle, TTLPasses, PostStop, JoinWorker
<1>2. a <= made \/ ~Blank(a)
  BY Numbers DEF CloseIdle, ObserveIdle, TTLPasses, PostStop, JoinWorker, Blank, Generations
<1>3. ASSUME NEW b \in Actors, Blank(b), b > made
      PROVE  /\ idle'[b] = idle[b] /\ closing'[b] = closing[b]
             /\ control'[b] = control[b] /\ normal'[b] = normal[b] /\ handles'[b] = handles[b]
  <2>1. b # a
    BY <1>2, <1>3, Numbers
  <2>2. /\ closing'[b] = closing[b] /\ control'[b] = control[b] /\ normal'[b] = normal[b]
        /\ handles'[b] = handles[b]
    BY <2>1 DEF CloseIdle, ObserveIdle, TTLPasses, PostStop, JoinWorker, TypeOK
  <2>3. idle'[b] = idle[b]
    <3>1. \/ UNCHANGED idle \/ RefreshIdle({a}) \/ \E v : idle' = [idle EXCEPT ![a] = v]
      BY DEF CloseIdle, ObserveIdle, TTLPasses, PostStop, JoinWorker
    <3> QED BY <1>3, <2>1, <3>1, RefreshKeepsFresh DEF Blank, TypeOK
  <2> QED BY <2>2, <2>3
<1> QED BY <1>1, <1>3, BlankSame

LEMMA BlankShutdown ==
  ASSUME TypeOK, Generations, FacadeStops \/ RegistryStops \/ RegistryStopsActor
  PROVE  Generations'
<1>1. UNCHANGED <<made, owner, target, cur, pc, control, normal>>
  BY DEF FacadeStops, RegistryStops, RegistryStopsActor
<1>2. CASE FacadeStops \/ RegistryStops
  <2>1. UNCHANGED <<closing, handles>> /\ CancelCurrentPending /\ RefreshIdle(CurrentActor)
    BY <1>2 DEF FacadeStops, RegistryStops
  <2>2. ASSUME NEW b \in Actors, Blank(b)
        PROVE  idle'[b] = idle[b] /\ pending'[b] \subseteq pending[b]
    BY <2>1, <2>2, RefreshKeepsFresh DEF Blank, CancelCurrentPending
  <2> QED BY <1>1, <2>1, <2>2, BlankSame
<1>3. CASE RegistryStopsActor
  <2>1. UNCHANGED idle
    BY <1>3 DEF RegistryStopsActor
  <2>2. ASSUME NEW b \in Actors, b > made
        PROVE  /\ closing'[b] = closing[b] /\ handles'[b] \subseteq handles[b]
               /\ pending'[b] \subseteq pending[b]
    BY <1>3, <2>2, StopBodyBlank DEF RegistryStopsActor
  <2> QED BY <1>1, <2>1, <2>2, BlankSame
<1> QED BY <1>2, <1>3

LEMMA GenerationsNextStep ==
  ASSUME TypeOK, OnePlace, Generations, [Next]_vars
  PROVE  Generations'
<1>1. CASE \E o \in Ops, a \in Actors : Submit(o, a) \/ SubmitPreemptive(o, a)
  BY <1>1, BlankSubmit
<1>2. CASE \E o \in Ops : \/ EndInterrupt(o) \/ WrapperFinishes(o) \/ TaskStarts(o)
                          \/ TaskDies(o) \/ TaskResumes(o) \/ TaskEnds(o)
  BY <1>2, BlankTasks
<1>3. CASE \E a \in Actors : Worker(a)
  BY <1>3, BlankWorker
<1>4. CASE \E a \in Actors : Handler(a)
  BY <1>4, BlankHandler, BlankClose DEF Handler
<1>5. CASE \E a \in Actors : \/ CloseIdle(a) \/ ObserveIdle(a) \/ TTLPasses(a)
                             \/ PostStop(a) \/ JoinWorker(a)
  BY <1>5, BlankClosing
<1>6. CASE \E o \in Ops, a \in Actors : TaskAsks(o, a) \/ InteractionCancelled(o, a)
  BY <1>6, BlankInteraction
<1>7. CASE FacadeStops \/ RegistryStops \/ RegistryStopsActor
  BY <1>7, BlankShutdown
<1>8. CASE UNCHANGED vars
  BY <1>8 DEF Generations, Blank
<1> QED BY <1>1, <1>2, <1>3, <1>4, <1>5, <1>6, <1>7, <1>8, NextCases DEF Quiet

LEMMA GenerationsHold == Spec => []Generations
<1>1. Init => Generations
  BY BoundsAssumption DEF Init, Generations, Blank, Actors
<1>2. TypeOK /\ OnePlace /\ Generations /\ [Next]_vars => Generations'
  BY GenerationsNextStep
<1> QED BY <1>1, <1>2, TypeCorrect, AcceptedOnce, PTL DEF Spec

-----------------------------------------------------------------------------
(* The registry knows the operations of the current actor, and no others *)

OnItsWay == Waiting \cup Busy \cup {"background"}

RegistryKnows ==
  /\ \A o \in registered : cur # 0 /\ owner[o] = cur
  /\ \A o \in Ops : stage[o] \in OnItsWay /\ owner[o] = cur /\ cur # 0 => o \in registered

\* Nothing is submitted, and the registry forgets only what is finished.
LEMMA KnowsStays ==
  ASSUME TypeOK, Generations, RegistryKnows, UNCHANGED owner,
         cur' = cur \/ (cur = 0 /\ cur' > made), registered' \subseteq registered,
         \A o \in Ops : stage'[o] \in OnItsWay =>
           stage[o] \in OnItsWay /\ (o \in registered => o \in registered')
  PROVE  RegistryKnows'
<1>1. ASSUME NEW o \in registered' PROVE cur' # 0 /\ owner'[o] = cur'
  <2>1. cur # 0 /\ owner[o] = cur
    BY <1>1 DEF RegistryKnows
  <2> QED BY <2>1
<1>2. ASSUME NEW o \in Ops, stage'[o] \in OnItsWay, owner'[o] = cur', cur' # 0
      PROVE  o \in registered'
  <2>1. cur' = cur
    BY <1>2, Numbers DEF Generations
  <2> QED BY <1>2, <2>1 DEF RegistryKnows
<1> QED BY <1>1, <1>2 DEF RegistryKnows

LEMMA KnowsClosed ==
  ASSUME cur' = 0, registered' = {}
  PROVE  RegistryKnows'
BY DEF RegistryKnows

LEMMA RetireForgets ==
  ASSUME TypeOK, NEW o \in Ops, NEW s, Retire(o, s)
  PROVE  registered' = registered \ {o} /\ stage'[o] = "finished"
BY DEF Retire, TypeOK

LEMMA KnowsSubmit ==
  ASSUME TypeOK, Generations, RegistryKnows, NEW o \in Ops, NEW a \in Actors,
         Submit(o, a) \/ SubmitPreemptive(o, a)
  PROVE  RegistryKnows'
<1>1. /\ EnsureActor(a) /\ owner' = [owner EXCEPT ![o] = a] /\ stage[o] = "new"
  BY DEF Submit, SubmitPreemptive, Accept
<1>2. /\ cur' = a /\ cur' # 0
      /\ cur # 0 => cur' = cur
      /\ cur = 0 => cur' > made
  BY <1>1, EnsureEffect, Numbers
<1>3. owner'[o] = a /\ \A p \in Ops \ {o} : owner'[p] = owner[p]
  BY <1>1 DEF TypeOK
<1>4. \A p \in Ops \ {o} : stage'[p] = stage[p]
  <2>1. CASE Submit(o, a)
    BY <2>1 DEF Submit, TypeOK
  <2>2. CASE SubmitPreemptive(o, a)
    BY <2>2, BodyEffect DEF SubmitPreemptive, OnlyMoves
  <2> QED BY <2>1, <2>2
<1>5. \/ registered' = registered \cup {o}
      \/ registered' = registered \ {o} /\ stage'[o] = "finished"
  <2>1. CASE Submit(o, a)
    BY <2>1 DEF Submit
  <2>2. CASE SubmitPreemptive(o, a) /\ InterruptBody(o)
    BY <1>1, <2>2, RetireForgets DEF InterruptBody
  <2>3. CASE SubmitPreemptive(o, a) /\ RespondBody(o)
    BY <2>3, RetireForgets DEF RespondBody, Finish
  <2> QED BY <2>1, <2>2, <2>3 DEF SubmitPreemptive
<1>6. registered \subseteq Ops
  BY DEF TypeOK
<1>7. ASSUME NEW p \in registered' PROVE cur' # 0 /\ owner'[p] = cur'
  <2>1. CASE p = o
    BY <1>2, <1>3, <2>1
  <2>2. CASE p # o
    <3>1. p \in registered
      BY <1>5, <1>7, <2>2
    <3> QED BY <1>2, <1>3, <1>6, <2>2, <3>1 DEF RegistryKnows
  <2> QED BY <2>1, <2>2
<1>8. ASSUME NEW p \in Ops, stage'[p] \in OnItsWay, owner'[p] = cur'
      PROVE  p \in registered'
  <2>1. CASE p = o
    BY <1>5, <1>8, <2>1 DEF OnItsWay, Waiting, Busy
  <2>2. CASE p # o
    <3>1. owner[p] = cur' /\ stage[p] \in OnItsWay
      BY <1>3, <1>4, <1>8, <2>2
    <3>2. cur' = cur
      BY <1>2, <3>1, Numbers DEF Generations
    <3>3. p \in registered
      BY <1>2, <3>1, <3>2 DEF RegistryKnows
    <3> QED BY <1>5, <2>2, <3>3
  <2> QED BY <2>1, <2>2
<1> QED BY <1>7, <1>8 DEF RegistryKnows

\* One operation that is on its way goes on, or is finished and forgotten.
LEMMA KnowsMoved ==
  ASSUME TypeOK, Generations, RegistryKnows, NEW o \in Ops, stage[o] \in OnItsWay,
         UNCHANGED owner, cur' = cur \/ (cur = 0 /\ cur' > made),
         \A p \in Ops \ {o} : stage'[p] = stage[p],
         registered' = registered \/ (registered' = registered \ {o} /\ stage'[o] = "finished")
  PROVE  RegistryKnows'
<1>1. registered' \subseteq registered
  OBVIOUS
<1>2. \A p \in Ops : stage'[p] \in OnItsWay =>
        stage[p] \in OnItsWay /\ (p \in registered => p \in registered')
  BY DEF OnItsWay, Waiting, Busy
<1> QED BY <1>1, <1>2, KnowsStays

LEMMA KnowsHandler ==
  ASSUME TypeOK, OnePlace, Generations, RegistryKnows, NEW a \in Actors, Handler(a)
  PROVE  RegistryKnows'
<1>1. PICK o \in Ops :
        \/ FailItem(a, o) \/ RunPlain(a, o) \/ InitLoaded(a, o) \/ InitDone(a, o)
        \/ RegisterTask(a, o) \/ CompactCancels(a, o) \/ RunInterrupt(a, o) \/ RunRespond(a, o)
        \/ RunCloseRefused(a, o) \/ RunClose(a, o) \/ CloseAwaitsItself(a, o) \/ CloseDone(a, o)
  BY DEF Handler
<1>2. Handled(o)
  BY <1>1, HandlerReturns, HandlerSteps
<1>3. /\ stage[o] \in OnItsWay /\ stage[o] # "new" /\ UNCHANGED owner
      /\ \A p \in Ops \ {o} : stage'[p] = stage[p]
  BY <1>2 DEF Handled, OnlyMoves, OnItsWay, Busy
<1>4. CASE RunClose(a, o)
  BY <1>4, KnowsClosed DEF RunClose
<1>5. CASE InitLoaded(a, o)
  <2>1. registered' = registered /\ \E b \in Actors : EnsureActor(b)
    BY <1>5 DEF InitLoaded
  <2>2. cur' = cur \/ (cur = 0 /\ cur' > made)
    BY <2>1, EnsureEffect
  <2> QED BY <1>3, <2>1, <2>2, KnowsMoved
<1>6. CASE ~RunClose(a, o) /\ ~InitLoaded(a, o)
  <2>1. cur' = cur
    BY <1>1, <1>6 DEF FailItem, RunPlain, InitDone, RegisterTask, CompactCancels, RunInterrupt,
       RunRespond, RunCloseRefused, CloseAwaitsItself, CloseDone
  <2>2. registered' = registered \/ \E s : Retire(o, s)
    <3>1. CASE RunInterrupt(a, o)
      BY <1>3, <3>1 DEF RunInterrupt, InterruptBody
    <3>2. CASE ~RunInterrupt(a, o)
      BY <1>1, <1>6, <3>2
         DEF FailItem, RunPlain, InitDone, RegisterTask, CompactCancels,
             RunRespond, RunCloseRefused, CloseAwaitsItself, CloseDone, RespondBody, Finish
    <3> QED BY <3>1, <3>2
  <2>3. registered' = registered \/ (registered' = registered \ {o} /\ stage'[o] = "finished")
    BY <2>2, RetireForgets
  <2> QED BY <1>3, <2>1, <2>3, KnowsMoved
<1> QED BY <1>4, <1>5, <1>6

\* A worker's step that is no getter's begins an item that waited for it.
LEMMA WorkerBegins ==
  ASSUME TypeOK, OnePlace, NEW a \in Actors, Worker(a),
         ~ArmGetters(a), ~GetterTakesControl(a), ~GetterTakesNormal(a)
  PROVE  \E x \in Items : /\ Begin(a, x) /\ item[a] = NoOp
                          /\ x \in Ops => stage[x] \in Waiting /\ owner[x] = a
<1>1. item[a] = NoOp
  <2>1. pc[a] # "handling"
    BY DEF Worker, TakeNormal, TakeControl, ResumeWithOne, ResumeWithBoth
  <2> QED BY <2>1, PlacesHere DEF Works
<1>2. /\ control[a] # <<>> => Head(control[a]) \in Items
      /\ normal[a] # <<>> => Head(normal[a]) \in Items
      /\ {pre[a].control, pre[a].normal, got[a].control, got[a].normal} \subseteq Items
  BY MailboxType DEF TypeOK, Slots, Items
<1>3. CASE TakeNormal(a)
  <2>1. CASE pre[a].normal # NoOp
    <3>1. Begin(a, pre[a].normal)
      BY <1>3, <2>1 DEF TakeNormal
    <3> QED BY <1>1, <1>2, <3>1, BegunWaited
  <2>2. CASE pre[a].normal = NoOp
    <3>1. Begin(a, Head(normal[a])) /\ normal[a] # <<>>
      BY <1>3, <2>2 DEF TakeNormal, NormalAvailable
    <3> QED BY <1>1, <1>2, <3>1, BegunWaited
  <2> QED BY <2>1, <2>2
<1>4. CASE TakeControl(a)
  <2>1. CASE pre[a].control # NoOp
    <3>1. Begin(a, pre[a].control)
      BY <1>4, <2>1 DEF TakeControl
    <3> QED BY <1>1, <1>2, <3>1, BegunWaited
  <2>2. CASE pre[a].control = NoOp
    <3>1. Begin(a, Head(control[a])) /\ control[a] # <<>>
      BY <1>4, <2>2 DEF TakeControl, ControlAvailable
    <3> QED BY <1>1, <1>2, <3>1, BegunWaited
  <2> QED BY <2>1, <2>2
<1>5. CASE ResumeWithOne(a) \/ ResumeWithBoth(a)
  <2>1. PICK x \in {got[a].control, got[a].normal} : Begin(a, x)
    BY <1>5 DEF ResumeWithOne, ResumeWithBoth
  <2> QED BY <1>1, <1>2, <2>1, BegunWaited
<1> QED BY <1>3, <1>4, <1>5 DEF Worker

LEMMA KnowsWorker ==
  ASSUME TypeOK, OnePlace, Generations, RegistryKnows, NEW a \in Actors, Worker(a)
  PROVE  RegistryKnows'
<1>1. UNCHANGED <<cur, owner>>
  BY DEF Worker, TakeNormal, TakeControl, ArmGetters, GetterTakesControl, GetterTakesNormal,
         ResumeWithOne, ResumeWithBoth, TakeFrame
<1>2. CASE ArmGetters(a) \/ GetterTakesControl(a) \/ GetterTakesNormal(a)
  <2>1. registered' = registered
    BY <1>2 DEF ArmGetters, GetterTakesControl, GetterTakesNormal
  <2>2. \A o \in Ops : stage'[o] = stage[o] \/ stage[o] \in Waiting
    <3>1. CASE ArmGetters(a)
      BY <3>1 DEF ArmGetters
    <3>2. CASE GetterTakesControl(a)
      <4>1. \A o \in Ops : stage'[o] = stage[o] \/ (control[a] # <<>> /\ o = Head(control[a]))
        BY <3>2 DEF GetterTakesControl
      <4> QED BY <4>1, BegunWaited
    <3>3. CASE GetterTakesNormal(a)
      <4>1. \A o \in Ops : stage'[o] = stage[o] \/ (normal[a] # <<>> /\ o = Head(normal[a]))
        BY <3>3 DEF GetterTakesNormal, TypeOK
      <4> QED BY <4>1, BegunWaited
    <3> QED BY <1>2, <3>1, <3>2, <3>3
  <2> QED BY <1>1, <2>1, <2>2, KnowsStays DEF OnItsWay
<1>3. CASE \E x \in Items : /\ Begin(a, x) /\ item[a] = NoOp
                            /\ x \in Ops => stage[x] \in Waiting /\ owner[x] = a
  <2>1. PICK x \in Items : /\ Begin(a, x) /\ item[a] = NoOp
                           /\ x \in Ops => stage[x] \in Waiting /\ owner[x] = a
    BY <1>3
  <2>2. \A o \in Ops \ {x} : stage'[o] = stage[o]
    BY <2>1, BeginEffect
  <2>3. CASE x \in Ops
    <3>1. registered' = registered \/ (registered' = registered \ {x} /\ stage'[x] = "finished")
      BY <2>1, <2>3, RetireForgets DEF Begin, Finish
    <3> QED BY <1>1, <2>1, <2>2, <2>3, <3>1, KnowsMoved DEF OnItsWay
  <2>4. CASE x \notin Ops
    <3>1. registered' = registered
      BY <2>1, <2>4 DEF Begin
    <3> QED BY <1>1, <2>2, <2>4, <3>1, KnowsStays
  <2> QED BY <2>3, <2>4
<1>4. \/ ArmGetters(a) \/ GetterTakesControl(a) \/ GetterTakesNormal(a)
      \/ \E x \in Items : /\ Begin(a, x) /\ item[a] = NoOp
                          /\ x \in Ops => stage[x] \in Waiting /\ owner[x] = a
  BY WorkerBegins
<1> QED BY <1>2, <1>3, <1>4

LEMMA KnowsOthers ==
  ASSUME TypeOK, OnePlace, Generations, RegistryKnows,
         \/ \E o \in Ops : EndInterrupt(o) \/ WrapperFinishes(o)
         \/ \E a \in Actors : PostStop(a) \/ CloseIdle(a) \/ JoinWorker(a)
         \/ Quiet \/ UNCHANGED vars
  PROVE  RegistryKnows'
<1>1. ASSUME NEW o \in Ops, EndInterrupt(o)
      PROVE  RegistryKnows'
  <2>1. /\ stage[o] = "suspended" /\ Finish(o, "completed", {}) /\ UNCHANGED <<cur, owner>>
    BY <1>1 DEF EndInterrupt
  <2>2. \A p \in Ops \ {o} : stage'[p] = stage[p]
    BY <2>1, RetireEffect DEF Finish, OnlyMoves
  <2> QED BY <2>1, <2>2, RetireForgets, KnowsMoved DEF Finish, OnItsWay, Busy
<1>2. ASSUME NEW o \in Ops, WrapperFinishes(o)
      PROVE  RegistryKnows'
  <2>1. /\ stage[o] = "background" /\ Finish(o, "completed", {}) /\ UNCHANGED <<cur, owner>>
    BY <1>2 DEF WrapperFinishes
  <2>2. \A p \in Ops \ {o} : stage'[p] = stage[p]
    BY <2>1, RetireEffect DEF Finish, OnlyMoves
  <2> QED BY <2>1, <2>2, RetireForgets, KnowsMoved DEF Finish, OnItsWay
<1>3. ASSUME NEW a \in Actors, PostStop(a) \/ CloseIdle(a) \/ JoinWorker(a)
      PROVE  RegistryKnows'
  <2>1. CASE cur' = 0 /\ registered' = {}
    BY <2>1, KnowsClosed
  <2>2. CASE UNCHANGED <<cur, registered>>
    <3>1. owner' = owner
      BY <1>3 DEF PostStop, CloseIdle, JoinWorker
    <3>2. \A o \in Ops : stage'[o] = stage[o] \/ stage'[o] = "dropped"
      BY <1>3 DEF PostStop, CloseIdle, JoinWorker
    <3> QED BY <2>2, <3>1, <3>2, KnowsStays DEF OnItsWay, Waiting, Busy
  <2> QED BY <1>3, <2>1, <2>2 DEF PostStop, CloseIdle, JoinWorker
<1>4. CASE Quiet
  <2>1. UNCHANGED <<stage, owner>>
    BY <1>4, QuietStays
  <2>2. ASSUME NEW o \in Ops, NEW a \in Actors, TaskAsks(o, a)
        PROVE  registered' = registered /\ (cur' = cur \/ (cur = 0 /\ cur' > made))
    BY <2>2, EnsureEffect DEF TaskAsks
  <2>3. CASE RegistryStopsActor
    BY <2>1, <2>3, KnowsStays, KnowsClosed DEF RegistryStopsActor
  <2>4. CASE \/ \E o \in Ops, a \in Actors : TaskAsks(o, a)
             \/ UNCHANGED <<cur, registered>>
    BY <2>1, <2>2, <2>4, KnowsStays
  <2> QED BY <1>4, <2>3, <2>4
          DEF Quiet, TaskStarts, TaskDies, TaskResumes, TaskEnds, InteractionCancelled,
              ObserveIdle, TTLPasses, FacadeStops, RegistryStops
<1>5. CASE UNCHANGED vars
  BY <1>5, KnowsStays
<1> QED BY <1>1, <1>2, <1>3, <1>4, <1>5

LEMMA RegistryNextStep ==
  ASSUME TypeOK, OnePlace, Generations, RegistryKnows, [Next]_vars
  PROVE  RegistryKnows'
<1>1. CASE \E o \in Ops, a \in Actors : Submit(o, a) \/ SubmitPreemptive(o, a)
  BY <1>1, KnowsSubmit
<1>2. CASE \E a \in Actors : Worker(a) \/ Handler(a)
  BY <1>2, KnowsWorker, KnowsHandler
<1>3. CASE \/ \E o \in Ops : EndInterrupt(o) \/ WrapperFinishes(o)
           \/ \E a \in Actors : PostStop(a) \/ CloseIdle(a) \/ JoinWorker(a)
           \/ Quiet \/ UNCHANGED vars
  BY <1>3, KnowsOthers
<1> QED BY <1>1, <1>2, <1>3, NextCases

LEMMA RegistryHolds == Spec => []RegistryKnows
<1>1. Init => RegistryKnows
  BY DEF Init, RegistryKnows
<1>2. TypeOK /\ OnePlace /\ Generations /\ RegistryKnows /\ [Next]_vars => RegistryKnows'
  BY RegistryNextStep
<1> QED BY <1>1, <1>2, TypeCorrect, AcceptedOnce, GenerationsHold, PTL DEF Spec

-----------------------------------------------------------------------------
(* What a step does to the current actor, to the tasks and to the handles *)

LEMMA WorkerFrame ==
  ASSUME NEW a \in Actors, Worker(a)
  PROVE  /\ UNCHANGED <<cur, made, handles, pending, agent, owner, target, awaiting, task,
                        phase, closing, stopWait>>
BY DEF Worker, TakeNormal, TakeControl, ArmGetters, GetterTakesControl, GetterTakesNormal,
       ResumeWithOne, ResumeWithBoth, TakeFrame

CurMoves == \/ cur' = cur
            \/ cur' = 0
            \/ cur = 0 /\ cur' \in Actors /\ cur' > made

LEMMA CurNext ==
  ASSUME TypeOK, Generations, [Next]_vars
  PROVE  CurMoves
<1>1. ASSUME NEW a \in Actors, EnsureActor(a)
      PROVE  CurMoves
  BY <1>1, EnsureEffect DEF CurMoves
<1>2. CASE \E o \in Ops, a \in Actors : Submit(o, a) \/ SubmitPreemptive(o, a)
  BY <1>1, <1>2 DEF Submit, SubmitPreemptive, Accept
<1>3. CASE \E o \in Ops : EndInterrupt(o) \/ WrapperFinishes(o)
  BY <1>3 DEF EndInterrupt, WrapperFinishes, CurMoves
<1>4. CASE \E a \in Actors : Worker(a)
  BY <1>4 DEF Worker, TakeNormal, TakeControl, ArmGetters, GetterTakesControl,
     GetterTakesNormal, ResumeWithOne, ResumeWithBoth, TakeFrame, CurMoves
<1>5. CASE \E a \in Actors : Handler(a)
  <2>1. PICK a \in Actors, o \in Ops :
        \/ FailItem(a, o) \/ RunPlain(a, o) \/ InitLoaded(a, o) \/ InitDone(a, o)
        \/ RegisterTask(a, o) \/ CompactCancels(a, o) \/ RunInterrupt(a, o) \/ RunRespond(a, o)
        \/ RunCloseRefused(a, o) \/ RunClose(a, o) \/ CloseAwaitsItself(a, o) \/ CloseDone(a, o)
    BY <1>5 DEF Handler
  <2>2. (\E b \in Actors : EnsureActor(b)) \/ cur' = cur \/ cur' = 0
    BY <2>1 DEF FailItem, RunPlain, InitLoaded, InitDone, RegisterTask, CompactCancels,
         RunInterrupt, RunRespond, RunCloseRefused, RunClose, CloseAwaitsItself, CloseDone
  <2> QED BY <1>1, <2>2 DEF CurMoves
<1>6. CASE \E a \in Actors : PostStop(a) \/ CloseIdle(a) \/ JoinWorker(a)
  BY <1>6 DEF PostStop, CloseIdle, JoinWorker, CurMoves
<1>7. CASE Quiet
  <2>1. (\E b \in Actors : EnsureActor(b)) \/ cur' = cur
    BY <1>7 DEF Quiet, TaskStarts, TaskDies, TaskResumes, TaskEnds, TaskAsks,
       InteractionCancelled, ObserveIdle, TTLPasses, FacadeStops, RegistryStops,
       RegistryStopsActor
  <2> QED BY <1>1, <2>1 DEF CurMoves
<1>8. CASE UNCHANGED vars
  BY <1>8 DEF CurMoves
<1> QED BY <1>2, <1>3, <1>4, <1>5, <1>6, <1>7, <1>8, NextCases

NoneEnds == \A o \in Ops : task'[o] = "ended" => task[o] = "ended"

LEMMA CancelledEndsNone ==
  ASSUME NEW S, NEW W, task' = Cancelled(S, W)
  PROVE  NoneEnds
BY DEF Cancelled, NoneEnds

LEMMA SetEndsNone ==
  ASSUME TypeOK, NEW o, NEW v, v # "ended", task' = [task EXCEPT ![o] = v]
  PROVE  NoneEnds
BY DEF TypeOK, NoneEnds

LEMMA SameEndsNone ==
  ASSUME UNCHANGED task
  PROVE  NoneEnds
BY DEF NoneEnds

LEMMA HandlerEndsNone ==
  ASSUME TypeOK, NEW a \in Actors, Handler(a)
  PROVE  NoneEnds
<1>1. PICK o \in Ops :
      \/ FailItem(a, o) \/ RunPlain(a, o) \/ InitLoaded(a, o) \/ InitDone(a, o)
      \/ RegisterTask(a, o) \/ CompactCancels(a, o) \/ RunInterrupt(a, o) \/ RunRespond(a, o)
      \/ RunCloseRefused(a, o) \/ RunClose(a, o) \/ CloseAwaitsItself(a, o) \/ CloseDone(a, o)
  BY DEF Handler
<1>2. CASE RunInterrupt(a, o) \/ RunRespond(a, o)
  BY <1>2, CancelledEndsNone, SetEndsNone, SameEndsNone
     DEF RunInterrupt, RunRespond, InterruptBody, RespondBody
<1>3. CASE RunClose(a, o) \/ CompactCancels(a, o) \/ RegisterTask(a, o)
  BY <1>3, CancelledEndsNone, SetEndsNone
     DEF RunClose, StopBody, CompactCancels, RegisterTask
<1>4. CASE \/ FailItem(a, o) \/ RunPlain(a, o) \/ InitLoaded(a, o) \/ InitDone(a, o)
           \/ RunCloseRefused(a, o) \/ CloseAwaitsItself(a, o) \/ CloseDone(a, o)
  BY <1>4, SameEndsNone DEF FailItem, RunPlain, InitLoaded, InitDone, RunCloseRefused,
     CloseAwaitsItself, CloseDone
<1> QED BY <1>1, <1>2, <1>3, <1>4

LEMMA EndsNext ==
  ASSUME TypeOK, [Next]_vars, \A o \in Ops : ~TaskEnds(o)
  PROVE  NoneEnds
<1>1. CASE \E o \in Ops, a \in Actors : Submit(o, a) \/ SubmitPreemptive(o, a)
  BY <1>1, CancelledEndsNone, SetEndsNone, SameEndsNone
     DEF Submit, SubmitPreemptive, InterruptBody, RespondBody
<1>2. CASE \E o \in Ops : EndInterrupt(o) \/ WrapperFinishes(o)
  BY <1>2, CancelledEndsNone, SameEndsNone DEF EndInterrupt, WrapperFinishes
<1>3. CASE \E a \in Actors : Worker(a)
  BY <1>3, SameEndsNone DEF Worker, TakeNormal, TakeControl, ArmGetters, GetterTakesControl,
     GetterTakesNormal, ResumeWithOne, ResumeWithBoth, TakeFrame
<1>4. CASE \E a \in Actors : Handler(a)
  BY <1>4, HandlerEndsNone
<1>5. CASE \E a \in Actors : PostStop(a) \/ CloseIdle(a) \/ JoinWorker(a)
  BY <1>5, SameEndsNone DEF PostStop, CloseIdle, JoinWorker
<1>6. CASE FacadeStops \/ RegistryStops \/ RegistryStopsActor
  BY <1>6, CancelledEndsNone, SameEndsNone
     DEF FacadeStops, RegistryStops, RegistryStopsActor, StopBody
<1>7. CASE Quiet /\ ~(FacadeStops \/ RegistryStops \/ RegistryStopsActor)
  BY <1>7, SetEndsNone, SameEndsNone
     DEF Quiet, TaskStarts, TaskDies, TaskResumes, TaskAsks, InteractionCancelled,
         ObserveIdle, TTLPasses
<1>8. CASE UNCHANGED vars
  BY <1>8, SameEndsNone
<1> QED BY <1>1, <1>2, <1>3, <1>4, <1>5, <1>6, <1>7, <1>8, NextCases

LEMMA HandlesNext ==
  ASSUME TypeOK, [Next]_vars, \A a \in Actors, o \in Ops : ~RegisterTask(a, o)
  PROVE  HandlesShrink
<1>1. CASE UNCHANGED handles
  BY <1>1 DEF HandlesShrink
<1>2. CASE \E S : DropDoneHandles(S)
  BY <1>2 DEF DropDoneHandles, ActiveTasks, HandlesShrink
<1>3. CASE \E o \in Ops : RemoveTask(o)
  BY <1>3 DEF RemoveTask, HandlesShrink
<1>4. CASE \E a \in Actors : handles' = [handles EXCEPT ![a] = {}]
  BY <1>4 DEF HandlesShrink, TypeOK
<1>5. \/ UNCHANGED handles \/ \E S : DropDoneHandles(S)
      \/ \E o \in Ops : RemoveTask(o)
      \/ \E a \in Actors : handles' = [handles EXCEPT ![a] = {}]
  <2>1. CASE \E o \in Ops, a \in Actors : Submit(o, a) \/ SubmitPreemptive(o, a)
    BY <2>1 DEF Submit, SubmitPreemptive, InterruptBody, RespondBody
  <2>2. CASE \E o \in Ops : EndInterrupt(o) \/ WrapperFinishes(o)
    BY <2>2 DEF EndInterrupt, WrapperFinishes
  <2>3. CASE \E a \in Actors : Worker(a)
    BY <2>3, WorkerFrame
  <2>4. CASE \E a \in Actors : Handler(a)
    <3>1. PICK a \in Actors, o \in Ops :
        \/ FailItem(a, o) \/ RunPlain(a, o) \/ InitLoaded(a, o) \/ InitDone(a, o)
        \/ CompactCancels(a, o) \/ RunInterrupt(a, o) \/ RunRespond(a, o)
        \/ RunCloseRefused(a, o) \/ RunClose(a, o) \/ CloseAwaitsItself(a, o) \/ CloseDone(a, o)
      BY <2>4 DEF Handler
    <3>2. CASE RunInterrupt(a, o) \/ RunRespond(a, o) \/ RunClose(a, o) \/ CompactCancels(a, o)
      BY <3>2 DEF RunInterrupt, RunRespond, InterruptBody, RespondBody, RunClose, StopBody,
         CompactCancels
    <3>3. CASE \/ FailItem(a, o) \/ RunPlain(a, o) \/ InitLoaded(a, o) \/ InitDone(a, o)
               \/ RunCloseRefused(a, o) \/ CloseAwaitsItself(a, o) \/ CloseDone(a, o)
      BY <3>3 DEF FailItem, RunPlain, InitLoaded, InitDone, RunCloseRefused,
         CloseAwaitsItself, CloseDone
    <3> QED BY <3>1, <3>2, <3>3
  <2>5. CASE \E a \in Actors : PostStop(a) \/ CloseIdle(a) \/ JoinWorker(a)
    BY <2>5 DEF PostStop, CloseIdle, JoinWorker
  <2>6. CASE FacadeStops \/ RegistryStops \/ RegistryStopsActor
    BY <2>6 DEF FacadeStops, RegistryStops, RegistryStopsActor, StopBody
  <2>7. CASE Quiet /\ ~(FacadeStops \/ RegistryStops \/ RegistryStopsActor)
    BY <2>7 DEF Quiet, TaskStarts, TaskDies, TaskResumes, TaskEnds, TaskAsks,
       InteractionCancelled, ObserveIdle, TTLPasses
  <2>8. CASE UNCHANGED vars
    BY <2>8
  <2> QED BY <2>1, <2>2, <2>3, <2>4, <2>5, <2>6, <2>7, <2>8, NextCases
<1> QED BY <1>1, <1>2, <1>3, <1>4, <1>5

(***************************************************************************)
(* The handles of the current actor are of tasks that have not ended, or   *)
(* that died before their first step.                                      *)
(***************************************************************************)
NoStaleHandle == cur # 0 => \A o \in handles[cur] : task[o] # "ended"

LEMMA HandlesFresh ==
  ASSUME TypeOK, OnePlace, Generations, NoStaleHandle, [Next]_vars
  PROVE  NoStaleHandle'
<1> SUFFICES ASSUME cur' # 0, NEW o \in handles'[cur']
             PROVE  task'[o] # "ended"
  BY DEF NoStaleHandle
<1>1. CurMoves /\ cur' \in Actors
  BY CurNext, ActorsAreNumbers DEF TypeOK, CurMoves
<1>2. ASSUME HandlesShrink
      PROVE  cur' = cur /\ o \in handles[cur] /\ o \in Ops /\ task[o] # "ended"
  <2>1. o \in handles[cur']
    BY <1>1, <1>2 DEF HandlesShrink
  <2>2. ~(cur = 0 /\ cur' > made)
    BY <1>1, <2>1 DEF Generations, Blank
  <2> QED BY <1>1, <2>1, <2>2 DEF CurMoves, NoStaleHandle, TypeOK
<1>3. CASE \E p \in Ops : TaskEnds(p)
  <2>1. PICK p \in Ops : TaskEnds(p)
    BY <1>3
  <2>2. /\ handles' = [a \in Actors |-> IF a = cur THEN handles[a] \ {p} ELSE handles[a]]
        /\ task' = [task EXCEPT ![p] = "ended"] /\ cur' = cur
    BY <2>1 DEF TaskEnds, RemoveTask
  <2>3. HandlesShrink /\ o # p
    BY <1>1, <2>2 DEF HandlesShrink
  <2> QED BY <1>2, <2>2, <2>3 DEF TypeOK
<1>4. CASE \E a \in Actors, p \in Ops : RegisterTask(a, p)
  <2>1. PICK a \in Actors, p \in Ops : RegisterTask(a, p)
    BY <1>4
  <2>2. /\ o \in handles[cur] \cup {p} /\ cur' = cur
        /\ task' = [task EXCEPT ![p] = "created"]
    BY <1>1, <2>1 DEF RegisterTask, ActiveTasks, TypeOK
  <2> QED BY <2>2 DEF NoStaleHandle, TypeOK
<1>5. CASE /\ \A p \in Ops : ~TaskEnds(p)
           /\ \A a \in Actors, p \in Ops : ~RegisterTask(a, p)
  BY <1>2, <1>5, EndsNext, HandlesNext DEF NoneEnds
<1> QED BY <1>3, <1>4, <1>5

-----------------------------------------------------------------------------
(* RootSlotIsLive *)

RootKinds == \A a \in Actors : root[a] # NoOp => IsRoot(root[a])

LEMMA RootsNext ==
  ASSUME TypeOK, [Next]_vars, \A a \in Actors : ~Worker(a)
  PROVE  RootsOnlyCleared
<1>1. CASE UNCHANGED root
  BY <1>1, SameOnlyClears
<1>2. CASE \E S : DropDoneHandles(S)
  BY <1>2, DropOnlyClears
<1>3. CASE \E o, S : ClearRoot(o, S)
  BY <1>3, ClearOnlyClears
<1>4. CASE \E o \in Ops : RemoveTask(o)
  BY <1>4 DEF RemoveTask, RootsOnlyCleared
<1>5. \/ UNCHANGED root \/ (\E S : DropDoneHandles(S)) \/ (\E o, S : ClearRoot(o, S))
      \/ \E o \in Ops : RemoveTask(o)
  <2>1. CASE \E o \in Ops, a \in Actors : Submit(o, a) \/ SubmitPreemptive(o, a)
    BY <2>1 DEF Submit, SubmitPreemptive, InterruptBody, RespondBody, Finish
  <2>2. CASE \E o \in Ops : EndInterrupt(o) \/ WrapperFinishes(o)
    BY <2>2 DEF EndInterrupt, WrapperFinishes, Finish
  <2>3. CASE \E a \in Actors : Handler(a)
    <3>1. PICK a \in Actors, o \in Ops :
        \/ FailItem(a, o) \/ RunPlain(a, o) \/ InitLoaded(a, o) \/ InitDone(a, o)
        \/ RegisterTask(a, o) \/ CompactCancels(a, o) \/ RunInterrupt(a, o) \/ RunRespond(a, o)
        \/ RunCloseRefused(a, o) \/ RunClose(a, o) \/ CloseAwaitsItself(a, o) \/ CloseDone(a, o)
      BY <2>3 DEF Handler
    <3>2. CASE RunInterrupt(a, o) \/ RunRespond(a, o) \/ RunClose(a, o) \/ CompactCancels(a, o)
      BY <3>2 DEF RunInterrupt, RunRespond, InterruptBody, RespondBody, RunClose, StopBody,
         CompactCancels, Finish
    <3>3. CASE \/ FailItem(a, o) \/ RunPlain(a, o) \/ InitLoaded(a, o) \/ InitDone(a, o)
               \/ RegisterTask(a, o) \/ RunCloseRefused(a, o) \/ CloseAwaitsItself(a, o)
               \/ CloseDone(a, o)
      BY <3>3 DEF FailItem, RunPlain, InitLoaded, InitDone, RunCloseRefused, RegisterTask,
         CloseAwaitsItself, CloseDone, Finish
    <3> QED BY <3>1, <3>2, <3>3
  <2>4. CASE \E a \in Actors : PostStop(a) \/ CloseIdle(a) \/ JoinWorker(a)
    BY <2>4 DEF PostStop, CloseIdle, JoinWorker
  <2>5. CASE FacadeStops \/ RegistryStops \/ RegistryStopsActor
    BY <2>5 DEF FacadeStops, RegistryStops, RegistryStopsActor, StopBody
  <2>6. CASE Quiet /\ ~(FacadeStops \/ RegistryStops \/ RegistryStopsActor)
    BY <2>6 DEF Quiet, TaskStarts, TaskDies, TaskResumes, TaskEnds, TaskAsks,
       InteractionCancelled, ObserveIdle, TTLPasses
  <2>7. CASE UNCHANGED vars
    BY <2>7
  <2> QED BY <2>1, <2>2, <2>3, <2>4, <2>5, <2>6, <2>7, NextCases
<1> QED BY <1>1, <1>2, <1>3, <1>4, <1>5

\* The operation in the root slot is still at work, if it keeps the slot.
HoldsSlot(o) ==
  \/ item[cur] = o
  \/ stage[o] = "background" /\ task[o] # "ended"

HeldNext(o) ==
  \/ item'[cur'] = o
  \/ stage'[o] = "background" /\ task'[o] # "ended"

SlotStays(o) ==
  cur # 0 /\ cur' = cur /\ root[cur] = o /\ root'[cur] = o /\ HoldsSlot(o) => HeldNext(o)

LEMMA RootLiveStays ==
  ASSUME TypeOK, Generations, RootOwned, RootSlotIsLive, CurMoves, RootsOnlyCleared,
         \A o \in Ops : SlotStays(o)
  PROVE  RootSlotIsLive'
<1> SUFFICES ASSUME cur' # 0, NEW o, o = root'[cur'], o # NoOp
             PROVE  HeldNext(o)
  BY DEF RootSlotIsLive, HeldNext
<1>1. cur' \in Actors
  BY ActorsAreNumbers DEF TypeOK, CurMoves
<1>2. o = root[cur'] /\ o \in Ops /\ owner[o] = cur'
  BY <1>1 DEF RootsOnlyCleared, RootOwned
<1>3. cur' = cur
  BY <1>2, Numbers DEF CurMoves, Generations
<1>4. HoldsSlot(o)
  BY <1>2, <1>3 DEF RootSlotIsLive, HoldsSlot
<1> QED BY <1>2, <1>3, <1>4 DEF SlotStays

\* A step that touches neither the worker of the slot's operation nor its stage.
LEMMA SlotUndisturbed ==
  ASSUME NEW o \in Ops, NoneEnds, stage'[o] = stage[o] \/ stage[o] # "background",
         cur # 0 /\ item[cur] = o => item'[cur] = o
  PROVE  SlotStays(o)
BY DEF SlotStays, HoldsSlot, HeldNext, NoneEnds

RootInv == RootOwned /\ RootKinds /\ RootSlotIsLive

LEMMA RootKindsStay ==
  ASSUME RootKinds, RootsOnlyCleared
  PROVE  RootKinds'
BY DEF RootKinds, RootsOnlyCleared, IsRoot

LEMMA RootHandler ==
  ASSUME TypeOK, OnePlace, Generations, RegistryKnows, RootInv,
         NEW a \in Actors, Handler(a), CurMoves, RootsOnlyCleared, NoneEnds
  PROVE  RootSlotIsLive'
<1>1. PICK p \in Ops :
        \/ FailItem(a, p) \/ RunPlain(a, p) \/ InitLoaded(a, p) \/ InitDone(a, p)
        \/ RegisterTask(a, p) \/ CompactCancels(a, p) \/ RunInterrupt(a, p) \/ RunRespond(a, p)
        \/ RunCloseRefused(a, p) \/ RunClose(a, p) \/ CloseAwaitsItself(a, p) \/ CloseDone(a, p)
  BY DEF Handler
<1>2. Handled(p)
  BY <1>1, HandlerReturns, HandlerSteps
<1>3. item[a] = p /\ owner[p] = a /\ stage[p] \in Busy
  <2>1. \E kinds : RunsOn(a, p, kinds)
    BY <1>1 DEF FailItem, RunPlain, InitLoaded, InitDone, RegisterTask, CompactCancels,
       RunInterrupt, RunRespond, RunCloseRefused, RunClose, CloseAwaitsItself, CloseDone
  <2> QED BY <2>1, ItemBusy DEF RunsOn
<1>4. ASSUME NEW o \in Ops, o # p
      PROVE  SlotStays(o)
  <2>1. stage'[o] = stage[o]
    BY <1>2, <1>4 DEF Handled, OnlyMoves
  <2>2. cur # 0 /\ item[cur] = o => item'[cur] = o
    BY <1>2, <1>4, ActorsAreNumbers DEF Handled, Release, TypeOK
  <2> QED BY <2>1, <2>2, SlotUndisturbed
<1>5. ASSUME cur # 0, cur' = cur, root[cur] = p, root'[cur] = p
      PROVE  HeldNext(p)
  <2>1. cur \in Actors
    BY <1>5, ActorsAreNumbers DEF TypeOK
  <2>2. IsRoot(p) /\ cur = a
    BY <1>3, <1>5, <2>1, OpsAssumption DEF RootInv, RootKinds, RootOwned
  <2>3. FailItem(a, p) \/ RegisterTask(a, p) \/ CompactCancels(a, p)
    BY <1>1, <2>2 DEF IsRoot, RunPlain, InitLoaded, InitDone, RunInterrupt, RunRespond,
       RunCloseRefused, RunClose, CloseAwaitsItself, CloseDone, RunsOn
  <2>4. ~FailItem(a, p)
    BY <1>5, <2>2, OpsAssumption DEF FailItem, Finish, ClearRoot
  <2>5. CASE RegisterTask(a, p)
    <3>1. p \in registered
      BY <1>3, <1>5, <2>2 DEF RegistryKnows, OnItsWay
    <3>2. stage' = [stage EXCEPT ![p] = "background"] /\ task' = [task EXCEPT ![p] = "created"]
      BY <2>5, <3>1 DEF RegisterTask
    <3> QED BY <3>2 DEF HeldNext, TypeOK
  <2>6. CASE CompactCancels(a, p)
    BY <1>3, <2>2, <1>5, <2>6 DEF CompactCancels, HeldNext
  <2> QED BY <2>3, <2>4, <2>5, <2>6
<1>6. SlotStays(p)
  BY <1>5 DEF SlotStays
<1> QED BY <1>4, <1>6, RootLiveStays DEF RootInv

LEMMA RootWorker ==
  ASSUME TypeOK, OnePlace, Generations, RootInv, NEW a \in Actors, Worker(a),
         CurMoves, NoneEnds
  PROVE  RootSlotIsLive' /\ RootKinds'
<1>1. UNCHANGED <<cur, task>>
  BY WorkerFrame
<1>2. CASE ArmGetters(a) \/ GetterTakesControl(a) \/ GetterTakesNormal(a)
  <2>1. UNCHANGED <<item, root>>
    BY <1>2 DEF ArmGetters, GetterTakesControl, GetterTakesNormal
  <2>2. \A o \in Ops : stage'[o] = stage[o] \/ stage[o] # "background"
    <3>1. CASE ArmGetters(a)
      BY <3>1 DEF ArmGetters
    <3>2. CASE GetterTakesControl(a)
      <4>1. \A o \in Ops : stage'[o] = stage[o] \/ (control[a] # <<>> /\ o = Head(control[a]))
        BY <3>2 DEF GetterTakesControl
      <4> QED BY <4>1, BegunWaited DEF Waiting
    <3>3. CASE GetterTakesNormal(a)
      <4>1. \A o \in Ops : stage'[o] = stage[o] \/ (normal[a] # <<>> /\ o = Head(normal[a]))
        BY <3>3 DEF GetterTakesNormal, TypeOK
      <4> QED BY <4>1, BegunWaited DEF Waiting
    <3> QED BY <1>2, <3>1, <3>2, <3>3
  <2>3. RootsOnlyCleared /\ \A o \in Ops : SlotStays(o)
    BY <2>1, <2>2, SlotUndisturbed, SameOnlyClears
  <2> QED BY <2>3, RootLiveStays, RootKindsStay DEF RootInv
<1>3. CASE ~(ArmGetters(a) \/ GetterTakesControl(a) \/ GetterTakesNormal(a))
  <2>1. PICK x \in Items : /\ Begin(a, x) /\ item[a] = NoOp
                           /\ x \in Ops => stage[x] \in Waiting /\ owner[x] = a
    BY <1>3, WorkerBegins
  <2>2. /\ \A b \in Actors \ {a} : item'[b] = item[b]
        /\ \A o \in Ops \ {x} : stage'[o] = stage[o]
    BY <2>1, BeginEffect
  <2>3. \A o \in Ops : SlotStays(o)
    <3> SUFFICES ASSUME NEW o \in Ops PROVE SlotStays(o)
      OBVIOUS
    <3>1. stage'[o] = stage[o] \/ stage[o] # "background"
      BY <2>1, <2>2 DEF Waiting
    <3>2. cur # 0 => cur \in Actors
      BY ActorsAreNumbers DEF TypeOK
    <3>3. cur # 0 /\ item[cur] = o => item'[cur] = o
      BY <2>1, <2>2, <3>2, OpsAssumption
    <3> QED BY <3>1, <3>3, SlotUndisturbed
  <2>4. CASE RootsOnlyCleared
    BY <2>3, <2>4, RootLiveStays, RootKindsStay DEF RootInv
  <2>5. CASE /\ x \in Ops /\ IsRoot(x) /\ root' = [root EXCEPT ![a] = x]
             /\ item' = [item EXCEPT ![a] = x]
    <3>1. \A b \in Actors \ {a} : root'[b] = root[b] /\ item'[b] = item[b]
      BY <2>5 DEF TypeOK
    <3>2. root'[a] = x /\ item'[a] = x
      BY <2>5 DEF TypeOK
    <3>3. RootKinds'
      BY <2>5, <3>1, <3>2 DEF RootInv, RootKinds, IsRoot
    <3>4. RootSlotIsLive'
      <4> SUFFICES ASSUME cur # 0, NEW o, o = root'[cur], o # NoOp, cur # a
                   PROVE  HeldNext(o)
        BY <1>1, <3>2 DEF RootSlotIsLive, HeldNext
      <4>1. cur \in Actors /\ o = root[cur] /\ o \in Ops
        BY <3>1, ActorsAreNumbers DEF TypeOK
      <4>2. HoldsSlot(o)
        BY <4>1 DEF RootInv, RootSlotIsLive, HoldsSlot
      <4> QED BY <1>1, <2>3, <4>1, <4>2 DEF SlotStays
    <3> QED BY <3>3, <3>4
  <2>6. RootsOnlyCleared \/ (/\ x \in Ops /\ IsRoot(x) /\ root' = [root EXCEPT ![a] = x]
                             /\ item' = [item EXCEPT ![a] = x])
    BY <2>1, SameOnlyClears, ClearOnlyClears DEF Begin, Finish
  <2> QED BY <2>4, <2>5, <2>6
<1> QED BY <1>2, <1>3

LEMMA RootOthers ==
  ASSUME TypeOK, OnePlace, Generations, RegistryKnows, RootInv, CurMoves, RootsOnlyCleared,
         \/ \E o \in Ops, a \in Actors : Submit(o, a) \/ SubmitPreemptive(o, a)
         \/ \E o \in Ops : EndInterrupt(o) \/ WrapperFinishes(o)
         \/ \E a \in Actors : PostStop(a) \/ CloseIdle(a) \/ JoinWorker(a)
         \/ Quiet \/ UNCHANGED vars,
         (\A p \in Ops : ~TaskEnds(p)) => NoneEnds
  PROVE  RootSlotIsLive'
<1>1. SUFFICES ASSUME NEW o \in Ops PROVE SlotStays(o)
  BY RootLiveStays DEF RootInv
<1>2. CASE /\ NoneEnds /\ UNCHANGED item
           /\ stage'[o] = stage[o] \/ stage[o] # "background"
  BY <1>2, SlotUndisturbed
<1>3. ASSUME NEW p \in Ops, NEW a \in Actors, Submit(p, a) \/ SubmitPreemptive(p, a)
      PROVE  SlotStays(o)
  <2>1. stage[p] = "new" /\ UNCHANGED item
    BY <1>3 DEF Submit, SubmitPreemptive, Accept
  <2>2. NoneEnds
    BY <1>3, CancelledEndsNone, SetEndsNone, SameEndsNone
       DEF Submit, SubmitPreemptive, InterruptBody, RespondBody
  <2>3. \A q \in Ops \ {p} : stage'[q] = stage[q]
    BY <1>3, BodyEffect DEF Submit, SubmitPreemptive, OnlyMoves, TypeOK
  <2> QED BY <1>2, <2>1, <2>2, <2>3
<1>4. ASSUME NEW p \in Ops, EndInterrupt(p)
      PROVE  SlotStays(o)
  <2>1. /\ stage[p] = "suspended" /\ Kind[p] = "interrupt" /\ Release(p)
        /\ task' = Cancelled({}, CurrentPending)
        /\ Retire(p, "completed")
    BY <1>4 DEF EndInterrupt, Finish
  <2>2. NoneEnds /\ \A q \in Ops \ {p} : stage'[q] = stage[q]
    BY <2>1, CancelledEndsNone, RetireEffect DEF OnlyMoves
  <2>3. CASE o = p
    <3>1. ~IsRoot(p)
      BY <2>1 DEF IsRoot
    <3> QED BY <2>3, <3>1, ActorsAreNumbers, OpsAssumption
            DEF RootInv, RootKinds, SlotStays, TypeOK
  <2>4. CASE o # p
    <3>1. cur # 0 /\ item[cur] = o => item'[cur] = o
      BY <2>1, <2>4, ActorsAreNumbers DEF Release, TypeOK
    <3> QED BY <2>2, <2>4, <3>1, SlotUndisturbed
  <2> QED BY <2>3, <2>4
<1>5. ASSUME NEW p \in Ops, WrapperFinishes(p)
      PROVE  SlotStays(o)
  <2>1. /\ stage[p] = "background" /\ Retire(p, "completed") /\ ClearRoot(p, {})
        /\ UNCHANGED <<item, task>>
    BY <1>5 DEF WrapperFinishes, Finish
  <2>2. NoneEnds /\ \A q \in Ops \ {p} : stage'[q] = stage[q]
    BY <2>1, SameEndsNone, RetireEffect DEF OnlyMoves
  <2>3. CASE o = p
    <3> SUFFICES ASSUME cur # 0, root[cur] = p, root'[cur] = p PROVE FALSE
      BY <2>3 DEF SlotStays
    <3>1. cur \in Actors
      BY ActorsAreNumbers DEF TypeOK
    <3>2. p \in registered
      BY <2>1, <3>1, OpsAssumption DEF RootInv, RootOwned, RegistryKnows, OnItsWay
    <3> QED BY <2>1, <3>1, <3>2, OpsAssumption DEF ClearRoot
  <2>4. CASE o # p
    BY <1>2, <2>1, <2>2, <2>4
  <2> QED BY <2>3, <2>4
<1>6. ASSUME NEW a \in Actors, PostStop(a) \/ CloseIdle(a) \/ JoinWorker(a)
      PROVE  SlotStays(o)
  <2>1. UNCHANGED <<item, task>> /\ NoneEnds
    BY <1>6, SameEndsNone DEF PostStop, CloseIdle, JoinWorker
  <2>2. CASE PostStop(a) \/ CloseIdle(a)
    BY <1>2, <2>1, <2>2 DEF PostStop, CloseIdle
  <2>3. CASE JoinWorker(a)
    <3>1. stage'[o] = IF InQueue(o, a) THEN "dropped" ELSE stage[o]
      BY <2>3 DEF JoinWorker
    <3>2. InQueue(o, a) => stage[o] # "background"
      BY QueuedHere DEF Waiting
    <3> QED BY <1>2, <2>1, <3>1, <3>2
  <2> QED BY <1>6, <2>2, <2>3
<1>7. CASE Quiet
  <2>1. UNCHANGED <<stage, item>>
    BY <1>7, QuietStays
  <2>2. CASE \A p \in Ops : ~TaskEnds(p)
    BY <1>2, <2>1, <2>2
  <2>3. ASSUME NEW p \in Ops, TaskEnds(p)
        PROVE  SlotStays(o)
    <3>1. /\ task' = [task EXCEPT ![p] = "ended"]
          /\ root' = [a \in Actors |-> IF a = cur /\ root[a] = p THEN NoOp ELSE root[a]]
      BY <2>3 DEF TaskEnds, RemoveTask
    <3>2. o # p => task'[o] = task[o]
      BY <3>1 DEF TypeOK
    <3>3. cur # 0 => root'[cur] # p
      BY <3>1, ActorsAreNumbers, OpsAssumption DEF TypeOK
    <3> QED BY <2>1, <3>2, <3>3 DEF SlotStays, HoldsSlot, HeldNext
  <2> QED BY <2>2, <2>3
<1>8. CASE UNCHANGED vars
  BY <1>2, <1>8, SameEndsNone
<1> QED BY <1>3, <1>4, <1>5, <1>6, <1>7, <1>8

LEMMA RootNextStep ==
  ASSUME TypeOK, OnePlace, Generations, RegistryKnows, RootInv, [Next]_vars
  PROVE  RootSlotIsLive' /\ RootKinds'
<1>1. CurMoves
  BY CurNext
<1>2. (\A p \in Ops : ~TaskEnds(p)) => NoneEnds
  BY EndsNext
<1>3. CASE \E a \in Actors : Worker(a)
  <2>1. NoneEnds
    BY <1>3, WorkerFrame, SameEndsNone
  <2> QED BY <1>1, <1>3, <2>1, RootWorker
<1>4. CASE \A a \in Actors : ~Worker(a)
  <2>1. RootsOnlyCleared /\ RootKinds'
    BY <1>4, RootsNext, RootKindsStay DEF RootInv
  <2>2. CASE \E a \in Actors : Handler(a)
    <3>1. PICK a \in Actors : Handler(a)
      BY <2>2
    <3>2. NoneEnds
      BY <3>1, HandlerEndsNone
    <3> QED BY <1>1, <2>1, <3>1, <3>2, RootHandler
  <2> QED BY <1>1, <1>2, <1>4, <2>1, <2>2, NextCases, RootOthers
<1> QED BY <1>3, <1>4

SlotInv == NoStaleHandle /\ RootKinds /\ RootSlotIsLive

\* The root slot and the handles of the current actor are live.
LEMMA SlotsHold == Spec => []SlotInv
<1>1. Init => SlotInv
  BY DEF Init, SlotInv, NoStaleHandle, RootKinds, RootSlotIsLive
<1>2. TypeOK /\ OnePlace /\ Generations /\ RegistryKnows /\ HitInv /\ SlotInv /\ [Next]_vars
        => SlotInv'
  BY HandlesFresh, RootNextStep DEF SlotInv, RootInv, HitInv
<1> QED BY <1>1, <1>2, TypeCorrect, AcceptedOnce, GenerationsHold, RegistryHolds, HitCorrect,
           PTL DEF Spec

\* The root slot of the current actor is never stale: whatever finishes, fails or
\* dies gives it back, so no later turn of the session is rejected for nothing.
THEOREM RootNeverStale == Spec => []RootSlotIsLive
<1>1. SlotInv => RootSlotIsLive
  BY DEF SlotInv
<1> QED BY <1>1, SlotsHold, PTL

-----------------------------------------------------------------------------
(* PendingMatchesAsker *)

\* Until the server is down the pending requests are the questions tasks wait on;
\* a request of an older actor is one its task is being cancelled out of.
Asked ==
  /\ \A o \in Ops : task[o] = "asking" => cur # 0 /\ o \in pending[cur]
  /\ \A a \in Actors : \A o \in pending[a] :
       task[o] = "cancelling" \/ (task[o] = "asking" /\ a = cur)

AskedInv == phase # "down" => Asked

LEMMA AskedSame ==
  ASSUME TypeOK, Asked, UNCHANGED <<task, pending>>,
         cur' = cur \/ cur = 0 \/ (cur' = 0 /\ pending[cur] = {})
  PROVE  Asked'
<1>1. CASE cur' = cur
  BY <1>1 DEF Asked
<1>2. CASE cur = 0 \/ (cur' = 0 /\ pending[cur] = {})
  <2>1. \A o \in Ops : task[o] # "asking"
    BY <1>2 DEF Asked
  <2>2. \A a \in Actors : pending[a] \subseteq Ops
    BY DEF TypeOK
  <2> QED BY <2>1, <2>2 DEF Asked
<1> QED BY <1>1, <1>2

\* Tasks are cancelled; their questions stay until their own clean-up.
LEMMA AskedCancelled ==
  ASSUME TypeOK, Asked, NEW S, task' = Cancelled(S, {}), UNCHANGED <<cur, pending>>
  PROVE  Asked'
<1>1. \A o \in Ops : /\ task'[o] = "asking" => task[o] = "asking"
                     /\ task[o] = "asking" => task'[o] \in {"asking", "cancelling"}
                     /\ task[o] = "cancelling" => task'[o] = "cancelling"
  BY DEF Cancelled, LiveTask
<1>2. \A a \in Actors : pending[a] \subseteq Ops
  BY DEF TypeOK
<1> QED BY <1>1, <1>2 DEF Asked

\* The current actor's questions are withdrawn, or their tasks cancelled.
LEMMA AskedWithdrawn ==
  ASSUME TypeOK, Asked, NEW S, NEW W, task' = Cancelled(S, W), cur # 0 => pending[cur] \subseteq W,
         \A a \in Actors : pending'[a] = IF a = cur THEN {} ELSE pending[a]
  PROVE  Asked'
<1>1. \A o \in Ops : /\ task'[o] # "asking"
                     /\ task[o] = "cancelling" => task'[o] = "cancelling"
  BY DEF Cancelled, LiveTask, Asked
<1>2. \A a \in Actors : pending[a] \subseteq Ops
  BY DEF TypeOK
<1>3. ASSUME NEW a \in Actors, NEW o \in pending'[a]
      PROVE  task'[o] = "cancelling"
  BY <1>1, <1>2, <1>3 DEF Asked
<1> QED BY <1>1, <1>3 DEF Asked

\* A task that asks nothing moves on.
LEMMA AskedMoved ==
  ASSUME TypeOK, Asked, NEW o \in Ops, NEW v, v # "asking", task' = [task EXCEPT ![o] = v],
         \A a \in Actors : o \notin pending[a], UNCHANGED <<cur, pending>>
  PROVE  Asked'
<1>1. \A p \in Ops \ {o} : task'[p] = task[p]
  BY DEF TypeOK
<1>2. task'[o] # "asking" /\ \A a \in Actors : pending[a] \subseteq Ops \ {o}
  BY DEF TypeOK
<1> QED BY <1>1, <1>2 DEF Asked

LEMMA AskedInterrupt ==
  ASSUME TypeOK, Asked, NEW o \in Ops, InterruptBody(o), cur' = cur \/ cur = 0
  PROVE  Asked'
<1>1. CASE IsStale(o)
  BY <1>1, AskedSame DEF InterruptBody
<1>2. CASE ~IsStale(o) /\ CurrentTasks # {}
  <2>1. cur # 0
    BY <1>2 DEF IsStale
  <2> QED BY <1>2, <2>1, AskedCancelled DEF InterruptBody
<1>3. CASE ~IsStale(o) /\ CurrentTasks = {}
  <2>1. /\ cur # 0 /\ task' = Cancelled({}, pending[cur])
        /\ \A a \in Actors : pending'[a] = IF a = cur THEN {} ELSE pending[a]
    BY <1>3 DEF InterruptBody, IsStale, CurrentPending, CancelCurrentPending
  <2> QED BY <2>1, AskedWithdrawn
<1> QED BY <1>1, <1>2, <1>3

LEMMA AskedRespond ==
  ASSUME TypeOK, Asked, NEW o \in Ops, RespondBody(o), cur' = cur \/ cur = 0
  PROVE  Asked'
<1>1. CASE cur = 0
  <2>1. UNCHANGED <<task, pending>>
    <3>1. \A a \in Actors : pending'[a] = pending[a] /\ a # 0
      BY <1>1 DEF RespondBody, Actors
    <3> QED BY <1>1, <3>1 DEF RespondBody, TypeOK
  <2> QED BY <1>1, <2>1, AskedSame
<1>2. CASE cur # 0
  <2> DEFINE q == Asker[o]
  <2>1. /\ cur' = cur /\ \A a \in Actors : pending'[a] = IF a = cur THEN pending[a] \ {q} ELSE pending[a]
        /\ task' = IF q \in pending[cur] /\ task[q] = "asking"
                   THEN [task EXCEPT ![q] = "answered"] ELSE task
    BY <1>2 DEF RespondBody
  <2> HIDE DEF q
  <2>2. cur \in Actors /\ \A a \in Actors : pending[a] \subseteq Ops
    BY <1>2, ActorsAreNumbers DEF TypeOK
  <2>3. ASSUME NEW p \in Ops, task'[p] = "asking"
        PROVE  cur' # 0 /\ p \in pending'[cur']
    <3>1. task[p] = "asking" /\ p # q
      BY <2>1, <2>3 DEF Asked, TypeOK
    <3> QED BY <2>1, <2>2, <3>1 DEF Asked
  <2>4. ASSUME NEW a \in Actors, NEW p \in pending'[a]
        PROVE  task'[p] = "cancelling" \/ (task'[p] = "asking" /\ a = cur')
    <3>1. p \in pending[a] /\ p \in Ops /\ (a = cur => p # q)
      BY <2>1, <2>2, <2>4
    <3>2. task[p] = "cancelling" \/ (task[p] = "asking" /\ a = cur)
      BY <3>1 DEF Asked
    <3> QED BY <2>1, <3>1, <3>2 DEF TypeOK
  <2> QED BY <2>3, <2>4 DEF Asked
<1> QED BY <1>1, <1>2

LEMMA AskedHandler ==
  ASSUME GuardInv, Asked, NEW a \in Actors, Handler(a)
  PROVE  Asked'
<1>1. TypeOK /\ OnePlace
  BY DEF GuardInv
<1>2. PICK o \in Ops :
        \/ FailItem(a, o) \/ RunPlain(a, o) \/ InitLoaded(a, o) \/ InitDone(a, o)
        \/ RegisterTask(a, o) \/ CompactCancels(a, o) \/ RunInterrupt(a, o) \/ RunRespond(a, o)
        \/ RunCloseRefused(a, o) \/ RunClose(a, o) \/ CloseAwaitsItself(a, o) \/ CloseDone(a, o)
  BY DEF Handler
<1>3. CASE RunInterrupt(a, o) \/ RunRespond(a, o)
  BY <1>1, <1>3, AskedInterrupt, AskedRespond DEF RunInterrupt, RunRespond
<1>4. CASE RegisterTask(a, o)
  <2>1. task[o] = "none"
    <3>1. stage[o] \in Busy
      BY <1>1, <1>4, ItemBusy DEF RegisterTask
    <3> QED BY <3>1, BusyHasNoTask
  <2>2. \A b \in Actors : o \notin pending[b]
    BY <2>1 DEF Asked
  <2> QED BY <1>1, <1>4, <2>2, AskedMoved DEF RegisterTask
<1>5. CASE CompactCancels(a, o)
  BY <1>1, <1>5, AskedCancelled DEF CompactCancels
<1>6. CASE RunClose(a, o)
  <2>1. cur \in Actors
    BY <1>1, <1>6, ActorsAreNumbers DEF RunClose, TypeOK
  <2>2. /\ task' = Cancelled(ActiveTasks(cur), pending[cur])
        /\ \A b \in Actors : pending'[b] = IF b = cur THEN {} ELSE pending[b]
    BY <1>1, <1>6, <2>1 DEF RunClose, StopBody, TypeOK
  <2> QED BY <1>1, <2>2, AskedWithdrawn
<1>7. CASE \/ FailItem(a, o) \/ RunPlain(a, o) \/ InitLoaded(a, o) \/ InitDone(a, o)
           \/ RunCloseRefused(a, o) \/ CloseAwaitsItself(a, o) \/ CloseDone(a, o)
  <2>1. UNCHANGED <<task, pending>>
    BY <1>7 DEF FailItem, RunPlain, InitLoaded, InitDone, RunCloseRefused, CloseAwaitsItself,
       CloseDone
  <2>2. cur' = cur \/ cur = 0
    BY <1>7 DEF FailItem, RunPlain, InitLoaded, InitDone, RunCloseRefused, CloseAwaitsItself,
       CloseDone, EnsureActor
  <2> QED BY <1>1, <2>1, <2>2, AskedSame
<1> QED BY <1>2, <1>3, <1>4, <1>5, <1>6, <1>7

LEMMA AskedTasks ==
  ASSUME TypeOK, Asked, NEW o \in Ops,
         \/ TaskStarts(o) \/ TaskDies(o) \/ TaskResumes(o) \/ TaskEnds(o)
         \/ \E a \in Actors : TaskAsks(o, a) \/ InteractionCancelled(o, a)
  PROVE  Asked'
<1>1. CASE TaskStarts(o) \/ TaskDies(o) \/ TaskResumes(o)
  <2>1. \A a \in Actors : o \notin pending[a]
    BY <1>1 DEF Asked, TaskStarts, TaskDies, TaskResumes
  <2> QED BY <1>1, <2>1, AskedMoved DEF TaskStarts, TaskDies, TaskResumes
<1>2. CASE TaskEnds(o)
  BY <1>2, AskedMoved DEF TaskEnds
<1>3. ASSUME NEW a \in Actors, TaskAsks(o, a)
      PROVE  Asked'
  <2>1. /\ task[o] = "running" /\ task' = [task EXCEPT ![o] = "asking"]
        /\ pending' = [pending EXCEPT ![a] = @ \cup {o}]
        /\ cur' = a /\ (cur # 0 => a = cur)
    BY <1>3 DEF TaskAsks, EnsureActor
  <2>2. /\ task'[o] = "asking" /\ \A p \in Ops \ {o} : task'[p] = task[p]
        /\ pending'[a] = pending[a] \cup {o} /\ \A b \in Actors \ {a} : pending'[b] = pending[b]
    BY <2>1 DEF TypeOK
  <2>3. a # 0 /\ \A b \in Actors : o \notin pending[b] /\ pending[b] \subseteq Ops
    BY <2>1, Numbers DEF Asked, TypeOK
  <2>4. ASSUME NEW p \in Ops, task'[p] = "asking"
        PROVE  cur' # 0 /\ p \in pending'[cur']
    BY <2>1, <2>2, <2>3, <2>4 DEF Asked
  <2>5. ASSUME NEW b \in Actors, NEW p \in pending'[b]
        PROVE  task'[p] = "cancelling" \/ (task'[p] = "asking" /\ b = cur')
    <3>1. CASE p = o
      <4>1. b = a
        BY <2>2, <2>3, <2>5, <3>1
      <4> QED BY <2>1, <2>2, <3>1, <4>1
    <3>2. CASE p # o
      <4>1. p \in pending[b] /\ p \in Ops
        BY <2>2, <2>3, <2>5, <3>2
      <4> QED BY <2>1, <2>2, <2>3, <3>2, <4>1 DEF Asked
    <3> QED BY <3>1, <3>2
  <2> QED BY <2>4, <2>5 DEF Asked
<1>4. ASSUME NEW a \in Actors, InteractionCancelled(o, a)
      PROVE  Asked'
  <2>1. /\ task[o] = "cancelling" /\ UNCHANGED <<cur, task>>
        /\ pending'[a] = pending[a] \ {o} /\ \A b \in Actors \ {a} : pending'[b] = pending[b]
    BY <1>4 DEF InteractionCancelled, TypeOK
  <2>2. \A p \in Ops : task[p] = "asking" => cur # 0 /\ cur \in Actors /\ p # o /\ p \in pending[cur]
    BY <2>1, ActorsAreNumbers DEF Asked, TypeOK
  <2>3. \A b \in Actors : pending'[b] \subseteq pending[b]
    BY <2>1
  <2> QED BY <2>1, <2>2, <2>3 DEF Asked
<1> QED BY <1>1, <1>2, <1>3, <1>4

LEMMA AskedClosing ==
  ASSUME TypeOK, Asked, phase' # "down",
         \/ \E a \in Actors : PostStop(a) \/ CloseIdle(a) \/ JoinWorker(a) \/ ObserveIdle(a)
                              \/ TTLPasses(a)
         \/ FacadeStops \/ RegistryStops \/ RegistryStopsActor
  PROVE  Asked'
<1>1. ASSUME NEW a \in Actors, PostStop(a) \/ JoinWorker(a) \/ ObserveIdle(a) \/ TTLPasses(a)
      PROVE  Asked'
  BY <1>1, AskedSame DEF PostStop, JoinWorker, ObserveIdle, TTLPasses
<1>2. ASSUME NEW a \in Actors, CloseIdle(a)
      PROVE  Asked'
  BY <1>2, AskedSame DEF CloseIdle, IsIdle
<1>3. CASE FacadeStops \/ RegistryStops
  <2>1. /\ \E S : task' = Cancelled(S, CurrentPending)
        /\ \A a \in Actors : pending'[a] = IF a = cur THEN {} ELSE pending[a]
    BY <1>3 DEF FacadeStops, RegistryStops, CancelCurrentPending
  <2> QED BY <2>1, AskedWithdrawn DEF CurrentPending
<1>4. CASE RegistryStopsActor
  <2>1. cur \in Actors /\ StopBody(cur)
    BY <1>4, ActorsAreNumbers DEF RegistryStopsActor, TypeOK
  <2>2. /\ task' = Cancelled(ActiveTasks(cur), pending[cur])
        /\ \A b \in Actors : pending'[b] = IF b = cur THEN {} ELSE pending[b]
    BY <2>1 DEF StopBody, TypeOK
  <2> QED BY <2>2, AskedWithdrawn
<1> QED BY <1>1, <1>2, <1>3, <1>4

LEMMA AskedNextStep ==
  ASSUME GuardInv, AskedInv, [Next]_vars
  PROVE  AskedInv'
<1> SUFFICES ASSUME phase' # "down" PROVE Asked'
  BY DEF AskedInv
<1>1. TypeOK
  BY DEF GuardInv
<1>2. phase # "down"
  <2>1. CASE \E a \in Actors : Worker(a)
    BY <2>1, WorkerFrame
  <2>2. CASE \E a \in Actors : Handler(a)
    BY <2>2 DEF Handler, FailItem, RunPlain, InitLoaded, InitDone, RegisterTask,
       CompactCancels, RunInterrupt, RunRespond, RunCloseRefused, RunClose,
       CloseAwaitsItself, CloseDone
  <2>3. CASE \E o \in Ops, a \in Actors : Submit(o, a) \/ SubmitPreemptive(o, a)
    BY <2>3 DEF Submit, SubmitPreemptive
  <2>4. CASE \E o \in Ops : EndInterrupt(o) \/ WrapperFinishes(o)
    BY <2>4 DEF EndInterrupt, WrapperFinishes
  <2>5. CASE \E a \in Actors : PostStop(a) \/ CloseIdle(a) \/ JoinWorker(a)
    BY <2>5 DEF PostStop, CloseIdle, JoinWorker
  <2>6. CASE Quiet
    BY <2>6 DEF Quiet, TaskStarts, TaskDies, TaskResumes, TaskEnds, TaskAsks,
       InteractionCancelled, ObserveIdle, TTLPasses, FacadeStops, RegistryStops,
       RegistryStopsActor
  <2>7. CASE UNCHANGED vars
    BY <2>7
  <2> QED BY <2>1, <2>2, <2>3, <2>4, <2>5, <2>6, <2>7, NextCases
<1>3. Asked
  BY <1>2 DEF AskedInv
<1>4. CASE \E o \in Ops, a \in Actors : Submit(o, a) \/ SubmitPreemptive(o, a)
  <2>1. PICK o \in Ops, a \in Actors : Submit(o, a) \/ SubmitPreemptive(o, a)
    BY <1>4
  <2>2. cur' = cur \/ cur = 0
    BY <2>1 DEF Submit, SubmitPreemptive, Accept, EnsureActor
  <2>3. CASE Submit(o, a)
    BY <1>1, <1>3, <2>2, <2>3, AskedSame DEF Submit
  <2>4. CASE SubmitPreemptive(o, a)
    BY <1>1, <1>3, <2>2, <2>4, AskedInterrupt, AskedRespond DEF SubmitPreemptive
  <2> QED BY <2>1, <2>3, <2>4
<1>5. CASE \E o \in Ops : EndInterrupt(o) \/ WrapperFinishes(o)
  <2>1. PICK o \in Ops : EndInterrupt(o) \/ WrapperFinishes(o)
    BY <1>5
  <2>2. CASE EndInterrupt(o)
    <3>1. /\ task' = Cancelled({}, CurrentPending)
          /\ \A a \in Actors : pending'[a] = IF a = cur THEN {} ELSE pending[a]
      BY <2>2 DEF EndInterrupt, CancelCurrentPending
    <3> QED BY <1>1, <1>3, <3>1, AskedWithdrawn DEF CurrentPending
  <2>3. CASE WrapperFinishes(o)
    BY <1>1, <1>3, <2>3, AskedSame DEF WrapperFinishes
  <2> QED BY <2>1, <2>2, <2>3
<1>6. CASE \E a \in Actors : Worker(a)
  BY <1>1, <1>3, <1>6, WorkerFrame, AskedSame
<1>7. CASE \E a \in Actors : Handler(a)
  BY <1>3, <1>7, AskedHandler
<1>8. CASE \/ \E a \in Actors : PostStop(a) \/ CloseIdle(a) \/ JoinWorker(a) \/ ObserveIdle(a)
                                \/ TTLPasses(a)
           \/ FacadeStops \/ RegistryStops \/ RegistryStopsActor
  BY <1>1, <1>3, <1>8, AskedClosing
<1>9. CASE \E o \in Ops : \/ TaskStarts(o) \/ TaskDies(o) \/ TaskResumes(o) \/ TaskEnds(o)
                          \/ \E a \in Actors : TaskAsks(o, a) \/ InteractionCancelled(o, a)
  BY <1>1, <1>3, <1>9, AskedTasks
<1>10. CASE UNCHANGED vars
  BY <1>1, <1>3, <1>10, AskedSame
<1> QED BY <1>4, <1>5, <1>6, <1>7, <1>8, <1>9, <1>10, NextCases DEF Quiet

LEMMA AskedHolds == Spec => []AskedInv
<1>1. Init => AskedInv
  BY DEF Init, AskedInv, Asked
<1>2. GuardInv /\ AskedInv /\ [Next]_vars => AskedInv'
  BY AskedNextStep
<1> QED BY <1>1, <1>2, GuardCorrect, PTL DEF Spec

\* A pending question can be answered and a question a task waits on is pending,
\* whoever answers, interrupts, compacts, closes or stops the server.
THEOREM QuestionsAnswerable == Spec => []PendingMatchesAsker
<1>1. AskedInv => PendingMatchesAsker
  BY DEF AskedInv, Asked, PendingMatchesAsker
<1> QED BY <1>1, AskedHolds, PTL

-----------------------------------------------------------------------------
(* NothingLeaks *)

\* STOP is never prefetched: whoever takes it leaves the loop.
StopNotHeld == \A a \in Actors : pre[a].control # Stop

\* The control slots after one slot of one actor was assigned.
LEMMA ControlSlot ==
  ASSUME TypeOK, NEW a \in Actors, NEW x
  PROVE  /\ pre' = [pre EXCEPT ![a].normal = x] =>
              \A b \in Actors : pre'[b].control = pre[b].control
         /\ pre' = [pre EXCEPT ![a].control = x] =>
              \A b \in Actors : pre'[b].control = IF b = a THEN x ELSE pre[b].control
<1>1. pre[a] \in Slots /\ pre \in [Actors -> Slots]
  BY DEF TypeOK
<1>2. /\ [pre[a] EXCEPT !.normal = x].control = pre[a].control
      /\ [pre[a] EXCEPT !.control = x].control = x
  BY <1>1 DEF Slots
<1> QED BY <1>1, <1>2

LEMMA StopNotHeldNextStep ==
  ASSUME TypeOK, StopNotHeld, [Next]_vars
  PROVE  StopNotHeld'
<1>1. CASE UNCHANGED pre
  BY <1>1 DEF StopNotHeld
<1>3. ASSUME NEW a \in Actors, Worker(a)
      PROVE  StopNotHeld'
  <2>1. CASE TakeNormal(a)
    BY <1>1, <2>1, ControlSlot DEF TakeNormal, UsePrefetchedNormal, StopNotHeld
  <2>2. CASE TakeControl(a)
    <3>1. UNCHANGED pre \/ pre' = [pre EXCEPT ![a].control = NoOp]
      BY <2>2 DEF TakeControl
    <3> QED BY <1>1, <3>1, ControlSlot, OpsAssumption DEF StopNotHeld
  <2>3. CASE ResumeWithBoth(a)
    <3>1. \/ pre' = [pre EXCEPT ![a].normal = got[a].normal]
          \/ got[a].control # Stop /\ pre' = [pre EXCEPT ![a].control = got[a].control]
      BY <2>3 DEF ResumeWithBoth
    <3> QED BY <3>1, ControlSlot DEF StopNotHeld
  <2>4. CASE \/ ArmGetters(a) \/ GetterTakesControl(a) \/ GetterTakesNormal(a)
             \/ ResumeWithOne(a)
    BY <1>1, <2>4 DEF ArmGetters, GetterTakesControl, GetterTakesNormal, ResumeWithOne
  <2> QED BY <1>3, <2>1, <2>2, <2>3, <2>4 DEF Worker
<1>4. ASSUME NEW a \in Actors, Handler(a) \/ PostStop(a) \/ CloseIdle(a) \/ JoinWorker(a)
      PROVE  StopNotHeld'
  <2>1. CASE JoinWorker(a)
    BY <2>1, OpsAssumption DEF JoinWorker, StopNotHeld, TypeOK
  <2>2. CASE Handler(a)
    BY <1>1, <2>2 DEF Handler, FailItem, RunPlain, InitLoaded, InitDone, RegisterTask,
       CompactCancels, RunInterrupt, RunRespond, RunCloseRefused, RunClose,
       CloseAwaitsItself, CloseDone
  <2>3. CASE PostStop(a) \/ CloseIdle(a)
    BY <1>1, <2>3 DEF PostStop, CloseIdle
  <2> QED BY <1>4, <2>1, <2>2, <2>3
<1>5. CASE \E o \in Ops : \/ EndInterrupt(o) \/ WrapperFinishes(o)
                         \/ \E a \in Actors : Submit(o, a) \/ SubmitPreemptive(o, a)
  BY <1>1, <1>5 DEF EndInterrupt, WrapperFinishes, Submit, SubmitPreemptive
<1>6. CASE Quiet \/ UNCHANGED vars
  BY <1>1, <1>6, QuietStays
<1> QED BY <1>3, <1>4, <1>5, <1>6, NextCases

LEMMA StopNeverHeld == Spec => []StopNotHeld
<1>1. Init => StopNotHeld
  BY OpsAssumption DEF Init, StopNotHeld
<1>2. TypeOK /\ StopNotHeld /\ [Next]_vars => StopNotHeld'
  BY StopNotHeldNextStep
<1> QED BY <1>1, <1>2, TypeCorrect, PTL DEF Spec

LEMMA QuietHoldsNothing ==
  ASSUME GuardInv, SlotInv, AskedInv, StopNotHeld, Quiescent
  PROVE  /\ root[cur] = NoOp /\ pending[cur] = {} /\ pre[cur] = NoItems
         /\ \A o \in handles[cur] : task[o] = "stillborn"
<1>1. /\ cur \in Actors /\ \A o \in Ops : stage[o] \in {"new", "finished"} /\ task[o] \notin LiveTask
      /\ TypeOK /\ PlacesOK(cur)
  BY ActorsAreNumbers DEF Quiescent, GuardInv, TypeOK, OnePlace
<1>2. root[cur] = NoOp
  <2> SUFFICES ASSUME root[cur] # NoOp PROVE FALSE
    OBVIOUS
  <2>1. root[cur] \in Ops
    BY <1>1 DEF TypeOK
  <2>2. stage[root[cur]] \in {"handling", "suspended", "background"}
    BY <1>1, <2>1 DEF SlotInv, RootSlotIsLive, PlacesOK, Quiescent
  <2> QED BY <1>1, <2>1, <2>2
<1>3. pending[cur] = {}
  <2>1. \A o \in pending[cur] : o \in Ops /\ task[o] \in LiveTask
    BY <1>1 DEF AskedInv, Asked, Quiescent, TypeOK, LiveTask
  <2> QED BY <1>1, <2>1
<1>4. pre[cur] = NoItems
  <2>1. pre[cur] \in Slots
    BY <1>1 DEF TypeOK
  <2>2. pre[cur].control \in Items /\ pre[cur].normal \in Items
    BY <2>1 DEF Slots
  <2>3. pre[cur].control = NoOp /\ pre[cur].normal = NoOp
    BY <1>1, <2>2 DEF PlacesOK, SlotsOK, StopNotHeld, Items
  <2> QED BY <2>1, <2>3 DEF Slots, NoItems
<1>5. ASSUME NEW o \in handles[cur]
      PROVE  task[o] = "stillborn"
  <2>1. o \in Ops /\ task[o] # "none" /\ task[o] # "ended"
    BY <1>1, <1>5, ActorsAreNumbers DEF GuardInv, HandlesHaveTasks, SlotInv, NoStaleHandle,
       TypeOK
  <2> QED BY <1>1, <2>1 DEF TypeOK, DoneTask
<1> QED BY <1>2, <1>3, <1>4, <1>5

\* When every accepted operation is finished the actor holds nothing of them:
\* every way a turn can end gives back what it took.
THEOREM NothingStaysBehind == Spec => []NothingLeaks
<1>1. GuardInv /\ SlotInv /\ AskedInv /\ StopNotHeld => NothingLeaks
  BY QuietHoldsNothing DEF NothingLeaks, NoItems
<1> QED BY <1>1, GuardCorrect, SlotsHold, AskedHolds, StopNeverHeld, PTL

-----------------------------------------------------------------------------
(* The converse of OnePlace: an operation is where its stage says it is *)

InMail(o, q) == \E i \in 1..Len(q) : q[i] = o
InSlots(o, s) == s.control = o \/ s.normal = o

PlacedIn(o, a, st) ==
  /\ st = "control" => InMail(o, control[a])
  /\ st = "normal" => InMail(o, normal[a])
  /\ st = "held" => InSlots(o, pre[a]) \/ InSlots(o, got[a])
  /\ st = "handling" => item[a] = o

InPlaces == Waiting \cup {"handling"}

Placed(o) ==
  stage[o] \in InPlaces => owner[o] \in Actors /\ PlacedIn(o, owner[o], stage[o])

AllPlaced == \A o \in Ops : Placed(o)

LEMMA MailAppend ==
  ASSUME NEW q \in Seq(Ops \cup {Stop}), NEW x \in Ops \cup {Stop}
  PROVE  InMail(x, Append(q, x)) /\ \A o : InMail(o, q) => InMail(o, Append(q, x))
<1> DEFINE r == Append(q, x)
<1>1. /\ Len(q) \in Nat /\ Len(r) = Len(q) + 1 /\ r[Len(q) + 1] = x
      /\ \A i \in 1..Len(q) : r[i] = q[i] /\ i \in 1..Len(r)
  OBVIOUS
<1> HIDE DEF r
<1> QED BY <1>1 DEF InMail, r

LEMMA MailTail ==
  ASSUME NEW q \in Seq(Ops \cup {Stop}), q # <<>>, NEW o, InMail(o, q), o # Head(q)
  PROVE  InMail(o, Tail(q))
<1> DEFINE r == Tail(q)
<1>1. /\ Len(q) \in Nat \ {0} /\ Len(r) = Len(q) - 1 /\ Head(q) = q[1]
      /\ \A i \in 1..Len(r) : r[i] = q[i + 1]
  OBVIOUS
<1>2. PICK i \in 1..Len(q) : q[i] = o
  BY DEF InMail
<1> HIDE DEF r
<1>3. i # 1 /\ i - 1 \in 1..Len(r) /\ r[i - 1] = q[i]
  BY <1>1, <1>2
<1> QED BY <1>2, <1>3 DEF InMail, r

\* The operation stays where it is, its actor keeps holding it.
LEMMA PlacedKept ==
  ASSUME NEW o \in Ops, Placed(o), NEW a, a = owner[o], owner'[o] = owner[o],
         stage'[o] = stage[o],
         InMail(o, control[a]) => InMail(o, control'[a]),
         InMail(o, normal[a]) => InMail(o, normal'[a]),
         InSlots(o, pre[a]) \/ InSlots(o, got[a]) => InSlots(o, pre'[a]) \/ InSlots(o, got'[a]),
         item[a] = o => item'[a] = o
  PROVE  Placed(o)'
BY DEF Placed, PlacedIn, InMail, InSlots

\* Another actor's step does not move it.
LEMMA PlacedElsewhere ==
  ASSUME NEW o \in Ops, Placed(o), NEW a, a = owner[o], owner'[o] = owner[o],
         stage'[o] = stage[o],
         control'[a] = control[a], normal'[a] = normal[a], pre'[a] = pre[a], got'[a] = got[a],
         item'[a] = item[a]
  PROVE  Placed(o)'
BY PlacedKept

LEMMA PlacedGone ==
  ASSUME NEW o \in Ops, stage'[o] \notin InPlaces
  PROVE  Placed(o)'
BY DEF Placed

\* The worker of a takes x; what else a holds stays in its places.
LEMMA PlacedBegin ==
  ASSUME TypeOK, OnePlace, NEW a \in Actors, NEW x, Begin(a, x), item[a] = NoOp,
         owner' = owner, NEW o \in Ops, Placed(o), owner[o] = a,
         o # x /\ InMail(o, control[a]) => InMail(o, control'[a]),
         o # x /\ InMail(o, normal[a]) => InMail(o, normal'[a]),
         o # x /\ (InSlots(o, pre[a]) \/ InSlots(o, got[a]))
           => InSlots(o, pre'[a]) \/ InSlots(o, got'[a])
  PROVE  Placed(o)'
<1>1. o # NoOp
  BY OpsAssumption
<1>2. CASE o = x
  <2>1. stage'[o] = "finished" \/ (stage'[o] = "handling" /\ item'[a] = o)
    BY <1>2, OpsAssumption DEF Begin, Finish, Retire, TypeOK
  <2>2. owner'[o] = a
    OBVIOUS
  <2>3. CASE stage'[o] = "finished"
    BY <2>3, PlacedGone DEF InPlaces, Waiting
  <2>4. CASE stage'[o] = "handling" /\ item'[a] = o
    BY <2>2, <2>4 DEF Placed, PlacedIn
  <2> QED BY <2>1, <2>3, <2>4
<1>3. CASE o # x
  <2>1. stage'[o] = stage[o] /\ item[a] # o
    BY <1>1, <1>3, BeginEffect
  <2> QED BY <1>3, <2>1, PlacedKept
<1> QED BY <1>2, <1>3

LEMMA PlacedTake ==
  ASSUME TypeOK, OnePlace, NEW a \in Actors, TakeNormal(a) \/ TakeControl(a),
         NEW o \in Ops, Placed(o), owner[o] = a
  PROVE  Placed(o)'
<1>1. /\ item[a] = NoOp /\ UNCHANGED <<owner, got>>
      /\ control[a] \in Seq(Ops \cup {Stop}) /\ normal[a] \in Seq(Ops \cup {Stop})
      /\ pre[a] \in Slots /\ pre \in [Actors -> Slots]
  BY PlacesHere DEF TakeNormal, TakeControl, TakeFrame, Works, TypeOK
<1>2. o # NoOp
  BY OpsAssumption
<1>3. CASE TakeNormal(a)
  <2>1. CASE pre[a].normal # NoOp
    <3>1. /\ pre' = [pre EXCEPT ![a].normal = NoOp] /\ UNCHANGED <<control, normal>>
          /\ Begin(a, pre[a].normal)
      BY <1>3, <2>1 DEF TakeNormal, UsePrefetchedNormal
    <3>2. pre'[a].control = pre[a].control
      BY <1>1, <3>1 DEF Slots
    <3> QED BY <1>1, <3>1, <3>2, PlacedBegin DEF InSlots
  <2>2. CASE pre[a].normal = NoOp
    <3>1. /\ normal' = [normal EXCEPT ![a] = Tail(normal[a])] /\ UNCHANGED <<control, pre>>
          /\ Begin(a, Head(normal[a])) /\ normal[a] # <<>>
      BY <1>3, <2>2 DEF TakeNormal, NormalAvailable
    <3>2. normal'[a] = Tail(normal[a])
      BY <3>1 DEF TypeOK
    <3> QED BY <1>1, <3>1, <3>2, PlacedBegin, MailTail
  <2> QED BY <2>1, <2>2
<1>4. CASE TakeControl(a)
  <2>1. CASE pre[a].control # NoOp
    <3>1. /\ pre' = [pre EXCEPT ![a].control = NoOp] /\ UNCHANGED <<control, normal>>
          /\ Begin(a, pre[a].control)
      BY <1>4, <2>1 DEF TakeControl
    <3>2. pre'[a].normal = pre[a].normal
      BY <1>1, <3>1 DEF Slots
    <3> QED BY <1>1, <3>1, <3>2, PlacedBegin DEF InSlots
  <2>2. CASE pre[a].control = NoOp
    <3>1. /\ control' = [control EXCEPT ![a] = Tail(control[a])] /\ UNCHANGED <<normal, pre>>
          /\ Begin(a, Head(control[a])) /\ control[a] # <<>>
      BY <1>4, <2>2 DEF TakeControl, ControlAvailable
    <3>2. control'[a] = Tail(control[a])
      BY <3>1 DEF TypeOK
    <3> QED BY <1>1, <3>1, <3>2, PlacedBegin, MailTail
  <2> QED BY <2>1, <2>2
<1> QED BY <1>3, <1>4

LEMMA PlacedResume ==
  ASSUME TypeOK, OnePlace, NEW a \in Actors, ResumeWithOne(a) \/ ResumeWithBoth(a),
         NEW o \in Ops, Placed(o), owner[o] = a
  PROVE  Placed(o)'
<1>1. /\ item[a] = NoOp /\ pre[a] = NoItems /\ UNCHANGED <<owner, control, normal>>
      /\ pre[a] \in Slots /\ pre \in [Actors -> Slots]
  BY PlacesHere DEF ResumeWithOne, ResumeWithBoth, TakeFrame, Works, TypeOK
<1>2. o # NoOp /\ ~InSlots(o, pre[a])
  BY <1>1, OpsAssumption DEF InSlots, NoItems
<1>3. CASE ResumeWithOne(a)
  <2>1. \/ got[a].normal = NoOp /\ Begin(a, got[a].control)
        \/ got[a].control = NoOp /\ Begin(a, got[a].normal)
    BY <1>3 DEF ResumeWithOne
  <2> QED BY <1>1, <1>2, <2>1, PlacedBegin DEF InSlots
<1>4. CASE ResumeWithBoth(a)
  <2> DEFINE x == got[a].control
             n == got[a].normal
  <2>1. \/ pre' = [pre EXCEPT ![a].normal = n] /\ Begin(a, x)
        \/ pre' = [pre EXCEPT ![a].control = x] /\ Begin(a, n)
    BY <1>4 DEF ResumeWithBoth
  <2>2. InSlots(o, got[a]) => o = x \/ o = n
    BY DEF InSlots
  <2> HIDE DEF x, n
  <2>3. CASE pre' = [pre EXCEPT ![a].normal = n] /\ Begin(a, x)
    <3>1. pre'[a].normal = n
      BY <1>1, <2>3 DEF Slots
    <3> QED BY <1>1, <1>2, <2>2, <2>3, <3>1, PlacedBegin DEF InSlots
  <2>4. CASE pre' = [pre EXCEPT ![a].control = x] /\ Begin(a, n)
    <3>1. pre'[a].control = x
      BY <1>1, <2>4 DEF Slots
    <3> QED BY <1>1, <1>2, <2>2, <2>4, <3>1, PlacedBegin DEF InSlots
  <2> QED BY <2>1, <2>3, <2>4
<1> QED BY <1>3, <1>4

LEMMA PlacedGetter ==
  ASSUME TypeOK, OnePlace, NEW a \in Actors, GetterTakesControl(a) \/ GetterTakesNormal(a),
         NEW o \in Ops, Placed(o), owner[o] = a
  PROVE  Placed(o)'
<1>1. /\ UNCHANGED <<owner, item, pre>> /\ got \in [Actors -> Slots] /\ got[a] \in Slots
      /\ control[a] \in Seq(Ops \cup {Stop}) /\ normal[a] \in Seq(Ops \cup {Stop})
  BY PlacesHere DEF GetterTakesControl, GetterTakesNormal, TypeOK
<1>2. o # NoOp /\ owner'[o] = a
  BY <1>1, OpsAssumption
<1>3. CASE GetterTakesControl(a)
  <2> DEFINE x == Head(control[a])
  <2>1. /\ got[a].control = NoOp /\ control[a] # <<>> /\ UNCHANGED normal
        /\ got' = [got EXCEPT ![a].control = x]
        /\ control' = [control EXCEPT ![a] = Tail(control[a])]
        /\ stage'[o] = IF o = x THEN "held" ELSE stage[o]
    BY <1>3 DEF GetterTakesControl
  <2>2. control'[a] = Tail(control[a])
    BY <2>1 DEF TypeOK
  <2>3. o # x /\ InMail(o, control[a]) => InMail(o, control'[a])
    BY <1>1, <2>1, <2>2, MailTail
  <2> HIDE DEF x
  <2>4. got'[a].control = x /\ got'[a].normal = got[a].normal
    BY <1>1, <2>1 DEF Slots
  <2>5. CASE o = x
    BY <1>2, <2>1, <2>4, <2>5 DEF Placed, PlacedIn, InSlots
  <2>6. CASE o # x
    BY <1>1, <1>2, <2>1, <2>3, <2>4, <2>6, PlacedKept DEF InSlots
  <2> QED BY <2>5, <2>6
<1>4. CASE GetterTakesNormal(a)
  <2> DEFINE x == Head(normal[a])
  <2>1. /\ got[a].normal = NoOp /\ normal[a] # <<>> /\ UNCHANGED control
        /\ got' = [got EXCEPT ![a].normal = x]
        /\ normal' = [normal EXCEPT ![a] = Tail(normal[a])]
        /\ stage' = [stage EXCEPT ![x] = "held"]
    BY <1>4 DEF GetterTakesNormal
  <2>2. normal'[a] = Tail(normal[a])
    BY <2>1 DEF TypeOK
  <2>3. o # x /\ InMail(o, normal[a]) => InMail(o, normal'[a])
    BY <1>1, <2>1, <2>2, MailTail
  <2> HIDE DEF x
  <2>4. got'[a].normal = x /\ got'[a].control = got[a].control
    BY <1>1, <2>1 DEF Slots
  <2>5. stage'[o] = IF o = x THEN "held" ELSE stage[o]
    BY <2>1 DEF TypeOK
  <2>6. CASE o = x
    BY <1>2, <2>4, <2>5, <2>6 DEF Placed, PlacedIn, InSlots
  <2>7. CASE o # x
    BY <1>1, <1>2, <2>1, <2>3, <2>4, <2>5, <2>7, PlacedKept DEF InSlots
  <2> QED BY <2>6, <2>7
<1> QED BY <1>3, <1>4

\* A worker's step leaves the operations of other actors alone.
LEMMA WorkerElsewhere ==
  ASSUME TypeOK, OnePlace, NEW a \in Actors, Worker(a)
  PROVE  /\ \A o \in Ops : owner[o] # a => stage'[o] = stage[o]
         /\ \A b \in Actors : b # a =>
              /\ control'[b] = control[b] /\ normal'[b] = normal[b] /\ pre'[b] = pre[b]
              /\ got'[b] = got[b] /\ item'[b] = item[b] /\ pc'[b] = pc[b]
<1>1. /\ control' = control \/ \E q : control' = [control EXCEPT ![a] = q]
      /\ normal' = normal \/ \E q : normal' = [normal EXCEPT ![a] = q]
  BY Zenon DEF Worker, TakeNormal, TakeControl, ArmGetters, GetterTakesControl,
         GetterTakesNormal, ResumeWithOne, ResumeWithBoth
<1>2. \A b \in Actors : b # a => control'[b] = control[b] /\ normal'[b] = normal[b]
  BY <1>1 DEF TypeOK
<1>3. \A b \in Actors : b # a => pre'[b] = pre[b] /\ got'[b] = got[b]
  BY DEF Worker, TakeNormal, TakeControl, ArmGetters, GetterTakesControl, UsePrefetchedNormal,
         GetterTakesNormal, ResumeWithOne, ResumeWithBoth, TypeOK
<1>4. CASE ArmGetters(a) \/ GetterTakesControl(a) \/ GetterTakesNormal(a)
  <2>1. \A b \in Actors : b # a => pc'[b] = pc[b] /\ item'[b] = item[b]
    BY <1>4 DEF ArmGetters, GetterTakesControl, GetterTakesNormal, TypeOK
  <2>2. ASSUME NEW o \in Ops, owner[o] # a
        PROVE  stage'[o] = stage[o]
    <3>1. CASE ArmGetters(a)
      BY <3>1 DEF ArmGetters
    <3>2. CASE GetterTakesControl(a)
      <4>1. control[a] # <<>> /\ stage'[o] = IF o = Head(control[a]) THEN "held" ELSE stage[o]
        BY <3>2 DEF GetterTakesControl
      <4> QED BY <2>2, <4>1, BegunWaited
    <3>3. CASE GetterTakesNormal(a)
      <4>1. normal[a] # <<>> /\ stage' = [stage EXCEPT ![Head(normal[a])] = "held"]
        BY <3>3 DEF GetterTakesNormal
      <4>2. o # Head(normal[a])
        BY <2>2, <4>1, BegunWaited
      <4> QED BY <4>1, <4>2 DEF TypeOK
    <3> QED BY <1>4, <3>1, <3>2, <3>3
  <2> QED BY <1>2, <1>3, <2>1, <2>2
<1>5. CASE ~ArmGetters(a) /\ ~GetterTakesControl(a) /\ ~GetterTakesNormal(a)
  <2>1. PICK x \in Items : /\ Begin(a, x) /\ item[a] = NoOp
                           /\ x \in Ops => stage[x] \in Waiting /\ owner[x] = a
    BY <1>5, WorkerBegins
  <2>2. \A o \in Ops : owner[o] # a => o # x
    BY <2>1
  <2> QED BY <1>2, <1>3, <2>1, <2>2, BeginEffect
<1> QED BY <1>4, <1>5

LEMMA PlacedWorker ==
  ASSUME TypeOK, OnePlace, AllPlaced, NEW a \in Actors, Worker(a)
  PROVE  AllPlaced'
<1> SUFFICES ASSUME NEW o \in Ops PROVE Placed(o)'
  BY DEF AllPlaced
<1>1. Placed(o) /\ UNCHANGED owner
  BY WorkerFrame DEF AllPlaced
<1>2. CASE owner[o] = a
  <2>1. CASE ArmGetters(a)
    BY <1>1, <1>2, <2>1, PlacedElsewhere DEF ArmGetters
  <2> QED BY <1>1, <1>2, <2>1, PlacedTake, PlacedResume, PlacedGetter DEF Worker
<1>3. CASE owner[o] # a
  <2>1. CASE stage[o] \in InPlaces
    <3>1. owner[o] \in Actors
      BY <1>1, <2>1 DEF Placed
    <3> QED BY <1>1, <1>3, <3>1, WorkerElsewhere, PlacedElsewhere
  <2>2. CASE stage[o] \notin InPlaces
    BY <1>3, <2>2, WorkerElsewhere, PlacedGone
  <2> QED BY <2>1, <2>2
<1> QED BY <1>2, <1>3
LEMMA PlacedSubmit ==
  ASSUME TypeOK, AllPlaced, NEW s \in Ops, NEW a \in Actors, Submit(s, a)
  PROVE  AllPlaced'
<1> SUFFICES ASSUME NEW o \in Ops PROVE Placed(o)'
  BY DEF AllPlaced
<1>1. /\ stage' = [stage EXCEPT ![s] = IF IsControl(s) THEN "control" ELSE "normal"]
      /\ owner' = [owner EXCEPT ![s] = a] /\ UNCHANGED <<pre, got, item>>
      /\ \/ /\ IsControl(s) /\ UNCHANGED normal
            /\ control' = [control EXCEPT ![a] = Append(control[a], s)]
         \/ /\ ~IsControl(s) /\ UNCHANGED control
            /\ normal' = [normal EXCEPT ![a] = Append(normal[a], s)]
  BY DEF Submit, Accept
<1>2. /\ control[a] \in Seq(Ops \cup {Stop}) /\ normal[a] \in Seq(Ops \cup {Stop})
      /\ control \in [Actors -> Seq(Ops \cup {Stop})] /\ normal \in [Actors -> Seq(Ops)]
  <2>1. control \in [Actors -> Seq(Ops \cup {Stop})] /\ normal \in [Actors -> Seq(Ops)]
    BY DEF TypeOK
  <2>2. normal[a] \in Seq(Ops)
    BY <2>1
  <2>3. normal[a] \in Seq(Ops \cup {Stop})
    BY <2>2
  <2> QED BY <2>1, <2>3
<1>3. \A b \in Actors : /\ InMail(o, control[b]) => InMail(o, control'[b])
                        /\ InMail(o, normal[b]) => InMail(o, normal'[b])
  BY <1>1, <1>2, MailAppend
<1>4. CASE o # s
  <2>1. stage'[o] = stage[o] /\ owner'[o] = owner[o] /\ Placed(o)
    BY <1>1, <1>4 DEF TypeOK, AllPlaced
  <2>2. CASE stage[o] \in InPlaces
    <3>1. owner[o] \in Actors
      BY <2>1, <2>2 DEF Placed
    <3> QED BY <1>1, <1>3, <2>1, <3>1, PlacedKept
  <2>3. CASE stage[o] \notin InPlaces
    BY <2>1, <2>3, PlacedGone
  <2> QED BY <2>2, <2>3
<1>5. CASE o = s
  <2>1. owner'[o] = a
    BY <1>1, <1>5 DEF TypeOK
  <2>2. \/ stage'[o] = "control" /\ InMail(o, control'[a])
        \/ stage'[o] = "normal" /\ InMail(o, normal'[a])
    <3>1. stage'[o] = IF IsControl(s) THEN "control" ELSE "normal"
      BY <1>1, <1>5 DEF TypeOK
    <3>2. IsControl(s) => control'[a] = Append(control[a], s)
      BY <1>1, <1>2
    <3>3. ~IsControl(s) => normal'[a] = Append(normal[a], s)
      BY <1>1, <1>2
    <3> QED BY <1>2, <1>5, <3>1, <3>2, <3>3, MailAppend
  <2> QED BY <2>1, <2>2 DEF Placed, PlacedIn
<1> QED BY <1>4, <1>5

\* Stages and owners change for o alone, whose place is given back.
LEMMA PlacedMoved ==
  ASSUME TypeOK, AllPlaced, NEW o \in Ops, UNCHANGED <<control, normal, pre, got>>,
         \A p \in Ops \ {o} : stage'[p] = stage[p] /\ owner'[p] = owner[p],
         \A b \in Actors : item'[b] = item[b] \/ item[b] = o,
         \/ stage'[o] \notin InPlaces
         \/ stage'[o] = stage[o] /\ owner'[o] = owner[o] /\ item' = item
  PROVE  AllPlaced'
<1> SUFFICES ASSUME NEW p \in Ops PROVE Placed(p)'
  BY DEF AllPlaced
<1>1. CASE stage'[p] \notin InPlaces
  BY <1>1, PlacedGone
<1>2. CASE stage'[p] \in InPlaces
  <2>1. /\ Placed(p) /\ stage'[p] = stage[p] /\ owner'[p] = owner[p]
        /\ \A b \in Actors : item[b] = p => item'[b] = p
    BY <1>2 DEF AllPlaced
  <2>2. owner[p] \in Actors
    BY <1>2, <2>1 DEF Placed
  <2> QED BY <2>1, <2>2, PlacedKept
<1> QED BY <1>1, <1>2

LEMMA PlacedHandled ==
  ASSUME TypeOK, AllPlaced, NEW o \in Ops, Handled(o), stage'[o] # "handling"
  PROVE  AllPlaced'
<1>1. /\ UNCHANGED <<control, normal, pre, got, owner>>
      /\ \A p \in Ops \ {o} : stage'[p] = stage[p]
      /\ Release(o) \/ UNCHANGED item
  BY DEF Handled, OnlyMoves
<1>2. \A b \in Actors : item'[b] = item[b] \/ item[b] = o
  BY <1>1 DEF Release
<1>3. stage'[o] \notin InPlaces
  BY DEF Handled, Finishes, GoesOn, InPlaces, Waiting, Busy
<1> QED BY <1>1, <1>2, <1>3, PlacedMoved

\* A handler that goes on is suspended, unless it is an init that found its actor.
LEMMA HandlerMoves ==
  ASSUME TypeOK, OnePlace, NEW a \in Actors, Handler(a)
  PROVE  \E o \in Ops : /\ Handled(o) /\ stage[o] \in Busy /\ owner[o] = a /\ item[a] = o
                        /\ pc[a] = "handling"
                        /\ InitLoaded(a, o) \/ stage'[o] # "handling"
<1>1. PICK o \in Ops :
        \/ FailItem(a, o) \/ RunPlain(a, o) \/ InitLoaded(a, o) \/ InitDone(a, o)
        \/ RegisterTask(a, o) \/ CompactCancels(a, o) \/ RunInterrupt(a, o) \/ RunRespond(a, o)
        \/ RunCloseRefused(a, o) \/ RunClose(a, o) \/ CloseAwaitsItself(a, o) \/ CloseDone(a, o)
  BY DEF Handler
<1>2. PICK kinds : RunsOn(a, o, kinds)
  BY <1>1 DEF FailItem, RunPlain, InitLoaded, InitDone, RegisterTask, CompactCancels,
     RunInterrupt, RunRespond, RunCloseRefused, RunClose, CloseAwaitsItself, CloseDone
<1>3. stage[o] \in Busy /\ owner[o] = a /\ item[a] = o /\ pc[a] = "handling"
  BY <1>2, ItemBusy DEF RunsOn
<1>4. Handled(o)
  BY <1>1, HandlerReturns, HandlerSteps
<1>5. stage'[o] # "handling" \/ InitLoaded(a, o)
  <2>1. \A s : Retire(o, s) => stage'[o] # "handling"
    BY DEF Retire, TypeOK
  <2>2. CASE \/ FailItem(a, o) \/ RunPlain(a, o) \/ InitDone(a, o) \/ RunRespond(a, o)
             \/ RunCloseRefused(a, o) \/ CloseAwaitsItself(a, o) \/ CloseDone(a, o)
    BY <2>1, <2>2 DEF FailItem, RunPlain, InitDone, RunRespond, RespondBody, RunCloseRefused,
         CloseAwaitsItself, CloseDone, Finish
  <2>3. CASE RegisterTask(a, o)
    BY <2>1, <2>3 DEF RegisterTask, Finish, TypeOK
  <2>4. CASE CompactCancels(a, o) \/ RunClose(a, o)
    BY <2>4 DEF CompactCancels, RunClose, TypeOK
  <2>5. CASE RunInterrupt(a, o)
    BY <2>5, BodyEffect DEF RunInterrupt, Finishes
  <2> QED BY <1>1, <2>2, <2>3, <2>4, <2>5
<1> QED BY <1>3, <1>4, <1>5

LEMMA PlacedPosted ==
  ASSUME TypeOK, AllPlaced, NEW a \in Actors, PostStop(a) \/ CloseIdle(a)
  PROVE  AllPlaced'
<1> SUFFICES ASSUME NEW o \in Ops PROVE Placed(o)'
  BY DEF AllPlaced
<1>1. /\ control' = [control EXCEPT ![a] = Append(control[a], Stop)]
      /\ UNCHANGED <<normal, pre, got, item, stage, owner>>
  BY DEF PostStop, CloseIdle
<1>2. control \in [Actors -> Seq(Ops \cup {Stop})] /\ Placed(o)
  BY DEF TypeOK, AllPlaced
<1>3. \A b \in Actors : InMail(o, control[b]) => InMail(o, control'[b])
  BY <1>1, <1>2, MailAppend
<1>4. CASE stage[o] \in InPlaces
  <2>1. owner[o] \in Actors
    BY <1>2, <1>4 DEF Placed
  <2> QED BY <1>1, <1>2, <1>3, <2>1, PlacedKept
<1>5. CASE stage[o] \notin InPlaces
  BY <1>1, <1>5, PlacedGone
<1> QED BY <1>4, <1>5

LEMMA PlacedJoin ==
  ASSUME TypeOK, OnePlace, AllPlaced, NEW a \in Actors, JoinWorker(a)
  PROVE  AllPlaced'
<1> SUFFICES ASSUME NEW o \in Ops PROVE Placed(o)'
  BY DEF AllPlaced
<1>1. /\ pc[a] = "exited" /\ UNCHANGED <<owner, got, item>>
      /\ stage'[o] = IF InQueue(o, a) THEN "dropped" ELSE stage[o]
      /\ \A b \in Actors : b # a => control'[b] = control[b] /\ normal'[b] = normal[b]
                                     /\ pre'[b] = pre[b]
  BY DEF JoinWorker, TypeOK
<1>2. Placed(o) /\ o # NoOp /\ got[a] = NoItems
  BY <1>1, PlacesHere, OpsAssumption DEF AllPlaced, Works
<1>3. CASE InQueue(o, a) \/ stage[o] \notin InPlaces
  <2>1. stage'[o] \notin InPlaces
    BY <1>1, <1>3 DEF InPlaces, Waiting
  <2> QED BY <2>1, PlacedGone
<1>4. CASE ~InQueue(o, a) /\ stage[o] \in InPlaces /\ owner[o] # a
  <2>1. owner[o] \in Actors
    BY <1>2, <1>4 DEF Placed
  <2> QED BY <1>1, <1>2, <1>4, <2>1, PlacedElsewhere
<1>5. CASE ~InQueue(o, a) /\ stage[o] \in InPlaces /\ owner[o] = a
  <2>1. ~InMail(o, control[a]) /\ ~InMail(o, normal[a]) /\ ~InSlots(o, pre[a])
    <3>1. DOMAIN control[a] = 1..Len(control[a]) /\ DOMAIN normal[a] = 1..Len(normal[a])
      BY PlacesHere
    <3> QED BY <1>5, <3>1 DEF InQueue, InMail, InSlots
  <2>2. ~InSlots(o, got[a])
    BY <1>2 DEF InSlots, NoItems
  <2>3. stage[o] = "handling" /\ item[a] = o
    BY <1>2, <1>5, <2>1, <2>2 DEF Placed, PlacedIn, InPlaces, Waiting
  <2>4. stage'[o] = "handling" /\ item'[a] = o /\ owner'[o] = a
    BY <1>1, <1>5, <2>3
  <2> QED BY <2>4 DEF Placed, PlacedIn
<1> QED BY <1>3, <1>4, <1>5

LEMMA PlacedSame ==
  ASSUME TypeOK, AllPlaced, UNCHANGED <<control, normal, pre, got, item, stage, owner>>
  PROVE  AllPlaced'
BY DEF AllPlaced, Placed, PlacedIn, InMail, InSlots

LEMMA PlacedNextStep ==
  ASSUME TypeOK, OnePlace, AllPlaced, [Next]_vars
  PROVE  AllPlaced'
<1>1. ASSUME NEW o \in Ops, NEW a \in Actors, Submit(o, a) \/ SubmitPreemptive(o, a)
      PROVE  AllPlaced'
  <2>1. CASE SubmitPreemptive(o, a)
    <3>1. /\ owner' = [owner EXCEPT ![o] = a]
          /\ InterruptBody(o) \/ RespondBody(o)
          /\ UNCHANGED <<control, normal, pre, got, item>>
      BY <2>1 DEF SubmitPreemptive, Accept
    <3>2. OnlyMoves(o) /\ stage'[o] \in {"finished", "suspended"}
      BY <3>1, BodyEffect DEF Finishes
    <3>3. \A p \in Ops \ {o} : stage'[p] = stage[p] /\ owner'[p] = owner[p]
      BY <3>1, <3>2 DEF TypeOK, OnlyMoves
    <3>4. stage'[o] \notin InPlaces
      BY <3>2 DEF InPlaces, Waiting
    <3> QED BY <3>1, <3>3, <3>4, PlacedMoved
  <2> QED BY <1>1, <2>1, PlacedSubmit
<1>2. ASSUME NEW o \in Ops, EndInterrupt(o) \/ WrapperFinishes(o)
      PROVE  AllPlaced'
  <2>1. CASE WrapperFinishes(o)
    <3>1. /\ Retire(o, "completed") /\ UNCHANGED <<control, normal, pre, got, item, owner>>
      BY <2>1 DEF WrapperFinishes, Finish
    <3>2. /\ \A p \in Ops \ {o} : stage'[p] = stage[p]
          /\ stage'[o] \notin InPlaces
      BY <3>1, RetireEffect DEF OnlyMoves, Finishes, InPlaces, Waiting
    <3> QED BY <3>1, <3>2, PlacedMoved
  <2>2. CASE EndInterrupt(o)
    <3>1. stage'[o] # "handling"
      BY <2>2 DEF EndInterrupt, Finish, Retire, TypeOK
    <3> QED BY <2>2, <3>1, EndInterruptHandled, PlacedHandled
  <2> QED BY <1>2, <2>1, <2>2
<1>3. ASSUME NEW a \in Actors, Worker(a) \/ JoinWorker(a) \/ PostStop(a) \/ CloseIdle(a)
      PROVE  AllPlaced'
  BY <1>3, PlacedWorker, PlacedJoin, PlacedPosted
<1>4. CASE \E a \in Actors : Handler(a)
  <2>1. PICK a \in Actors, o \in Ops : Handled(o) /\ (InitLoaded(a, o) \/ stage'[o] # "handling")
    BY <1>4, HandlerMoves
  <2>2. CASE InitLoaded(a, o)
    BY <2>2, PlacedSame DEF InitLoaded
  <2> QED BY <2>1, <2>2, PlacedHandled
<1>5. CASE Quiet \/ UNCHANGED vars
  BY <1>5, QuietStays, PlacedSame
<1> QED BY <1>1, <1>2, <1>3, <1>4, <1>5, NextCases

LEMMA PlacedHolds == Spec => []AllPlaced
<1>1. Init => AllPlaced
  BY DEF Init, AllPlaced, Placed, InPlaces, Waiting
<1>2. TypeOK /\ OnePlace /\ AllPlaced /\ [Next]_vars => AllPlaced'
  BY PlacedNextStep
<1> QED BY <1>1, <1>2, TypeCorrect, AcceptedOnce, PTL DEF Spec
-----------------------------------------------------------------------------
(* The actor of the session is open, and an actor whose idle clock runs rests *)

CurOpen == phase # "closing" /\ cur # 0 => closing[cur] = "open"

Rested ==
  phase = "up" /\ cur # 0 =>
    /\ idle[cur] # "active" => control[cur] = <<>> /\ normal[cur] = <<>>
    /\ idle[cur] = "expired" =>
         /\ pc[cur] = "waiting" /\ got[cur] = NoItems
         /\ \A o \in Ops : owner[o] = cur => stage[o] # "suspended"

LEMMA OpenSame ==
  ASSUME TypeOK, Generations, CurOpen, CurMoves, UNCHANGED <<closing, phase>>
  PROVE  CurOpen'
<1>1. cur' # 0 /\ cur' # cur => closing[cur'] = "open"
  BY Numbers DEF CurMoves, Generations, Blank
<1> QED BY <1>1 DEF CurOpen

LEMMA OpenNextStep ==
  ASSUME TypeOK, Generations, CurOpen, [Next]_vars
  PROVE  CurOpen'
<1>1. CurMoves
  BY CurNext
<1>2. CASE UNCHANGED <<closing, phase>>
  BY <1>1, <1>2, OpenSame
<1>3. ASSUME NEW a \in Actors, PostStop(a) \/ CloseIdle(a) \/ JoinWorker(a)
      PROVE  CurOpen'
  <2>1. CASE CloseIdle(a)
    BY <2>1 DEF CloseIdle, CurOpen
  <2>2. CASE PostStop(a)
    BY <2>2 DEF PostStop, CurOpen, TypeOK
  <2>3. CASE JoinWorker(a)
    BY <2>3 DEF JoinWorker, CurOpen, TypeOK
  <2> QED BY <1>3, <2>1, <2>2, <2>3
<1>4. ASSUME NEW a \in Actors, Handler(a)
      PROVE  CurOpen'
  <2>1. PICK o \in Ops : \/ RunClose(a, o) \/ CloseAwaitsItself(a, o)
                         \/ UNCHANGED <<closing, phase>>
    BY <1>4 DEF Handler, FailItem, RunPlain, InitLoaded, InitDone, RegisterTask,
       CompactCancels, RunInterrupt, RunRespond, RunCloseRefused, CloseDone
  <2>2. CASE RunClose(a, o)
    BY <2>2 DEF RunClose, CurOpen
  <2>3. CASE CloseAwaitsItself(a, o)
    BY <2>3 DEF CloseAwaitsItself, CurOpen, TypeOK
  <2> QED BY <1>2, <2>1, <2>2, <2>3
<1>5. CASE \E a \in Actors : Worker(a)
  BY <1>2, <1>5, WorkerFrame
<1>6. CASE \E o \in Ops : \/ EndInterrupt(o) \/ WrapperFinishes(o)
                         \/ \E a \in Actors : Submit(o, a) \/ SubmitPreemptive(o, a)
  BY <1>2, <1>6 DEF EndInterrupt, WrapperFinishes, Submit, SubmitPreemptive
<1>7. CASE FacadeStops \/ RegistryStops
  BY <1>7 DEF FacadeStops, RegistryStops, CurOpen
<1>8. CASE RegistryStopsActor
  BY <1>8 DEF RegistryStopsActor, CurOpen
<1>9. CASE Quiet /\ ~FacadeStops /\ ~RegistryStops /\ ~RegistryStopsActor
  BY <1>2, <1>9 DEF Quiet, TaskStarts, TaskDies, TaskResumes, TaskEnds, TaskAsks,
       InteractionCancelled, ObserveIdle, TTLPasses
<1> QED BY <1>2, <1>3, <1>4, <1>5, <1>6, <1>7, <1>8, <1>9, NextCases

\* How the idle clock of an actor may move in a step.
IdleMoves(a) ==
  \/ idle'[a] = idle[a] \/ idle'[a] = "active"
  \/ idle'[a] = "fresh" /\ control'[a] = <<>> /\ normal'[a] = <<>>

LEMMA RefreshMoves ==
  ASSUME TypeOK, NEW S, RefreshIdle(S), NEW a \in Actors
  PROVE  IdleMoves(a)
BY DEF RefreshIdle, IsIdle, IdleMoves

LEMMA RestActive ==
  ASSUME cur' = 0 \/ phase' # "up" \/ idle'[cur'] = "active"
  PROVE  Rested'
BY DEF Rested

\* An expired actor does not stir: its worker waits on, nothing is suspended.
SleepsOn ==
  cur # 0 /\ phase = "up" /\ idle[cur] = "expired" =>
    /\ pc'[cur] = pc[cur] /\ got'[cur] = got[cur]
    /\ \A o \in Ops : owner'[o] = cur /\ stage'[o] = "suspended"
                     => owner[o] = cur /\ stage[o] = "suspended"

LEMMA RestKept ==
  ASSUME TypeOK, Rested, UNCHANGED <<cur, phase>>, cur # 0 => IdleMoves(cur),
         UNCHANGED <<control, normal>>, SleepsOn
  PROVE  Rested'
<1> SUFFICES ASSUME phase = "up", cur # 0
             PROVE  /\ idle'[cur] # "active" => control'[cur] = <<>> /\ normal'[cur] = <<>>
                    /\ idle'[cur] = "expired" =>
                         /\ pc'[cur] = "waiting" /\ got'[cur] = NoItems
                         /\ \A o \in Ops : owner'[o] = cur => stage'[o] # "suspended"
  BY DEF Rested
<1>1. idle'[cur] # "active" => control'[cur] = <<>> /\ normal'[cur] = <<>>
  BY DEF Rested, IdleMoves
<1>2. idle'[cur] = "expired" => idle[cur] = "expired"
  BY DEF IdleMoves
<1> QED BY <1>1, <1>2 DEF Rested, SleepsOn

\* Nothing but idle clocks and what the actors' tasks hold changes.
LEMMA RestSame ==
  ASSUME TypeOK, Rested, UNCHANGED <<cur, phase, control, normal, pc, got, owner, stage>>,
         \A a \in Actors : IdleMoves(a)
  PROVE  Rested'
<1>1. SleepsOn
  BY DEF SleepsOn
<1> QED BY <1>1, ActorsAreNumbers, RestKept DEF TypeOK

LEMMA RestWorker ==
  ASSUME TypeOK, OnePlace, Rested, NEW a \in Actors, Worker(a)
  PROVE  Rested'
<1> SUFFICES ASSUME phase = "up", cur # 0 PROVE Rested'
  BY WorkerFrame DEF Rested
<1>1. UNCHANGED <<cur, phase, owner>> /\ cur \in Actors
  BY WorkerFrame, ActorsAreNumbers DEF TypeOK
<1>2. \A b \in Actors : IdleMoves(b)
  <2>1. CASE ArmGetters(a) \/ GetterTakesControl(a) \/ GetterTakesNormal(a)
    BY <2>1 DEF ArmGetters, GetterTakesControl, GetterTakesNormal, IdleMoves
  <2>2. CASE ~ArmGetters(a) /\ ~GetterTakesControl(a) /\ ~GetterTakesNormal(a)
    <3>1. PICK x \in Items : Begin(a, x)
      BY <2>2, WorkerBegins
    <3>2. UNCHANGED idle \/ \E S : RefreshIdle(S)
      BY <3>1 DEF Begin
    <3> QED BY <3>2, RefreshMoves DEF IdleMoves
  <2> QED BY <2>1, <2>2
<1>3. CASE cur # a
  <2>1. /\ control'[cur] = control[cur] /\ normal'[cur] = normal[cur]
        /\ got'[cur] = got[cur] /\ pc'[cur] = pc[cur]
    BY <1>1, <1>3, WorkerElsewhere
  <2>2. \A o \in Ops : owner[o] = cur => stage'[o] = stage[o]
    BY <1>3, WorkerElsewhere
  <2> QED BY <1>1, <1>2, <2>1, <2>2 DEF Rested, IdleMoves
<1>4. CASE cur = a
  <2>1. idle[a] # "expired"
    <3> SUFFICES ASSUME idle[a] = "expired" PROVE FALSE
      OBVIOUS
    <3>1. /\ pc[a] = "waiting" /\ got[a].control = NoOp /\ got[a].normal = NoOp
          /\ control[a] = <<>> /\ normal[a] = <<>>
      BY <1>4 DEF Rested, NoItems
    <3> QED BY <3>1 DEF Worker, TakeNormal, TakeControl, ArmGetters, GetterTakesControl,
            GetterTakesNormal, ResumeWithOne, ResumeWithBoth
  <2>2. /\ control[a] = <<>> => control'[a] = <<>>
        /\ normal[a] = <<>> => normal'[a] = <<>>
    BY DEF Worker, TakeNormal, TakeControl, ArmGetters, GetterTakesControl, NormalAvailable,
           ControlAvailable, GetterTakesNormal, ResumeWithOne, ResumeWithBoth, TypeOK
  <2> QED BY <1>1, <1>2, <1>4, <2>1, <2>2 DEF Rested, IdleMoves
<1> QED BY <1>3, <1>4

\* A handler returns or is suspended: not on an actor that rests.
LEMMA RestHandler ==
  ASSUME TypeOK, OnePlace, Generations, Rested, NEW a \in Actors, Handler(a)
  PROVE  Rested'
<1>1. PICK o \in Ops :
        \/ FailItem(a, o) \/ RunPlain(a, o) \/ InitLoaded(a, o) \/ InitDone(a, o)
        \/ RegisterTask(a, o) \/ CompactCancels(a, o) \/ RunInterrupt(a, o) \/ RunRespond(a, o)
        \/ RunCloseRefused(a, o) \/ RunClose(a, o) \/ CloseAwaitsItself(a, o) \/ CloseDone(a, o)
  BY DEF Handler
<1>2. phase' = phase
  BY <1>1 DEF FailItem, RunPlain, InitLoaded, InitDone, RegisterTask, CompactCancels,
     RunInterrupt, RunRespond, RunCloseRefused, RunClose, CloseAwaitsItself, CloseDone
<1>3. CASE RunClose(a, o)
  BY <1>3, RestActive DEF RunClose
<1>4. CASE InitLoaded(a, o)
  <2>1. PICK b \in Actors : EnsureActor(b)
    BY <1>4 DEF InitLoaded
  <2>2. UNCHANGED <<control, normal, pc, got, owner, stage, idle>>
    BY <1>4 DEF InitLoaded
  <2>3. CASE cur' = cur
    BY <1>2, <2>2, <2>3, RestSame DEF IdleMoves
  <2>4. CASE cur' # cur
    <3>1. cur' = b /\ b > made /\ Blank(b)
      <4>1. cur' = b /\ b > made
        BY <2>1, <2>4, EnsureEffect
      <4> QED BY <4>1 DEF Generations
    <3> QED BY <2>2, <3>1 DEF Rested, Blank
  <2> QED BY <2>3, <2>4
<1>5. CASE \/ FailItem(a, o) \/ RunPlain(a, o) \/ InitDone(a, o)
           \/ RegisterTask(a, o) \/ CompactCancels(a, o) \/ RunInterrupt(a, o)
           \/ RunRespond(a, o) \/ RunCloseRefused(a, o) \/ CloseAwaitsItself(a, o)
           \/ CloseDone(a, o)
  <2>1. cur' = cur
    BY <1>5 DEF FailItem, RunPlain, InitDone, RegisterTask, CompactCancels,
       RunInterrupt, RunRespond, RunCloseRefused, CloseAwaitsItself, CloseDone
  <2>2. stage[o] \in Busy /\ owner[o] = a /\ item[a] = o /\ pc[a] = "handling"
    <3>1. PICK kinds : RunsOn(a, o, kinds)
      BY <1>1 DEF FailItem, RunPlain, InitLoaded, InitDone, RegisterTask, CompactCancels,
         RunInterrupt, RunRespond, RunCloseRefused, RunClose, CloseAwaitsItself, CloseDone
    <3> QED BY <3>1, ItemBusy DEF RunsOn
  <2>3. Handled(o)
    BY <1>5, HandlerReturns, HandlerSteps
  <2>4. SleepsOn
    <3> SUFFICES ASSUME cur # 0, phase = "up", idle[cur] = "expired"
                 PROVE  /\ pc'[cur] = pc[cur] /\ got'[cur] = got[cur]
                        /\ \A p \in Ops : owner'[p] = cur /\ stage'[p] = "suspended"
                                         => owner[p] = cur /\ stage[p] = "suspended"
      BY DEF SleepsOn
    <3>1. pc[cur] = "waiting" /\ cur \in Actors /\ cur # a
      BY <2>2, ActorsAreNumbers DEF Rested, TypeOK
    <3>2. item[cur] # o
      BY <3>1, PlacesHere, OpsAssumption DEF Works
    <3>3. pc'[cur] = pc[cur]
      BY <2>3, <3>1, <3>2 DEF Handled, Release
    <3>4. \A p \in Ops : owner[p] = cur => stage'[p] = stage[p]
      BY <2>2, <2>3, <3>1 DEF Handled, OnlyMoves
    <3> QED BY <2>3, <3>3, <3>4 DEF Handled
  <2>5. \A b \in Actors : IdleMoves(b)
    <3>1. CASE InitDone(a, o)
      BY <3>1 DEF InitDone, IdleMoves, IsIdle
    <3>2. CASE RegisterTask(a, o)
      BY <3>2 DEF RegisterTask, IdleMoves, TypeOK
    <3>3. CASE ~InitDone(a, o) /\ ~RegisterTask(a, o)
      <4>1. UNCHANGED idle \/ \E S : RefreshIdle(S)
        BY <1>5, <3>3 DEF FailItem, RunPlain, CompactCancels, RunInterrupt, RunRespond,
           RunCloseRefused, CloseAwaitsItself, CloseDone
      <4> QED BY <4>1, RefreshMoves DEF IdleMoves
    <3> QED BY <3>1, <3>2, <3>3
  <2> QED BY <1>2, <2>1, <2>3, <2>4, <2>5, ActorsAreNumbers, RestKept DEF Handled, TypeOK
<1> QED BY <1>1, <1>3, <1>4, <1>5

LEMMA RestQuiet ==
  ASSUME TypeOK, Generations, Rested, Quiet
  PROVE  Rested'
<1>1. UNCHANGED <<control, normal, pc, got, stage, owner>>
  BY QuietStays
<1>2. ASSUME NEW o \in Ops,
             \/ TaskStarts(o) \/ TaskDies(o) \/ TaskResumes(o) \/ TaskEnds(o)
             \/ \E a \in Actors : InteractionCancelled(o, a)
      PROVE  Rested'
  <2>1. UNCHANGED <<cur, phase>> /\ (UNCHANGED idle \/ \E S : RefreshIdle(S))
    BY <1>2 DEF TaskStarts, TaskDies, TaskResumes, TaskEnds, InteractionCancelled
  <2>2. \A a \in Actors : IdleMoves(a)
    BY <2>1, RefreshMoves DEF IdleMoves
  <2> QED BY <1>1, <2>1, <2>2, RestSame
<1>3. ASSUME NEW o \in Ops, NEW a \in Actors, TaskAsks(o, a)
      PROVE  Rested'
  <2>1. idle' = [idle EXCEPT ![a] = "active"] /\ cur' = a
    BY <1>3 DEF TaskAsks, EnsureActor
  <2> QED BY <2>1, RestActive DEF TypeOK
<1>4. ASSUME NEW a \in Actors, ObserveIdle(a)
      PROVE  Rested'
  <2>1. UNCHANGED <<cur, phase>> /\ \A b \in Actors : IdleMoves(b)
    BY <1>4 DEF ObserveIdle, IsIdle, IdleMoves, TypeOK
  <2> QED BY <1>1, <2>1, RestSame
<1>5. ASSUME NEW a \in Actors, TTLPasses(a)
      PROVE  Rested'
  <2>1. /\ UNCHANGED <<cur, phase>> /\ idle[a] = "fresh" /\ idle' = [idle EXCEPT ![a] = "expired"]
        /\ pc[a] = "waiting" /\ got[a] = NoItems
        /\ \A o \in Ops : owner[o] = a => stage[o] # "suspended"
    BY <1>5 DEF TTLPasses, NoItems
  <2>2. \A b \in Actors : idle'[b] = IF b = a THEN "expired" ELSE idle[b]
    BY <2>1 DEF TypeOK
  <2>3. cur # 0 => cur \in Actors
    BY ActorsAreNumbers DEF TypeOK
  <2> QED BY <1>1, <2>1, <2>2, <2>3 DEF Rested
<1>6. CASE FacadeStops \/ RegistryStops \/ RegistryStopsActor
  BY <1>6, RestActive DEF FacadeStops, RegistryStops, RegistryStopsActor
<1> QED BY <1>2, <1>3, <1>4, <1>5, <1>6 DEF Quiet

LEMMA RestNextStep ==
  ASSUME TypeOK, OnePlace, Generations, CurOpen, Rested, [Next]_vars
  PROVE  Rested'
<1>1. ASSUME NEW o \in Ops, NEW a \in Actors, Submit(o, a) \/ SubmitPreemptive(o, a)
      PROVE  Rested'
  <2>1. idle' = [idle EXCEPT ![a] = "active"] /\ cur' = a
    BY <1>1 DEF Submit, SubmitPreemptive, Accept, EnsureActor
  <2> QED BY <2>1, RestActive DEF TypeOK
<1>2. ASSUME NEW o \in Ops, EndInterrupt(o) \/ WrapperFinishes(o)
      PROVE  Rested'
  <2>1. /\ UNCHANGED <<cur, phase, control, normal, got, owner>> /\ \E S : RefreshIdle(S)
        /\ \A p \in Ops : stage'[p] = "suspended" => stage[p] = "suspended"
    BY <1>2 DEF EndInterrupt, WrapperFinishes, Finish, Retire, TypeOK
  <2>2. UNCHANGED pc \/ Release(o)
    BY <1>2 DEF EndInterrupt, WrapperFinishes
  <2>3. SleepsOn
    <3> SUFFICES ASSUME cur # 0, phase = "up", idle[cur] = "expired"
                 PROVE  pc'[cur] = pc[cur]
      BY <2>1 DEF SleepsOn
    <3>1. pc[cur] = "waiting" /\ cur \in Actors
      BY ActorsAreNumbers DEF Rested, TypeOK
    <3>2. item[cur] # o
      BY <3>1, PlacesHere, OpsAssumption DEF Works
    <3> QED BY <2>2, <3>1, <3>2 DEF Release
  <2>4. cur # 0 => IdleMoves(cur)
    BY <2>1, RefreshMoves, ActorsAreNumbers DEF TypeOK
  <2> QED BY <2>1, <2>3, <2>4, RestKept
<1>3. ASSUME NEW a \in Actors, PostStop(a) \/ JoinWorker(a)
      PROVE  Rested'
  <2> SUFFICES ASSUME phase' = "up", cur' # 0 PROVE Rested'
    BY DEF Rested
  <2>1. phase = "up" /\ cur' = cur /\ UNCHANGED <<pc, got, owner>>
    BY <1>3 DEF PostStop, JoinWorker
  <2>2. a # cur /\ cur \in Actors
    BY <1>3, <2>1, ActorsAreNumbers DEF PostStop, JoinWorker, CurOpen, TypeOK
  <2>3. control'[cur] = control[cur] /\ normal'[cur] = normal[cur]
    BY <1>3, <2>2 DEF PostStop, JoinWorker, TypeOK
  <2>4. \A p \in Ops : stage'[p] = "suspended" => stage[p] = "suspended"
    BY <1>3 DEF PostStop, JoinWorker
  <2>5. IdleMoves(cur)
    BY <1>3, <2>2, RefreshMoves DEF PostStop, JoinWorker, IdleMoves
  <2> QED BY <2>1, <2>2, <2>3, <2>4, <2>5 DEF Rested, IdleMoves
<1>4. ASSUME NEW a \in Actors, CloseIdle(a)
      PROVE  Rested'
  BY <1>4, RestActive DEF CloseIdle
<1>5. CASE UNCHANGED vars
  BY <1>5, RestSame DEF IdleMoves
<1> QED BY <1>1, <1>2, <1>3, <1>4, <1>5, RestWorker, RestHandler, RestQuiet, NextCases

ReclaimInv == AllPlaced /\ CurOpen /\ Rested

LEMMA ReclaimHolds == Spec => [](ReclaimInv)
<1>1. Init => CurOpen /\ Rested
  BY DEF Init, CurOpen, Rested
<1>2. TypeOK /\ OnePlace /\ Generations /\ CurOpen /\ Rested /\ [Next]_vars => CurOpen' /\ Rested'
  BY OpenNextStep, RestNextStep
<1>3. AllPlaced /\ CurOpen /\ Rested => ReclaimInv
  BY DEF ReclaimInv
<1> QED BY <1>1, <1>2, <1>3, TypeCorrect, AcceptedOnce, GenerationsHold, PlacedHolds, PTL DEF Spec
-----------------------------------------------------------------------------
(* ReclaimSparesWork *)

NewIsUnowned == \A o \in Ops : stage[o] = "new" => owner[o] = 0

LEMMA UnownedNextStep ==
  ASSUME TypeOK, OnePlace, NewIsUnowned, [Next]_vars
  PROVE  NewIsUnowned'
<1>1. CASE owner' = owner /\ \A o \in Ops : stage'[o] = "new" => stage[o] = "new"
  BY <1>1 DEF NewIsUnowned
<1>2. ASSUME NEW o \in Ops, NEW a \in Actors, Submit(o, a) \/ SubmitPreemptive(o, a)
      PROVE  NewIsUnowned'
  <2>1. owner' = [owner EXCEPT ![o] = a] /\ stage'[o] # "new"
        /\ \A p \in Ops \ {o} : stage'[p] = stage[p]
    <3>1. CASE Submit(o, a)
      BY <3>1 DEF Submit, Accept, TypeOK
    <3>2. CASE SubmitPreemptive(o, a)
      <4>1. /\ owner' = [owner EXCEPT ![o] = a]
            /\ InterruptBody(o) \/ RespondBody(o)
        BY <3>2 DEF SubmitPreemptive, Accept
      <4> QED BY <4>1, BodyEffect DEF OnlyMoves, Finishes
    <3> QED BY <1>2, <3>1, <3>2
  <2> QED BY <2>1 DEF NewIsUnowned, TypeOK
<1>3. ASSUME NEW o \in Ops, EndInterrupt(o) \/ WrapperFinishes(o)
      PROVE  NewIsUnowned'
  BY <1>1, <1>3 DEF EndInterrupt, WrapperFinishes, Finish, Retire, TypeOK
<1>4. ASSUME NEW a \in Actors, Worker(a)
      PROVE  NewIsUnowned'
  <2>1. owner' = owner
    BY <1>4, WorkerFrame
  <2>2. ASSUME NEW x, Begin(a, x)
        PROVE  \A o \in Ops : stage'[o] = "new" => stage[o] = "new"
    BY <2>2 DEF Begin, Finish, Retire, TypeOK
  <2> QED BY <1>1, <1>4, <2>1, <2>2, WorkerEffect
<1>5. ASSUME NEW a \in Actors, Handler(a)
      PROVE  NewIsUnowned'
  <2>1. PICK o \in Ops : Handled(o)
    BY <1>5, HandlerHandles
  <2> QED BY <1>1, <2>1 DEF Handled, OnlyMoves, Finishes, GoesOn, Busy
<1>6. ASSUME NEW a \in Actors, PostStop(a) \/ CloseIdle(a) \/ JoinWorker(a)
      PROVE  NewIsUnowned'
  BY <1>1, <1>6 DEF PostStop, CloseIdle, JoinWorker
<1>7. CASE Quiet \/ UNCHANGED vars
  BY <1>1, <1>7, QuietStays
<1> QED BY <1>2, <1>3, <1>4, <1>5, <1>6, <1>7, NextCases

LEMMA UnownedHolds == Spec => []NewIsUnowned
<1>1. Init => NewIsUnowned
  BY DEF Init, NewIsUnowned
<1>2. TypeOK /\ OnePlace /\ NewIsUnowned /\ [Next]_vars => NewIsUnowned'
  BY UnownedNextStep
<1> QED BY <1>1, <1>2, TypeCorrect, AcceptedOnce, PTL DEF Spec

\* When the reaper closes the actor nothing it accepted is on its way.
LEMMA ReclaimedIsDone ==
  ASSUME TypeOK, OnePlace, ReclaimInv, NewIsUnowned, Reclaim, NEW o \in Ops, owner[o] = cur
  PROVE  stage[o] \in {"background", "finished", "dropped"}
<1>1. PICK a \in Actors : idle[a] = "expired" /\ phase = "up" /\ a = cur /\ IsIdle(a)
  BY DEF Reclaim, CloseIdle
<1>2. /\ cur \in Actors /\ cur # 0 /\ o # NoOp
      /\ control[cur] = <<>> /\ normal[cur] = <<>> /\ pre[cur] = NoItems
      /\ got[cur] = NoItems /\ pc[cur] = "waiting" /\ stage[o] # "suspended"
  BY <1>1, ActorsAreNumbers, OpsAssumption DEF IsIdle, NoItems, ReclaimInv, Rested
<1>3. stage[o] # "new"
  BY <1>2 DEF NewIsUnowned
<1>4. ~InMail(o, control[cur]) /\ ~InMail(o, normal[cur])
  <2>1. Len(<<>>) = 0
    OBVIOUS
  <2> QED BY <1>2, <2>1 DEF InMail
<1>5. ~InSlots(o, pre[cur]) /\ ~InSlots(o, got[cur])
  BY <1>2 DEF InSlots, NoItems
<1>6. item[cur] # o
  BY <1>2, PlacesHere DEF Works
<1>7. stage[o] \notin InPlaces
  BY <1>4, <1>5, <1>6 DEF ReclaimInv, AllPlaced, Placed, PlacedIn, InPlaces, Waiting
<1>8. stage[o] \in Stages
  BY DEF TypeOK
<1> QED BY <1>2, <1>3, <1>7, <1>8 DEF Stages, InPlaces, Waiting

\* The reaper never takes a session from under work in progress: an actor whose
\* idle time reached the limit has nothing queued, prefetched or being handled.
THEOREM ReclaimIsSafe == Spec => ReclaimSparesWork
<1>1. TypeOK /\ OnePlace /\ ReclaimInv /\ NewIsUnowned /\ [Next]_vars =>
        [Reclaim => \A o \in Ops :
           owner[o] = cur => stage[o] \in {"background", "finished", "dropped"}]_vars
  BY ReclaimedIsDone
<1> QED BY <1>1, TypeCorrect, AcceptedOnce, ReclaimHolds, UnownedHolds,
           PTL DEF Spec, ReclaimSparesWork
=============================================================================
