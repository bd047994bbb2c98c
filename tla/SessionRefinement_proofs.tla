----------------------- MODULE SessionRefinement_proofs -----------------------
(* SessionRuntime implements SessionContract (KeepsContract): every step of   *)
(* the runtime is a step of the contract or leaves its view alone.            *)
EXTENDS SessionRefinement, SessionSlots_proofs, SequenceTheorems

USE DEF vars, registryVars, queueVars, workerVars, actorVars, opVars, stopVars

-----------------------------------------------------------------------------
(* What the view needs of the actors: a STOP is the last item of its mailbox, *)
(* posted once by a stop() that is past its first wait; the one generation    *)
(* that is open is the current one.                                           *)

StopLast(a) ==
  \A i \in 1..Len(control[a]) :
    control[a][i] = Stop => i = Len(control[a]) /\ closing[a] \notin {"open", "cancelling"}

OpenIsCur(a) == a <= made /\ closing[a] = "open" => a = cur

ShutdownAllowed == AllowStop \/ phase = "up"

MailInv == (\A a \in Actors : StopLast(a) /\ OpenIsCur(a)) /\ ShutdownAllowed

\* A mailbox whose actor is not further open than before may lose its head ...
LEMMA StopLastTail ==
  ASSUME TypeOK, NEW a \in Actors, StopLast(a), control[a] # <<>>,
         control'[a] = Tail(control[a]), closing'[a] = closing[a]
  PROVE  StopLast(a)'
<1> DEFINE q == control[a]
           r == Tail(q)
<1>1. q \in Seq(Ops \cup {Stop}) /\ q # <<>>
  BY DEF TypeOK
<1>2. /\ Len(q) \in Nat \ {0} /\ Len(r) = Len(q) - 1
      /\ \A i \in 1..Len(r) : r[i] = q[i + 1] /\ i + 1 \in 1..Len(q)
  BY <1>1
<1> HIDE DEF q, r
<1>3. \A i \in 1..Len(q) : q[i] = Stop => i = Len(q) /\ closing[a] \notin {"open", "cancelling"}
  BY DEF StopLast, q
<1>4. ASSUME NEW i \in 1..Len(r), r[i] = Stop
      PROVE  i = Len(r) /\ closing[a] \notin {"open", "cancelling"}
  <2>1. i + 1 \in 1..Len(q) /\ q[i + 1] = Stop
    BY <1>2, <1>4
  <2>2. i + 1 = Len(q) /\ closing[a] \notin {"open", "cancelling"}
    BY <1>3, <2>1
  <2> QED BY <1>2, <2>2
<1>5. control'[a] = r
  BY DEF q, r
<1> QED BY <1>4, <1>5 DEF StopLast

\* ... or get an operation or a STOP if it holds no STOP.
LEMMA StopLastAppend ==
  ASSUME TypeOK, NEW a \in Actors, NEW x \in Ops \cup {Stop},
         \A i \in 1..Len(control[a]) : control[a][i] # Stop,
         control'[a] = Append(control[a], x),
         x = Stop => closing'[a] \notin {"open", "cancelling"}
  PROVE  StopLast(a)'
<1> DEFINE q == control[a]
           r == Append(q, x)
<1>1. q \in Seq(Ops \cup {Stop})
  BY DEF TypeOK
<1>2. /\ Len(q) \in Nat /\ Len(r) = Len(q) + 1 /\ r[Len(q) + 1] = x
      /\ \A i \in 1..Len(q) : r[i] = q[i]
  BY <1>1
<1> HIDE DEF q, r
<1>3. \A i \in 1..Len(q) : q[i] # Stop
  BY DEF q
<1>4. ASSUME NEW i \in 1..Len(r), r[i] = Stop
      PROVE  i = Len(r) /\ x = Stop
  <2>1. i \in 1..Len(q) \/ i = Len(q) + 1
    BY <1>2
  <2> QED BY <1>2, <1>3, <1>4, <2>1
<1>5. control'[a] = r
  BY DEF q, r
<1> QED BY <1>4, <1>5 DEF StopLast

\* An actor that is open or in its first wait holds no STOP.
LEMMA NoStopYet ==
  ASSUME NEW a \in Actors, StopLast(a), closing[a] \in {"open", "cancelling"}
  PROVE  \A i \in 1..Len(control[a]) : control[a][i] # Stop
BY DEF StopLast

LEMMA StopLastSame ==
  ASSUME NEW a \in Actors, StopLast(a), control'[a] = control[a],
         closing'[a] \in {"open", "cancelling"} => closing[a] \in {"open", "cancelling"}
  PROVE  StopLast(a)'
BY DEF StopLast

\* The actor that accepts an operation is open.
LEMMA OpenHere ==
  ASSUME TypeOK, Generations, CurOpen, phase = "up", NEW a \in Actors, EnsureActor(a)
  PROVE  closing[a] = "open"
<1>1. cur # 0 => a = cur
  BY DEF EnsureActor
<1>2. cur = 0 => a = made + 1 /\ made \in Nat
  BY Numbers DEF EnsureActor
<1>3. cur = 0 => a > made
  BY <1>2
<1> QED BY <1>1, <1>3 DEF CurOpen, Generations, Blank

LEMMA EnsureOpen ==
  ASSUME TypeOK, Generations, MailInv, NEW a \in Actors, EnsureActor(a),
         NEW b \in Actors, closing'[b] = closing[b]
  PROVE  OpenIsCur(b)'
<1>1. OpenIsCur(b) /\ b \in Nat \ {0} /\ made \in Nat
  BY Numbers DEF MailInv
<1>2. CASE cur # 0
  BY <1>1, <1>2 DEF EnsureActor, OpenIsCur
<1>3. CASE cur = 0
  <2>1. cur' = made + 1 /\ made' = made + 1
    BY <1>3 DEF EnsureActor
  <2>2. b <= made => closing[b] # "open"
    BY <1>1, <1>3 DEF OpenIsCur
  <2>3. b <= made + 1 /\ ~(b <= made) => b = made + 1
    BY <1>1
  <2> QED BY <2>1, <2>2, <2>3 DEF OpenIsCur
<1> QED BY <1>2, <1>3

LEMMA OpenIsCurSame ==
  ASSUME NEW b \in Actors, OpenIsCur(b), made' = made,
         closing'[b] = "open" => closing[b] = "open" /\ cur' = cur
  PROVE  OpenIsCur(b)'
BY DEF OpenIsCur

\* Steps that touch no mailbox and no stop().
LEMMA MailSame ==
  ASSUME TypeOK, Generations, MailInv, UNCHANGED <<control, closing, phase>>,
         UNCHANGED <<cur, made>> \/ \E a \in Actors : EnsureActor(a)
  PROVE  MailInv'
<1> SUFFICES ASSUME NEW b \in Actors PROVE StopLast(b)' /\ OpenIsCur(b)'
  BY DEF MailInv, ShutdownAllowed
<1>1. StopLast(b) /\ OpenIsCur(b)
  BY DEF MailInv
<1>2. OpenIsCur(b)'
  BY <1>1, EnsureOpen, OpenIsCurSame
<1> QED BY <1>1, <1>2, StopLastSame

\* stop() of the open current actor begins.
LEMMA MailStops ==
  ASSUME TypeOK, MailInv, NEW a \in Actors, closing[a] = "open",
         closing' = [closing EXCEPT ![a] = "cancelling"],
         UNCHANGED <<control, made>>, cur' \in {cur, 0}, a = cur
  PROVE  \A b \in Actors : StopLast(b)' /\ OpenIsCur(b)'
<1> SUFFICES ASSUME NEW b \in Actors PROVE StopLast(b)' /\ OpenIsCur(b)'
  OBVIOUS
<1>1. StopLast(b) /\ OpenIsCur(b)
  BY DEF MailInv
<1>2. closing'[a] = "cancelling" /\ (b # a => closing'[b] = closing[b])
  BY DEF TypeOK
<1>3. StopLast(b)'
  BY <1>1, <1>2, StopLastSame
<1>4. closing'[b] = "open" => closing[b] = "open" /\ b # cur
  BY <1>2
<1>5. OpenIsCur(b)'
  BY <1>1, <1>4 DEF OpenIsCur
<1> QED BY <1>3, <1>5

LEMMA MailSubmit ==
  ASSUME TypeOK, Generations, CurOpen, MailInv, NEW o \in Ops, NEW a \in Actors, Submit(o, a)
  PROVE  MailInv'
<1>1. /\ phase = "up" /\ EnsureActor(a) /\ UNCHANGED <<closing, phase>>
      /\ control' = [control EXCEPT ![a] = Append(control[a], o)] \/ control' = control
  BY DEF Submit, Accept
<1>2. o # Stop
  BY OpsAssumption
<1>3. ShutdownAllowed'
  BY <1>1 DEF ShutdownAllowed
<1>4. ASSUME NEW b \in Actors PROVE StopLast(b)' /\ OpenIsCur(b)'
  <2>1. StopLast(b) /\ closing'[b] = closing[b]
    BY <1>1 DEF MailInv
  <2>2. OpenIsCur(b)'
    BY <1>1, <2>1, EnsureOpen
  <2>3. CASE control'[b] = control[b]
    BY <2>1, <2>2, <2>3, StopLastSame
  <2>4. CASE b = a /\ control'[b] = Append(control[b], o)
    <3>1. \A i \in 1..Len(control[b]) : control[b][i] # Stop
      BY <1>1, <2>1, <2>4, OpenHere, NoStopYet
    <3> QED BY <1>2, <2>2, <2>4, <3>1, StopLastAppend
  <2> QED BY <1>1, <2>3, <2>4 DEF TypeOK
<1> QED BY <1>3, <1>4 DEF MailInv

LEMMA MailWorker ==
  ASSUME TypeOK, OnePlace, MailInv, NEW a \in Actors, Worker(a)
  PROVE  MailInv'
<1>1. UNCHANGED <<cur, made, closing, phase>>
  BY WorkerFrame
<1>2. control' = control \/ (control' = [control EXCEPT ![a] = Tail(control[a])] /\ control[a] # <<>>)
  BY Zenon DEF Worker, TakeNormal, TakeControl, ArmGetters, GetterTakesControl,
         GetterTakesNormal, ResumeWithOne, ResumeWithBoth, ControlAvailable
<1>3. ASSUME NEW b \in Actors PROVE StopLast(b)' /\ OpenIsCur(b)'
  <2>1. StopLast(b) /\ OpenIsCur(b) /\ closing'[b] = closing[b]
    BY <1>1 DEF MailInv
  <2>2. OpenIsCur(b)'
    BY <1>1, <2>1, OpenIsCurSame
  <2>3. CASE control'[b] = control[b]
    BY <2>1, <2>2, <2>3, StopLastSame
  <2>4. CASE control'[b] = Tail(control[b]) /\ control[b] # <<>>
    BY <2>1, <2>2, <2>4, StopLastTail
  <2> QED BY <1>2, <2>3, <2>4 DEF TypeOK
<1> QED BY <1>1, <1>3 DEF MailInv, ShutdownAllowed

LEMMA MailHandler ==
  ASSUME TypeOK, Generations, CurOpen, MailInv, NEW a \in Actors, Handler(a)
  PROVE  MailInv'
<1>1. PICK o \in Ops : \/ RunClose(a, o) \/ CloseAwaitsItself(a, o)
                       \/ /\ UNCHANGED <<control, closing, phase>>
                          /\ UNCHANGED <<cur, made>> \/ \E b \in Actors : EnsureActor(b)
  BY DEF Handler, FailItem, RunPlain, InitLoaded, InitDone, RegisterTask,
     CompactCancels, RunInterrupt, RunRespond, RunCloseRefused, CloseDone
<1>2. CASE RunClose(a, o)
  <2>1. /\ UNCHANGED <<control, made, phase>> /\ cur' = 0 /\ cur # 0
        /\ closing' = [closing EXCEPT ![cur] = "cancelling"] /\ Kind[o] = "close"
    BY <1>2 DEF RunClose, StopBody, RunsOn
  <2>2. phase = "up"
    BY <2>1, StopAssumption DEF MailInv, ShutdownAllowed
  <2>3. cur \in Actors /\ closing[cur] = "open"
    BY <2>1, <2>2, ActorsAreNumbers DEF CurOpen, TypeOK
  <2>4. \A b \in Actors : StopLast(b)' /\ OpenIsCur(b)'
    BY <2>1, <2>3, MailStops
  <2> QED BY <2>1, <2>4 DEF MailInv, ShutdownAllowed
<1>3. CASE CloseAwaitsItself(a, o)
  <2>1. /\ UNCHANGED <<control, made, phase, cur>> /\ closing[a] = "joining"
        /\ closing' = [closing EXCEPT ![a] = "abandoned"]
    BY <1>3 DEF CloseAwaitsItself
  <2>2. ASSUME NEW b \in Actors PROVE StopLast(b)' /\ OpenIsCur(b)'
    <3>1. StopLast(b) /\ OpenIsCur(b)
      BY DEF MailInv
    <3>2. closing'[b] = closing[b] \/ (closing'[b] = "abandoned")
      BY <2>1 DEF TypeOK
    <3> QED BY <2>1, <3>1, <3>2, StopLastSame, OpenIsCurSame
  <2> QED BY <2>1, <2>2 DEF MailInv, ShutdownAllowed
<1> QED BY <1>1, <1>2, <1>3, MailSame

LEMMA MailClosing ==
  ASSUME TypeOK, MailInv, NEW a \in Actors, PostStop(a) \/ CloseIdle(a) \/ JoinWorker(a)
  PROVE  MailInv'
<1>1. UNCHANGED made /\ (phase' = phase \/ (JoinWorker(a) /\ phase = "closing"))
  BY DEF PostStop, CloseIdle, JoinWorker
<1>2. ShutdownAllowed'
  BY <1>1 DEF MailInv, ShutdownAllowed
<1>3. ASSUME NEW b \in Actors \ {a} PROVE StopLast(b)' /\ OpenIsCur(b)'
  <2>1. StopLast(b) /\ OpenIsCur(b)
    BY DEF MailInv
  <2>2. control'[b] = control[b] /\ closing'[b] = closing[b]
    BY DEF PostStop, CloseIdle, JoinWorker, TypeOK
  <2>3. b # cur \/ cur' = cur
    BY DEF PostStop, CloseIdle, JoinWorker
  <2> QED BY <1>1, <2>1, <2>2, <2>3, StopLastSame DEF OpenIsCur
<1>4. closing'[a] \in {"joining", "closed"}
  BY DEF PostStop, CloseIdle, JoinWorker, TypeOK
<1>5. StopLast(a)'
  <2>1. CASE JoinWorker(a)
    <3>1. control'[a] = <<>> /\ Len(<<>>) = 0
      BY <2>1 DEF JoinWorker, TypeOK
    <3> QED BY <3>1 DEF StopLast
  <2>2. CASE PostStop(a) \/ CloseIdle(a)
    <3>1. control'[a] = Append(control[a], Stop)
      BY <2>2 DEF PostStop, CloseIdle, TypeOK
    <3>2. \A i \in 1..Len(control[a]) : control[a][i] # Stop
      <4>1. CASE PostStop(a)
        BY <4>1, NoStopYet DEF PostStop, MailInv
      <4>2. CASE CloseIdle(a)
        <5>1. control[a] = <<>> /\ Len(<<>>) = 0
          BY <4>2 DEF CloseIdle, IsIdle
        <5> QED BY <5>1
      <4> QED BY <2>2, <4>1, <4>2
    <3> QED BY <1>4, <3>1, <3>2, StopLastAppend
  <2> QED BY <2>1, <2>2
<1>6. OpenIsCur(a)'
  BY <1>4 DEF OpenIsCur
<1> QED BY <1>2, <1>3, <1>5, <1>6 DEF MailInv

LEMMA MailNextStep ==
  ASSUME TypeOK, OnePlace, Generations, CurOpen, MailInv, [Next]_vars
  PROVE  MailInv'
<1>1. ASSUME NEW o \in Ops, NEW a \in Actors, SubmitPreemptive(o, a) PROVE MailInv'
  BY <1>1, MailSame DEF SubmitPreemptive, Accept
<1>2. CASE \E o \in Ops : EndInterrupt(o) \/ WrapperFinishes(o)
  BY <1>2, MailSame DEF EndInterrupt, WrapperFinishes
<1>3. CASE FacadeStops \/ RegistryStops
  <2>1. UNCHANGED <<control, closing, cur, made>> /\ (AllowStop \/ phase # "up")
    BY <1>3 DEF FacadeStops, RegistryStops
  <2>2. ASSUME NEW b \in Actors PROVE StopLast(b)' /\ OpenIsCur(b)'
    BY <2>1, StopLastSame, OpenIsCurSame DEF MailInv
  <2>3. AllowStop
    BY <2>1 DEF MailInv, ShutdownAllowed
  <2> QED BY <2>2, <2>3 DEF MailInv, ShutdownAllowed
<1>4. CASE RegistryStopsActor
  <2>1. phase = "draining" /\ UNCHANGED <<control, cur, made>>
    BY <1>4 DEF RegistryStopsActor
  <2>2. CASE cur = 0
    <3>1. UNCHANGED closing
      BY <1>4, <2>2 DEF RegistryStopsActor
    <3>2. ASSUME NEW b \in Actors PROVE StopLast(b)' /\ OpenIsCur(b)'
      BY <2>1, <3>1, StopLastSame, OpenIsCurSame DEF MailInv
    <3> QED BY <2>1, <3>2 DEF MailInv, ShutdownAllowed
  <2>3. CASE cur # 0
    <3>1. closing' = [closing EXCEPT ![cur] = "cancelling"]
      BY <1>4, <2>3 DEF RegistryStopsActor, StopBody
    <3>2. cur \in Actors /\ closing[cur] = "open"
      BY <2>1, <2>3, ActorsAreNumbers DEF CurOpen, TypeOK
    <3>3. \A b \in Actors : StopLast(b)' /\ OpenIsCur(b)'
      BY <2>1, <3>1, <3>2, MailStops
    <3> QED BY <2>1, <3>3 DEF MailInv, ShutdownAllowed
  <2> QED BY <2>2, <2>3
<1>5. CASE Quiet /\ ~FacadeStops /\ ~RegistryStops /\ ~RegistryStopsActor
  BY <1>5, MailSame DEF Quiet, TaskStarts, TaskDies, TaskResumes, TaskEnds, TaskAsks,
       InteractionCancelled, ObserveIdle, TTLPasses
<1>6. CASE UNCHANGED vars
  BY <1>6, MailSame
<1> QED BY <1>1, <1>2, <1>3, <1>4, <1>5, <1>6, MailSubmit, MailWorker, MailHandler,
           MailClosing, NextCases

LEMMA MailHolds == Spec => []MailInv
<1>1. Init => MailInv
  <2> SUFFICES ASSUME Init PROVE MailInv
    OBVIOUS
  <2>1. Len(<<>>) = 0
    OBVIOUS
  <2>2. \A a \in Actors : control[a] = <<>> /\ a \in Nat \ {0} /\ made = 0 /\ phase = "up"
    BY ActorsAreNumbers DEF Init
  <2>3. \A a \in Actors : StopLast(a) /\ OpenIsCur(a)
    BY <2>1, <2>2 DEF StopLast, OpenIsCur
  <2> QED BY <2>3 DEF MailInv, ShutdownAllowed, Init
<1>2. TypeOK /\ OnePlace /\ Generations /\ ReclaimInv /\ MailInv /\ [Next]_vars => MailInv'
  BY MailNextStep DEF ReclaimInv
<1> QED BY <1>1, <1>2, TypeCorrect, AcceptedOnce, GenerationsHold, ReclaimHolds, PTL DEF Spec

-----------------------------------------------------------------------------
(* The actions of the contract, over the view *)

Keeps == Contract!Next \/ UNCHANGED <<LaneView, StateView, owner, WorkView, finished, ShutView>>

LaneName(o) == IF IsControl(o) THEN "control" ELSE "normal"

Told(o, s) == finished' = [finished EXCEPT ![o] = Append(@, s)]

LEMMA ContractAccept ==
  ASSUME NEW o \in Ops, NEW a \in Actors, StateView[o] = "new", a \notin ShutView,
         StateView' = [StateView EXCEPT ![o] = "waiting"],
         owner' = [owner EXCEPT ![o] = a],
         LaneView' = [LaneView EXCEPT ![a][LaneName(o)] = Append(@, o)],
         UNCHANGED <<WorkView, finished, ShutView>>
  PROVE  Keeps
<1>1. Contract!LaneOf(o) = LaneName(o)
  BY DEF Contract!LaneOf, LaneName
<1>2. Contract!Accept(o, a)
  BY <1>1 DEF Contract!Accept
<1> QED BY <1>2 DEF Keeps, Contract!Next

LEMMA ContractPreempt ==
  ASSUME NEW o \in Ops, NEW a \in Actors, StateView[o] = "new", a \notin ShutView,
         Kind[o] \in {"interrupt", "respond"},
         owner' = [owner EXCEPT ![o] = a], UNCHANGED <<LaneView, ShutView>>,
         \/ /\ StateView' = [StateView EXCEPT ![o] = "active"]
            /\ WorkView' = WorkView \cup {o} /\ UNCHANGED finished
         \/ /\ StateView' = [StateView EXCEPT ![o] = "settled"]
            /\ \E s \in {"completed", "failed"} : Told(o, s)
            /\ UNCHANGED WorkView
  PROVE  Keeps
<1>1. Contract!Preempt(o, a)
  BY DEF Contract!Preempt, Contract!Tell, Told
<1> QED BY <1>1 DEF Keeps, Contract!Next

LEMMA ContractBegin ==
  ASSUME NEW o \in Ops, NEW a \in Actors,
         LaneView[a][LaneName(o)] # <<>>, o = Head(LaneView[a][LaneName(o)]),
         IsRoot(o) => \A p \in WorkView : IsRoot(p) => owner[p] # a,
         LaneView' = [LaneView EXCEPT ![a][LaneName(o)] = Tail(@)],
         StateView' = [StateView EXCEPT ![o] = "active"],
         WorkView' = WorkView \cup {o}, UNCHANGED <<owner, finished, ShutView>>
  PROVE  Keeps
<1>1. Contract!LaneOf(o) = LaneName(o)
  BY DEF Contract!LaneOf, LaneName
<1>2. Contract!Begin(o, a)
  BY <1>1 DEF Contract!Begin
<1> QED BY <1>2 DEF Keeps, Contract!Next

LEMMA ContractReject ==
  ASSUME NEW o \in Ops, NEW a \in Actors, IsRoot(o),
         LaneView[a][LaneName(o)] # <<>>, o = Head(LaneView[a][LaneName(o)]),
         a \in ShutView \/ \E p \in Ops : IsRoot(p) /\ StateView[p] = "active" /\ owner[p] = a,
         LaneView' = [LaneView EXCEPT ![a][LaneName(o)] = Tail(@)],
         StateView' = [StateView EXCEPT ![o] = "settled"],
         Told(o, "rejected"), UNCHANGED <<owner, WorkView, ShutView>>
  PROVE  Keeps
<1>1. Contract!LaneOf(o) = LaneName(o)
  BY DEF Contract!LaneOf, LaneName
<1>2. Contract!Reject(o, a)
  BY <1>1 DEF Contract!Reject, Contract!Tell, Told
<1> QED BY <1>2 DEF Keeps, Contract!Next

LEMMA ContractRest ==
  ASSUME NEW o \in Ops, o \in WorkView, WorkView' = WorkView \ {o},
         UNCHANGED <<LaneView, StateView, owner, finished, ShutView>>
  PROVE  Keeps
<1>1. Contract!Rest(o)
  BY DEF Contract!Rest
<1> QED BY <1>1 DEF Keeps, Contract!Next

LEMMA ContractSettle ==
  ASSUME NEW o \in Ops, StateView[o] = "active",
         StateView' = [StateView EXCEPT ![o] = "settled"],
         \E s \in {"completed", "failed"} : Told(o, s),
         WorkView' \in {WorkView, WorkView \ {o}},
         UNCHANGED <<LaneView, owner, ShutView>>
  PROVE  Keeps
<1>1. Contract!Settle(o)
  BY DEF Contract!Settle, Contract!Tell, Told
<1> QED BY <1>1 DEF Keeps, Contract!Next

LEMMA ContractShut ==
  ASSUME NEW a \in Actors, ShutView' = ShutView \cup {a},
         UNCHANGED <<LaneView, StateView, owner, WorkView, finished>>
  PROVE  Keeps
<1>1. Contract!Shut(a)
  BY DEF Contract!Shut
<1> QED BY <1>1 DEF Keeps, Contract!Next

LEMMA ContractLose ==
  ASSUME NEW a \in Actors, a \in ShutView,
         StateView' = [o \in Ops |-> IF owner[o] = a /\ StateView[o] = "waiting"
                                     THEN "lost" ELSE StateView[o]],
         LaneView' = [LaneView EXCEPT ![a] = [l \in {"control", "normal"} |-> <<>>]],
         UNCHANGED <<owner, WorkView, finished, ShutView>>
  PROVE  Keeps
<1>1. Contract!Lose(a)
  BY DEF Contract!Lose, Contract!Lanes
<1> QED BY <1>1 DEF Keeps, Contract!Next

-----------------------------------------------------------------------------
(* Lanes as sequences *)

LaneOf3(p, g, q) == One(p) \o One(g) \o q

LEMMA LaneEmpty ==
  ASSUME NEW p, NEW g, NEW q \in Seq(Ops), p \notin Ops, g \notin Ops
  PROVE  LaneOf3(p, g, q) = q
<1>1. <<>> \o <<>> = <<>>
  BY ConcatEmptySeq, EmptySeq
<1>2. One(p) = <<>> /\ One(g) = <<>>
  BY DEF One
<1> QED BY <1>1, <1>2, ConcatEmptySeq DEF LaneOf3

\* One of the two slots holds the head of the lane, the mailbox is the rest.
LEMMA LaneHead ==
  ASSUME NEW p, NEW g, NEW q \in Seq(Ops), NEW x \in Ops,
         (p = x /\ g \notin Ops) \/ (p \notin Ops /\ g = x)
  PROVE  /\ LaneOf3(p, g, q) # <<>> /\ Head(LaneOf3(p, g, q)) = x
         /\ Tail(LaneOf3(p, g, q)) = q
<1>1. <<x>> \in Seq(Ops) /\ <<x>> # <<>> /\ Head(<<x>>) = x /\ Len(<<x>>) = 1
  OBVIOUS
<1>2. One(p) \o One(g) = <<x>>
  <2>1. <<x>> \o <<>> = <<x>> /\ <<>> \o <<x>> = <<x>>
    BY <1>1, ConcatEmptySeq
  <2> QED BY <2>1 DEF One
<1> DEFINE r == <<x>> \o q
<1>3. LaneOf3(p, g, q) = r
  BY <1>2 DEF LaneOf3
<1>4. /\ r \in Seq(Ops) /\ Len(r) = 1 + Len(q) /\ Len(q) \in Nat
      /\ \A i \in 1..(1 + Len(q)) : r[i] = IF i <= 1 THEN <<x>>[i] ELSE q[i - 1]
  BY <1>1, ConcatProperties, LenProperties
<1> HIDE DEF r
<1>5. r # <<>> /\ r[1] = x
  <2>1. Len(<<>>) = 0
    BY EmptySeq
  <2>2. <<x>>[1] = x
    OBVIOUS
  <2> QED BY <1>4, <2>1, <2>2
<1>6. Head(r) = x
  BY <1>4, <1>5
<1>7. Tail(r) = q
  <2>1. /\ Tail(r) \in Seq(Ops) /\ Len(Tail(r)) = Len(q)
        /\ \A i \in 1..Len(Tail(r)) : Tail(r)[i] = r[i + 1]
    BY <1>4, <1>5, HeadTailProperties
  <2>2. \A i \in 1..Len(Tail(r)) : Tail(r)[i] = q[i]
    BY <1>4, <2>1
  <2> QED BY <2>1, <2>2, SeqEqual
<1> QED BY <1>3, <1>5, <1>6, <1>7

LEMMA LaneAppend ==
  ASSUME NEW p, NEW g, NEW q \in Seq(Ops), NEW x \in Ops
  PROVE  LaneOf3(p, g, Append(q, x)) = Append(LaneOf3(p, g, q), x)
<1> DEFINE f == One(p) \o One(g)
<1>1. One(p) \in Seq(Ops) /\ One(g) \in Seq(Ops) /\ <<x>> \in Seq(Ops)
  BY DEF One
<1>2. f \in Seq(Ops)
  BY <1>1, ConcatProperties
<1> HIDE DEF f
<1>3. Append(q, x) = q \o <<x>>
  BY AppendIsConcat
<1>4. f \o (q \o <<x>>) = (f \o q) \o <<x>>
  BY <1>1, <1>2, ConcatAssociative
<1>5. f \o q \in Seq(Ops)
  BY <1>2, ConcatProperties
<1>6. Append(f \o q, x) = (f \o q) \o <<x>>
  BY <1>5, AppendIsConcat
<1> QED BY <1>3, <1>4, <1>6 DEF LaneOf3, f

Mails == Seq(Ops \cup {Stop})

LEMMA NoStopAtEnd ==
  ASSUME NEW q \in Mails, \A i \in 1..Len(q) : q[i] # Stop
  PROVE  WithoutStop(q) = q /\ q \in Seq(Ops)
<1>1. Len(q) \in Nat /\ (q # <<>> => Len(q) \in 1..Len(q))
  BY LenProperties, EmptySeq DEF Mails
<1>2. WithoutStop(q) = q
  BY <1>1 DEF WithoutStop
<1>3. \A i \in 1..Len(q) : q[i] \in Ops
  BY ElementOfSeq DEF Mails
<1>4. q \in [1..Len(q) -> Ops]
  BY <1>3, LenProperties DEF Mails
<1> QED BY <1>1, <1>2, <1>4

\* What precedes the STOP of a mailbox.
LEMMA WithoutStopEffect ==
  ASSUME NEW q \in Mails, \A i \in 1..Len(q) : q[i] = Stop => i = Len(q)
  PROVE  /\ WithoutStop(q) \in Seq(Ops)
         /\ \A i \in 1..Len(WithoutStop(q)) : i \in 1..Len(q) /\ WithoutStop(q)[i] = q[i]
         /\ Len(WithoutStop(q)) = IF q # <<>> /\ q[Len(q)] = Stop THEN Len(q) - 1 ELSE Len(q)
<1>1. Len(q) \in Nat /\ (q # <<>> => Len(q) \in 1..Len(q))
  BY LenProperties, EmptySeq DEF Mails
<1>2. CASE q # <<>> /\ q[Len(q)] = Stop
  <2> DEFINE r == SubSeq(q, 1, Len(q) - 1)
  <2>1. \A i \in 1..(Len(q) - 1) : q[i] \in Ops
    <3> SUFFICES ASSUME NEW i \in 1..(Len(q) - 1) PROVE q[i] \in Ops
      OBVIOUS
    <3>1. i \in 1..Len(q) /\ i # Len(q)
      BY <1>1
    <3> QED BY <3>1, ElementOfSeq DEF Mails
  <2>2. Len(q) - 1 \in Nat /\ 1 \in Int /\ Len(q) - 1 \in Int
    BY <1>1, <1>2
  <2>3. /\ r \in Seq(Ops)
        /\ Len(r) = IF 1 <= Len(q) - 1 THEN (Len(q) - 1) - 1 + 1 ELSE 0
        /\ \A i \in 1..((Len(q) - 1) - 1 + 1) : r[i] = q[1 + i - 1]
    BY <2>1, <2>2, SubSeqProperties
  <2>4. WithoutStop(q) = r
    BY <1>2 DEF WithoutStop
  <2> HIDE DEF r
  <2>5. Len(r) = Len(q) - 1
    <3>1. Len(r) = IF 1 <= Len(q) - 1 THEN (Len(q) - 1) - 1 + 1 ELSE 0
      BY <2>3
    <3>2. Len(q) \in Nat /\ Len(q) - 1 \in Nat
      BY <1>1, <2>2
    <3>3. \A n \in Nat : n - 1 \in Nat => (IF 1 <= n - 1 THEN (n - 1) - 1 + 1 ELSE 0) = n - 1
      OBVIOUS
    <3>4. (IF 1 <= Len(q) - 1 THEN (Len(q) - 1) - 1 + 1 ELSE 0) = Len(q) - 1
      BY <3>2, <3>3
    <3> QED BY <3>1, <3>4
  <2>6. ASSUME NEW i \in 1..Len(r) PROVE i \in 1..Len(q) /\ r[i] = q[i]
    <3>1. i \in 1..((Len(q) - 1) - 1 + 1) /\ i \in 1..Len(q) /\ 1 + i - 1 = i
      BY <1>1, <2>2, <2>5
    <3> QED BY <2>3, <3>1
  <2> QED BY <1>2, <2>3, <2>4, <2>5, <2>6
<1>3. CASE ~(q # <<>> /\ q[Len(q)] = Stop)
  <2>1. \A i \in 1..Len(q) : q[i] # Stop
    <3> SUFFICES ASSUME NEW i \in 1..Len(q) PROVE q[i] # Stop
      OBVIOUS
    <3>1. Len(q) # 0
      BY <1>1
    <3>2. q # <<>>
      BY <3>1, EmptySeq
    <3> QED BY <1>3, <3>2
  <2> QED BY <1>3, <2>1, NoStopAtEnd
<1> QED BY <1>2, <1>3

\* A STOP adds nothing to a mailbox that holds none.
LEMMA WithoutStopPosted ==
  ASSUME NEW q \in Mails, \A i \in 1..Len(q) : q[i] # Stop
  PROVE  WithoutStop(Append(q, Stop)) = q
<1> DEFINE r == Append(q, Stop)
<1>1. /\ r \in Mails /\ r # <<>> /\ Len(r) = Len(q) + 1 /\ Len(q) \in Nat
      /\ \A i \in 1..Len(q) : r[i] = q[i]
      /\ r[Len(q) + 1] = Stop
  BY AppendProperties, LenProperties DEF Mails
<1>2. q \in Seq(Ops)
  BY NoStopAtEnd
<1> HIDE DEF r
<1>3. \A i \in 1..Len(r) : r[i] = Stop => i = Len(r)
  <2> SUFFICES ASSUME NEW i \in 1..Len(r), r[i] = Stop PROVE i = Len(r)
    OBVIOUS
  <2>1. i \in 1..Len(q) \/ i = Len(r)
    <3> HIDE DEF Mails
    <3> QED BY <1>1
  <2>2. i \in 1..Len(q) => r[i] # Stop
    BY <1>1
  <2> QED BY <2>1, <2>2
<1>4. /\ WithoutStop(r) \in Seq(Ops) /\ Len(WithoutStop(r)) = Len(q)
      /\ \A i \in 1..Len(WithoutStop(r)) : WithoutStop(r)[i] = r[i]
  BY <1>1, <1>3, WithoutStopEffect
<1> HIDE DEF Mails
<1>5. WithoutStop(r) = q
  BY <1>1, <1>2, <1>4, SeqEqual
<1> QED BY <1>5 DEF r

\* Taking the head: a STOP was alone, an operation was the head of the lane.
LEMMA WithoutStopHead ==
  ASSUME NEW q \in Mails, q # <<>>, \A i \in 1..Len(q) : q[i] = Stop => i = Len(q)
  PROVE  /\ Head(q) = Stop => WithoutStop(q) = <<>> /\ WithoutStop(Tail(q)) = <<>>
         /\ Head(q) # Stop => /\ WithoutStop(q) # <<>> /\ Head(WithoutStop(q)) = Head(q)
                              /\ WithoutStop(Tail(q)) = Tail(WithoutStop(q))
                              /\ Head(q) \in Ops
<1> DEFINE t == Tail(q)
           w == WithoutStop(q)
           v == WithoutStop(t)
<1>1. /\ Len(q) \in Nat \ {0} /\ Head(q) = q[1] /\ Head(q) \in Ops \cup {Stop}
      /\ t \in Mails /\ Len(t) = Len(q) - 1
      /\ \A i \in 1..Len(t) : t[i] = q[i + 1]
  BY EmptySeq, HeadTailProperties DEF Mails
<1>2. /\ w \in Seq(Ops) /\ \A i \in 1..Len(w) : i \in 1..Len(q) /\ w[i] = q[i]
      /\ Len(w) = IF q[Len(q)] = Stop THEN Len(q) - 1 ELSE Len(q)
  BY WithoutStopEffect
<1> HIDE DEF t, w, v, Mails
<1>3. \A i \in 1..Len(t) : t[i] = Stop => i = Len(t)
  <2> SUFFICES ASSUME NEW i \in 1..Len(t), t[i] = Stop PROVE i = Len(t)
    OBVIOUS
  <2>1. i + 1 \in 1..Len(q)
    BY <1>1
  <2>2. i + 1 = Len(q)
    BY <1>1, <2>1
  <2> QED BY <1>1, <2>2
<1>4. /\ v \in Seq(Ops) /\ \A i \in 1..Len(v) : i \in 1..Len(t) /\ v[i] = t[i]
      /\ Len(v) = IF t # <<>> /\ t[Len(t)] = Stop THEN Len(t) - 1 ELSE Len(t)
  BY <1>1, <1>3, WithoutStopEffect DEF v
<1>5. \A s \in Seq(Ops) : Len(s) = 0 => s = <<>>
  BY EmptySeq
<1>6. t = <<>> <=> Len(t) = 0
  BY <1>1, EmptySeq DEF Mails
<1>7. CASE Head(q) = Stop
  <2>1. Len(q) = 1 /\ q[1] = Stop
    <3>1. 1 \in 1..Len(q) /\ q[1] = Stop
      BY <1>1, <1>7
    <3>2. \A i \in 1..Len(q) : q[i] = Stop => i = Len(q)
      OBVIOUS
    <3> QED BY <3>1, <3>2
  <2>2. Len(w) = 0
    BY <1>2, <2>1
  <2>3. Len(t) = 0
    BY <1>1, <2>1
  <2>4. Len(v) = 0
    BY <1>4, <1>6, <2>3
  <2> QED BY <1>2, <1>4, <1>5, <1>7, <2>2, <2>4 DEF t, w, v
<1>8. CASE Head(q) # Stop
  <2>1. q[Len(q)] = Stop => Len(q) > 1
    BY <1>1, <1>8
  <2>2. Len(w) \in Nat \ {0} /\ w[1] = q[1]
    BY <1>1, <1>2, <2>1
  <2>3. w # <<>> /\ Head(w) = w[1]
    <3>1. Len(<<>>) = 0
      BY EmptySeq
    <3>2. w \in Seq(Ops) /\ w # <<>>
      BY <1>2, <2>2, <3>1
    <3> QED BY <3>2
  <2>4. Len(v) = Len(w) - 1
    <3>1. CASE Len(t) = 0
      BY <1>1, <1>2, <1>4, <1>6, <2>1, <3>1
    <3>2. CASE Len(t) # 0
      <4>1. t[Len(t)] = q[Len(q)]
        BY <1>1, <3>2
      <4> QED BY <1>1, <1>2, <1>4, <1>6, <3>2, <4>1
    <3> QED BY <3>1, <3>2
  <2>5. /\ Tail(w) \in Seq(Ops) /\ Len(Tail(w)) = Len(w) - 1
        /\ \A i \in 1..Len(Tail(w)) : Tail(w)[i] = w[i + 1]
    BY <1>2, <2>3, HeadTailProperties
  <2>6. \A i \in 1..Len(v) : v[i] = Tail(w)[i]
    <3> SUFFICES ASSUME NEW i \in 1..Len(v) PROVE v[i] = Tail(w)[i]
      OBVIOUS
    <3>1. v[i] = q[i + 1]
      BY <1>1, <1>4
    <3>2. i \in 1..Len(Tail(w)) /\ i + 1 \in 1..Len(w)
      BY <2>2, <2>4, <2>5
    <3> QED BY <1>2, <2>5, <3>1, <3>2
  <2>7. v = Tail(w)
    BY <1>4, <2>4, <2>5, <2>6, SeqEqual
  <2> QED BY <1>1, <1>8, <2>2, <2>3, <2>7 DEF t, w, v
<1> QED BY <1>7, <1>8

-----------------------------------------------------------------------------
(* How an item moves through a lane *)

\* The head x of lane s is taken, t is left.
Taken(s, t, x) == s # <<>> /\ Head(s) = x /\ t = Tail(s)

LEMMA LaneTaken ==
  ASSUME NEW p, NEW g, NEW q \in Seq(Ops), NEW p2, NEW g2, NEW q2 \in Seq(Ops), NEW x \in Ops,
         p2 \notin Ops, g2 \notin Ops,
         \/ ((p = x /\ g \notin Ops) \/ (p \notin Ops /\ g = x)) /\ q2 = q
         \/ p \notin Ops /\ g \notin Ops /\ Taken(q, q2, x)
  PROVE  Taken(LaneOf3(p, g, q), LaneOf3(p2, g2, q2), x)
<1>1. LaneOf3(p2, g2, q2) = q2
  BY LaneEmpty
<1>2. CASE ((p = x /\ g \notin Ops) \/ (p \notin Ops /\ g = x)) /\ q2 = q
  BY <1>1, <1>2, LaneHead DEF Taken
<1>3. CASE p \notin Ops /\ g \notin Ops /\ Taken(q, q2, x)
  BY <1>1, <1>3, LaneEmpty
<1> QED BY <1>2, <1>3

LEMMA HeadAndTail ==
  ASSUME NEW s \in Seq(Ops), NEW t \in Seq(Ops), s # <<>>, t # <<>>,
         Head(s) = Head(t), Tail(s) = Tail(t)
  PROVE  s = t
<1>1. Head(s) = s[1] /\ Head(t) = t[1]
  OBVIOUS
<1>2. Len(s) \in Nat \ {0} /\ Len(t) \in Nat \ {0}
  BY EmptySeq
<1> DEFINE u == Tail(s)
           v == Tail(t)
<1>3. Len(u) = Len(s) - 1 /\ \A i \in 1..Len(u) : u[i] = s[i + 1]
  BY ZenonT(40), HeadTailProperties
<1>4. Len(v) = Len(t) - 1 /\ \A i \in 1..Len(v) : v[i] = t[i + 1]
  BY ZenonT(40), HeadTailProperties
<1>5. u = v
  OBVIOUS
<1> HIDE DEF u, v
<1>6. Len(u) = Len(s) - 1 /\ Len(u) = Len(t) - 1 /\ \A i \in 1..Len(u) : s[i + 1] = t[i + 1]
  BY <1>3, <1>4, <1>5
<1>7. Len(s) = Len(t)
  BY <1>2, <1>6
<1>8. ASSUME NEW i \in 1..Len(s) PROVE s[i] = t[i]
  <2>1. CASE i = 1
    BY <1>1, <2>1
  <2>2. CASE i # 1
    <3>1. i - 1 \in 1..Len(u) /\ (i - 1) + 1 = i
      BY <1>2, <1>6, <2>2
    <3> QED BY <1>6, <3>1
  <2> QED BY <2>1, <2>2
<1> QED BY <1>7, <1>8, SeqEqual

\* A getter takes the head of its mailbox: the lane is the same.
LEMMA LaneGot ==
  ASSUME NEW p, NEW g, NEW q \in Seq(Ops), NEW q2 \in Seq(Ops), NEW x \in Ops,
         p \notin Ops, g \notin Ops, Taken(q, q2, x)
  PROVE  LaneOf3(p, x, q2) = LaneOf3(p, g, q)
<1>1. LaneOf3(p, g, q) = q
  BY LaneEmpty
<1>2. /\ LaneOf3(p, x, q2) # <<>> /\ Head(LaneOf3(p, x, q2)) = x
      /\ Tail(LaneOf3(p, x, q2)) = q2
  BY LaneHead
<1>3. LaneOf3(p, x, q2) \in Seq(Ops)
  BY ConcatProperties DEF LaneOf3, One
<1> QED BY <1>1, <1>2, <1>3, HeadAndTail DEF Taken

\* What a getter held is prefetched: the lane is the same.
LEMMA LaneKept ==
  ASSUME NEW p, NEW x, NEW g2, NEW q \in Seq(Ops), p \notin Ops, g2 \notin Ops
  PROVE  LaneOf3(x, g2, q) = LaneOf3(p, x, q)
<1>1. One(x) \in Seq(Ops) /\ One(p) = <<>> /\ One(g2) = <<>>
  BY DEF One
<1>2. One(x) \o <<>> = One(x) /\ <<>> \o One(x) = One(x)
  BY <1>1, ConcatEmptySeq
<1> QED BY <1>1, <1>2 DEF LaneOf3

\* The two lanes in these terms.
LEMMA LanesNow ==
  ASSUME TypeOK, MailInv, NEW a \in Actors
  PROVE  /\ ControlLane(a) = LaneOf3(pre[a].control, got[a].control, WithoutStop(control[a]))
         /\ NormalLane(a) = LaneOf3(pre[a].normal, got[a].normal, normal[a])
         /\ WithoutStop(control[a]) \in Seq(Ops) /\ normal[a] \in Seq(Ops)
         /\ control[a] \in Mails
         /\ control[a] # <<>> /\ Head(control[a]) \in Ops =>
              Taken(WithoutStop(control[a]), WithoutStop(Tail(control[a])), Head(control[a]))
         /\ control[a] # <<>> /\ Head(control[a]) = Stop =>
              WithoutStop(control[a]) = <<>> /\ WithoutStop(Tail(control[a])) = <<>>
         /\ Head(control[a]) \in Ops => Head(control[a]) # Stop
         /\ control[a] # <<>> => Head(control[a]) \in Ops \cup {Stop}
<1>1. control[a] \in Mails /\ normal[a] \in Seq(Ops)
  BY DEF TypeOK, Mails
<1>2. \A i \in 1..Len(control[a]) : control[a][i] = Stop => i = Len(control[a])
  BY DEF MailInv, StopLast
<1>3. Stop \notin Ops
  BY OpsAssumption
<1>4. WithoutStop(control[a]) \in Seq(Ops)
  BY <1>1, <1>2, WithoutStopEffect
<1>5. control[a] # <<>> => Head(control[a]) \in Ops \cup {Stop}
  BY <1>1, HeadTailProperties DEF Mails
<1>6. /\ control[a] # <<>> /\ Head(control[a]) \in Ops =>
           Taken(WithoutStop(control[a]), WithoutStop(Tail(control[a])), Head(control[a]))
      /\ control[a] # <<>> /\ Head(control[a]) = Stop =>
           WithoutStop(control[a]) = <<>> /\ WithoutStop(Tail(control[a])) = <<>>
  BY <1>1, <1>2, <1>3, WithoutStopHead DEF Taken
<1>7. /\ ControlLane(a) = LaneOf3(pre[a].control, got[a].control, WithoutStop(control[a]))
      /\ NormalLane(a) = LaneOf3(pre[a].normal, got[a].normal, normal[a])
  BY DEF ControlLane, NormalLane, LaneOf3
<1> QED BY <1>1, <1>3, <1>4, <1>5, <1>6, <1>7

LEMMA LanesNext ==
  ASSUME NEW a \in Actors
  PROVE  /\ ControlLane(a)' = LaneOf3(pre'[a].control, got'[a].control, WithoutStop(control'[a]))
         /\ NormalLane(a)' = LaneOf3(pre'[a].normal, got'[a].normal, normal'[a])
BY DEF ControlLane, NormalLane, LaneOf3, WithoutStop, One

-----------------------------------------------------------------------------
(* What the steps of a worker do to the lanes *)

SameLanes(a) == ControlLane(a)' = ControlLane(a) /\ NormalLane(a)' = NormalLane(a)

\* The item x leaves its lane of a; a STOP was in none.
Takes(a, x) ==
  IF x \notin Ops THEN SameLanes(a)
  ELSE IF IsControl(x)
  THEN Taken(ControlLane(a), ControlLane(a)', x) /\ NormalLane(a)' = NormalLane(a)
  ELSE Taken(NormalLane(a), NormalLane(a)', x) /\ ControlLane(a)' = ControlLane(a)

\* Where a worker finds the item it takes.
Source(a, x) ==
  \/ control[a] # <<>> /\ x = Head(control[a])
  \/ normal[a] # <<>> /\ x = Head(normal[a])
  \/ x \in {pre[a].control, pre[a].normal, got[a].control, got[a].normal}

TakesOne(a) == \E x : Begin(a, x) /\ Takes(a, x) /\ Source(a, x)

LEMMA LanesElsewhere ==
  ASSUME NEW b \in Actors, control'[b] = control[b], normal'[b] = normal[b],
         pre'[b] = pre[b], got'[b] = got[b]
  PROVE  SameLanes(b)
BY DEF SameLanes, ControlLane, NormalLane, WithoutStop, One

\* Before the worker waits its getters hold nothing, while it waits nothing is
\* prefetched.
LEMMA SlotsNow ==
  ASSUME TypeOK, OnePlace, NEW a \in Actors
  PROVE  /\ NoItems.control = NoOp /\ NoItems.normal = NoOp
         /\ NoOp \notin Ops /\ Stop \notin Ops
         /\ pc[a] = "waiting" => pre[a] = NoItems
         /\ pc[a] # "waiting" => got[a] = NoItems
         /\ pre[a] \in Slots /\ got[a] \in Slots /\ pre \in [Actors -> Slots] /\ got \in [Actors -> Slots]
         /\ pre[a].control \in Ops => IsControl(pre[a].control)
         /\ got[a].control \in Ops => IsControl(got[a].control)
         /\ pre[a].normal \in Ops => ~IsControl(pre[a].normal)
         /\ got[a].normal \in Ops => ~IsControl(got[a].normal)
         /\ pre[a].normal \in Ops \cup {NoOp} /\ got[a].normal \in Ops \cup {NoOp}
<1>1. Held(pre[a], a, stage, owner) /\ Held(got[a], a, stage, owner)
  BY PlacesHere
<1>2. Works(pc[a], item[a], pre[a], got[a], a, stage, owner)
  BY PlacesHere
<1>3. pre[a] \in Slots /\ got[a] \in Slots /\ pre \in [Actors -> Slots] /\ got \in [Actors -> Slots]
  BY DEF TypeOK
<1>4. pre[a].normal \in Items /\ got[a].normal \in Items
  BY <1>3 DEF Slots
<1>5. pre[a].normal \in Ops \cup {NoOp} /\ got[a].normal \in Ops \cup {NoOp}
  BY <1>1, <1>4 DEF Held, Items
<1> QED BY <1>1, <1>2, <1>3, <1>5, OpsAssumption DEF Held, Works, NoItems

LEMMA HeadsNow ==
  ASSUME TypeOK, OnePlace, NEW a \in Actors
  PROVE  /\ control[a] # <<>> /\ Head(control[a]) \in Ops => IsControl(Head(control[a]))
         /\ normal[a] # <<>> => Head(normal[a]) \in Ops /\ ~IsControl(Head(normal[a]))
                                /\ Tail(normal[a]) \in Seq(Ops)
<1>1. /\ Queued(control[a], a, "control", TRUE, stage, owner)
      /\ Queued(normal[a], a, "normal", FALSE, stage, owner)
      /\ control[a] \in Seq(Ops \cup {Stop}) /\ normal[a] \in Seq(Ops \cup {Stop})
  BY PlacesHere
<1>2. normal[a] # <<>> => Head(normal[a]) \in Ops /\ Tail(normal[a]) \in Seq(Ops)
  <2>1. normal[a] \in Seq(Ops)
    BY DEF TypeOK
  <2> QED BY <2>1, HeadTailProperties
<1> QED BY <1>1, <1>2, QueuedHead

LEMMA LanesTakeNormal ==
  ASSUME TypeOK, OnePlace, MailInv, NEW a \in Actors, TakeNormal(a)
  PROVE  TakesOne(a)
<1>1. pc[a] = "select" /\ got'[a] = got[a] /\ control'[a] = control[a]
  BY DEF TakeNormal
<1>2. got[a].normal \notin Ops
  BY <1>1, SlotsNow
<1>3. CASE pre[a].normal # NoOp
  <2> DEFINE x == pre[a].normal
  <2>1. x \in Ops /\ ~IsControl(x)
    BY <1>3, SlotsNow
  <2>2. Begin(a, x) /\ normal'[a] = normal[a] /\ pre' = [pre EXCEPT ![a].normal = NoOp]
    BY <1>3 DEF TakeNormal, UsePrefetchedNormal
  <2>3. pre'[a].control = pre[a].control /\ pre'[a].normal = NoOp
    BY <2>2, SlotsNow DEF Slots
  <2>4. /\ ControlLane(a)' = LaneOf3(pre[a].control, got[a].control, WithoutStop(control[a]))
        /\ NormalLane(a)' = LaneOf3(NoOp, got[a].normal, normal[a])
    BY <1>1, <2>2, <2>3, LanesNext
  <2>5. Taken(LaneOf3(x, got[a].normal, normal[a]), LaneOf3(NoOp, got[a].normal, normal[a]), x)
    BY <1>2, <2>1, LanesNow, SlotsNow, LaneTaken
  <2> QED BY <2>1, <2>2, <2>4, <2>5, LanesNow DEF Takes, TakesOne, Source
<1>4. CASE pre[a].normal = NoOp
  <2> DEFINE x == Head(normal[a])
  <2>1. /\ Begin(a, x) /\ normal[a] # <<>> /\ pre'[a] = pre[a]
        /\ normal' = [normal EXCEPT ![a] = Tail(normal[a])]
    BY <1>4 DEF TakeNormal, NormalAvailable
  <2>2. normal'[a] = Tail(normal[a])
    BY <2>1 DEF TypeOK
  <2>3. x \in Ops /\ ~IsControl(x) /\ Tail(normal[a]) \in Seq(Ops)
    BY <2>1, HeadsNow
  <2>4. /\ ControlLane(a)' = LaneOf3(pre[a].control, got[a].control, WithoutStop(control[a]))
        /\ NormalLane(a)' = LaneOf3(NoOp, got[a].normal, Tail(normal[a]))
    BY <1>1, <1>4, <2>1, <2>2, LanesNext
  <2>5. Taken(normal[a], Tail(normal[a]), x)
    BY <2>1 DEF Taken
  <2>6. Taken(LaneOf3(NoOp, got[a].normal, normal[a]),
              LaneOf3(NoOp, got[a].normal, Tail(normal[a])), x)
    BY <1>2, <2>3, <2>5, LanesNow, SlotsNow, LaneTaken
  <2> QED BY <1>4, <2>1, <2>3, <2>4, <2>6, LanesNow DEF Takes, TakesOne, Source
<1> QED BY <1>3, <1>4

LEMMA LanesTakeControl ==
  ASSUME TypeOK, OnePlace, MailInv, StopNotHeld, NEW a \in Actors, TakeControl(a)
  PROVE  TakesOne(a)
<1>1. pc[a] = "select" /\ got'[a] = got[a] /\ normal'[a] = normal[a]
  BY DEF TakeControl
<1>2. got[a].control \notin Ops
  BY <1>1, SlotsNow
<1>3. CASE pre[a].control # NoOp
  <2> DEFINE x == pre[a].control
  <2>1. x \in Ops /\ IsControl(x)
    BY <1>3, SlotsNow DEF StopNotHeld, Slots, Items
  <2>2. Begin(a, x) /\ control'[a] = control[a] /\ pre' = [pre EXCEPT ![a].control = NoOp]
    BY <1>3 DEF TakeControl
  <2>3. pre'[a].normal = pre[a].normal /\ pre'[a].control = NoOp
    BY <2>2, SlotsNow DEF Slots
  <2>4. /\ NormalLane(a)' = LaneOf3(pre[a].normal, got[a].normal, normal[a])
        /\ ControlLane(a)' = LaneOf3(NoOp, got[a].control, WithoutStop(control[a]))
    BY <1>1, <2>2, <2>3, LanesNext
  <2>5. Taken(LaneOf3(x, got[a].control, WithoutStop(control[a])),
              LaneOf3(NoOp, got[a].control, WithoutStop(control[a])), x)
    BY <1>2, <2>1, LanesNow, SlotsNow, LaneTaken
  <2> QED BY <2>1, <2>2, <2>4, <2>5, LanesNow DEF Takes, TakesOne, Source
<1>4. CASE pre[a].control = NoOp
  <2> DEFINE x == Head(control[a])
             w == WithoutStop(control[a])
             v == WithoutStop(Tail(control[a]))
  <2>1. /\ Begin(a, x) /\ control[a] # <<>> /\ pre'[a] = pre[a]
        /\ control' = [control EXCEPT ![a] = Tail(control[a])]
    BY <1>4 DEF TakeControl, ControlAvailable
  <2>2. control'[a] = Tail(control[a])
    BY <2>1 DEF TypeOK
  <2>3. /\ NormalLane(a)' = LaneOf3(pre[a].normal, got[a].normal, normal[a])
        /\ ControlLane(a)' = LaneOf3(NoOp, got[a].control, v)
    BY <1>1, <1>4, <2>1, <2>2, LanesNext
  <2>4. x \in Ops => Taken(w, v, x) /\ IsControl(x) /\ v \in Seq(Ops)
    <3>1. x \in Ops => Taken(w, v, x) /\ IsControl(x)
      BY <2>1, LanesNow, HeadsNow
    <3> QED BY <3>1, LanesNow, HeadTailProperties DEF Taken
  <2>5. x \notin Ops => w = v
    BY <2>1, LanesNow
  <2>6. x \in Ops => Taken(LaneOf3(NoOp, got[a].control, w), LaneOf3(NoOp, got[a].control, v), x)
    BY <1>2, <2>4, LanesNow, SlotsNow, LaneTaken
  <2>7. /\ ControlLane(a) = LaneOf3(NoOp, got[a].control, w)
        /\ NormalLane(a) = LaneOf3(pre[a].normal, got[a].normal, normal[a])
    BY <1>4, LanesNow
  <2> HIDE DEF x, w, v
  <2>8. Takes(a, x)
    BY <2>3, <2>4, <2>5, <2>6, <2>7 DEF Takes, SameLanes
  <2> QED BY <2>1, <2>8 DEF TakesOne, Source, x
<1> QED BY <1>3, <1>4

LEMMA LanesGetters ==
  ASSUME TypeOK, OnePlace, MailInv, NEW a \in Actors,
         GetterTakesControl(a) \/ GetterTakesNormal(a)
  PROVE  SameLanes(a)
<1>1. pc[a] = "waiting" /\ pre'[a] = pre[a]
  BY DEF GetterTakesControl, GetterTakesNormal
<1>2. pre[a].control \notin Ops /\ pre[a].normal \notin Ops
  BY <1>1, SlotsNow
<1>3. CASE GetterTakesControl(a)
  <2> DEFINE x == Head(control[a])
             w == WithoutStop(control[a])
             v == WithoutStop(Tail(control[a]))
  <2>1. /\ got[a].control = NoOp /\ control[a] # <<>> /\ normal'[a] = normal[a]
        /\ got' = [got EXCEPT ![a].control = x]
        /\ control' = [control EXCEPT ![a] = Tail(control[a])]
    BY <1>3 DEF GetterTakesControl
  <2>2. control'[a] = Tail(control[a])
    BY <2>1 DEF TypeOK
  <2>3. /\ x \in Ops => Taken(w, v, x)
        /\ x \notin Ops => w = v
        /\ w \in Seq(Ops)
    BY <2>1, LanesNow
  <2>4. v \in Seq(Ops)
    BY <2>3, HeadTailProperties DEF Taken
  <2>5. got[a].control \notin Ops
    BY <2>1, SlotsNow
  <2>6. /\ ControlLane(a) = LaneOf3(pre[a].control, got[a].control, w)
        /\ NormalLane(a) = LaneOf3(pre[a].normal, got[a].normal, normal[a])
    BY LanesNow
  <2> HIDE DEF x, w
  <2>7. got'[a].control = x /\ got'[a].normal = got[a].normal
    BY <2>1, SlotsNow DEF Slots
  <2>8. /\ NormalLane(a)' = LaneOf3(pre[a].normal, got[a].normal, normal[a])
        /\ ControlLane(a)' = LaneOf3(pre[a].control, x, v)
    BY <1>1, <2>1, <2>2, <2>7, LanesNext
  <2> HIDE DEF v
  <2>9. LaneOf3(pre[a].control, x, v) = LaneOf3(pre[a].control, got[a].control, w)
    <3>1. CASE x \in Ops
      BY <1>2, <2>3, <2>4, <2>5, <3>1, LaneGot
    <3>2. CASE x \notin Ops
      BY <1>2, <2>3, <2>4, <2>5, <3>2, LaneEmpty
    <3> QED BY <3>1, <3>2
  <2> QED BY <2>6, <2>8, <2>9 DEF SameLanes
<1>4. CASE GetterTakesNormal(a)
  <2> DEFINE x == Head(normal[a])
  <2>1. /\ got[a].normal = NoOp /\ normal[a] # <<>> /\ control'[a] = control[a]
        /\ got' = [got EXCEPT ![a].normal = x]
        /\ normal' = [normal EXCEPT ![a] = Tail(normal[a])]
    BY <1>4 DEF GetterTakesNormal
  <2>2. normal'[a] = Tail(normal[a])
    BY <2>1 DEF TypeOK
  <2>3. Taken(normal[a], Tail(normal[a]), x) /\ x \in Ops /\ Tail(normal[a]) \in Seq(Ops)
    BY <2>1, HeadsNow DEF Taken
  <2>4. got[a].normal \notin Ops /\ normal[a] \in Seq(Ops)
    BY <2>1, SlotsNow, LanesNow
  <2> HIDE DEF x
  <2>5. got'[a].normal = x /\ got'[a].control = got[a].control
    BY <2>1, SlotsNow DEF Slots
  <2>6. /\ ControlLane(a)' = LaneOf3(pre[a].control, got[a].control, WithoutStop(control[a]))
        /\ NormalLane(a)' = LaneOf3(pre[a].normal, x, Tail(normal[a]))
    BY <1>1, <2>1, <2>2, <2>5, LanesNext
  <2>7. LaneOf3(pre[a].normal, x, Tail(normal[a])) = LaneOf3(pre[a].normal, got[a].normal, normal[a])
    BY <1>2, <2>3, <2>4, LaneGot
  <2> QED BY <2>6, <2>7, LanesNow DEF SameLanes
<1> QED BY <1>3, <1>4

LEMMA LanesResumeWithOne ==
  ASSUME TypeOK, OnePlace, MailInv, NEW a \in Actors, ResumeWithOne(a)
  PROVE  TakesOne(a)
<1>1. /\ pc[a] = "waiting" /\ got' = [got EXCEPT ![a] = NoItems] /\ pre'[a] = pre[a]
      /\ control'[a] = control[a] /\ normal'[a] = normal[a]
  BY DEF ResumeWithOne, NoItems
<1>2. pre[a] = NoItems /\ got'[a] = NoItems
  BY <1>1, SlotsNow
<1>3. /\ NoItems.control = NoOp /\ NoItems.normal = NoOp /\ NoOp \notin Ops
      /\ WithoutStop(control[a]) \in Seq(Ops) /\ normal[a] \in Seq(Ops)
  BY SlotsNow, LanesNow
<1>4. /\ ControlLane(a)' = LaneOf3(NoOp, NoOp, WithoutStop(control[a]))
      /\ NormalLane(a)' = LaneOf3(NoOp, NoOp, normal[a])
  BY <1>1, <1>2, <1>3, LanesNext
<1>5. /\ ControlLane(a) = LaneOf3(NoOp, got[a].control, WithoutStop(control[a]))
      /\ NormalLane(a) = LaneOf3(NoOp, got[a].normal, normal[a])
  BY <1>2, <1>3, LanesNow
<1>6. CASE got[a].control # NoOp /\ got[a].normal = NoOp /\ Begin(a, got[a].control)
  <2>1. got[a].control \in Ops =>
          /\ IsControl(got[a].control)
          /\ Taken(LaneOf3(NoOp, got[a].control, WithoutStop(control[a])),
                   LaneOf3(NoOp, NoOp, WithoutStop(control[a])), got[a].control)
    BY <1>3, SlotsNow, LaneTaken
  <2>2. got[a].control \notin Ops => ControlLane(a)' = ControlLane(a)
    BY <1>3, <1>4, <1>5, LaneEmpty
  <2>3. Takes(a, got[a].control)
    BY <1>4, <1>5, <1>6, <2>1, <2>2 DEF Takes, SameLanes
  <2> QED BY <1>6, <2>3 DEF TakesOne, Source
<1>7. CASE got[a].control = NoOp /\ got[a].normal # NoOp /\ Begin(a, got[a].normal)
  <2>1. /\ got[a].normal \in Ops /\ ~IsControl(got[a].normal)
        /\ Taken(LaneOf3(NoOp, got[a].normal, normal[a]), LaneOf3(NoOp, NoOp, normal[a]),
                 got[a].normal)
    BY <1>3, <1>7, SlotsNow, LaneTaken
  <2>2. Takes(a, got[a].normal)
    BY <1>4, <1>5, <1>7, <2>1 DEF Takes
  <2> QED BY <1>7, <2>2 DEF TakesOne, Source
<1> QED BY <1>6, <1>7 DEF ResumeWithOne

LEMMA LanesResumeWithBoth ==
  ASSUME TypeOK, OnePlace, MailInv, NEW a \in Actors, ResumeWithBoth(a)
  PROVE  TakesOne(a)
<1> DEFINE x == got[a].control
           n == got[a].normal
           w == WithoutStop(control[a])
<1>1. /\ pc[a] = "waiting" /\ got' = [got EXCEPT ![a] = NoItems]
      /\ control'[a] = control[a] /\ normal'[a] = normal[a] /\ x # NoOp /\ n # NoOp
  BY DEF ResumeWithBoth, NoItems
<1>2. pre[a] = NoItems /\ got'[a] = NoItems
  BY <1>1, SlotsNow
<1>3. /\ NoItems.control = NoOp /\ NoItems.normal = NoOp /\ NoOp \notin Ops
      /\ w \in Seq(Ops) /\ normal[a] \in Seq(Ops)
  BY SlotsNow, LanesNow
<1>4. ControlLane(a) = LaneOf3(NoOp, x, w) /\ NormalLane(a) = LaneOf3(NoOp, n, normal[a])
  BY <1>2, <1>3, LanesNow
<1>5. n \in Ops /\ ~IsControl(n) /\ (x \in Ops => IsControl(x))
  BY <1>1, SlotsNow
<1>6. \/ (x = Stop \/ burst[a] < Quota) /\ pre' = [pre EXCEPT ![a].normal = n] /\ Begin(a, x)
      \/ x # Stop /\ pre' = [pre EXCEPT ![a].control = x] /\ Begin(a, n)
  BY DEF ResumeWithBoth
<1>7. pre[a] \in Slots /\ pre \in [Actors -> Slots] /\ x \in Items
  BY SlotsNow DEF Slots
<1> HIDE DEF x, n
<1>8. CASE pre' = [pre EXCEPT ![a].normal = n] /\ Begin(a, x)
  <2>1. pre'[a].control = NoOp /\ pre'[a].normal = n
    BY <1>2, <1>3, <1>7, <1>8 DEF Slots
  <2>2. /\ ControlLane(a)' = LaneOf3(NoOp, NoOp, w)
        /\ NormalLane(a)' = LaneOf3(n, NoOp, normal[a])
    BY <1>1, <1>2, <1>3, <2>1, LanesNext
  <2> HIDE DEF w
  <2>3. NormalLane(a)' = NormalLane(a)
    BY <1>3, <1>4, <2>2, LaneKept
  <2>4. x \in Ops => Taken(LaneOf3(NoOp, x, w), LaneOf3(NoOp, NoOp, w), x)
    BY <1>3, LaneTaken
  <2>5. x \notin Ops => ControlLane(a)' = ControlLane(a)
    BY <1>3, <1>4, <2>2, LaneEmpty
  <2>6. Takes(a, x)
    BY <1>4, <1>5, <2>2, <2>3, <2>4, <2>5 DEF Takes, SameLanes
  <2> QED BY <1>8, <2>6 DEF TakesOne, Source, x
<1>9. CASE pre' = [pre EXCEPT ![a].control = x] /\ Begin(a, n)
  <2>1. pre'[a].normal = NoOp /\ pre'[a].control = x
    BY <1>2, <1>3, <1>7, <1>9 DEF Slots
  <2>2. /\ ControlLane(a)' = LaneOf3(x, NoOp, w)
        /\ NormalLane(a)' = LaneOf3(NoOp, NoOp, normal[a])
    BY <1>1, <1>2, <1>3, <2>1, LanesNext
  <2> HIDE DEF w
  <2>3. ControlLane(a)' = ControlLane(a)
    BY <1>3, <1>4, <2>2, LaneKept
  <2>4. Taken(LaneOf3(NoOp, n, normal[a]), LaneOf3(NoOp, NoOp, normal[a]), n)
    BY <1>3, <1>5, LaneTaken
  <2>5. Takes(a, n)
    BY <1>4, <1>5, <2>2, <2>3, <2>4 DEF Takes
  <2> QED BY <1>9, <2>5 DEF TakesOne, Source, n
<1> QED BY <1>6, <1>8, <1>9

\* A worker takes one item, or its lanes stay as they are.
LEMMA LanesWorker ==
  ASSUME TypeOK, OnePlace, MailInv, StopNotHeld, NEW a \in Actors, Worker(a)
  PROVE  /\ \A b \in Actors \ {a} : SameLanes(b)
         /\ \/ TakesOne(a)
            \/ SameLanes(a) /\ (ArmGetters(a) \/ GetterTakesControl(a) \/ GetterTakesNormal(a))
<1>1. \A b \in Actors \ {a} : SameLanes(b)
  BY WorkerElsewhere, LanesElsewhere
<1>2. CASE ArmGetters(a)
  BY <1>1, <1>2, LanesElsewhere DEF ArmGetters
<1> QED BY <1>1, <1>2, LanesTakeNormal, LanesTakeControl, LanesGetters, LanesResumeWithOne,
           LanesResumeWithBoth DEF Worker

-----------------------------------------------------------------------------
(* What the view makes of a step *)

LEMMA LaneViewSame ==
  ASSUME \A b \in Actors : SameLanes(b)
  PROVE  LaneView' = LaneView
BY DEF SameLanes, LaneView

LEMMA LaneViewAt ==
  ASSUME NEW a \in Actors, NEW o \in Ops
  PROVE  LaneView[a][LaneName(o)] = IF IsControl(o) THEN ControlLane(a) ELSE NormalLane(a)
BY DEF LaneView, LaneName

\* One lane of one actor changed.
LEMMA LaneViewMoves ==
  ASSUME NEW a \in Actors, NEW o \in Ops, NEW t, \A b \in Actors \ {a} : SameLanes(b),
         IF IsControl(o) THEN ControlLane(a)' = t /\ NormalLane(a)' = NormalLane(a)
         ELSE NormalLane(a)' = t /\ ControlLane(a)' = ControlLane(a)
  PROVE  LaneView' = [LaneView EXCEPT ![a][LaneName(o)] = t]
<1> DEFINE L(b) == [l \in {"control", "normal"} |->
                      IF l = "control" THEN ControlLane(b) ELSE NormalLane(b)]
           M(b) == [l \in {"control", "normal"} |->
                      IF l = "control" THEN ControlLane(b)' ELSE NormalLane(b)']
<1>1. LaneView = [b \in Actors |-> L(b)] /\ LaneView' = [b \in Actors |-> M(b)]
  BY DEF LaneView
<1>2. \A b \in Actors \ {a} : M(b) = L(b)
  BY DEF SameLanes
<1>3. M(a) = [L(a) EXCEPT ![LaneName(o)] = t]
  BY DEF LaneName
<1> HIDE DEF L, M
<1> QED BY <1>1, <1>2, <1>3

LEMMA LaneViewTaken ==
  ASSUME NEW a \in Actors, NEW o \in Ops, \A b \in Actors \ {a} : SameLanes(b), Takes(a, o)
  PROVE  /\ LaneView[a][LaneName(o)] # <<>> /\ o = Head(LaneView[a][LaneName(o)])
         /\ LaneView' = [LaneView EXCEPT ![a][LaneName(o)] = Tail(@)]
<1> DEFINE t == Tail(LaneView[a][LaneName(o)])
<1>1. LaneView[a][LaneName(o)] # <<>> /\ o = Head(LaneView[a][LaneName(o)])
  BY LaneViewAt DEF Takes, Taken
<1>2. IF IsControl(o) THEN ControlLane(a)' = t /\ NormalLane(a)' = NormalLane(a)
      ELSE NormalLane(a)' = t /\ ControlLane(a)' = ControlLane(a)
  BY LaneViewAt DEF Takes, Taken
<1>3. LaneView' = [LaneView EXCEPT ![a][LaneName(o)] = t]
  BY <1>2, LaneViewMoves
<1> QED BY <1>1, <1>3

\* Two stages of the runtime that are one state of the contract.
Alike(s, t) ==
  \/ s = t
  \/ s \in Waiting /\ t \in Waiting
  \/ s \in Busy \cup {"background"} /\ t \in Busy \cup {"background"}

LEMMA StateAlike ==
  ASSUME NEW o \in Ops, Alike(stage[o], stage'[o])
  PROVE  State(o)' = State(o)
BY DEF Alike, State, Waiting, Busy

LEMMA StatesSame ==
  ASSUME \A o \in Ops : Alike(stage[o], stage'[o])
  PROVE  StateView' = StateView
BY StateAlike DEF StateView

LEMMA StateNow ==
  ASSUME NEW o \in Ops
  PROVE  /\ stage[o] = "new" => StateView[o] = "new"
         /\ stage[o] \in Waiting => StateView[o] = "waiting"
         /\ stage[o] \in Busy \cup {"background"} => StateView[o] = "active"
         /\ StateView[o] = "waiting" /\ stage[o] \in Stages => stage[o] \in Waiting
BY DEF StateView, State, Waiting, Busy, Stages

LEMMA StateNext ==
  ASSUME NEW o \in Ops
  PROVE  /\ stage'[o] \in Waiting => State(o)' = "waiting"
         /\ stage'[o] \in Busy \cup {"background"} => State(o)' = "active"
         /\ stage'[o] = "finished" => State(o)' = "settled"
         /\ stage'[o] = "dropped" => State(o)' = "lost"
BY DEF State, Waiting, Busy

LEMMA StateMoves ==
  ASSUME NEW o \in Ops, NEW s, State(o)' = s, \A p \in Ops \ {o} : stage'[p] = stage[p]
  PROVE  StateView' = [StateView EXCEPT ![o] = s]
<1>1. \A p \in Ops \ {o} : State(p)' = State(p)
  BY StateAlike DEF Alike
<1> QED BY <1>1 DEF StateView

\* Who is at work.
TasksKept == \A o \in Ops : task'[o] \in LiveTask <=> task[o] \in LiveTask

LEMMA WorkViewIs == WorkView = {o \in Ops : AtWork(o)} /\ WorkView' = {o \in Ops : AtWork(o)'}
BY DEF WorkView, AtWork, Busy

LEMMA WorkSame ==
  ASSUME \A o \in Ops : AtWork(o)' <=> AtWork(o)
  PROVE  WorkView' = WorkView
BY WorkViewIs

LEMMA WorkAlike ==
  ASSUME \A o \in Ops : stage'[o] \in Busy <=> stage[o] \in Busy, TasksKept
  PROVE  WorkView' = WorkView
BY WorkSame DEF AtWork, TasksKept

LEMMA WorkGains ==
  ASSUME NEW o \in Ops, AtWork(o)', \A p \in Ops \ {o} : AtWork(p)' <=> AtWork(p)
  PROVE  WorkView' = WorkView \cup {o}
BY WorkViewIs

LEMMA WorkLoses ==
  ASSUME NEW o \in Ops, ~AtWork(o)', \A p \in Ops \ {o} : AtWork(p)' <=> AtWork(p)
  PROVE  WorkView' = WorkView \ {o}
BY WorkViewIs

LEMMA CancelledKept ==
  ASSUME TypeOK, NEW S, NEW W, task' = Cancelled(S, W)
  PROVE  TasksKept
BY DEF Cancelled, TasksKept, LiveTask

LEMMA SameKept ==
  ASSUME UNCHANGED task
  PROVE  TasksKept
BY DEF TasksKept

LEMMA MoveKept ==
  ASSUME TypeOK, NEW o \in Ops, NEW s, task' = [task EXCEPT ![o] = s],
         task[o] \in LiveTask <=> s \in LiveTask
  PROVE  TasksKept
BY DEF TypeOK, TasksKept

LEMMA ShutSame ==
  ASSUME \A a \in Actors : closing'[a] = "open" <=> closing[a] = "open"
  PROVE  ShutView' = ShutView
BY DEF ShutView

LEMMA ShutGains ==
  ASSUME NEW a \in Actors, closing \in [Actors -> {"open", "cancelling", "joining", "closed", "abandoned"}],
         NEW s, closing' = [closing EXCEPT ![a] = s], s # "open"
  PROVE  ShutView' = ShutView \cup {a}
BY DEF ShutView

LEMMA MailboxesSame ==
  ASSUME UNCHANGED <<control, normal, pre, got>>
  PROVE  LaneView' = LaneView
BY LanesElsewhere, LaneViewSame

-----------------------------------------------------------------------------
(* Every step keeps the contract *)

RefInv ==
  GuardInv /\ Generations /\ SlotInv /\ HitInv /\ StopNotHeld /\ ReclaimInv /\ MailInv

LEMMA RefParts ==
  ASSUME RefInv
  PROVE  /\ TypeOK /\ OnePlace /\ Generations /\ MailInv /\ StopNotHeld /\ AllPlaced /\ CurOpen
         /\ \A o \in Ops : stage[o] \in Waiting \cup Busy \cup {"new"} =>
              task[o] = "none" /\ task[o] \notin LiveTask
         /\ \A o \in Ops : IsRoot(o) /\ AtWork(o) => root[owner[o]] = o
BY DEF RefInv, GuardInv, ReclaimInv, TaskFollowsHandler, RootGuard, Settled, Waiting, Busy, LiveTask

LEMMA KeepsStutter ==
  ASSUME UNCHANGED <<LaneView, StateView, owner, WorkView, finished, ShutView>>
  PROVE  Keeps
BY DEF Keeps

\* Steps that move no operation.
LEMMA KeepsCalm ==
  ASSUME UNCHANGED <<control, normal, pre, got, stage, owner, finished>>, TasksKept,
         \A a \in Actors : closing'[a] = "open" <=> closing[a] = "open"
  PROVE  Keeps
<1>1. LaneView' = LaneView /\ ShutView' = ShutView
  BY MailboxesSame, ShutSame
<1>2. StateView' = StateView
  BY StatesSame DEF Alike
<1>3. WorkView' = WorkView
  BY WorkAlike
<1> QED BY <1>1, <1>2, <1>3, KeepsStutter

\* Steps that only close an actor.
LEMMA KeepsShut ==
  ASSUME TypeOK, UNCHANGED <<owner, finished>>, LaneView' = LaneView,
         \A o \in Ops : Alike(stage[o], stage'[o]) /\ (stage'[o] \in Busy <=> stage[o] \in Busy),
         TasksKept, NEW a \in Actors, NEW s, s # "open", closing' = [closing EXCEPT ![a] = s]
  PROVE  Keeps
<1>1. ShutView' = ShutView \cup {a}
  BY ShutGains DEF TypeOK
<1>2. StateView' = StateView
  BY StatesSame
<1>3. WorkView' = WorkView
  BY WorkAlike
<1> QED BY <1>1, <1>2, <1>3, ContractShut

\* An active operation gets its outcome.
LEMMA KeepsSettle ==
  ASSUME TypeOK, NEW o \in Ops, stage[o] \in Busy \cup {"background"},
         NEW s \in {"completed", "failed"}, Retire(o, s),
         UNCHANGED <<control, normal, pre, got, owner>>,
         \A p \in Ops \ {o} : task'[p] \in LiveTask <=> task[p] \in LiveTask,
         stage[o] \in Busy \/ (task'[o] \in LiveTask <=> task[o] \in LiveTask),
         \A a \in Actors : closing'[a] = "open" <=> closing[a] = "open"
  PROVE  Keeps
<1>1. /\ stage'[o] = "finished" /\ \A p \in Ops \ {o} : stage'[p] = stage[p]
      /\ Told(o, s)
  BY RetireEffect DEF Retire, Told, OnlyMoves, Finishes
<1>2. StateView[o] = "active" /\ StateView' = [StateView EXCEPT ![o] = "settled"]
  BY <1>1, StateNow, StateNext, StateMoves
<1>3. LaneView' = LaneView /\ ShutView' = ShutView
  BY MailboxesSame, ShutSame
<1>4. \A p \in Ops \ {o} : AtWork(p)' <=> AtWork(p)
  BY <1>1 DEF AtWork
<1>5. WorkView' \in {WorkView, WorkView \ {o}}
  <2>1. CASE ~AtWork(o)'
    BY <1>4, <2>1, WorkLoses
  <2>2. CASE AtWork(o)'
    <3>1. AtWork(o)
      BY <1>1, <2>2 DEF AtWork, Busy
    <3> QED BY <1>4, <2>2, <3>1, WorkSame
  <2> QED BY <2>1, <2>2
<1> QED BY <1>1, <1>2, <1>3, <1>5, ContractSettle

\* A worker that takes an item exists and is not open unless it is the current one.
LEMMA WorkerOpen ==
  ASSUME TypeOK, Generations, MailInv, NEW a \in Actors, Worker(a), closing[a] = "open"
  PROVE  a = cur
<1>1. a <= made \/ pc[a] = "waiting"
  BY DEF Worker, TakeNormal, TakeControl, ArmGetters, GetterTakesControl, GetterTakesNormal,
         ResumeWithOne, ResumeWithBoth
<1>2. a \in Nat /\ made \in Nat /\ (a > made => pc[a] = "select")
  BY Numbers DEF Generations, Blank
<1>3. a <= made
  BY <1>1, <1>2
<1> QED BY <1>3 DEF MailInv, OpenIsCur

LEMMA KeepsTake ==
  ASSUME RefInv, NEW a \in Actors, Worker(a), NEW x, Begin(a, x), Takes(a, x), item[a] = NoOp,
         x \in Ops => stage[x] \in Waiting /\ owner[x] = a,
         \A b \in Actors \ {a} : SameLanes(b)
  PROVE  Keeps
<1>1. UNCHANGED <<owner, task, closing>> /\ TypeOK /\ Generations /\ MailInv
  BY WorkerFrame, RefParts
<1>2. ShutView' = ShutView /\ TasksKept
  BY <1>1, ShutSame, SameKept
<1>3. CASE x \notin Ops
  <2>1. UNCHANGED <<stage, finished>>
    BY <1>3 DEF Begin
  <2>2. \A b \in Actors : SameLanes(b)
    BY <1>3 DEF Takes
  <2>3. LaneView' = LaneView
    BY <2>2, LaneViewSame
  <2>4. StateView' = StateView /\ WorkView' = WorkView
    BY <1>2, <2>1, StatesSame, WorkAlike DEF Alike
  <2> QED BY <1>1, <1>2, <2>1, <2>3, <2>4, KeepsStutter
<1>4. CASE x \in Ops
  <2>1. stage[x] \in Waiting /\ owner[x] = a /\ task[x] \notin LiveTask /\ x # Stop
    BY <1>4, RefParts, OpsAssumption
  <2>2. /\ LaneView[a][LaneName(x)] # <<>> /\ x = Head(LaneView[a][LaneName(x)])
        /\ LaneView' = [LaneView EXCEPT ![a][LaneName(x)] = Tail(@)]
    BY <1>4, LaneViewTaken
  <2>3. ~AtWork(x)
    BY <2>1 DEF AtWork, Waiting, Busy
  <2>4. CASE IsRoot(x) /\ root[a] # NoOp /\ Finish(x, "rejected", {})
    <3>1. Retire(x, "rejected")
      BY <2>4 DEF Finish
    <3>2. /\ stage'[x] = "finished" /\ Told(x, "rejected")
          /\ \A p \in Ops \ {x} : stage'[p] = stage[p]
      BY <1>1, <1>4, <3>1, RetireEffect DEF Retire, Told, OnlyMoves, Finishes
    <3>3. StateView' = [StateView EXCEPT ![x] = "settled"]
      BY <1>4, <3>2, StateNext, StateMoves
    <3>4. WorkView' = WorkView
      <4>1. \A p \in Ops : AtWork(p)' <=> AtWork(p)
        BY <1>1, <2>1, <2>3, <3>2 DEF AtWork, Busy
      <4> QED BY <4>1, WorkSame
    <3>5. a \in ShutView \/ \E p \in Ops : IsRoot(p) /\ StateView[p] = "active" /\ owner[p] = a
      <4>1. CASE closing[a] # "open"
        BY <4>1 DEF ShutView
      <4>2. CASE closing[a] = "open"
        <5>1. a = cur /\ a # 0
          BY <1>1, <4>2, WorkerOpen, Numbers
        <5>2. root[a] \in Ops /\ owner[root[a]] = a /\ IsRoot(root[a])
          BY <2>4 DEF RefInv, HitInv, RootOwned, SlotInv, RootKinds
        <5>3. stage[root[a]] = "background"
          BY <2>4, <5>1 DEF RefInv, SlotInv, RootSlotIsLive
        <5>4. StateView[root[a]] = "active"
          BY <5>2, <5>3, StateNow
        <5> QED BY <5>2, <5>4
      <4> QED BY <4>1, <4>2
    <3> QED BY <1>1, <1>2, <1>4, <2>2, <2>4, <3>2, <3>3, <3>4, <3>5, ContractReject
  <2>5. CASE /\ ~(IsRoot(x) /\ root[a] # NoOp) /\ stage' = [stage EXCEPT ![x] = "handling"]
             /\ UNCHANGED finished
    <3>1. stage'[x] = "handling" /\ \A p \in Ops \ {x} : stage'[p] = stage[p]
      BY <1>1, <1>4, <2>5 DEF TypeOK
    <3>2. StateView' = [StateView EXCEPT ![x] = "active"]
      BY <1>4, <3>1, StateNext, StateMoves DEF Busy
    <3>3. WorkView' = WorkView \cup {x}
      <4>1. AtWork(x)' /\ \A p \in Ops \ {x} : AtWork(p)' <=> AtWork(p)
        BY <1>1, <3>1 DEF AtWork, Busy
      <4> QED BY <1>4, <4>1, WorkGains
    <3>4. IsRoot(x) => \A p \in WorkView : IsRoot(p) => owner[p] # a
      <4> SUFFICES ASSUME IsRoot(x), NEW p \in WorkView, IsRoot(p), owner[p] = a PROVE FALSE
        OBVIOUS
      <4>1. p \in Ops /\ AtWork(p)
        BY WorkViewIs
      <4>2. root[a] = p
        BY <4>1, RefParts
      <4> QED BY <2>5, <4>1, <4>2, OpsAssumption
    <3> QED BY <1>1, <1>2, <1>4, <2>2, <2>5, <3>2, <3>3, <3>4, ContractBegin
  <2> QED BY <2>1, <2>4, <2>5 DEF Begin
<1> QED BY <1>3, <1>4

LEMMA KeepsWorker ==
  ASSUME RefInv, NEW a \in Actors, Worker(a)
  PROVE  Keeps
<1>1. TypeOK /\ OnePlace /\ MailInv /\ StopNotHeld
  BY RefParts
<1>2. \A b \in Actors \ {a} : SameLanes(b)
  BY <1>1, LanesWorker
<1>3. CASE SameLanes(a) /\ (ArmGetters(a) \/ GetterTakesControl(a) \/ GetterTakesNormal(a))
  <2>1. UNCHANGED <<owner, task, closing, finished>>
    BY <1>3 DEF ArmGetters, GetterTakesControl, GetterTakesNormal
  <2>2. LaneView' = LaneView /\ ShutView' = ShutView /\ TasksKept
    BY <1>2, <1>3, <2>1, LaneViewSame, ShutSame, SameKept
  <2>3. ASSUME NEW o \in Ops
        PROVE  Alike(stage[o], stage'[o]) /\ (stage'[o] \in Busy <=> stage[o] \in Busy)
    <3>1. stage'[o] = stage[o] \/ (stage[o] \in Waiting /\ stage'[o] = "held")
      <4>1. CASE ArmGetters(a)
        BY <4>1 DEF ArmGetters
      <4>2. CASE GetterTakesControl(a)
        <5>1. control[a] # <<>> /\ stage'[o] = IF o = Head(control[a]) THEN "held" ELSE stage[o]
          BY <4>2 DEF GetterTakesControl
        <5> QED BY <1>1, <5>1, BegunWaited
      <4>3. CASE GetterTakesNormal(a)
        <5>1. normal[a] # <<>> /\ stage' = [stage EXCEPT ![Head(normal[a])] = "held"]
          BY <4>3 DEF GetterTakesNormal
        <5>2. stage'[o] = IF o = Head(normal[a]) THEN "held" ELSE stage[o]
          BY <1>1, <5>1 DEF TypeOK
        <5> QED BY <1>1, <5>1, <5>2, BegunWaited
      <4> QED BY <1>3, <4>1, <4>2, <4>3
    <3> QED BY <3>1 DEF Alike, Waiting, Busy
  <2>4. StateView' = StateView /\ WorkView' = WorkView
    BY <2>2, <2>3, StatesSame, WorkAlike
  <2> QED BY <2>1, <2>2, <2>4, KeepsStutter
<1>4. CASE TakesOne(a)
  <2>1. PICK x : Begin(a, x) /\ Takes(a, x) /\ Source(a, x)
    BY <1>4 DEF TakesOne
  <2>2. item[a] = NoOp /\ (x \in Ops => stage[x] \in Waiting /\ owner[x] = a)
    <3>1. pc[a] # "handling"
      BY DEF Worker, TakeNormal, TakeControl, ArmGetters, GetterTakesControl, GetterTakesNormal,
             ResumeWithOne, ResumeWithBoth
    <3>2. item[a] = NoOp
      BY <1>1, <3>1, PlacesHere DEF Works
    <3>3. x \in Ops => stage[x] \in Waiting /\ owner[x] = a
      BY <1>1, <2>1, BegunWaited DEF Source
    <3> QED BY <3>2, <3>3
  <2> QED BY <1>2, <2>1, <2>2, KeepsTake
<1> QED BY <1>1, <1>3, <1>4, LanesWorker

-----------------------------------------------------------------------------
(* Handlers *)

Ended(o) == \E s \in {"completed", "failed"} : Retire(o, s)

SameOpen == \A a \in Actors : closing'[a] = "open" <=> closing[a] = "open"

\* Handlers that return without touching a task.
LEMMA KeepsReturn ==
  ASSUME RefInv, NEW a \in Actors, NEW o \in Ops,
         \/ FailItem(a, o) \/ RunPlain(a, o) \/ InitDone(a, o)
         \/ RunCloseRefused(a, o) \/ CloseAwaitsItself(a, o) \/ CloseDone(a, o)
  PROVE  Keeps
<1>1. TypeOK /\ OnePlace
  BY RefParts
<1>2. stage[o] \in Busy /\ UNCHANGED <<control, normal, pre, got, owner>>
  BY <1>1, HandlerReturns DEF Handled
<1>3. Ended(o) /\ UNCHANGED task
  BY DEF FailItem, RunPlain, InitDone, RunCloseRefused, CloseAwaitsItself, CloseDone, Finish, Ended
<1>4. SameOpen
  <2>1. CASE CloseAwaitsItself(a, o)
    <3>1. closing[a] = "joining" /\ closing' = [closing EXCEPT ![a] = "abandoned"]
      BY <2>1 DEF CloseAwaitsItself
    <3> QED BY <1>1, <3>1 DEF TypeOK, SameOpen
  <2>2. CASE ~CloseAwaitsItself(a, o)
    BY <2>2 DEF FailItem, RunPlain, InitDone, RunCloseRefused, CloseDone, SameOpen
  <2> QED BY <2>1, <2>2
<1> QED BY <1>1, <1>2, <1>3, <1>4, KeepsSettle DEF Ended, SameOpen

LEMMA InterruptEnds ==
  ASSUME RefInv, NEW o \in Ops, InterruptBody(o)
  PROVE  TasksKept /\ (Ended(o) \/ (stage' = [stage EXCEPT ![o] = "suspended"] /\ UNCHANGED finished))
<1>1. (\E S, W : task' = Cancelled(S, W)) \/ UNCHANGED task
  BY DEF InterruptBody
<1>2. TasksKept
  BY <1>1, RefParts, CancelledKept, SameKept
<1>3. Ended(o) \/ (stage' = [stage EXCEPT ![o] = "suspended"] /\ UNCHANGED finished)
  BY DEF InterruptBody, Ended
<1> QED BY <1>2, <1>3

LEMMA RespondEnds ==
  ASSUME RefInv, NEW o \in Ops, RespondBody(o)
  PROVE  TasksKept /\ Ended(o)
<1>1. Ended(o)
  BY DEF RespondBody, Finish, Ended
<1>2. UNCHANGED task \/ (task[Asker[o]] = "asking" /\ task' = [task EXCEPT ![Asker[o]] = "answered"])
  BY DEF RespondBody
<1>3. TypeOK
  BY RefParts
<1>4. CASE task[Asker[o]] = "asking" /\ task' = [task EXCEPT ![Asker[o]] = "answered"]
  <2>1. \A p \in Ops : task'[p] = IF p = Asker[o] THEN "answered" ELSE task[p]
    BY <1>3, <1>4 DEF TypeOK
  <2> QED BY <1>1, <1>4, <2>1 DEF TasksKept, LiveTask
<1> QED BY <1>1, <1>2, <1>4, SameKept

\* Handlers that go on to a wait.
LEMMA KeepsWait ==
  ASSUME RefInv, NEW o \in Ops, stage[o] \in Busy, stage' = [stage EXCEPT ![o] = "suspended"],
         UNCHANGED <<control, normal, pre, got, owner, finished>>, TasksKept, SameOpen
  PROVE  Keeps
<1>1. \A p \in Ops : stage'[p] = stage[p] \/ (p = o /\ stage'[p] = "suspended")
  BY RefParts DEF TypeOK
<1>2. \A p \in Ops : Alike(stage[p], stage'[p]) /\ (stage'[p] \in Busy <=> stage[p] \in Busy)
  BY <1>1 DEF Alike, Busy
<1>3. StateView' = StateView /\ WorkView' = WorkView
  BY <1>2, StatesSame, WorkAlike
<1>4. LaneView' = LaneView /\ ShutView' = ShutView
  BY MailboxesSame, ShutSame DEF SameOpen
<1> QED BY <1>3, <1>4, KeepsStutter

LEMMA KeepsRegister ==
  ASSUME RefInv, NEW a \in Actors, NEW o \in Ops, RegisterTask(a, o)
  PROVE  Keeps
<1>1. TypeOK /\ OnePlace
  BY RefParts
<1>2. /\ stage[o] \in Busy /\ UNCHANGED <<control, normal, pre, got, owner>>
  BY <1>1, HandlerSteps DEF Handled
<1>3. /\ task' = [task EXCEPT ![o] = "created"] /\ UNCHANGED closing
      /\ Retire(o, "completed") \/ (stage' = [stage EXCEPT ![o] = "background"] /\ UNCHANGED finished)
  BY DEF RegisterTask, Finish
<1>4. \A p \in Ops \ {o} : task'[p] \in LiveTask <=> task[p] \in LiveTask
  BY <1>1, <1>3 DEF TypeOK
<1>5. CASE Retire(o, "completed")
  BY <1>1, <1>2, <1>3, <1>4, <1>5, KeepsSettle
<1>6. CASE stage' = [stage EXCEPT ![o] = "background"] /\ UNCHANGED finished
  <2>1. \A p \in Ops : stage'[p] = IF p = o THEN "background" ELSE stage[p]
    BY <1>1, <1>6 DEF TypeOK
  <2>2. \A p \in Ops : Alike(stage[p], stage'[p])
    BY <1>2, <2>1 DEF Alike
  <2>3. task'[o] \in LiveTask
    BY <1>1, <1>3 DEF TypeOK, LiveTask
  <2>4. \A p \in Ops : AtWork(p)' <=> AtWork(p)
    BY <1>2, <1>4, <2>1, <2>3 DEF AtWork
  <2>5. StateView' = StateView /\ WorkView' = WorkView
    BY <2>2, <2>4, StatesSame, WorkSame
  <2>6. LaneView' = LaneView /\ ShutView' = ShutView
    BY <1>2, <1>3, MailboxesSame, ShutSame
  <2> QED BY <1>2, <1>6, <2>5, <2>6, KeepsStutter
<1> QED BY <1>3, <1>5, <1>6

LEMMA KeepsHandler ==
  ASSUME RefInv, NEW a \in Actors, Handler(a)
  PROVE  Keeps
<1>1. PICK o \in Ops :
        \/ FailItem(a, o) \/ RunPlain(a, o) \/ InitLoaded(a, o) \/ InitDone(a, o)
        \/ RegisterTask(a, o) \/ CompactCancels(a, o) \/ RunInterrupt(a, o) \/ RunRespond(a, o)
        \/ RunCloseRefused(a, o) \/ RunClose(a, o) \/ CloseAwaitsItself(a, o) \/ CloseDone(a, o)
  BY DEF Handler
<1>2. TypeOK /\ OnePlace
  BY RefParts
<1>3. CASE InitLoaded(a, o)
  <2>1. UNCHANGED <<control, normal, pre, got, stage, owner, finished, task, closing>>
    BY <1>3 DEF InitLoaded
  <2> QED BY <2>1, SameKept, KeepsCalm
<1>4. CASE CompactCancels(a, o)
  <2>1. /\ stage' = [stage EXCEPT ![o] = "suspended"] /\ task' = Cancelled(CurrentTasks, {})
        /\ UNCHANGED <<control, normal, pre, got, owner, finished, closing>>
    BY <1>4 DEF CompactCancels
  <2>2. stage[o] \in Busy /\ TasksKept
    BY <1>2, <1>4, <2>1, HandlerSteps, CancelledKept DEF Handled
  <2> QED BY <2>1, <2>2, KeepsWait DEF SameOpen
<1>5. CASE RunInterrupt(a, o)
  <2>1. InterruptBody(o) /\ UNCHANGED <<control, normal, pre, got, owner, closing>>
    BY <1>5 DEF RunInterrupt
  <2>2. stage[o] \in Busy
    BY <1>2, <1>5, HandlerSteps DEF Handled
  <2>3. TasksKept /\ (Ended(o) \/ (stage' = [stage EXCEPT ![o] = "suspended"] /\ UNCHANGED finished))
    BY <2>1, InterruptEnds
  <2>4. CASE Ended(o)
    BY <1>2, <2>1, <2>2, <2>3, <2>4, KeepsSettle DEF Ended, TasksKept
  <2>5. CASE stage' = [stage EXCEPT ![o] = "suspended"] /\ UNCHANGED finished
    BY <2>1, <2>2, <2>3, <2>5, KeepsWait DEF SameOpen
  <2> QED BY <2>3, <2>4, <2>5
<1>6. CASE RunRespond(a, o)
  <2>1. RespondBody(o) /\ UNCHANGED <<control, normal, pre, got, owner, closing>>
    BY <1>6 DEF RunRespond
  <2>2. stage[o] \in Busy
    BY <1>2, <1>6, HandlerReturns DEF Handled
  <2>3. TasksKept /\ Ended(o)
    BY <2>1, RespondEnds
  <2> QED BY <1>2, <2>1, <2>2, <2>3, KeepsSettle DEF Ended, TasksKept
<1>7. CASE RunClose(a, o)
  <2>1. /\ stage' = [stage EXCEPT ![o] = "suspended"] /\ cur # 0 /\ StopBody(cur)
        /\ UNCHANGED <<control, normal, pre, got, owner, finished>>
    BY <1>7 DEF RunClose
  <2>2. stage[o] \in Busy
    BY <1>2, <1>7, HandlerSteps DEF Handled
  <2>3. cur \in Actors
    BY <1>2, <2>1, ActorsAreNumbers DEF TypeOK
  <2>4. TasksKept /\ closing' = [closing EXCEPT ![cur] = "cancelling"]
    BY <1>2, <2>1, CancelledKept DEF StopBody
  <2>5. \A p \in Ops : stage'[p] = stage[p] \/ (p = o /\ stage'[p] = "suspended")
    BY <1>2, <2>1 DEF TypeOK
  <2>6. \A p \in Ops : Alike(stage[p], stage'[p]) /\ (stage'[p] \in Busy <=> stage[p] \in Busy)
    BY <2>2, <2>5 DEF Alike, Busy
  <2>7. LaneView' = LaneView
    BY <2>1, MailboxesSame
  <2> QED BY <1>2, <2>1, <2>3, <2>4, <2>6, <2>7, KeepsShut
<1> QED BY <1>1, <1>3, <1>4, <1>5, <1>6, <1>7, KeepsReturn, KeepsRegister

LEMMA KeepsEnd ==
  ASSUME RefInv, NEW o \in Ops, EndInterrupt(o) \/ WrapperFinishes(o)
  PROVE  Keeps
<1>1. /\ stage[o] \in Busy \cup {"background"} /\ Retire(o, "completed")
      /\ UNCHANGED <<control, normal, pre, got, owner, closing>>
  BY DEF EndInterrupt, WrapperFinishes, Finish, Busy
<1>2. TypeOK /\ TasksKept
  <2>1. (\E S, W : task' = Cancelled(S, W)) \/ UNCHANGED task
    BY DEF EndInterrupt, WrapperFinishes
  <2> QED BY <2>1, RefParts, CancelledKept, SameKept
<1> QED BY <1>1, <1>2, KeepsSettle DEF TasksKept

-----------------------------------------------------------------------------
(* Clients *)

\* The lane of an operation that the mailbox of its kind gets last.
LEMMA LaneViewAppended ==
  ASSUME RefInv, NEW a \in Actors, NEW o \in Ops, closing[a] = "open",
         IF IsControl(o) THEN control' = [control EXCEPT ![a] = Append(control[a], o)] /\ UNCHANGED normal
         ELSE normal' = [normal EXCEPT ![a] = Append(normal[a], o)] /\ UNCHANGED control,
         UNCHANGED <<pre, got>>
  PROVE  LaneView' = [LaneView EXCEPT ![a][LaneName(o)] = Append(@, o)]
<1> DEFINE t == Append(LaneView[a][LaneName(o)], o)
           w == WithoutStop(control[a])
<1>1. TypeOK /\ OnePlace /\ MailInv
  BY RefParts
<1>2. \A b \in Actors \ {a} : SameLanes(b)
  <2>1. \A b \in Actors \ {a} : control'[b] = control[b] /\ normal'[b] = normal[b]
    BY <1>1 DEF TypeOK
  <2> QED BY <2>1, LanesElsewhere
<1>3. /\ ControlLane(a) = LaneOf3(pre[a].control, got[a].control, w)
      /\ NormalLane(a) = LaneOf3(pre[a].normal, got[a].normal, normal[a])
      /\ normal[a] \in Seq(Ops) /\ w \in Seq(Ops) /\ control[a] \in Mails
  BY <1>1, LanesNow
<1>4. /\ ControlLane(a)' = LaneOf3(pre[a].control, got[a].control, WithoutStop(control'[a]))
      /\ NormalLane(a)' = LaneOf3(pre[a].normal, got[a].normal, normal'[a])
  BY LanesNext
<1>5. CASE IsControl(o)
  <2>1. control'[a] = Append(control[a], o) /\ normal'[a] = normal[a]
    BY <1>1, <1>5 DEF TypeOK
  <2>2. \A i \in 1..Len(control[a]) : control[a][i] # Stop
    BY <1>1, NoStopYet DEF MailInv
  <2>3. w = control[a] /\ control[a] \in Seq(Ops)
    BY <1>3, <2>2, NoStopAtEnd
  <2>4. WithoutStop(Append(control[a], o)) = Append(control[a], o)
    <3> DEFINE q == control[a]
               r == Append(q, o)
    <3>1. /\ r \in Seq(Ops) /\ Len(r) = Len(q) + 1 /\ Len(q) \in Nat
          /\ r[Len(q) + 1] = o
      BY <2>3, AppendProperties, LenProperties
    <3> HIDE DEF r, q
    <3>2. r[Len(r)] # Stop
      BY <3>1, OpsAssumption
    <3>3. WithoutStop(r) = r
      BY <3>2 DEF WithoutStop
    <3> QED BY <3>3 DEF r, q
  <2>5. ControlLane(a)' = Append(ControlLane(a), o) /\ NormalLane(a)' = NormalLane(a)
    BY <1>3, <1>4, <2>1, <2>3, <2>4, LaneAppend
  <2>6. LaneView' = [LaneView EXCEPT ![a][LaneName(o)] = t]
    BY <1>2, <1>5, <2>5, LaneViewAt, LaneViewMoves
  <2> QED BY <2>6
<1>6. CASE ~IsControl(o)
  <2>1. normal'[a] = Append(normal[a], o) /\ control'[a] = control[a]
    BY <1>1, <1>6 DEF TypeOK
  <2>2. NormalLane(a)' = Append(NormalLane(a), o) /\ ControlLane(a)' = ControlLane(a)
    BY <1>3, <1>4, <2>1, LaneAppend
  <2>3. LaneView' = [LaneView EXCEPT ![a][LaneName(o)] = t]
    BY <1>2, <1>6, <2>2, LaneViewAt, LaneViewMoves
  <2> QED BY <2>3
<1> QED BY <1>5, <1>6

LEMMA KeepsSubmit ==
  ASSUME RefInv, NEW o \in Ops, NEW a \in Actors, Submit(o, a) \/ SubmitPreemptive(o, a)
  PROVE  Keeps
<1>1. /\ phase = "up" /\ stage[o] = "new" /\ EnsureActor(a) /\ UNCHANGED closing
      /\ owner' = [owner EXCEPT ![o] = a]
  BY DEF Submit, SubmitPreemptive, Accept
<1>2. TypeOK /\ OnePlace /\ Generations /\ CurOpen
  BY RefParts
<1>3. closing[a] = "open" /\ a \notin ShutView /\ ShutView' = ShutView
  BY <1>1, <1>2, OpenHere, ShutSame DEF ShutView
<1>4. StateView[o] = "new" /\ task[o] \notin LiveTask
  BY <1>1, StateNow, RefParts
<1>5. CASE Submit(o, a)
  <2>1. /\ stage' = [stage EXCEPT ![o] = IF IsControl(o) THEN "control" ELSE "normal"]
        /\ UNCHANGED <<finished, task, pre, got>>
        /\ IF IsControl(o) THEN control' = [control EXCEPT ![a] = Append(control[a], o)] /\ UNCHANGED normal
           ELSE normal' = [normal EXCEPT ![a] = Append(normal[a], o)] /\ UNCHANGED control
    BY <1>5 DEF Submit
  <2>2. stage'[o] \in Waiting /\ \A p \in Ops \ {o} : stage'[p] = stage[p]
    BY <1>2, <2>1 DEF TypeOK, Waiting
  <2>3. StateView' = [StateView EXCEPT ![o] = "waiting"]
    BY <2>2, StateNext, StateMoves
  <2>4. \A p \in Ops : stage'[p] \in Busy <=> stage[p] \in Busy
    BY <1>1, <2>2 DEF Waiting, Busy
  <2>5. WorkView' = WorkView
    BY <2>1, <2>4, SameKept, WorkAlike
  <2>6. LaneView' = [LaneView EXCEPT ![a][LaneName(o)] = Append(@, o)]
    BY <1>3, <2>1, LaneViewAppended
  <2> QED BY <1>1, <1>3, <1>4, <2>1, <2>3, <2>5, <2>6, ContractAccept
<1>6. CASE SubmitPreemptive(o, a)
  <2>1. /\ InterruptBody(o) \/ RespondBody(o)
        /\ UNCHANGED <<control, normal, pre, got>>
    BY <1>6 DEF SubmitPreemptive
  <2>2. Kind[o] \in {"interrupt", "respond"}
    BY <1>6 DEF SubmitPreemptive, Preempts
  <2>3. LaneView' = LaneView
    BY <2>1, MailboxesSame
  <2>4. TasksKept /\ (Ended(o) \/ (stage' = [stage EXCEPT ![o] = "suspended"] /\ UNCHANGED finished))
    BY <2>1, InterruptEnds, RespondEnds
  <2>5. CASE Ended(o)
    <3>1. PICK s \in {"completed", "failed"} : Retire(o, s)
      BY <2>5 DEF Ended
    <3>2. stage'[o] = "finished" /\ Told(o, s) /\ \A p \in Ops \ {o} : stage'[p] = stage[p]
      BY <1>2, <3>1, RetireEffect DEF Retire, Told, OnlyMoves, Finishes
    <3>3. StateView' = [StateView EXCEPT ![o] = "settled"]
      BY <3>2, StateNext, StateMoves
    <3>4. \A p \in Ops : stage'[p] \in Busy <=> stage[p] \in Busy
      BY <1>1, <3>2 DEF Busy
    <3>5. WorkView' = WorkView
      BY <2>4, <3>4, WorkAlike
    <3> QED BY <1>1, <1>3, <1>4, <2>2, <2>3, <3>2, <3>3, <3>5, ContractPreempt
  <2>6. CASE stage' = [stage EXCEPT ![o] = "suspended"] /\ UNCHANGED finished
    <3>1. stage'[o] = "suspended" /\ \A p \in Ops \ {o} : stage'[p] = stage[p]
      BY <1>2, <2>6 DEF TypeOK
    <3>2. StateView' = [StateView EXCEPT ![o] = "active"]
      BY <3>1, StateNext, StateMoves DEF Busy
    <3>3. AtWork(o)' /\ \A p \in Ops \ {o} : AtWork(p)' <=> AtWork(p)
      BY <2>4, <3>1 DEF AtWork, Busy, TasksKept
    <3>4. WorkView' = WorkView \cup {o}
      BY <3>3, WorkGains
    <3> QED BY <1>1, <1>3, <1>4, <2>2, <2>3, <2>6, <3>2, <3>4, ContractPreempt
  <2> QED BY <2>4, <2>5, <2>6
<1> QED BY <1>5, <1>6

-----------------------------------------------------------------------------
(* Tasks *)

\* The task of o ends.
LEMMA KeepsRest ==
  ASSUME RefInv, NEW o \in Ops, task[o] \in LiveTask, NEW s, s \notin LiveTask,
         task' = [task EXCEPT ![o] = s],
         UNCHANGED <<control, normal, pre, got, stage, owner, finished, closing>>
  PROVE  Keeps
<1>1. stage[o] \notin Busy
  BY RefParts
<1>2. \A p \in Ops : task'[p] = IF p = o THEN s ELSE task[p]
  BY RefParts DEF TypeOK
<1>3. ~AtWork(o)' /\ \A p \in Ops \ {o} : AtWork(p)' <=> AtWork(p)
  BY <1>1, <1>2 DEF AtWork
<1>4. WorkView' = WorkView \ {o} /\ o \in WorkView
  BY <1>3, WorkLoses, WorkViewIs DEF AtWork
<1>5. LaneView' = LaneView /\ ShutView' = ShutView
  BY MailboxesSame, ShutSame
<1>6. StateView' = StateView
  BY StatesSame DEF Alike
<1> QED BY <1>4, <1>5, <1>6, ContractRest

LEMMA KeepsTask ==
  ASSUME RefInv, NEW o \in Ops,
         \/ TaskStarts(o) \/ TaskDies(o) \/ TaskResumes(o) \/ TaskEnds(o)
         \/ \E a \in Actors : TaskAsks(o, a) \/ InteractionCancelled(o, a)
  PROVE  Keeps
<1>1. UNCHANGED <<control, normal, pre, got, stage, owner, finished, closing>>
  BY DEF TaskStarts, TaskDies, TaskResumes, TaskEnds, TaskAsks, InteractionCancelled
<1>2. TypeOK
  BY RefParts
<1>3. CASE TaskDies(o) \/ TaskEnds(o)
  <2>1. /\ task[o] \in {"doomed", "running", "cancelling"}
        /\ \E s \in {"stillborn", "ended"} : task' = [task EXCEPT ![o] = s]
    BY <1>3 DEF TaskDies, TaskEnds
  <2> QED BY <1>1, <2>1, KeepsRest DEF LiveTask
<1>4. CASE TaskStarts(o) \/ TaskResumes(o) \/ \E a \in Actors : TaskAsks(o, a)
  <2>1. /\ task[o] \in {"created", "answered", "withdrawn", "running"}
        /\ \E s \in {"running", "asking"} : task' = [task EXCEPT ![o] = s]
    BY <1>4 DEF TaskStarts, TaskResumes, TaskAsks
  <2>2. TasksKept
    BY <1>2, <2>1, MoveKept DEF LiveTask
  <2> QED BY <1>1, <2>2, KeepsCalm
<1>5. CASE \E a \in Actors : InteractionCancelled(o, a)
  <2>1. UNCHANGED task
    BY <1>5 DEF InteractionCancelled
  <2> QED BY <1>1, <2>1, SameKept, KeepsCalm
<1> QED BY <1>3, <1>4, <1>5

-----------------------------------------------------------------------------
(* Closing *)

\* A STOP is posted where none is: the lanes stay.
LEMMA LanesPosted ==
  ASSUME RefInv, NEW a \in Actors, \A i \in 1..Len(control[a]) : control[a][i] # Stop,
         control' = [control EXCEPT ![a] = Append(control[a], Stop)],
         UNCHANGED <<normal, pre, got>>
  PROVE  LaneView' = LaneView
<1>1. TypeOK /\ MailInv
  BY RefParts
<1>2. \A b \in Actors \ {a} : SameLanes(b)
  <2>1. \A b \in Actors \ {a} : control'[b] = control[b]
    BY <1>1 DEF TypeOK
  <2> QED BY <2>1, LanesElsewhere
<1>3. control'[a] = Append(control[a], Stop) /\ control[a] \in Mails
  BY <1>1, LanesNow DEF TypeOK
<1>4. WithoutStop(control'[a]) = control[a] /\ WithoutStop(control[a]) = control[a]
  BY <1>3, WithoutStopPosted, NoStopAtEnd
<1>5. SameLanes(a)
  BY <1>1, <1>4, LanesNow, LanesNext DEF SameLanes
<1> QED BY <1>2, <1>5, LaneViewSame

LEMMA KeepsPosted ==
  ASSUME RefInv, NEW a \in Actors, PostStop(a) \/ CloseIdle(a)
  PROVE  Keeps
<1>1. /\ control' = [control EXCEPT ![a] = Append(control[a], Stop)]
      /\ closing' = [closing EXCEPT ![a] = "joining"]
      /\ UNCHANGED <<normal, pre, got, stage, owner, finished, task>>
  BY DEF PostStop, CloseIdle
<1>2. \A i \in 1..Len(control[a]) : control[a][i] # Stop
  <2>1. CASE PostStop(a)
    BY <2>1, RefParts, NoStopYet DEF PostStop, MailInv
  <2>2. CASE CloseIdle(a)
    <3>1. control[a] = <<>> /\ Len(<<>>) = 0
      BY <2>2, EmptySeq DEF CloseIdle, IsIdle
    <3> QED BY <3>1
  <2> QED BY <2>1, <2>2
<1>3. LaneView' = LaneView
  BY <1>1, <1>2, LanesPosted
<1>4. \A o \in Ops : Alike(stage[o], stage'[o]) /\ (stage'[o] \in Busy <=> stage[o] \in Busy)
  BY <1>1 DEF Alike
<1> QED BY <1>1, <1>3, <1>4, SameKept, RefParts, KeepsShut

LEMMA KeepsShutdown ==
  ASSUME RefInv, FacadeStops \/ RegistryStops \/ RegistryStopsActor
  PROVE  Keeps
<1>1. UNCHANGED <<control, normal, pre, got, stage, owner, finished>> /\ TypeOK
  BY RefParts DEF FacadeStops, RegistryStops, RegistryStopsActor
<1>2. CASE FacadeStops \/ RegistryStops
  <2>1. UNCHANGED closing /\ \E S, W : task' = Cancelled(S, W)
    BY <1>2 DEF FacadeStops, RegistryStops
  <2> QED BY <1>1, <2>1, CancelledKept, KeepsCalm
<1>3. CASE RegistryStopsActor /\ cur = 0
  <2>1. UNCHANGED <<closing, task>>
    BY <1>3 DEF RegistryStopsActor
  <2> QED BY <1>1, <2>1, SameKept, KeepsCalm
<1>4. CASE RegistryStopsActor /\ cur # 0
  <2>1. /\ closing' = [closing EXCEPT ![cur] = "cancelling"]
        /\ \E S, W : task' = Cancelled(S, W)
    BY <1>4 DEF RegistryStopsActor, StopBody
  <2>2. cur \in Actors /\ TasksKept /\ LaneView' = LaneView
    BY <1>1, <1>4, <2>1, CancelledKept, MailboxesSame, ActorsAreNumbers DEF TypeOK
  <2>3. \A o \in Ops : Alike(stage[o], stage'[o]) /\ (stage'[o] \in Busy <=> stage[o] \in Busy)
    BY <1>1 DEF Alike
  <2> QED BY <1>1, <2>1, <2>2, <2>3, KeepsShut
<1> QED BY <1>2, <1>3, <1>4

LEMMA KeepsIdle ==
  ASSUME NEW a \in Actors, ObserveIdle(a) \/ TTLPasses(a)
  PROVE  Keeps
BY SameKept, KeepsCalm DEF ObserveIdle, TTLPasses

\* What the worker left is exactly what the lanes of its actor hold.
LEMMA LeftInQueue ==
  ASSUME RefInv, NEW a \in Actors, pc[a] = "exited", NEW o \in Ops
  PROVE  InQueue(o, a) <=> stage[o] \in Waiting /\ owner[o] = a
<1>1. TypeOK /\ OnePlace /\ Placed(o)
  BY RefParts DEF AllPlaced
<1>2. /\ Queued(control[a], a, "control", TRUE, stage, owner)
      /\ Queued(normal[a], a, "normal", FALSE, stage, owner)
      /\ Held(pre[a], a, stage, owner)
      /\ control[a] \in Seq(Ops \cup {Stop}) /\ normal[a] \in Seq(Ops \cup {Stop})
  BY <1>1, PlacesHere
<1>3. got[a] = NoItems /\ NoItems.control = NoOp /\ NoItems.normal = NoOp /\ NoOp \notin Ops
  BY <1>1, SlotsNow
<1>4. DOMAIN control[a] = 1..Len(control[a]) /\ DOMAIN normal[a] = 1..Len(normal[a])
  BY <1>2, LenProperties
<1>5. InQueue(o, a) <=> InMail(o, control[a]) \/ InMail(o, normal[a]) \/ InSlots(o, pre[a])
  BY <1>4 DEF InQueue, InMail, InSlots
<1>6. ASSUME InMail(o, control[a]) \/ InMail(o, normal[a]) \/ InSlots(o, pre[a])
      PROVE  stage[o] \in Waiting /\ owner[o] = a
  BY <1>2, <1>6 DEF InMail, InSlots, Queued, Held, Waiting
<1>7. ASSUME stage[o] \in Waiting, owner[o] = a
      PROVE  InMail(o, control[a]) \/ InMail(o, normal[a]) \/ InSlots(o, pre[a])
  <2>1. PlacedIn(o, a, stage[o])
    BY <1>1, <1>7 DEF Placed, InPlaces
  <2>2. ~InSlots(o, got[a])
    BY <1>3 DEF InSlots
  <2> QED BY <1>7, <2>1, <2>2 DEF PlacedIn, Waiting
<1> QED BY <1>5, <1>6, <1>7

LEMMA KeepsJoin ==
  ASSUME RefInv, NEW a \in Actors, JoinWorker(a)
  PROVE  Keeps
<1>1. TypeOK /\ OnePlace /\ MailInv
  BY RefParts
<1>2. /\ closing[a] = "joining" /\ pc[a] = "exited"
      /\ closing' = [closing EXCEPT ![a] = "closed"]
      /\ control' = [control EXCEPT ![a] = <<>>] /\ normal' = [normal EXCEPT ![a] = <<>>]
      /\ pre' = [pre EXCEPT ![a] = NoItems]
      /\ stage' = [o \in Ops |-> IF InQueue(o, a) THEN "dropped" ELSE stage[o]]
      /\ UNCHANGED <<got, owner, finished, task>>
  BY DEF JoinWorker, NoItems
<1>3. a \in ShutView /\ ShutView' = ShutView
  <2>1. \A b \in Actors : closing'[b] = "open" <=> closing[b] = "open"
    BY <1>1, <1>2 DEF TypeOK
  <2> QED BY <1>2, <2>1, ShutSame DEF ShutView
<1>4. \A o \in Ops : stage'[o] = IF stage[o] \in Waiting /\ owner[o] = a THEN "dropped" ELSE stage[o]
  BY <1>2, LeftInQueue
<1>5. StateView' = [o \in Ops |-> IF owner[o] = a /\ StateView[o] = "waiting"
                                  THEN "lost" ELSE StateView[o]]
  <2>1. ASSUME NEW o \in Ops
        PROVE  State(o)' = IF owner[o] = a /\ StateView[o] = "waiting" THEN "lost" ELSE StateView[o]
    <3>1. stage[o] \in Stages
      BY <1>1 DEF TypeOK
    <3>2. StateView[o] = "waiting" <=> stage[o] \in Waiting
      BY <3>1, StateNow
    <3>3. CASE stage[o] \in Waiting /\ owner[o] = a
      BY <1>4, <3>2, <3>3, StateNext
    <3>4. CASE ~(stage[o] \in Waiting /\ owner[o] = a)
      <4>1. State(o)' = State(o)
        BY <1>4, <3>4, StateAlike DEF Alike
      <4> QED BY <3>2, <3>4, <4>1 DEF StateView
    <3> QED BY <3>3, <3>4
  <2>2. StateView' = [o \in Ops |-> State(o)']
    BY DEF StateView
  <2> QED BY <2>1, <2>2
<1>6. WorkView' = WorkView
  <2>1. \A o \in Ops : stage'[o] \in Busy <=> stage[o] \in Busy
    BY <1>4 DEF Waiting, Busy
  <2> QED BY <1>2, <2>1, SameKept, WorkAlike
<1>7. LaneView' = [LaneView EXCEPT ![a] = [l \in {"control", "normal"} |-> <<>>]]
  <2>1. ASSUME NEW b \in Actors \ {a} PROVE SameLanes(b)
    <3>1. /\ control'[b] = control[b] /\ normal'[b] = normal[b]
          /\ pre'[b] = pre[b] /\ got'[b] = got[b]
      BY <1>1, <1>2 DEF TypeOK
    <3> QED BY <3>1, LanesElsewhere
  <2>2. /\ control'[a] = <<>> /\ normal'[a] = <<>> /\ pre'[a] = NoItems /\ got'[a] = NoItems
    BY <1>1, <1>2, SlotsNow DEF TypeOK
  <2>3. NoItems.control = NoOp /\ NoItems.normal = NoOp /\ NoOp \notin Ops /\ WithoutStop(<<>>) = <<>>
    BY <1>1, SlotsNow DEF WithoutStop
  <2>4. ControlLane(a)' = <<>> /\ NormalLane(a)' = <<>>
    <3>1. <<>> \in Seq(Ops)
      OBVIOUS
    <3>2. LaneOf3(NoOp, NoOp, <<>>) = <<>>
      BY <2>3, <3>1, LaneEmpty
    <3> QED BY <2>2, <2>3, <3>2, LanesNext
  <2> DEFINE L(b) == [l \in {"control", "normal"} |->
                        IF l = "control" THEN ControlLane(b) ELSE NormalLane(b)]
             M(b) == [l \in {"control", "normal"} |->
                        IF l = "control" THEN ControlLane(b)' ELSE NormalLane(b)']
  <2>5. LaneView = [b \in Actors |-> L(b)] /\ LaneView' = [b \in Actors |-> M(b)]
    BY DEF LaneView
  <2>6. \A b \in Actors \ {a} : M(b) = L(b)
    BY <2>1 DEF SameLanes
  <2>7. M(a) = [l \in {"control", "normal"} |-> <<>>]
    BY <2>4
  <2> HIDE DEF L, M
  <2> QED BY <2>5, <2>6, <2>7
<1> QED BY <1>2, <1>3, <1>5, <1>6, <1>7, ContractLose

-----------------------------------------------------------------------------

LEMMA KeepsNext ==
  ASSUME RefInv, [Next]_vars
  PROVE  Keeps
<1>1. CASE UNCHANGED vars
  BY <1>1, SameKept, KeepsCalm
<1>2. CASE Quiet
  BY <1>2, KeepsTask, KeepsIdle, KeepsShutdown DEF Quiet
<1> QED BY <1>1, <1>2, NextCases, KeepsSubmit, KeepsEnd, KeepsWorker, KeepsHandler, KeepsPosted,
           KeepsJoin

LEMMA ContractStarts ==
  ASSUME Init
  PROVE  Contract!Init
<1>1. /\ \A a \in Actors : control[a] = <<>> /\ normal[a] = <<>> /\ closing[a] = "open"
      /\ \A a \in Actors : pre[a] = NoItems /\ got[a] = NoItems
      /\ \A o \in Ops : stage[o] = "new" /\ task[o] = "none"
      /\ owner = [o \in Ops |-> 0] /\ finished = [o \in Ops |-> <<>>]
  BY DEF Init, NoItems
<1>2. NoItems.control = NoOp /\ NoItems.normal = NoOp /\ NoOp \notin Ops
  BY OpsAssumption DEF NoItems
<1>3. LaneView = [a \in Actors |-> [l \in {"control", "normal"} |-> <<>>]]
  <2>1. <<>> \in Seq(Ops) /\ WithoutStop(<<>>) = <<>>
    BY DEF WithoutStop
  <2>2. LaneOf3(NoOp, NoOp, <<>>) = <<>>
    BY <1>2, <2>1, LaneEmpty
  <2>3. \A a \in Actors : ControlLane(a) = <<>> /\ NormalLane(a) = <<>>
    BY <1>1, <1>2, <2>1, <2>2 DEF ControlLane, NormalLane, LaneOf3
  <2> QED BY <2>3 DEF LaneView
<1>4. StateView = [o \in Ops |-> "new"]
  BY <1>1 DEF StateView, State
<1>5. WorkView = {}
  BY <1>1 DEF WorkView, LiveTask
<1>6. ShutView = {}
  BY <1>1 DEF ShutView
<1> QED BY <1>1, <1>3, <1>4, <1>5, <1>6 DEF Contract!Init, Contract!Lanes

\* Clients see the contract, for every set of operations and any quota: each step
\* of a worker, a handler, a task, a close or the shutdown is one step of the
\* contract, or nothing that clients could tell.
THEOREM SessionImplementsContract == Spec => KeepsContract
<1>1. Init => Contract!Init
  BY ContractStarts
<1>2. RefInv /\ [Next]_vars => [Contract!Next]_(Contract!cvars)
  BY KeepsNext DEF Keeps, Contract!cvars
<1>3. GuardInv /\ Generations /\ SlotInv /\ HitInv /\ StopNotHeld /\ ReclaimInv /\ MailInv => RefInv
  BY DEF RefInv
<1> QED BY <1>1, <1>2, <1>3, GuardCorrect, GenerationsHold, SlotsHold, HitCorrect, StopNeverHeld,
           ReclaimHolds, MailHolds, PTL DEF Spec, KeepsContract, Contract!Spec
=============================================================================
