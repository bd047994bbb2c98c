--------------------------- MODULE SessionRuntime ---------------------------
(***************************************************************************)
(* The runtime of ONE session of the klaude server: the SessionActor       *)
(* objects a SessionRegistry creates for it, one generation after another, *)
(* the operations submitted to it, the tasks their handlers start, user    *)
(* interactions, interrupts, session close, idle reclaim and shutdown.     *)
(* Sessions share no actor state, so one session is the unit of checking.  *)
(*                                                                         *)
(* Everything runs on one asyncio event loop.  An action is a stretch of   *)
(* code between two points where the coroutine really suspends; awaiting a *)
(* coroutine that never suspends (an event publish, an unbounded put) does *)
(* not end an action.                                                      *)
(*                                                                         *)
(* control/runtime/actor.py, control/runtime/registry.py,                  *)
(* app/runtime_facade.py, agent/runtime/agent_ops.py, dispatcher.py        *)
(***************************************************************************)
EXTENDS Integers, Sequences

CONSTANTS
  Ops,        \* operations that clients may submit, each at most once
  Kind,       \* [Ops -> Kinds], the class of each operation
  Expected,   \* [Ops -> Ops \cup {NoOp}], expected_operation_id of an interrupt
  Asker,      \* [Ops -> Ops \cup {NoOp}], the task a respond operation answers
  AllowStop,  \* does this instance include RuntimeFacade.stop()
  Quota,      \* control_burst_quota
  MaxActors,  \* bound: actor generations created for the session
  NoOp,       \* "no operation"
  Stop        \* _STOP_SIGNAL

\* "run" stands for every root operation that starts a task and returns
\* (agent turn, bash, continue, model pickers); "summary" for a non-root
\* operation with a background task; "config" for the other non-root ones.
Kinds == {"run", "compact", "summary", "init", "config",
          "follow_up", "interrupt", "respond", "close"}

ASSUME OpsAssumption ==
  /\ Kind \in [Ops -> Kinds]
  /\ Expected \in [Ops -> Ops \cup {NoOp}]
  /\ Asker \in [Ops -> Ops \cup {NoOp}]
  /\ NoOp \notin Ops /\ Stop \notin Ops /\ NoOp # Stop

ASSUME BoundsAssumption == Quota \in Nat \ {0} /\ MaxActors \in Nat \ {0}

\* A close operation that races a server shutdown is left out.
ASSUME StopAssumption ==
  AllowStop \in BOOLEAN /\ (AllowStop => \A o \in Ops : Kind[o] # "close")

IsRoot(o) == Kind[o] \in {"run", "compact"}
IsControl(o) == Kind[o] \in {"follow_up", "interrupt", "respond", "close"}

Actors == 1..MaxActors   \* actor generations; 0 is "no actor"
Items == Ops \cup {Stop, NoOp}
LiveTask == {"created", "running", "asking", "answered", "withdrawn", "cancelling", "doomed"}
DoneTask == {"ended", "stillborn"}

VARIABLES
  cur,        \* _session_actors[session]: the registered generation, or 0
  made,       \* generations created so far
  registered, \* keys of _operation_runtime_ids
  phase,      \* RuntimeFacade: "up", then the stages of stop()
  control,    \* [Actors -> Seq]: control_mailbox
  normal,     \* [Actors -> Seq]: normal_mailbox
  got,        \* what the two getter tasks of _next_item hold
  pre,        \* _prefetched_control, _prefetched_normal
  burst,      \* control_burst_count
  pc,         \* worker: "select", "waiting", "handling", "exited"
  item,       \* operation the worker is handling
  root,       \* active_root_task.operation_id
  handles,    \* task_handles, by the operation that registered the task
  pending,    \* pending_requests, by the operation whose task asked
  agent,      \* is an Agent set
  idle,       \* idle_since_monotonic: "active" (None), "fresh", "expired"
  closing,    \* SessionActor.stop(): "open", "cancelling", "joining", "closed",
              \* or "abandoned" when it raised
  stage,      \* where an operation is
  owner,      \* generation an operation was submitted to, 0 before
  task,       \* the asyncio task an operation's handler registered
  target,     \* actor a suspended init or close handler works on, else 0
  awaiting,   \* tasks a handler waits for after cancelling them
  stopWait,   \* tasks SessionActor.stop() of each actor waits for; RuntimeFacade.stop() at 0
  silenced,   \* operations whose lifecycle wrapper was cancelled before its first step
  finished,   \* [Ops -> Seq]: OperationFinishedEvents, by status
  overtaken   \* history: control operations taken while a normal one waited

registryVars == <<cur, made, registered>>
queueVars == <<control, normal, got, pre, burst, overtaken>>
workerVars == <<pc, item>>
actorVars == <<root, handles, pending, agent, idle>>
opVars == <<stage, owner, target, awaiting, finished>>
stopVars == <<phase, closing, stopWait, silenced>>
vars == <<registryVars, queueVars, workerVars, actorVars, opVars, stopVars,
          task>>

Init ==
  /\ cur = 0 /\ made = 0 /\ registered = {} /\ phase = "up"
  /\ control = [a \in Actors |-> <<>>] /\ normal = [a \in Actors |-> <<>>]
  /\ got = [a \in Actors |-> [control |-> NoOp, normal |-> NoOp]]
  /\ pre = [a \in Actors |-> [control |-> NoOp, normal |-> NoOp]]
  /\ burst = [a \in Actors |-> 0]
  /\ pc = [a \in Actors |-> "select"] /\ item = [a \in Actors |-> NoOp]
  /\ root = [a \in Actors |-> NoOp]
  /\ handles = [a \in Actors |-> {}] /\ pending = [a \in Actors |-> {}]
  /\ agent = [a \in Actors |-> FALSE] /\ idle = [a \in Actors |-> "fresh"]
  /\ closing = [a \in Actors |-> "open"]
  /\ stage = [o \in Ops |-> "new"] /\ owner = [o \in Ops |-> 0]
  /\ task = [o \in Ops |-> "none"] /\ target = [o \in Ops |-> 0]
  /\ awaiting = [o \in Ops |-> {}] /\ stopWait = [a \in 0..MaxActors |-> {}]
  /\ silenced = {}
  /\ finished = [o \in Ops |-> <<>>]
  /\ overtaken = [a \in Actors |-> 0]

-----------------------------------------------------------------------------
(* Shared helpers *)

\* Variant: mailboxes that still hold operations count as idle.
IdleWithMail(a) ==
  root[a] = NoOp /\ pending[a] = {} /\ handles[a] = {}
  /\ pre[a] = [control |-> NoOp, normal |-> NoOp]

\* SessionActor.is_idle.  An item a getter task holds, and the operation the
\* worker is handling, do not count: the code does not look at them.
IsIdle(a) ==
  /\ root[a] = NoOp /\ pending[a] = {} /\ handles[a] = {}
  /\ pre[a] = [control |-> NoOp, normal |-> NoOp]
  /\ control[a] = <<>> /\ normal[a] = <<>>

\* _refresh_idle_since, evaluated in the state the action leads to.
RefreshIdle(S) ==
  idle' = [a \in Actors |->
             IF a \in S /\ idle[a] = "active" /\ IsIdle(a)' THEN "fresh" ELSE idle[a]]

\* _ensure_session_actor: the current generation, else a new one.
EnsureActor(a) ==
  /\ a = IF cur # 0 THEN cur ELSE made + 1
  /\ a \in Actors
  /\ cur' = a
  /\ made' = IF cur # 0 THEN made ELSE a

\* Variants: any completion clears the slot, or none does.
ClearRootOfAny(o, S) ==
  root' = [a \in Actors |-> IF a \in S \/ (a = cur /\ o \in registered) THEN NoOp ELSE root[a]]
KeepRoot(o, S) == UNCHANGED root

\* The actors whose root slot mark_operation_completed(o) clears: the
\* registry's current one if o is still registered, and those in S.
ClearRoot(o, S) ==
  root' = [a \in Actors |->
             IF root[a] = o /\ (a \in S \/ (a = cur /\ o \in registered))
             THEN NoOp ELSE root[a]]

\* SessionRegistry.mark_operation_completed, the root slot aside, followed by
\* the finished event.
Retire(o, status) ==
  /\ stage' = [stage EXCEPT ![o] = "finished"]
  /\ finished' = [finished EXCEPT ![o] = Append(@, status)]
  /\ registered' = registered \ {o}

Finish(o, status, S) == Retire(o, status) /\ ClearRoot(o, S)

\* The actor whose idle clock mark_operation_completed(o) refreshes.
Refreshed(o) == IF o \in registered THEN {cur} ELSE {}

\* Variant: the worker does not move on to the next item.
NeverRelease(o) == UNCHANGED <<pc, item>>

\* The handler of o returned: if a worker ran it, the worker selects again.
Release(o) ==
  /\ pc' = [a \in Actors |-> IF item[a] = o THEN "select" ELSE pc[a]]
  /\ item' = [a \in Actors |-> IF item[a] = o THEN NoOp ELSE item[a]]

\* task.cancel() on the tasks in S, and cancel() on the interaction futures of
\* the tasks in W: a task that only loses its question goes on without answer.
\* A task cancelled before its first step never runs its finally block.
Cancelled(S, W) ==
  [o \in Ops |-> IF o \in S /\ task[o] \in {"created", "doomed"} THEN "doomed"
                ELSE IF o \in S /\ task[o] \in LiveTask THEN "cancelling"
                ELSE IF o \in W /\ task[o] = "asking" THEN "withdrawn"
                ELSE task[o]]

\* SessionActor.cancel_active_tasks: the tasks to cancel; handles of tasks that
\* are done are dropped, and the root slot with them.
ActiveTasks(a) == {o \in handles[a] : task[o] \in LiveTask}
DropDoneHandles(S) ==
  /\ handles' = [a \in Actors |-> IF a \in S THEN ActiveTasks(a) ELSE handles[a]]
  /\ root' = [a \in Actors |-> IF a \in S /\ root[a] \in handles[a] \ ActiveTasks(a)
                              THEN NoOp ELSE root[a]]

\* What the registry finds on the session's current actor, if there is one.
CurrentActor == {cur} \ {0}
CurrentTasks == IF cur = 0 THEN {} ELSE ActiveTasks(cur)
CurrentPending == IF cur = 0 THEN {} ELSE pending[cur]

\* Variant: the futures are cancelled but their entries stay.
KeepPending == UNCHANGED pending

\* cancel_pending_interactions on the current actor; the done callbacks of the
\* futures find the entries already removed.
CancelCurrentPending == pending' = [a \in Actors |-> IF a = cur THEN {} ELSE pending[a]]


-----------------------------------------------------------------------------
(* Handlers that run in one go, by the worker or by a preempting submitter *)

\* Variant: expected_operation_id is not compared.
IsStaleIgnoringTurn(o) == cur = 0

\* A missing actor, or an expected operation that is not the active root, makes
\* AgentOperationHandler.interrupt return False.
IsStale(o) == cur = 0 \/ (Expected[o] # NoOp /\ root[cur] # Expected[o])

\* interrupt, up to its wait for the cancelled tasks.
InterruptBody(o) ==
  LET victims == IF IsStale(o) THEN {} ELSE CurrentTasks
  IN /\ awaiting' = [awaiting EXCEPT ![o] = victims]
     /\ DropDoneHandles(IF IsStale(o) THEN {} ELSE CurrentActor)
     /\ IF victims # {}
        THEN /\ task' = Cancelled(victims, {})
             /\ stage' = [stage EXCEPT ![o] = "suspended"]
             /\ registered' = IF stage[o] = "new" THEN registered \cup {o} ELSE registered
             /\ UNCHANGED <<finished, pending>>
        ELSE \* nothing to wait for
             /\ IF IsStale(o) THEN UNCHANGED <<task, pending>>
                ELSE task' = Cancelled({}, CurrentPending) /\ CancelCurrentPending
             /\ Retire(o, "completed")

\* handle_user_interaction_respond: the first answer wins; without a pending
\* request the handler raises.
RespondBody(o) ==
  LET asker == Asker[o]
      found == cur # 0 /\ asker \in pending[cur]
  IN /\ pending' = [a \in Actors |-> IF a = cur THEN pending[a] \ {asker} ELSE pending[a]]
     /\ task' = IF found /\ task[asker] = "asking"
                THEN [task EXCEPT ![asker] = "answered"] ELSE task
     /\ Finish(o, IF found THEN "completed" ELSE "failed", {})
     /\ UNCHANGED <<handles, awaiting>>

-----------------------------------------------------------------------------
(* Clients: RuntimeFacade.submit, SessionRegistry.submit, SessionActor.enqueue *)

Accept(o, a) ==
  /\ phase = "up" /\ stage[o] = "new"
  /\ EnsureActor(a)
  /\ owner' = [owner EXCEPT ![o] = a]

\* _should_preempt_control
Preempts(o, a) == Kind[o] \in {"interrupt", "respond"} /\ root[a] # NoOp

Submit(o, a) ==
  /\ Accept(o, a) /\ ~Preempts(o, a)
  /\ registered' = registered \cup {o}
  /\ IF IsControl(o)
     THEN control' = [control EXCEPT ![a] = Append(@, o)] /\ UNCHANGED normal
     ELSE normal' = [normal EXCEPT ![a] = Append(@, o)] /\ UNCHANGED control
  /\ stage' = [stage EXCEPT ![o] = IF IsControl(o) THEN "control" ELSE "normal"]
  /\ idle' = [idle EXCEPT ![a] = "active"]
  /\ UNCHANGED <<got, pre, burst, overtaken, workerVars, root, handles, pending,
                 agent, target, awaiting, finished, stopVars, task>>

\* run_control_preemptive: the handler runs in the submitter's own task.
SubmitPreemptive(o, a) ==
  /\ Accept(o, a) /\ Preempts(o, a)
  /\ IF Kind[o] = "interrupt" THEN InterruptBody(o) ELSE RespondBody(o)
  /\ idle' = [idle EXCEPT ![a] = "active"]
  /\ UNCHANGED <<queueVars, workerVars, agent, target, stopVars>>

-----------------------------------------------------------------------------
(* The worker: SessionActor._run_loop and _next_item *)

\* Variants: a prefetched item is overlooked.
NormalMail(a) == normal[a] # <<>>
ControlMail(a) == control[a] # <<>>

NormalAvailable(a) == pre[a].normal # NoOp \/ normal[a] # <<>>
ControlAvailable(a) == pre[a].control # NoOp \/ control[a] # <<>>

\* _run_loop once _next_item returned x: stop, reject a root operation while
\* another is active, or claim the root slot and call the handler.
Begin(a, x) ==
  \/ /\ x = Stop
     /\ pc' = [pc EXCEPT ![a] = "exited"]
     /\ UNCHANGED <<item, stage, root, finished, registered, idle>>
  \/ /\ x \in Ops /\ IsRoot(x) /\ root[a] # NoOp
     /\ Finish(x, "rejected", {})
     /\ pc' = [pc EXCEPT ![a] = "select"]
     /\ RefreshIdle(Refreshed(x))
     /\ UNCHANGED item
  \/ /\ x \in Ops /\ ~(IsRoot(x) /\ root[a] # NoOp)
     /\ pc' = [pc EXCEPT ![a] = "handling"]
     /\ item' = [item EXCEPT ![a] = x]
     /\ stage' = [stage EXCEPT ![x] = "handling"]
     /\ root' = IF IsRoot(x) THEN [root EXCEPT ![a] = x] ELSE root
     /\ UNCHANGED <<finished, registered, idle>>

\* Variants: the burst is not counted, or a normal operation takes a quota off it.
CountNothing(a, x) == UNCHANGED burst
CountPaidOff(a) == burst' = [burst EXCEPT ![a] = @ - Quota]

\* _take and _next_item: a control operation adds to the burst, whether a normal
\* one waits or not; a normal one ends it.
CountControl(a, x) == burst' = [burst EXCEPT ![a] = IF x # Stop THEN @ + 1 ELSE @]
CountNormal(a) == burst' = [burst EXCEPT ![a] = 0]

\* History: control operations taken ahead of a waiting normal one.
Overtakes(a, x, normalWaits) ==
  overtaken' = [overtaken EXCEPT ![a] = IF x = Stop THEN @
                                        ELSE IF normalWaits THEN @ + 1 ELSE 0]
OvertakesNone(a) == overtaken' = [overtaken EXCEPT ![a] = 0]

\* What taking an item leaves alone.
TakeFrame == UNCHANGED <<cur, made, handles, pending, agent, owner, target, awaiting,
                         stopVars, task>>

\* Variant: the slot keeps the item it gave out.
KeepPrefetched(a) == UNCHANGED pre

\* A prefetched item leaves its slot as it is taken.
UsePrefetchedNormal(a) == pre' = [pre EXCEPT ![a].normal = NoOp]

TakeNormal(a) ==
  /\ a <= made /\ pc[a] = "select" /\ NormalAvailable(a)
  /\ ControlAvailable(a) => burst[a] >= Quota
  /\ CountNormal(a) /\ OvertakesNone(a)
  /\ UNCHANGED <<control, got>> /\ TakeFrame
  /\ IF pre[a].normal # NoOp
     THEN /\ UsePrefetchedNormal(a)
          /\ UNCHANGED normal
          /\ Begin(a, pre[a].normal)
     ELSE /\ normal' = [normal EXCEPT ![a] = Tail(@)]
          /\ UNCHANGED pre
          /\ Begin(a, Head(normal[a]))

TakeControl(a) ==
  /\ a <= made /\ pc[a] = "select" /\ ControlAvailable(a)
  /\ NormalAvailable(a) => burst[a] < Quota
  /\ UNCHANGED <<normal, got>> /\ TakeFrame
  /\ LET x == IF pre[a].control # NoOp THEN pre[a].control ELSE Head(control[a])
     IN /\ IF pre[a].control # NoOp
           THEN pre' = [pre EXCEPT ![a].control = NoOp] /\ UNCHANGED control
           ELSE control' = [control EXCEPT ![a] = Tail(@)] /\ UNCHANGED pre
        /\ CountControl(a, x) /\ Overtakes(a, x, NormalAvailable(a))
        /\ Begin(a, x)

\* Both mailboxes empty: create the two getter tasks and wait for either.
ArmGetters(a) ==
  /\ a <= made /\ pc[a] = "select"
  /\ ~ControlAvailable(a) /\ ~NormalAvailable(a)
  /\ pc' = [pc EXCEPT ![a] = "waiting"]
  /\ UNCHANGED <<registryVars, queueVars, item, actorVars, opVars, stopVars, task>>

\* A put woke a getter task, which pops the item in an iteration of its own.
GetterTakesControl(a) ==
  /\ pc[a] = "waiting" /\ got[a].control = NoOp /\ control[a] # <<>>
  /\ got' = [got EXCEPT ![a].control = Head(control[a])]
  /\ control' = [control EXCEPT ![a] = Tail(@)]
  /\ stage' = [o \in Ops |-> IF o = Head(control[a]) THEN "held" ELSE stage[o]]
  /\ UNCHANGED <<registryVars, normal, pre, burst, overtaken, workerVars, actorVars, owner,
                 target, awaiting, finished, stopVars, task>>

GetterTakesNormal(a) ==
  /\ pc[a] = "waiting" /\ got[a].normal = NoOp /\ normal[a] # <<>>
  /\ got' = [got EXCEPT ![a].normal = Head(normal[a])]
  /\ normal' = [normal EXCEPT ![a] = Tail(@)]
  /\ stage' = [stage EXCEPT ![Head(normal[a])] = "held"]
  /\ UNCHANGED <<registryVars, control, pre, burst, overtaken, workerVars, actorVars, owner,
                 target, awaiting, finished, stopVars, task>>

\* Exactly one getter finished; the other one is cancelled and takes nothing.
ResumeWithOne(a) ==
  /\ pc[a] = "waiting"
  /\ got' = [got EXCEPT ![a] = [control |-> NoOp, normal |-> NoOp]]
  /\ UNCHANGED <<control, normal, pre>> /\ TakeFrame
  /\ \/ /\ got[a].control # NoOp /\ got[a].normal = NoOp
        /\ CountControl(a, got[a].control) /\ Overtakes(a, got[a].control, normal[a] # <<>>)
        /\ Begin(a, got[a].control)
     \/ /\ got[a].control = NoOp /\ got[a].normal # NoOp
        /\ CountNormal(a) /\ OvertakesNone(a)
        /\ Begin(a, got[a].normal)

\* Both finished: STOP, or control within its quota, wins and the item of the
\* other getter is kept as prefetched.
ResumeWithBoth(a) ==
  LET x == got[a].control
      n == got[a].normal
  IN /\ pc[a] = "waiting" /\ x # NoOp /\ n # NoOp
     /\ got' = [got EXCEPT ![a] = [control |-> NoOp, normal |-> NoOp]]
     /\ UNCHANGED <<control, normal>> /\ TakeFrame
     /\ IF x = Stop \/ burst[a] < Quota
        THEN /\ pre' = [pre EXCEPT ![a].normal = n]
             /\ CountControl(a, x) /\ Overtakes(a, x, TRUE)
             /\ Begin(a, x)
        ELSE /\ pre' = [pre EXCEPT ![a].control = x]
             /\ CountNormal(a) /\ OvertakesNone(a)
             /\ Begin(a, n)

-----------------------------------------------------------------------------
(* Handlers the worker runs *)

RunsOn(a, o, kinds) ==
  /\ pc[a] = "handling" /\ item[a] = o /\ Kind[o] \in kinds

\* A handler raised: _dispatch_operation emits "failed", _run_loop marks the
\* operation completed on its own actor too.  A run whose actor was removed while
\* the handler waited in a thread fails in register_task, and the task it has made
\* runs on without a handle: no slot, question or handle names it, and it has no
\* place here.
FailItem(a, o) ==
  /\ RunsOn(a, o, Kinds \ {"interrupt", "respond", "close"})
  /\ Finish(o, "failed", {a}) /\ Release(o)
  /\ UNCHANGED <<cur, made, queueVars, handles, pending, agent, owner, target, awaiting,
                 stopVars, task>>
  /\ RefreshIdle(Refreshed(o) \cup {a})

\* Config changes and follow_up_agent need the agent of the current actor.
RunPlain(a, o) ==
  /\ RunsOn(a, o, {"config", "follow_up"})
  /\ cur # 0 /\ agent[cur]
  /\ Finish(o, "completed", {}) /\ Release(o)
  /\ UNCHANGED <<cur, made, queueVars, handles, pending, agent, owner, target, awaiting,
                 stopVars, task>>
  /\ RefreshIdle(Refreshed(o))

\* ensure_agent: loading the session has finished (it runs in a thread); the
\* actor is resolved now, and the profile is built in a thread after this.
InitLoaded(a, o) == \E b \in Actors :
  /\ RunsOn(a, o, {"init"}) /\ target[o] = 0
  /\ EnsureActor(b)
  /\ ~agent[b]
  /\ target' = [target EXCEPT ![o] = b]
  /\ UNCHANGED <<registered, queueVars, workerVars, actorVars, stage, owner, awaiting,
                 finished, stopVars, task>>

\* The profile is ready: set_agent on the actor resolved before the wait.  An
\* actor that already has its agent needs neither wait.
InitDone(a, o) ==
  /\ RunsOn(a, o, {"init"})
  /\ \/ /\ target[o] # 0
        /\ agent' = [agent EXCEPT ![target[o]] = TRUE]
     \/ target[o] = 0 /\ cur # 0 /\ agent[cur] /\ UNCHANGED agent
  /\ Finish(o, "completed", {}) /\ Release(o)
  /\ UNCHANGED <<cur, made, queueVars, handles, pending, owner, target, awaiting,
                 stopVars, task>>
  /\ idle' = [b \in Actors |->
                LET active == target[o] = b \/ idle[b] = "active"
                IN IF ~active THEN idle[b]
                   ELSE IF b \in Refreshed(o) /\ IsIdle(b)' THEN "fresh" ELSE "active"]

\* run_agent, run_bash, continue_agent, run_background_operation: the task is
\* created and registered on the session's CURRENT actor, and the root slot
\* bound to it, in one stretch.  A lifecycle wrapper then waits for the task,
\* unless the registry forgot the operation because its actor was closed.
RegisterTask(a, o) ==
  /\ RunsOn(a, o, {"run", "compact", "summary"})
  /\ cur # 0 /\ (stage[o] = "handling" => agent[cur])
  /\ task' = [task EXCEPT ![o] = "created"]
  /\ LET compacts == Kind[o] = "compact" /\ stage[o] = "handling"
         kept == IF compacts THEN ActiveTasks(cur) ELSE handles[cur]
     IN /\ compacts => kept = {}
        /\ handles' = [handles EXCEPT ![cur] = kept \cup {o}]
  /\ IF o \in registered
     THEN stage' = [stage EXCEPT ![o] = "background"] /\ UNCHANGED <<registered, root, finished>>
     ELSE Finish(o, "completed", {})
  /\ idle' = [idle EXCEPT ![cur] = "active"]
  /\ Release(o)
  /\ UNCHANGED <<cur, made, queueVars, pending, agent, owner, target, awaiting, stopVars>>

\* compact_session first interrupts whatever tasks the session has; it
\* registers its own task once they ended, or after 2 seconds.
CompactCancels(a, o) ==
  /\ RunsOn(a, o, {"compact"}) /\ stage[o] = "handling"
  /\ cur # 0 /\ agent[cur] /\ CurrentTasks # {}
  /\ DropDoneHandles(CurrentActor)
  /\ task' = Cancelled(CurrentTasks, {})
  /\ awaiting' = [awaiting EXCEPT ![o] = CurrentTasks]
  /\ stage' = [stage EXCEPT ![o] = "suspended"]
  /\ UNCHANGED <<registryVars, queueVars, workerVars, pending, agent, idle, owner, target,
                 finished, stopVars>>

RunInterrupt(a, o) ==
  /\ RunsOn(a, o, {"interrupt"}) /\ stage[o] = "handling"
  /\ InterruptBody(o)
  /\ IF stage'[o] = "finished" THEN Release(o) ELSE UNCHANGED workerVars
  /\ UNCHANGED <<cur, made, queueVars, agent, owner, target, stopVars>>
  /\ RefreshIdle(CurrentActor)

RunRespond(a, o) ==
  /\ RunsOn(a, o, {"respond"})
  /\ RespondBody(o) /\ Release(o)
  /\ UNCHANGED <<cur, made, queueVars, agent, owner, target, stopVars>>
  /\ RefreshIdle(CurrentActor)

\* The interrupted tasks ended, or the 2 second wait_for timed out; then
\* handle_interrupt cancels the interactions still pending.
EndInterrupt(o) ==
  /\ Kind[o] = "interrupt" /\ stage[o] = "suspended"
  /\ CancelCurrentPending
  /\ task' = Cancelled({}, CurrentPending)
  /\ Finish(o, "completed", {}) /\ Release(o)
  /\ UNCHANGED <<cur, made, queueVars, handles, agent, owner, target, awaiting, stopVars>>
  /\ RefreshIdle(CurrentActor)

-----------------------------------------------------------------------------
(* Tasks started by handlers *)

TaskStarts(o) ==
  /\ task[o] = "created"
  /\ task' = [task EXCEPT ![o] = "running"]
  /\ UNCHANGED <<registryVars, queueVars, workerVars, actorVars, opVars, stopVars>>

\* Cancelled before its first step: it is done without having run at all.
TaskDies(o) ==
  /\ task[o] = "doomed"
  /\ task' = [task EXCEPT ![o] = "stillborn"]
  /\ UNCHANGED <<registryVars, queueVars, workerVars, actorVars, opVars, stopVars>>

\* A tool asks the user: open_pending_interaction.
TaskAsks(o, a) ==
  /\ task[o] = "running" /\ Kind[o] = "run"
  /\ EnsureActor(a)
  /\ task' = [task EXCEPT ![o] = "asking"]
  /\ pending' = [pending EXCEPT ![a] = @ \cup {o}]
  /\ idle' = [idle EXCEPT ![a] = "active"]
  /\ UNCHANGED <<registered, queueVars, workerVars, root, handles, agent, opVars, stopVars>>

TaskResumes(o) ==
  /\ task[o] \in {"answered", "withdrawn"}
  /\ task' = [task EXCEPT ![o] = "running"]
  /\ UNCHANGED <<registryVars, queueVars, workerVars, actorVars, opVars, stopVars>>

\* The done callback of a cancelled interaction future.
InteractionCancelled(o, a) ==
  /\ task[o] = "cancelling" /\ o \in pending[a]
  /\ pending' = [pending EXCEPT ![a] = @ \ {o}]
  /\ UNCHANGED <<registryVars, queueVars, workerVars, root, handles, agent, opVars, stopVars,
                 task>>
  /\ RefreshIdle({a})

\* Variant: the handle stays.
RemoveRootOnly(o) ==
  /\ root' = [a \in Actors |-> IF a = cur /\ root[a] = o THEN NoOp ELSE root[a]]
  /\ UNCHANGED handles

\* remove_task: the handle and the root slot go from the session's current actor.
RemoveTask(o) ==
  /\ handles' = [a \in Actors |-> IF a = cur THEN handles[a] \ {o} ELSE handles[a]]
  /\ root' = [a \in Actors |-> IF a = cur /\ root[a] = o THEN NoOp ELSE root[a]]

\* The task ends, by itself or cancelled; its finally block removes it.
TaskEnds(o) ==
  /\ task[o] \in {"running", "cancelling"}
  /\ \A a \in Actors : o \notin pending[a]
  /\ task' = [task EXCEPT ![o] = "ended"]
  /\ RemoveTask(o)
  /\ UNCHANGED <<registryVars, queueVars, workerVars, pending, agent, opVars, stopVars>>
  /\ RefreshIdle(CurrentActor)

\* Variant: without its finally a task that died unrun raises through the wrapper.
WrapperWithoutFinally(o) ==
  /\ stage[o] = "background" /\ task[o] = "ended" /\ o \notin silenced
  /\ Finish(o, "completed", {})
  /\ UNCHANGED <<cur, made, queueVars, workerVars, handles, pending, agent, owner, target,
                 awaiting, stopVars, task>>
  /\ RefreshIdle(Refreshed(o))

\* _await_task_and_finish, an iteration later.
WrapperFinishes(o) ==
  /\ stage[o] = "background" /\ task[o] \in DoneTask /\ o \notin silenced
  /\ Finish(o, "completed", {})
  /\ UNCHANGED <<cur, made, queueVars, workerVars, handles, pending, agent, owner, target,
                 awaiting, stopVars, task>>
  /\ RefreshIdle(Refreshed(o))

-----------------------------------------------------------------------------
(* Closing: SessionRegistry.close_session, reclaim_idle_sessions, SessionActor.stop *)

\* Variant: waits for the tasks without cancelling them.
StopWithoutCancel(a) ==
  /\ pending' = [pending EXCEPT ![a] = {}]
  /\ task' = Cancelled({}, pending[a])
  /\ DropDoneHandles({a})
  /\ stopWait' = [stopWait EXCEPT ![a] = ActiveTasks(a)]
  /\ closing' = [closing EXCEPT ![a] = "cancelling"]

\* SessionActor.stop as far as its first wait.
StopBody(a) ==
  /\ pending' = [pending EXCEPT ![a] = {}]
  /\ DropDoneHandles({a})
  /\ task' = Cancelled(ActiveTasks(a), pending[a])
  /\ stopWait' = [stopWait EXCEPT ![a] = ActiveTasks(a)]
  /\ closing' = [closing EXCEPT ![a] = "cancelling"]

\* A close of an idle actor: nothing to cancel, so it posts STOP at once.
CloseIdle(a) ==
  /\ phase = "up" /\ a = cur /\ IsIdle(a)
  /\ cur' = 0
  /\ registered' = {}
  /\ control' = [control EXCEPT ![a] = Append(@, Stop)]
  /\ closing' = [closing EXCEPT ![a] = "joining"]
  /\ UNCHANGED <<made, normal, got, pre, burst, overtaken, workerVars, actorVars, opVars,
                 phase, stopWait, silenced, task>>

\* close_session(force=False) from a route.
CloseByRoute == \E a \in Actors : CloseIdle(a)

\* The reaper: only an actor that has been idle for the whole TTL.
Reclaim == \E a \in Actors : idle[a] = "expired" /\ CloseIdle(a)

\* idle_for_seconds, called by every pass of the reaper.
ObserveIdle(a) ==
  /\ a = cur
  /\ idle' = [idle EXCEPT ![a] = IF ~IsIdle(a) THEN "active"
                                 ELSE IF @ = "active" THEN "fresh" ELSE @]
  /\ UNCHANGED <<registryVars, queueVars, workerVars, root, handles, pending, agent, opVars,
                 stopVars, task>>

\* The TTL (30 minutes) passes.  Assumed: a handler, run by the worker or by a
\* preempting submitter, and a getter wake-up take less than that.
TTLPasses(a) ==
  /\ idle[a] = "fresh" /\ pc[a] = "waiting"
  /\ got[a] = [control |-> NoOp, normal |-> NoOp]
  /\ \A o \in Ops : owner[o] = a => stage[o] # "suspended"
  /\ idle' = [idle EXCEPT ![a] = "expired"]
  /\ UNCHANGED <<registryVars, queueVars, workerVars, root, handles, pending, agent, opVars,
                 stopVars, task>>

\* handle_close_session: without force an actor that is not idle is left open.
RunCloseRefused(a, o) ==
  /\ RunsOn(a, o, {"close"}) /\ stage[o] = "handling"
  /\ ~(cur # 0 /\ IsIdle(cur))
  /\ Finish(o, "completed", {}) /\ Release(o)
  /\ UNCHANGED <<cur, made, queueVars, handles, pending, agent, owner, target, awaiting,
                 stopVars, task>>
  /\ RefreshIdle(Refreshed(o))

\* With force, or when idle: pop the actor, cancel its tasks and wait for them.
RunClose(a, o) ==
  /\ RunsOn(a, o, {"close"}) /\ stage[o] = "handling"
  /\ cur # 0
  /\ cur' = 0 /\ registered' = {}
  /\ target' = [target EXCEPT ![o] = cur]
  /\ stage' = [stage EXCEPT ![o] = "suspended"]
  /\ StopBody(cur)
  /\ UNCHANGED <<made, queueVars, workerVars, agent, idle, owner, awaiting, finished, phase,
                 silenced>>

\* The cancelled tasks ended: post STOP and wait for the worker.
PostStop(a) ==
  /\ closing[a] = "cancelling"
  /\ \A o \in stopWait[a] : task[o] \in DoneTask
  /\ control' = [control EXCEPT ![a] = Append(@, Stop)]
  /\ closing' = [closing EXCEPT ![a] = "joining"]
  /\ UNCHANGED <<registryVars, normal, got, pre, burst, overtaken, workerVars, actorVars,
                 opVars, phase, stopWait, silenced, task>>

\* A close operation executes on the worker of the actor it closes: awaiting
\* that worker from itself raises RuntimeError and stop() goes no further.
CloseAwaitsItself(a, o) ==
  /\ RunsOn(a, o, {"close"}) /\ stage[o] = "suspended"
  /\ target[o] = a /\ closing[a] = "joining"
  /\ closing' = [closing EXCEPT ![a] = "abandoned"]
  /\ Finish(o, "failed", {a}) /\ Release(o)
  /\ UNCHANGED <<cur, made, queueVars, handles, pending, agent, owner, target, awaiting,
                 phase, stopWait, silenced, task>>
  /\ RefreshIdle({a})

\* It closed a newer actor than its own, and that one is gone.
CloseDone(a, o) ==
  /\ RunsOn(a, o, {"close"}) /\ stage[o] = "suspended"
  /\ target[o] # a /\ closing[target[o]] = "closed"
  /\ Finish(o, "completed", {}) /\ Release(o)
  /\ UNCHANGED <<cur, made, queueVars, handles, pending, agent, idle, owner, target, awaiting,
                 stopVars, task>>

InQueue(o, a) ==
  \/ \E i \in DOMAIN control[a] : control[a][i] = o
  \/ \E i \in DOMAIN normal[a] : normal[a][i] = o
  \/ pre[a].control = o \/ pre[a].normal = o

\* The worker exited: drop what it left, clear the execution state.  Under
\* RuntimeFacade.stop() this is also where the registry is emptied.
JoinWorker(a) ==
  /\ closing[a] = "joining" /\ pc[a] = "exited"
  /\ stage' = [o \in Ops |-> IF InQueue(o, a) THEN "dropped" ELSE stage[o]]
  /\ control' = [control EXCEPT ![a] = <<>>] /\ normal' = [normal EXCEPT ![a] = <<>>]
  /\ pre' = [pre EXCEPT ![a] = [control |-> NoOp, normal |-> NoOp]]
  /\ handles' = [handles EXCEPT ![a] = {}]
  /\ agent' = [agent EXCEPT ![a] = FALSE]
  /\ closing' = [closing EXCEPT ![a] = "closed"]
  /\ IF phase = "closing" /\ cur = a
     THEN cur' = 0 /\ registered' = {} /\ phase' = "down"
     ELSE UNCHANGED <<cur, registered, phase>>
  /\ UNCHANGED <<made, got, burst, overtaken, workerVars, root, pending, owner, target,
                 awaiting, finished, stopWait, silenced, task>>
  /\ RefreshIdle({a})

-----------------------------------------------------------------------------
(* Server shutdown: RuntimeFacade.stop and SessionRegistry.stop *)

FacadeStops ==
  /\ AllowStop /\ phase = "up"
  /\ phase' = "stopping"
  /\ CancelCurrentPending
  /\ task' = Cancelled(CurrentTasks, CurrentPending)
  /\ stopWait' = [stopWait EXCEPT ![0] = CurrentTasks]
  /\ UNCHANGED <<registryVars, queueVars, workerVars, root, handles, agent, opVars, closing,
                 silenced>>
  /\ RefreshIdle(CurrentActor)

\* A lifecycle wrapper is created in the stretch that creates its task and makes its
\* first step right after the task's.
Unstarted(o) == task[o] \in {"created", "doomed"}

\* SessionRegistry.stop as far as its first wait.  Cancelling a wrapper cancels the
\* task it awaits; one that has not made its first step never enters its try: it
\* cancels nothing and its finally never runs.
RegistryStops ==
  /\ phase = "stopping" /\ \A o \in stopWait[0] : task[o] \in DoneTask
  /\ phase' = "draining"
  /\ CancelCurrentPending
  /\ LET S == {o \in Ops : stage[o] = "background"}
     IN /\ task' = Cancelled({o \in S : ~Unstarted(o)}, CurrentPending)
        /\ silenced' = {o \in S : Unstarted(o)}
        /\ stopWait' = [stopWait EXCEPT ![0] = S]
  /\ UNCHANGED <<registryVars, queueVars, workerVars, root, handles, agent, opVars, closing>>
  /\ RefreshIdle(CurrentActor)

RegistryStopsActor ==
  /\ phase = "draining"
  /\ \A o \in stopWait[0] : stage[o] = "finished" \/ (o \in silenced /\ ~Unstarted(o))
  /\ IF cur = 0
     THEN /\ phase' = "down" /\ registered' = {}
          /\ UNCHANGED <<pending, root, handles, task, stopWait, closing>>
     ELSE phase' = "closing" /\ StopBody(cur) /\ UNCHANGED registered
  /\ UNCHANGED <<cur, made, queueVars, workerVars, agent, idle, opVars, silenced>>

-----------------------------------------------------------------------------

Worker(a) ==
  \/ TakeNormal(a) \/ TakeControl(a) \/ ArmGetters(a)
  \/ GetterTakesControl(a) \/ GetterTakesNormal(a) \/ ResumeWithOne(a) \/ ResumeWithBoth(a)

Handler(a) == \E o \in Ops :
  \/ FailItem(a, o) \/ RunPlain(a, o) \/ InitLoaded(a, o) \/ InitDone(a, o)
  \/ RegisterTask(a, o) \/ CompactCancels(a, o) \/ RunInterrupt(a, o) \/ RunRespond(a, o)
  \/ RunCloseRefused(a, o) \/ RunClose(a, o) \/ CloseAwaitsItself(a, o) \/ CloseDone(a, o)

Next ==
  \/ \E o \in Ops, a \in Actors : \/ Submit(o, a) \/ SubmitPreemptive(o, a)
                                \/ TaskAsks(o, a) \/ InteractionCancelled(o, a)
  \/ \E o \in Ops : \/ EndInterrupt(o) \/ TaskStarts(o) \/ TaskDies(o)
                    \/ TaskResumes(o) \/ TaskEnds(o) \/ WrapperFinishes(o)
  \/ \E a \in Actors : \/ Worker(a) \/ Handler(a) \/ PostStop(a) \/ JoinWorker(a)
                       \/ ObserveIdle(a) \/ TTLPasses(a)
  \/ CloseByRoute \/ Reclaim
  \/ FacadeStops \/ RegistryStops \/ RegistryStopsActor

Spec == Init /\ [][Next]_vars

-----------------------------------------------------------------------------
(* Safety *)

Stages == {"new", "control", "normal", "held", "handling", "suspended",
           "background", "finished", "dropped"}
Slots == [control : Items, normal : Items]

TypeOK ==
  /\ cur \in 0..MaxActors /\ made \in 0..MaxActors /\ registered \subseteq Ops
  /\ phase \in {"up", "stopping", "draining", "closing", "down"}
  /\ control \in [Actors -> Seq(Ops \cup {Stop})] /\ normal \in [Actors -> Seq(Ops)]
  /\ got \in [Actors -> Slots] /\ pre \in [Actors -> Slots]
  /\ burst \in [Actors -> Nat]
  /\ pc \in [Actors -> {"select", "waiting", "handling", "exited"}]
  /\ item \in [Actors -> Ops \cup {NoOp}] /\ root \in [Actors -> Ops \cup {NoOp}]
  /\ handles \in [Actors -> SUBSET Ops] /\ pending \in [Actors -> SUBSET Ops]
  /\ agent \in [Actors -> BOOLEAN]
  /\ idle \in [Actors -> {"active", "fresh", "expired"}]
  /\ closing \in [Actors -> {"open", "cancelling", "joining", "closed", "abandoned"}]
  /\ stage \in [Ops -> Stages] /\ owner \in [Ops -> 0..MaxActors]
  /\ task \in [Ops -> {"none"} \cup LiveTask \cup DoneTask]
  /\ target \in [Ops -> 0..MaxActors]
  /\ awaiting \in [Ops -> SUBSET Ops] /\ stopWait \in [0..MaxActors -> SUBSET Ops]
  /\ silenced \subseteq Ops
  /\ finished \in [Ops -> Seq({"completed", "rejected", "failed"})]
  /\ overtaken \in [Actors -> Nat]

NoItems == [control |-> NoOp, normal |-> NoOp]

\* The operations queued in mailbox q of a: theirs alone, each of them once.
MailboxOK(q, a, where, isControl) ==
  /\ \A i \in 1..Len(q) : q[i] \in Ops =>
       stage[q[i]] = where /\ owner[q[i]] = a /\ IsControl(q[i]) = isControl
  /\ \A i, j \in 1..Len(q) : q[i] \in Ops /\ q[i] = q[j] => i = j

\* An item that left its mailbox and was not handed to the worker yet.
SlotsOK(slots, a) ==
  /\ slots.control \in Ops =>
       stage[slots.control] = "held" /\ owner[slots.control] = a /\ IsControl(slots.control)
  /\ slots.normal \in Ops =>
       stage[slots.normal] = "held" /\ owner[slots.normal] = a /\ ~IsControl(slots.normal)
  /\ slots.normal # Stop

\* What the queues, getters, slots and worker of actor a hold.
PlacesOK(a) ==
  /\ MailboxOK(control[a], a, "control", TRUE)
  /\ MailboxOK(normal[a], a, "normal", FALSE)
  /\ SlotsOK(pre[a], a) /\ SlotsOK(got[a], a)
  /\ pc[a] = "waiting" => pre[a] = NoItems
  /\ pc[a] # "waiting" => got[a] = NoItems
  /\ pc[a] = "handling" <=> item[a] # NoOp
  /\ item[a] \in Ops => stage[item[a]] \in {"handling", "suspended"} /\ owner[item[a]] = a

\* An accepted operation is in one place: one mailbox, one getter, one prefetched
\* slot or one worker, whichever way _next_item's two getters and prefetching
\* moved it.  A second copy would run a turn twice.
OnePlace == \A a \in Actors : PlacesOK(a)

\* While a root operation is handled or its task lives, its actor's root slot is
\* its own: the slot that TaskEnds, interrupts, closes and completions clear is
\* never the slot of work in progress.
SlotGuardsWork ==
  \A o \in Ops :
    IsRoot(o) /\ (stage[o] \in {"handling", "suspended"} \/ task[o] \in LiveTask)
    => root[owner[o]] = o

\* Root exclusivity (RootTaskState): of the root operations submitted to one
\* actor at most one has a live task, so two turns never write one history.
OneRootTask ==
  \A o, p \in Ops :
    /\ IsRoot(o) /\ task[o] \in LiveTask
    /\ IsRoot(p) /\ task[p] \in LiveTask
    /\ owner[o] = owner[p]
    => o = p

\* The root slot of the current actor is never stale: it names an operation the
\* worker is handling or one whose task is alive or, if it died before its first
\* step, whose wrapper has yet to clear the slot.  A stale slot would reject every
\* later turn of the session.
RootSlotIsLive ==
  cur # 0 /\ root[cur] # NoOp =>
    \/ item[cur] = root[cur]
    \/ stage[root[cur]] = "background" /\ task[root[cur]] # "ended"

\* Every operation gets one OperationFinishedEvent, whoever gets there first:
\* the handler, the rejection, the failure path or the lifecycle wrapper.
FinishedOnce ==
  \A o \in Ops : Len(finished[o]) = IF stage[o] = "finished" THEN 1 ELSE 0

\* The burst quota bounds bypassing: at most Quota control operations are taken
\* while a normal one waits, whatever mix of getters and prefetching delivers them.
BypassBound == \A a \in Actors : overtaken[a] <= Quota

\* An interrupt that names its turn cancels no other turn of that turn's actor
\* (one of an actor closed meanwhile, still on its way, may be registered next
\* to it: RegisterTask looks the session's current actor up).
InterruptHitsItsTurn ==
  \A i, o \in Ops :
    /\ Kind[i] = "interrupt" /\ Expected[i] # NoOp
    /\ IsRoot(o) /\ o \in awaiting[i] /\ owner[o] = owner[Expected[i]]
    => o = Expected[i]

\* pending_requests holds exactly the questions a task still waits on (or is
\* being cancelled out of): none is unanswerable, none is left behind.  Once the
\* server is down a turn that started during the shutdown may be left asking.
PendingMatchesAsker ==
  phase # "down" =>
    /\ \A o \in Ops : task[o] = "asking" => cur # 0 /\ o \in pending[cur]
    /\ \A a \in Actors : \A o \in pending[a] : task[o] \in {"asking", "cancelling"}

\* No operation is on its way or running in the current actor.
Quiescent ==
  /\ cur # 0 /\ phase = "up" /\ pc[cur] # "exited"
  /\ \A o \in Ops : stage[o] \in {"new", "finished"} /\ task[o] \notin LiveTask

\* When every accepted operation is finished nothing of them is left in the
\* actor: no root slot, no request, no prefetched item, and no handle but those
\* of tasks that were cancelled before they ran.
NothingLeaks ==
  Quiescent =>
    /\ root[cur] = NoOp /\ pending[cur] = {}
    /\ pre[cur] = [control |-> NoOp, normal |-> NoOp]
    /\ \A o \in handles[cur] : task[o] = "stillborn"

\* ... so the actor is idle again, and the reaper and the routes that refuse
\* to touch an active session can have it.
IdleWhenDone == Quiescent => IsIdle(cur)

\* A close without force never drops an operation it accepted: only a shutdown
\* or a close operation discards what is left in the mailboxes.
OnlyForceDrops ==
  \A o \in Ops : stage[o] = "dropped" =>
    phase \in {"closing", "down"} \/ \E z \in Ops : Kind[z] = "close" /\ target[z] # 0

\* The reaper never takes a session from under work in progress: nothing it
\* accepted is waiting for its worker, or being handled by it.
ReclaimSparesWork ==
  [][Reclaim => \A o \in Ops :
       owner[o] = cur => stage[o] \in {"background", "finished", "dropped"}]_vars

-----------------------------------------------------------------------------
(* Liveness.  The event loop runs every ready coroutine, so the worker, the  *)
(* handlers, the wrappers and the stages of stop() are weakly fair.  Clients,*)
(* users, the reaper and a running task that nobody cancels owe nothing; a   *)
(* cancelled task does end.                                                  *)

Cancellation(o) == task[o] = "cancelling" /\ TaskEnds(o)

Fairness ==
  /\ \A a \in Actors : /\ WF_vars(Worker(a)) /\ WF_vars(Handler(a))
                       /\ WF_vars(PostStop(a)) /\ WF_vars(JoinWorker(a))
  /\ \A o \in Ops : /\ WF_vars(EndInterrupt(o)) /\ WF_vars(WrapperFinishes(o))
                    /\ WF_vars(TaskStarts(o)) /\ WF_vars(TaskDies(o))
                    /\ WF_vars(TaskResumes(o)) /\ WF_vars(Cancellation(o))
                    /\ \A a \in Actors : WF_vars(InteractionCancelled(o, a))
  /\ WF_vars(RegistryStops) /\ WF_vars(RegistryStopsActor)

FairSpec == Spec /\ Fairness

Accepted(o) == stage[o] # "new"

\* A control operation, an interrupt above all, is answered even if the running
\* turn never ends: nothing a turn does can block the session's control lane.
ControlAnswered ==
  \A o \in Ops : IsControl(o) =>
    (Accepted(o) ~> stage[o] \in {"finished", "dropped"})

\* A normal operation leaves its queue: it is rejected, fails or gets its turn,
\* whatever control operations keep arriving.
NormalLeavesQueue ==
  \A o \in Ops : ~IsControl(o) =>
    (Accepted(o) ~> stage[o] \in {"background", "finished", "dropped"})

\* An interrupted turn's operation finishes and the client that waits for it wakes
\* up, but for the turns a shutdown finds so fresh that it cancels their wrapper
\* before its first step: nothing tells how those ended.
CancelledTurnFinishes ==
  \A o \in Ops : task[o] \in {"cancelling", "doomed"} ~> stage[o] = "finished" \/ o \in silenced

\* stop() ends: no stage waits for a worker, a task or a wrapper that waits for it.
StopEnds == phase = "stopping" ~> phase = "down"

=============================================================================
