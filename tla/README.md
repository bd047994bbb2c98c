# Verification of klaude-code

klaude-code runs one local server per user (docs/agent-multiplexer.md). The server's
asyncio event loop owns every session; the terminal UI, the command line and headless
launchers are clients that submit *operations* and follow *events*. This directory holds
TLA+ specifications of that system, TLC instances of them and TLAPS proofs about its core.

Paths below are relative to `src/klaude_code` of the repository.

## 1. Inventory

| Component | State it keeps | Operations | What is hard, and what makes it correct | Module |
|---|---|---|---|---|
| **Session actor** `control/runtime/actor.py` | control and normal mailbox, two prefetched items, burst count, root slot, task handles, pending interactions, idle clock, agent | enqueue, worker loop, register/remove/cancel task, open/resolve/cancel interaction, stop | two getter tasks race; late clean-ups meet newer work. Each operation is handled once, in lane order, at most one root operation works, every slot is given back | SessionRuntime |
| **Session registry** `control/runtime/registry.py` | actors by session, operation ids, lifecycle wrappers | submit, dispatch, reject, complete, close, reclaim, stop | finished events come from four places; close races submission. One finished event per operation; a close never pulls work from under a session | SessionRuntime |
| **Runtime facade** `app/runtime_facade.py`, `app/runtime.py` | stopped flag, completion awaiter, reclaim loop | submit, wait_for, close, reclaim, stop | shutdown waits on tasks, wrappers and workers: it ends, and every waiter wakes with its own result | SessionRuntime, OperationAwaiter |
| **Operation handlers** `agent/runtime/{agent_ops,dispatcher,config_ops}.py` | agents, side tasks | one handler per operation | handlers suspend in threads between check and effect; an interrupt waits up to 2 s and then acts on newer state | SessionRuntime, HeadlessRuntime, AttachReplay |
| **User questions** `tool/ask_user_question_tool.py` | futures in the actor | ask, answer, cancel | first answer wins; no question is orphaned | SessionRuntime |
| **Event bus** `control/event_bus.py` | subscriber queues, sequence numbers | publish, subscribe, overflow, leave | a slow subscriber sees a prefix and learns that it was cut off | EventBus, EventLog |
| **Tape, attach, forwarding** `server/session_tape.py`, `server/routes/ws.py` | tapes, attached sockets | record, cut, reset, attach, replay, forward | attach races publication, persistence and rewinds: history + tape + live stream has no gap and no duplicate | AttachReplay |
| **Headless runtime and follow-up queue** `server/headless.py`, `agent/agent.py` | run queue, slots, latches, durable queue, in-flight item | spawn, send, steer, drain, launch, kill, restore | crash windows; a queued prompt is neither lost nor run twice; a slot is never leaked | FollowUpQueue, HeadlessRuntime, InteractiveDrain |
| **Session store** `session/store.py` | write queue, meta file, history cache | append, merge, update, load, wait_for_flush | stale meta in queued batches, a cache keyed by an earlier stat, threads and loop on one file | SessionStore |
| **Session history** `session/session.py`, `session/history.py` | conversation history in memory and on disk | append, rewind, retract, compact, load | the reloaded session must send the model what the live one would have | SessionHistory |
| **Turn loop and tools** `agent/task.py`, `agent/step.py`, `tool/core/runner.py` | step, retries, unfinished calls | stream, run tools, retry, fall back, rewind, hand off, interrupt | exactly one result per call and one end per turn, whatever interrupts them | TaskExecutor |
| **Terminal client** `tui/client/socket_client.py` | pending echoes, futures, queue view | submit, wait, receive, reconnect | echo suppression by text; a lost connection must not strand or misdirect a wait | SocketClient |
| **Server process and the commands that find it** `server/{server,lifecycle}.py`, `cli/{uds_client,server_cmd}.py` | lock file, socket file | start, reload in place, stop, crash, spawn, verify | one server per home directory; only it does the work; a reload comes back | ServerLifecycle |
| **File tools and the tracker** `tool/file/`, `tool/shell/file_tracking.py`, `agent/attachments/files.py` | what the session knows of a file: hash, modification time, whether it was read to its end, its text | read, edit, write, patch, shell commands, external-change check, restart | tool threads race each other and other programs; "unchanged" must be true of what the conversation holds, and an edit must not overwrite what nobody read | FileEdits |
| **Sub-agents** `agent/runtime/sub_agent.py`, `agent/runtime/dispatcher.py` | the launcher of an Agent call, the child's operation, the cascade of an interrupt | spawn, follow, recover, return, interrupt, cascade | only events tie parent and child together: the result is what became of the child, and an interrupt reaches the children at work | SubAgents |
| **Terminal transcript** `tui/machine.py`, `tui/renderer.py`, `tui/display.py`, `control/event_tape.py` | what is active, streams, the batch of sub-agents, the spinner, the tape of events, the detail | handle an event, carry out its commands, record, hide a turn taken back, repaint | deltas, ends and complete messages of several sessions interleave, and everything must be reproducible from the tape: replies whole and once, a repaint shows what was there, one summary per child, an honest spinner | Display |
| Providers, layout and keys, configuration, auth, skills | | | see section 9 | |

Interactions: clients call `RuntimeFacade.submit`; the registry finds or creates the
session's actor and enqueues the operation, or runs an interrupt or an answer at once in
the submitter's own task when a root operation is active; the actor's worker hands
operations to the registry's dispatcher, whose handlers may start a task, register it on
the session's actor and return; a lifecycle wrapper then waits for the task. Everything
is reported as events on the bus, which the completion awaiter, the headless runtime's
consumer, the tape and the attached sockets read. All of it runs on one event loop, so
code between two real suspensions is atomic; the hazards live at the suspensions, in the
threads that write files, and between processes.

## 2. How the modules are composed

    SessionContract <=refines= SessionRefinement --> SessionRuntime --> MCSession, MCScenarios
    EventLog        <=refines= EventBus --> OperationAwaiter --> MCEvents
    FollowUpQueue --> HeadlessRuntime --> MCHeadless, MCHeadlessScenarios
                 \--> InteractiveDrain --.
    SessionHistory, SessionStore, AttachReplay, TaskExecutor, SocketClient, ServerLifecycle,
    FileEdits, SubAgents, Display --> MCComponents

    SessionRuntime <-- SessionRuntime_proofs <-- SessionSlots_proofs
    SessionSlots_proofs, SessionRefinement <-- SessionRefinement_proofs
    OperationAwaiter <-- EventBus_proofs         HeadlessRuntime <-- Headless_proofs
    MCComponents <-- Components_proofs, Clients_proofs, Replay_proofs

`FollowUpQueue` holds the operators of the two-phase follow-up queue of `agent.py`; both the
launches of headless sessions and the drain of attended ones are built on them.
`OperationAwaiter` is composed with the bus: the awaiter is one subscriber among others, and
it is cut off like the others when it is slow.

Two conventions keep the number of runs small without hiding anything:

* *Plans.* `MCScenarios`, `MCHeadlessScenarios` and `MCEvents` add a variable `plan`, chosen in
  the initial state and never changed: which of the requests clients will make, how many
  crashes and faults there are. One run checks all its plans. The product of all of them
  at once is beyond TLC; each plan has the combination its properties are about.
* *Components.* The modules that do not share state are checked by one run, `MCComponents`: a
  variable `which` says what component a behaviour is about, the others' variables are 0 and stay so. Their
  properties have the form `which = "..." => M!Property`. Commands and messages that are interchangeable come
  in one order, and an attach behaviour has the last piece or the last load, not both.

## 3. The session: SessionRuntime

`SessionRuntime.tla` models one session; sessions share no actor state. `Ops` is the set
of operations clients may submit (each once: ids are fresh UUIDs), `Kind` their class:

| Kind | Operations of protocol/op.py |
|---|---|
| `run` | RunAgent, RunBash, ContinueAgent, RequestModel, RequestSubAgentModel: root operations that start a task and return |
| `compact` | CompactSession: a root operation that first interrupts what the session runs |
| `summary` | GenerateAwaySummary by hand: a background task outside the root slot |
| `init` | InitAgent, which waits in threads twice |
| `config` | the remaining normal operations, handled in one go with the agent |
| `follow_up`, `interrupt`, `respond`, `close` | the control operations |

State: `control`, `normal`, `got`, `pre`, `burst`, `pc`, `item` are an actor's mailboxes, the
items its two getter tasks hold, `_prefetched_*`, `control_burst_count` and the worker;
`root`, `handles`, `pending`, `agent`, `idle` are `SessionState`; `cur`, `made`,
`registered` the registry; `stage`, `owner`, `target`, `awaiting`, `finished` follow each
operation and its handler; `task` is the asyncio task a handler registered; `phase`,
`closing`, `stopWait` the progress of `RuntimeFacade.stop` and `SessionActor.stop`, and `silenced` the operations whose
lifecycle wrapper was cancelled before it began.
Actors come in generations `1..MaxActors`, because a closed session that is used again
gets a new actor while handlers and tasks of the old one may still run.

An action is the code between two suspensions. The worker: `TakeNormal`,
`TakeControl`, `ArmGetters`, `GetterTakesControl`, `GetterTakesNormal`,
`ResumeWithOne`, `ResumeWithBoth` are `_next_item` and the head of `_run_loop`
(`Begin`: stop, reject or claim and dispatch). A getter's pop is a step of its own: the loop
runs other code between the pop and the worker's resumption. Handlers: `RunPlain`,
`InitLoaded`/`InitDone`, `RegisterTask`, `CompactCancels`, `RunInterrupt`/`EndInterrupt`,
`RunRespond`, `RunClose…`, and `FailItem` for any handler that raises. Tasks:
`TaskStarts`, `TaskAsks`, `TaskResumes`, `InteractionCancelled`, `TaskEnds` (with its
`finally`), `TaskDies` (cancelled before its first step: the coroutine never runs, so
neither does its `finally`), `WrapperFinishes` (unless the shutdown cancelled the wrapper before
its own first step: then nothing reports the end). Closing: `CloseByRoute`, `Reclaim`,
`RunClose`, `PostStop`, `JoinWorker`; shutdown: `FacadeStops`, `RegistryStops`,
`RegistryStopsActor`.

Abstractions. Payloads, events other than the finished event, titles, suggestions and
side questions are left out. `child_task_ids` is not modelled (sub-agents). The automatic
away summary is also cancelled by the next turn; here a `summary` is the manual one, whose
interleavings include those. The second thread wait of InitAgent (`ensure_meta`) is merged
into `InitDone`. `InteractionCancelled` and `TaskEnds` of a cancelled task may take any
time, which stands for tools that clean up slowly. `TTLPasses` assumes that a getter
wake-up and a handler, one suspended in a thread or run by a preempting submitter included, take less
than the reaper's 30 minutes. A close operation that races
a server shutdown is left out (`StopAssumption`).

`SessionContract.tla` is what clients may rely on: two first-in first-out lanes per actor, a
root operation begins only when no other one of the actor is at work, it is turned away only
while another is unfinished or by a closed actor, one outcome per operation, and losses only as whole lanes of a
closed actor. `SessionRefinement.tla` maps the runtime onto it: a lane is the prefetched
item, then the getter's, then the mailbox without its STOP, and an actor is shut once `stop()` has begun.

## 4. The server around the sessions

**EventBus, EventLog, OperationAwaiter.** A publication takes a number per session and goes to
every subscriber of its scope in one step; a queue has `MaxSize` places and one more kept
for the sentinel, and a subscriber found full is disconnected with it. `EventLog` is the
promise: a subscriber has a gapless piece of the log from where it joined, in order, until
it is cut off. `OperationAwaiter` is `OperationCompletionAwaiter`: `submit` registers an id, the
end of the operation arrives over the bus, `wait_for` returns its status; a wait may be cancelled,
begun late, or never begun, and an id may be submitted again. A rejection is
two events on the bus, published and read without a suspension between them, and is one end here.

**HeadlessRuntime** models `server/headless.py` with what it uses of the actor, the handlers
and the session meta on disk: `Spawn`, `Send`, `Steer`, `Follow` and `Kill` requests step by step with
their scheduling locks and their writes in threads; `Pump` and the launch task (load the
session, take the follow-up or the turn, submit, wait, record, acknowledge); the event consumer
and the activity latches; turns that fail, operations rejected because an attached client's turn
runs; a crash at any step and the restore that follows. The turn itself is
`SessionRuntime`'s root operation, reduced to what the launch sees of it.

**InteractiveDrain** is the other user of the queue: the drain of a session people are attached
to, with what arms it, the lock it holds, its checks, the 30 s wait for an idle session, and
the compaction it may have to run first.

**AttachReplay** follows one session's text from the model to a client's screen. A text is a sequence
of numbered pieces, so "every piece once and in order" is a property of the client's view. The tape
is cut when a turn is on disk and reset when the session settles (three stages, with a flush in a
thread); a client attaches in the middle of anything. Three constants (`Interleaved`,
`FarRewinds`, `SlowUsage`) name interleavings in which the code loses or repeats text; the passing run has all three on. Instead of
excluding them, history variables say which clients they harm: `torn` while the tape does not continue the history where it says it does
(a rewind went behind its base, or a reset cut off a message whose run request was still to come), `spoilt` the clients that were
cut off such a tape or whose part of the history a rewind cut before it was sent, `blind` those that were told the session
runs when a reset took away the tape they would have learned the end from. `NoGapNoDup` is the plain claim of the
code's documentation, which the finding `attach_rewind` refutes; `AttachWhole` is what holds: every other client is shown
everything once and in order.

**SessionStore** is the writer: batches with a snapshot of the meta, written entry by entry by a
thread, next to `update_meta` on the loop and readers in threads that fill a cache keyed by a `stat`.
**SessionHistory** is the content: indices are the code's own, so `Rewound`, `Retracted`, `Rebuilt`, `View` and
`Cuts` are the Python functions with the text left out. Which message crosses the token
budget is left open: a compaction may cut wherever `_find_cut_index` and its two
adjustments can end.

**TaskExecutor** is one turn: steps, retries of failed model calls, fallbacks, overflow and threshold
compaction, empty answers, sequential and concurrent tools, rewind and handoff, and an interrupt
at any step. **SocketClient** is the terminal's side of a connection, as two queues of frames.
A turn of a sub-agent that fails
because its context cannot be reduced says so twice: the executor publishes a fatal error and raises, and the operation handler
publishes another (`subAgent`).
**ServerLifecycle** is the lock, the socket file, `execv`, and the commands that spawn, verify,
reload and retry. What a server is doing (`work`) and what its `/status` and `/reload` routes see of it (`listed`) are two variables,
because the code derives the second from snapshots and the run queue: work may not be listed yet, and a listing may outlive its work.

**FileEdits** is one file and what the session knows of it. `file` is the text on disk, `entry` the tracker's
`FileStatus`, `belief` the text the conversation shows. A read, a check or a write is begun and ended by different
actions, because the code reads, hashes and stats in threads; other programs, and the thread of a tool that was
interrupted, may write in between. `Restart` loads the entry as `_parse_file_tracker` does: the cached text is not saved.

**SubAgents** is one step with its Agent calls. The child's operation passes the places of a
`SessionRuntime` operation (mailbox, getter, handler, task), the launcher reads the child's events in order,
may be cut off by the bus and then asks the awaiter, and the interrupt of the parent drops the calls, waits, and goes down to the
children whose actors it finds busy.

**Display** is the way of an event to the screen. A handler of `tui/machine.py` is an operator that takes the machine's
state, the event and the detail and gives the next state and the render commands (`Handle`); the renderer carries them out
(`Carry`); the tape merges deltas (`Record`) and hides turns taken back (`ApplyRetractions`); `Rebuild` is the repaint. A
text is a sequence of numbered pieces again. The events come from a small model of what a session publishes: replies
with and without deltas, thinking, a Bash tool before and after its 3 seconds, a batch of Agent calls with all the ways
a child can start, end, fail, be refused or be interrupted, interrupts with and without a notice, turns taken back, side questions, compactions,
summaries and the user's own commands. What is left of the screen is text blocks, open streams, the tail of
a command and the spinner.

## 5. Runs

Kinds whose handlers are the same up to their data are represented once. `CHECK_DEADLOCK FALSE`
where the system may rest with nothing to do.

| Run | States | Shows |
|---|---|---|
| dispatch | 294 809 | `TypeOK`, `OnePlace`, `FinishedOnce`, `BypassBound`, `ReclaimSparesWork`, `KeepsContract`: two turns, a config change and two queued messages on one actor; a session opened, closed by a route or the reaper next to a turn, and opened again; one closed by an operation between two turns, so that the worker of the closed actor goes on |
| interact | 301 886 | `InterruptHitsItsTurn`, `PendingMatchesAsker`, `OneRootTask`, `SlotGuardsWork`, `RootSlotIsLive`, `NothingLeaks`: turns, a question with two answers, an interrupt that names its turn, a summary and a compaction |
| progress | 51 372 | `StopEnds`, `ControlAnswered`, `NormalLeavesQueue`, `CancelledTurnFinishes`, under fairness; the last one leaves out the operations in `silenced`, whose wrapper the shutdown cancels before it begins |
| headless | 222 593 | `TypeOK`, `NoPromptForgotten`, `DurableMatches`, `SlotsHeld` (with `InFlightHasLaunch`, `QueueIndexed`), `WithdrawnNeverStarts`, `NeverAgain` |
| headless_delivery | 3 602 | `Served`, under fairness: every accepted spawn, send and steer is delivered or replaced, and every scheduling lock is given back |
| events | 305 333 | `AwTypeOK`, `SentinelAlwaysFits`, `AwaiterSound`, the refinement `ImplementsEventLog`, and `DroppedLearns`, `WaitReturns` under fairness |
| components | 1 600 798 | `TypesHold`, and per component: `HistoryKept` (`ReloadKeepsView`, `WellPaired`), `FilesAgree`, `AttachWhole` (`WholeUnlessTorn`, `MirrorAgrees`), `ClientInStep`, `OneServerAtATime` (`OneServer`, `WorkUnderLock`, `ReloadComesBack`), `QueueDrains`, `TurnWhole` (`SaysHowItEnded`, `FailuresBounded`, `OneResultPerCall`), `FilesKnown` (`SeenBeforeReplaced`, `UnchangedIsTrue`), `ChildrenAnswer` (`ResultIsTheChilds`, `InterruptReachesChildren`), `ScreenTrue` (`RepliesShown`, `RepaintAgrees`, `BatchSummarised`, `SpinnerTruth`) |
| close_drops_accepted, idle_lost, headless_kill_then_send, history_reload, attach_rewind | | counterexamples, section 7 |

Bounds and why they are enough.

* *Session runs.* `Quota = 1` (the code's 8): both branches of every burst test are reached with two
  control operations. One or two actor generations. A hazard needs at most two competing root
  operations, one background task, one late control operation and two generations; each plan
  has the combination its properties are about. Three generations and larger quotas are not checked;
  for the safety properties and the refinement of the session the proofs cover them.
* *Headless.* One slot (so that every second launch has to wait for it), one or two sessions,
  three requests and a kill, one crash, up to three faults. The plans are in
  `MCHeadlessScenarios.SafePlans`; they leave out the combinations of section 8, in which the code
  does break the property.
* *Events.* `MaxSize = 2`, so that a queue can hold something, overflow and still have its sentinel
  place; four publications; two subscribers in two sessions, or the awaiter with one other.
* *Components.* Histories of 8 entries (turn, compaction, rewind, reload and a second compaction fit);
  two batches of two entries, one fault, one reader; two turns and two loads of a session
  with four pieces; two calls of each policy, one retry, one empty answer, one fallback, two steps;
  three messages of two texts and one operation; two server processes, two commands and one incident; two
  follow-ups and one extra event with a consumer up to four events behind; one file with two texts, absent or touched,
  and sessions that may have been saved by an older server (`OldSessions`); two Agent calls, or one with up to two
  troubles (a failure, an error the child gets over, a cut subscription, an interrupt of the child). The transcript has two prompts
  and two replies of two pieces, or one command, or a batch of two children (the first may think, the last may fail or be interrupted by
  itself, the full detail is chosen while they are at work), or a side question next to another activity; the detail may change
  whenever all events have been consumed.

Fairness. The event loop runs every ready coroutine, so the worker, its handlers, wrappers, done
callbacks, the stages of `stop()`, a launch's own steps, the consumers and a woken waiter are weakly
fair, each by itself. Writes in threads end. Clients, users, the reaper and faults owe nothing. A running task that
nobody cancels may run for ever; a cancelled one ends (tools honour cancellation). In
`headless_delivery` a submitted turn ends: a prompt behind a turn that never ends is rightly never
delivered.

## 6. Proofs

Every theorem holds for every value of the constants that its module's named assumptions allow; TLC
evaluates them on every run. `[]P` is proved as an invariant, `ImplementsEventLog`, `KeepsContract`,
`ReclaimSparesWork` and `NeverAgain` as what every step does.

| Module | Theorem | Property |
|---|---|---|
| SessionRuntime_proofs | `TypeCorrect`, `AcceptedOnce`, `BypassBounded`, `OneFinishedEvent`, `SlotGuarded`, `RootExclusive`, `InterruptExact` | `TypeOK`, `OnePlace`, `BypassBound`, `FinishedOnce`, `SlotGuardsWork`, `OneRootTask`, `InterruptHitsItsTurn` |
| SessionSlots_proofs | `RootNeverStale`, `QuestionsAnswerable`, `NothingStaysBehind`, `ReclaimIsSafe` | `RootSlotIsLive`, `PendingMatchesAsker`, `NothingLeaks`, `ReclaimSparesWork` |
| SessionRefinement_proofs | `SessionImplementsContract` | `KeepsContract` |
| EventBus_proofs | `AwaiterTypes`, `SentinelFits`, `SentinelFitsAwaiter`, `AwaiterIsSound`, `BusIsEventLog`, `AwaiterBusIsEventLog` | `AwTypeOK`, `SentinelAlwaysFits`, `AwaiterSound`, `ImplementsEventLog` |
| Components_proofs | `OneServerOnly`, `TurnsAreWhole`, `FilesAreKnown`, `ChildrenAlwaysAnswer`, `FilesAlwaysAgree` | `OneServerAtATime`, `TurnWhole`, `FilesKnown`, `ChildrenAnswer`, `FilesAgree` |
| Clients_proofs | `QueueAlwaysDrains`, `ClientStaysInStep` | `QueueDrains`, `ClientInStep` |
| Replay_proofs | `ReplayIsWhole` | `AttachWhole` |
| Headless_proofs | `HeadlessTyped`, `HeadlessSlots`, `HeadlessOnce`, `HeadlessQueue` (with `HeadlessQueueWhole`) | `TypeOK`, `SlotsHeld`, `NeverAgain`, the queue half of `DurableMatches` |

Assumptions: `OpsAssumption`, `BoundsAssumption` and `StopAssumption` of SessionRuntime; of the event modules that
a queue has a place, that the sentinel is no position of the log and no session is called like a scope, and that the awaiter is a
subscriber with a session of its own (`BusAssumption`, `AwaiterAssumption`);
of HeadlessRuntime that the sessions are finitely many, the slots, prompts and crashes are numbers, and what stands for
no session and no prompt is none, and no entry of a queue nor a queue, as the launch that holds a lock is no request
(`HeadlessAssumption`);
of MCComponents that a bound is a number and that what stands for the lack of a process, a tape, a message, a text or
a file is none (`ServerAssumption`, `StoreAssumption`, `AttachAssumption`, `TurnAssumption`, `DrainAssumption`,
`FileAssumption`, `ChildAssumption`). `ClientStaysInStep` is for `SwitchWhileWaiting = FALSE`, which the terminal guarantees: its
runner awaits `wait_for` before it attaches another session (tui/runner.py). Otherwise the claim is false (section 8).
`ReplayIsWhole` is for every value of `Interleaved`, `FarRewinds` and `SlowUsage`: what is left out is left out client by client, by
the history variables `torn`, `spoilt` and `blind`.

**Sessions**, in this order:

* **OnePlace** is inductive together with `TypeOK`. Its parts are restated over explicit
  arguments (`Places`: two mailboxes, two slots, the worker), so that a frame lemma each
  says what an append, a pop and a change of one operation's stage do; a step of `Next` is
  then one of a few shapes.
* **FinishedOnce** follows step by step from `OnePlace`: whoever finishes an operation took
  it from a place that says it was not finished.
* **SlotGuardsWork** is not inductive. Completions, `remove_task` and the pruning of done
  handles all clear slots by operation id; that they never clear the slot of work in progress needs
  `GuardInv`: an operation being handled has no task yet (`TaskFollowsHandler`), and
  every handle has a task (`HandlesHaveTasks`). **OneRootTask** is its corollary: two
  live root tasks of one actor would both be in its one slot.
* **BypassBound** speaks of a history variable. The code's `control_burst_count` has no
  bound: it also counts while nothing waits, and a wake-up with a single finished getter takes its item without looking at it
  (`ResumeWithOne`). `BypassInv` says why that is harmless: what has been overtaken is at most what the count says and at
  most the quota, when the getters are armed nothing is being bypassed, and a bypassed normal operation stays available.
* **InterruptHitsItsTurn** needs that a root slot names an operation of its own actor
  (`RootOwned`) and that an interrupt's victims and target have settled owners (`HitOK`);
  `GuardInv` then makes the target the only root operation among the handles.
* **RootSlotIsLive** is the converse of `SlotGuardsWork`, and is about one actor among generations: an actor not made
  yet is blank (`Generations`), the registry knows every operation that is on its way to an actor
  (`RegistryKnows`), no handle of the current actor is that of an ended task (`NoStaleHandle`), and only root operations
  enter the slot (`RootKinds`). Then whoever leaves the slot filled is still at work: the worker that claimed it, or
  the task, whose end clears it.
* **PendingMatchesAsker** is its own invariant with `Asked`: who is being cancelled out of a question
  has it pending or withdrawn. It stops at `phase = "down"`: a turn that started during the shutdown is left asking when the
  process ends.
* **NothingLeaks** puts these together: a quiet session holds no item (`OnePlace`, `StopNotHeld`), no slot and no question,
  since each of them names an operation that is not finished.
* **ReclaimSparesWork** needs the converse of `OnePlace`: an operation accepted by an actor *is* in one of its places
  (`AllPlaced`), not merely in no other. The reaper looks at a session whose actor has rested for 30 minutes
  (`Rested`: all its places are empty and nothing is suspended) and that nobody is closing (`CurOpen`).
* **KeepsContract** uses all of these (`RefInv`), and that a STOP is the last item of its mailbox and that the only open
  generation is the current one (`MailInv`). A lane is a concatenation, so lemmas about sequences come first: what appending
  an operation, posting a STOP, a getter taking the head and prefetching what it held make of the lane, or leave it
  (`LaneAppend`, `WithoutStopPosted`, `LaneGot`, `LaneKept`, `LaneTaken`). A worker's step then takes the head of one lane
  (`TakesOne`) or no more than moves it, and each action of `Next` is one action of the contract or a stutter. That a turn is
  turned away rightly by an open actor is `RootSlotIsLive`; that the worker left in the queue what the contract
  loses is `AllPlaced`. The proof corrected the contract, which used to let only an unfinished operation turn another away.
  An actor whose own close operation broke its `stop()` off goes on, and its root slot, which completions clear only on
  the session's *current* actor, may name a turn that is over: it then rejects a turn nothing stands in the way of.

**Events.** `BusInv` says of each subscriber that what it has read, what its queue holds and, until it is
cut off, what comes next are consecutive publications of its scope (`GaplessRun`, `CaughtUp`), with the sentinel last
and only when it is out of the map. A publication, a read and an overflow each keep one such run (`RunGrows`, `RunTakes`,
`RunEnds`); the refinement of `EventLog` is then a step by step mapping. `AwInv` adds, for every id, that the end of a registered
operation is still to come, is in the awaiter's queue before any sentinel, or has been noted.

**Components.** `MCComponents` only narrows the components' next-state relations (`AboutServer`, `AboutChildren` and so on), so
each invariant is proved for the whole `Next` of its module: a behaviour about one component takes its steps and no other
(`AboutOne`).

* *ServerLifecycle* (`ServerInv`): who touches the socket file holds the lock (`HoldsLock`), so does who works on a request or lists
  one (`Working`), and who leaves during an undisturbed reload comes back (`LeavesToReload`, `ComesBack`). How exact the list of
  active sessions is plays no part: any subset of the requests ever handled may be listed.
* *TaskExecutor* (`TurnInv`): every kind of failure has its own budget, the calls with and without a result are
  counted by where the turn is, and the errors published by where it is and whose turn it is: one, or two for a sub-agent.
* *FileEdits* (`FileInv`): what a tool has in hand was the file when it read it (`ToolHas`), the entry follows what
  the conversation was shown (`EntryFollows`), and a text read to its end is there (`ReadIsThere`).
* *SubAgents* (`ChildInv`): the events a launcher has read and those on their way tell together how the child's turn ended,
  unless it was cut off (`KidHeard`, `KidFollowed`); the cascade has every child that works on its list, or has reached it (`CascadeReaches`).
* *SessionStore* (`StoreInv`): batches are numbered as they are appended, the queue holds the last of them in order and all before
  are settled (`Numbered`); the file holds the settled ones and as much of the first of the queue as the thread is through with
  (`Filed`); what a reader or the cache has is a beginning of the file no shorter than the stat it goes with (`Loaded`); and until
  there is a metadata file every queued batch carries the session's own keys (`KeysKept`), so that it does not matter which of the
  writers creates it.
* *InteractiveDrain* (`DrainInv`): whatever lifts the reason to wait arms the drain, at once or through an event still on
  its way (`LiftsArm`, `LeftIsArmed`), and a turn believed to be starting is answered (`StartIsAnswered`). A kill empties the
  queue, and the history variable `accepted` forgets what it dropped.
* *SocketClient*: the echoes to be swallowed can be found in the two queues, in their order and with others' messages between
  them (`Fits`), and for every text, said and shown differ by what is on its way (`Balanced`), so the two agree when the wire is quiet
  although equal texts may be confused meanwhile. An operation somebody waits for is at work, has a frame on its way, or lost its
  connection (`Told`, `Waited`, `Unread`).

* *AttachReplay* (`AttachInv`): the history and the text being streamed rise piece by piece (`InHand`); the history up to the
  base of the tape and the texts on the tape are all there is, once and in order (`Whole`), while the tape is not torn; and so are, for a
  client that has its cut and is not spoilt, the history up to the base it was given, the cut and the queue of its subscription; what such a
  client has seen when it is live has it all (`Views`). What a publication does to the session and to what the client has is stated once (`Carries`), for every event
  and every client, and the actions are its instances. The mirror follows from the kinds of the events alone (`Mirror`): those of the tape decide
  it, whatever the client believed before, except between turns (`Tuned`). A replay starts from the history as it is when
  the welcome has been sent, which may have grown since the cut: only what lies behind the base matters, and that part is not
  rewritten, unless the client is spoilt by it (`InReach`). The text of a history and the replay of a list of events are recursive functions; a fact about each of their values is
  shown for the numbers for which it holds as a set that starts at 0 and is closed under successor (`Climbs`).

**Headless sessions.** `SlotsHeld` relates the slots, the launch tasks, the heads in flight and the two ways
to find a waiting session. It is not inductive; `HInv` adds what a step needs:

* *a session's launch, agent and load* (`LaunchesFit`): a launch has a prompt; a head in flight is that of a follow-up's
  launch which has begun it and has neither given it back nor acknowledged it. So no launch can end and leave one behind, which
  would block every later follow-up (`server/headless.py`, the `finally` of the launch task).
* *the slots* (`SlotInv`, stated by `Settled` over the registers of a scheduling step and the launches): a queue without
  repetitions, its index, and slots that are exactly those of the launches. What enqueueing, dropping and pumping keep of it is stated
  once (`SettledEnqueue`, `SettledDrop`, `SettledPump`), and every handler that schedules is a chain of them.
* *the rest* (`DiskInv`, `TurnInv`, `ReqInv`, `SetInv`): types of disk, turns, requests and latches, and that a kill that
  writes knows the prompt it found.

`Pump` repeats a pass over the run queue until a pass launches nothing. A pass (`Pass`) is a recursive function of the
number of entries looked at. That every value of it is settled is shown without induction over data: were one not, there
would be a least one that is not, and a single entry makes it of its predecessor (`PassKeeps`; `PumpKeeps` for the passes).

`NeverAgain` needs to know of each prompt every place it can be found in, in memory, on disk and in flight. `NInv` adds two parts to `HInv`:

* *the lock* (`LockInv`): a request in the middle of a send, a steer or a kill holds the scheduling lock of its session, and a steer its
  mark. So nobody else writes the queued turn or takes the entry away between its steps.
* *one place* (`Places`, `InPlace` for a session): a prompt is a turn that waits in the run queue, a turn that runs, or a
  follow-up, in memory, in flight, on disk or about to be loaded, and only in one of these (`Once`); its request says which it
  can be (`Asks`); the queue on disk is the agent's, or was emptied by a kill (`Stored`). A prompt whose completion is on disk
  is left only where its own launch takes it away (a queued turn about to be cleared, a head in flight about to be acknowledged) or the
  restore does, which compares both with the completed turn's id.

What a step may do to a session's places is stated once for each kind of change (`TurnStarts`, `LaunchGoes`, `LaunchEnds`, `EntryChanges`,
`HeadBegun`, `Restarted` and the like), over explicit arguments; a scheduling step is a chain of them (`PumpPlaces`: the launches it makes
take their prompts from the index). `Submits` is the only action that submits, and `NInv` says its prompt is not completed.

`HeadlessQueue` reads off `Stored` that the queue in memory behind the head in flight is the one on disk, whatever is appended,
begun, aborted, acknowledged or lost in a crash. The exception is a kill that comes while the agent is built from an older copy
(section 8); where nobody kills, there is none (`HeadlessQueueWhole`).

Only model-checked, and why:

* `NoPromptForgotten`, `WithdrawnNeverStarts` and the failed mark of `DurableMatches` of the headless runtime: they are true of the plans
  the runs choose and false of others (section 8), so there is no theorem for every value of the constants.
* `HistoryKept` and `ScreenTrue`: histories and screens are built by folds and `SelectSeq`, which take an
  operator as a parameter; what they return for every input is induction over data.
* `TypesHold`, which includes the types of those components.
* Liveness (under fairness), which is outside what the prover does.

## 7. Disagreements found

Five runs end in a counterexample, each against something the repository says:

* **close_drops_accepted** – tests/control/test_runtime_hub.py:536 has a close without force refuse
  an active session; `is_idle()` misses the item a getter task has popped, and the accepted
  operation disappears without a finished event.
* **idle_lost** – tests/control/test_runtime_hub.py:529: a session whose operations are done is idle. An
  interrupt that cancels a task before its first step leaves its handle, and the session is
  reported active until the next interrupt, compaction or shutdown.
* **headless_kill_then_send** – docs/agent-multiplexer.md:333 and :379: a killed session stays resumable via
  send. A send between the kill and the turn's end leaves the `interrupted` latch up; its launch
  starts and gives up for ever.
* **history_reload** – session/history.py:64-66 wants indices recorded live to line up after a reload. A load cuts
  the list at the last compaction, and the next compaction records an index into the cut list.
* **attach_rewind** – server/session_tape.py:9-12 says replay is "complete, ordered, and free of duplicates". A
  turn that rewinds behind the tape's base makes the history shorter than the base.

## 8. What the models reach and no run states

While the modules were written their instances also showed the following, which no run
repeats (PROJECT.json lists the hazards they belong to). They are the reason why some plans leave a
combination out.

Sessions:

* An interrupt that waited up to 2 s cancels *all* pending interactions of the session afterwards, a newer turn's
  included (agent/runtime/agent_ops.py:1189; protocol/op.py:251-254 says a stale interrupt must not cancel a newer turn).
* A close *operation* stops the worker it runs on, fails, and leaves the actor half closed (control/runtime/actor.py:144). Its
  worker goes on with what was submitted before, and may answer "rejected" to a turn although nothing runs.
* A handler suspended between claiming the root slot and registering its task outlives `stop()` (agent/runtime/agent_ops.py:732).
* A turn whose lifecycle wrapper the shutdown cancels before its first step has no finished event: the wrapper never enters its
  `try` (control/runtime/registry.py:165-176 and :328). The claim of `CancelledTurnFinishes` leaves such operations out.
* When the actor is removed while a handler waits in a thread (for images), the registration of the task it has made fails and the task
  runs on without a handle, out of reach of interrupts and shutdown (agent/runtime/agent_ops.py:732-738,
  control/runtime/registry.py:249-251). `FailItem` has no such task; no slot, question or handle names it.
* After a close and a reopening a turn the old actor's handler starts late runs next to one of the new actor (agent/runtime/agent_ops.py:692).

Headless sessions:

* A launched turn that is rejected because an attached client's turn runs stays only in the session meta, and the
  next send overwrites it (server/headless.py:917).
* Of two sends that race for an idle session while no slot is free, the second is answered "queued" although its
  follow-up operation failed (server/headless.py:677).
* A follow-up of an attached client queued while send writes its turn makes `_enqueue` drop that turn until the next
  restart (server/headless.py:688).
* A failed turn is recorded as completed when the consumer has not read its error yet (server/headless.py:924).
* A kill while the launch loads the session answers "idle", and the turn starts (server/routes/headless.py:717).
* A kill clears the durable queue while InitAgent builds the agent from an older copy of it (server/headless.py:803).

Attach, client and store:

* An event between a client's user message and its operation together with a tape reset loses
  the message from the replay (`Interleaved`: the tape is `torn`); the session information built before a slow usage snapshot is
  stale when a reset comes in between (`SlowUsage`: the client is `blind`). The run `components` has both.
* The terminal sends a message and arms the swallowing of its echo after the send has been awaited (tui/client/socket_client.py:238
  and :248); `EmitUserMessage` does both in one step, which assumes that the echo is not read within that await.
* A batch whose write fails may leave part of a line behind; the next entry that is appended continues that line, and a load
  skips both (session/store.py:156-159, :310-312). `WriteFails` leaves whole entries. An `update_meta` that fails (:226-229) leaves
  the file as it was and is the same as one that was not made.
* A queued batch carries the title of its time and overwrites a newer one (session/store.py:24 lists the protected keys).
* A late answer to a dequeue request is taken for the answer to the next one (tui/client/socket_client.py:253); a
  reattach without loss of the connection leaves the futures of the old session waiting (socket_client.py:147).
* server/routes/ws.py:249 says that marking a session active lifts what a kill left; the `interrupted` latch stays.

Processes:

* A server that answers after `Spawn` is taken for the spawned one and its code is never compared
  (cli/uds_client.py:206-210 against the docstring at :187-188); a POST whose answer is lost is sent twice (:226-229).
* The code fingerprint is computed after the code has been loaded: an upgrade in between goes unnoticed
  (server/app.py:149, update.py:179). What a client submits after a reload was accepted is interrupted by it, forced or not.
* A reload nobody forced can also interrupt what was there before it: the list of active sessions is made of `is_idle` snapshots and
  the run queue (server/routes/server.py:33-48), so it does not show an operation a getter holds, a turn on its way to the disk
  (server/headless.py:906) nor a launch that has left the queue and still builds its agent (server/headless.py:591). Conversely the
  stuck handle of `idle_lost` keeps a session on the list and every unforced reload refused. No property says otherwise.

Sub-agents:

* A sub-agent whose context overflows for good publishes two fatal errors (agent/task.py:806-807, agent/runtime/agent_ops.py:1251-1263).
* A child whose context overflows ends as a success for its parent (agent/runtime/sub_agent.py:148).
* An interrupt of the parent only goes down to children that are not idle and cancels only tasks that exist. A child whose
  prompt is still in its mailbox, in a getter's hands or in the handler starts its turn afterwards and nobody
  follows it (agent/runtime/dispatcher.py:286 against the comment at sub_agent.py:188).
* A launcher the bus has cut off reports a child that failed for good as a success with one of its earlier texts, or a child
  that answered after a retried error as an error (sub_agent.py:161). A child interrupted by itself counts as a success.

Files:

* The external-change check reads the file again and renews the tracker's entry before it knows whether it can report
  the change. Without a cached text (a partial read, `cat`, any file after a restart) it says nothing, and the
  "modified externally" guard of Edit and Write no longer fires (agent/attachments/files.py:325, docstring at :302).
* `cat` and `sed` in the shell record the hash of what the file holds after the command, not of what they showed.
* The modification time is taken after the read (tool/file/_read_core.py:134): a write in between makes the next read
  answer "unchanged", and an edit is refused until something renews the entry.
* After a compaction, a handoff or a rewind the tracker still says the file was read, so a read answers with the
  stub for an unchanged file although the earlier result left the conversation (agent/attachments/state.py:75 drops
  only memory and skill entries). The conversation's length is not in the model.

Screen:

* A reply without deltas that comes after another reply of the session is never shown, because the count of
  characters is reset only where a stream starts (tui/machine.py:1866; `LateUnstreamed = TRUE` shows it).
* A repaint while a Bash tool streams keeps the tail below the prompt and adds what the tape holds to it: its lines
  are there twice until the command ends (`reset_replay_state`, tui/renderer.py).
* The spinner: a child's fatal error or interrupt stops it while the parent's turn runs; the end of a compaction, a command or
  a summary stops it despite a pending side question, and an answered side question stops it during a compaction; so does a
  repaint during a `/compact` at rest. A child that starts after its parent's interrupt turns it on and nothing turns it off.
* A batch with a member that was announced and never started is not summarised in the compact view, and children that did run stay
  unseen there (tui/machine.py:1230).
* A child's interrupt that comes before its start is handled as the main session's, and a child's metadata ends the main session's
  open streams (tui/machine.py:2094, :2192).
* A side question asked in a turn that is taken back vanishes with it, its answer and its pending row included.
* After an attach the tape may hold the start of a turn that was killed; the first paint drops it, a repaint does not, and the spinner sticks.

## 9. Not modelled

* *Sub-agents*: profiles, forked context, progress and metadata, the merge of file changes, children of children.
* *Tools*: notebooks, PDF and images, the files a patch adds, moves or deletes, `mv`, memory and skill entries of
  the tracker, the web and todo tools, the shell itself; what the turn sees of any tool is TaskExecutor.
* *Model providers*: wire formats and network input and output; what the turn sees is a response, a retryable error, an
  overflow or a fatal error.
* *Layout, status line, images, key handling, menus* (tui/ except the socket client and the transcript), *configuration, auth, skills,
  updates*: no state shared with the sessions; most of the repository's lines are here, and a state machine would only restate
  layout or parsing.
* In modelled parts: clear and fork of a session, side questions beyond their events, titles and prompt suggestions, the automatic answers of
  headless sessions, the choice of a compaction's cut and its prompts,
  truncation of tool results, the read-only routes. The `ValueError` of a rewind in task.py:860 is unreachable in
  the model, since a rewind is only requested for a checkpoint that exists.
