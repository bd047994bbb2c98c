---------------------------- MODULE TaskExecutor ----------------------------
(***************************************************************************)
(* One turn: agent/task.py runs steps until the model has nothing more to  *)
(* do, agent/step.py streams one response, and tool/core/runner.py runs    *)
(* the tools it asks for, the sequential ones in turn and the concurrent   *)
(* ones each in a task that forwards its result.  An interrupt makes up    *)
(* the results that are missing and cancels the task in one step of the    *)
(* event loop; the task leaves at its next step.                           *)
(***************************************************************************)
EXTENDS Naturals, FiniteSets

CONSTANTS
  Sequential, Concurrent,   \* tool calls a response may ask for, by policy
  MaxFailed,                \* MAX_FAILED_STEP_RETRIES
  MaxEmpty,                 \* MAX_EMPTY_RESPONSE_RETRIES
  Fallbacks,                \* fallback models
  MaxSteps                  \* bound: responses of the turn

Calls == Sequential \cup Concurrent

VARIABLES
  subAgent,     \* the turn is a sub-agent's: sub_agent_state is set
  at,           \* where TaskExecutor.run is
  fails,        \* failed_attempts
  models,       \* fallback candidates left
  empties,      \* empty_response_retries
  skipCompact,  \* skip_threshold_compaction
  steps,        \* responses so far
  asked,        \* the calls of the assistant message last appended
  callAt,       \* each call: "none", "queued", "running", "done", "answered", "stopped"
  results,      \* ToolResultMessages in the history, per call
  reply,        \* the step's message: "text", "empty" or, by a tool, "stop"
  wishes,       \* what the rewind and the handoff manager hold
  cancelled,    \* task.cancel() has been called
  wound,        \* on_interrupt has run on this task
  told,         \* the terminal events: "finish" and "fatal", how often
  streak        \* history: failed model calls since the last response

vars == <<subAgent, at, fails, models, empties, skipCompact, steps, asked, callAt, results,
          reply, wishes, cancelled, wound, told, streak>>
toolVars == <<asked, callAt, results, reply, wishes>>
loopVars == <<fails, models, empties, skipCompact, steps, streak>>
endVars == <<cancelled, wound, told>>

Init ==
  /\ subAgent \in BOOLEAN
  /\ at = "compact" /\ fails = 0 /\ models = Fallbacks /\ empties = 0
  /\ skipCompact = FALSE /\ steps = 0 /\ streak = 0
  /\ asked = {} /\ callAt = [c \in Calls |-> "none"] /\ results = [c \in Calls |-> 0]
  /\ reply = "text" /\ wishes = {}
  /\ cancelled = FALSE /\ wound = FALSE /\ told = [finish |-> 0, fatal |-> 0]

(* The coroutine runs on; a cancelled one only unwinds. *)
At(here) == at = here /\ ~cancelled
Ends(how) == at' = "over" /\ told' = [told EXCEPT ![how] = @ + 1]
Continues == at' = "compact" /\ UNCHANGED told

-----------------------------------------------------------------------------
(* Before a step, and its model calls. *)

(* Compaction at the threshold, which sub-agents go without: it may use up
   fallback models; a failure is noted and the turn goes on. *)
Compact ==
  /\ At("compact") /\ at' = "stream" /\ fails' = 0
  /\ \/ UNCHANGED <<models, skipCompact>>
     \/ ~subAgent /\ ~skipCompact /\ models' \in 0 .. models /\ skipCompact' \in BOOLEAN
  /\ UNCHANGED <<toolVars, endVars, empties, steps, streak>>

(* The step loop goes round while failed_attempts <= MAX_FAILED_STEP_RETRIES. *)
(* Mutant: one retry too many. *)
RetriesOnceMore(n, next) ==
  /\ fails' = n
  /\ IF n <= MaxFailed + 1 THEN at' = next /\ UNCHANGED told ELSE Ends("fatal")

Retries(n, next) ==
  /\ fails' = n
  /\ IF n <= MaxFailed THEN at' = next /\ UNCHANGED told ELSE Ends("fatal")

ModelFails == At("stream") /\ streak' = streak + 1
             /\ UNCHANGED <<toolVars, empties, skipCompact, steps, cancelled, wound>>

StreamError == ModelFails /\ Retries(fails + 1, "sleep") /\ UNCHANGED models

(* A quota or an unknown model: the next candidate starts afresh. *)
StreamFallback ==
  /\ ModelFails
  /\ IF models > 0
     THEN models' = models - 1 /\ fails' = 0 /\ UNCHANGED <<at, told>>
     ELSE UNCHANGED <<models, fails>> /\ Ends("fatal")

StreamOverflow == ModelFails /\ at' = "overflow" /\ UNCHANGED <<fails, models, told>>

Sleep ==
  /\ At("sleep") /\ at' = "stream"
  /\ UNCHANGED <<toolVars, loopVars, endVars>>

OverflowCompacts ==
  /\ At("overflow") /\ models' \in 0 .. models
  /\ Retries(fails + 1, "stream")
  /\ UNCHANGED <<toolVars, empties, skipCompact, steps, streak, cancelled, wound>>

(* The error is published; a sub-agent's turn then raises, and _run_agent_task
   publishes an error of its own before the task is suspended again. *)
OverflowFails ==
  /\ At("overflow") /\ at' = "over"
  /\ told' = [told EXCEPT !.fatal = @ + IF subAgent THEN 2 ELSE 1]
  /\ UNCHANGED <<toolVars, loopVars, cancelled, wound>>

(* The whole message is appended and its calls are registered as unfinished
   before the task is suspended again. *)
StreamEnds ==
  /\ At("stream") /\ steps < MaxSteps /\ steps' = steps + 1 /\ streak' = 0
  /\ asked' \in SUBSET Calls /\ reply' \in {"text", "empty"}
  /\ callAt' = [c \in Calls |-> IF c \in asked' THEN "queued" ELSE "none"]
  /\ results' = [c \in Calls |-> 0]
  /\ at' = IF asked' = {} THEN "after" ELSE "tools"
  /\ UNCHANGED <<fails, models, empties, skipCompact, wishes, endVars>>

-----------------------------------------------------------------------------
(* The tools. *)

Answered(cs) == \A c \in cs : callAt[c] = "answered"
Unfinished == {c \in asked : callAt[c] \in {"queued", "running", "done"}}

Start(c) ==
  /\ At("tools") /\ callAt[c] = "queued"
  /\ IF c \in Sequential
     THEN \A d \in Sequential : callAt[d] \notin {"running", "done"}
     ELSE Answered(asked \cap Sequential)
  /\ callAt' = [callAt EXCEPT ![c] = "running"]
  /\ UNCHANGED <<at, loopVars, endVars, asked, results, reply, wishes>>

(* A tool's own task ends; the rewind and handoff tools leave a wish with the
   managers, which a sub-agent does not have, and a tool may ask that the agent
   stops. *)
ToolEnds(c) ==
  /\ at = "tools" /\ callAt[c] = "running"
  /\ callAt' = [callAt EXCEPT ![c] = "done"]
  /\ \/ UNCHANGED <<reply, wishes>>
     \/ /\ c \in Sequential /\ ~subAgent /\ UNCHANGED reply
        /\ \E w \in {"rewind", "handoff"} : wishes' = wishes \cup {w}
     \/ reply' = "stop" /\ UNCHANGED wishes
  /\ UNCHANGED <<at, loopVars, endVars, asked, results>>

(* The result is appended and the call leaves _unfinished_calls: by the turn's
   own task, or by the task of a concurrent call. *)
Answer(c) ==
  /\ at = "tools" /\ callAt[c] = "done"
  /\ c \in Sequential => ~cancelled
  /\ callAt' = [callAt EXCEPT ![c] = "answered"]
  /\ results' = [results EXCEPT ![c] = @ + 1]
  /\ UNCHANGED <<at, loopVars, endVars, asked, reply, wishes>>

ToolsEnd ==
  /\ At("tools") /\ Answered(asked) /\ at' = "after"
  /\ UNCHANGED <<toolVars, loopVars, endVars>>

-----------------------------------------------------------------------------
(* After a step. *)

Rewind ==
  /\ At("after") /\ "rewind" \in wishes /\ Continues
  /\ wishes' = wishes \ {"rewind"}
  /\ UNCHANGED <<asked, callAt, results, reply, loopVars, cancelled, wound>>

Handoff ==
  /\ At("after") /\ "rewind" \notin wishes /\ "handoff" \in wishes
  /\ at' = "handoff" /\ wishes' = wishes \ {"handoff"}
  /\ UNCHANGED <<asked, callAt, results, reply, loopVars, endVars>>

HandoffEnds ==
  /\ At("handoff") /\ (Continues \/ Ends("fatal"))
  /\ UNCHANGED <<toolVars, loopVars, cancelled, wound>>

TaskFinished == asked = {} \/ reply = "stop"
RetriesEmpty == asked = {} /\ reply = "empty" /\ empties < MaxEmpty

NextStep ==
  /\ At("after") /\ wishes = {} /\ ~TaskFinished /\ Continues /\ empties' = 0
  /\ UNCHANGED <<toolVars, fails, models, skipCompact, steps, streak, cancelled, wound>>

EmptyRetry ==
  /\ At("after") /\ wishes = {} /\ TaskFinished /\ RetriesEmpty /\ Continues
  /\ empties' = empties + 1
  /\ UNCHANGED <<toolVars, fails, models, skipCompact, steps, streak, cancelled, wound>>

Finish ==
  /\ At("after") /\ wishes = {} /\ TaskFinished /\ ~RetriesEmpty /\ Ends("finish")
  /\ UNCHANGED <<toolVars, loopVars, cancelled, wound>>

-----------------------------------------------------------------------------
(* Interruption. *)

Stopped(c) == IF c \in Unfinished THEN "stopped" ELSE callAt[c]

(* Mutant: the made-up results go to the calls that are running only. *)
MissingRunning == {c \in asked : callAt[c] \in {"running", "done"}}

Missing == Unfinished

(* on_interrupt and task.cancel(), with no suspension in between; a second
   interrupt finds no current task. *)
Interrupt ==
  /\ at # "over" /\ ~wound /\ wound' = TRUE /\ cancelled' = TRUE
  /\ IF at = "tools"
     THEN /\ results' = [c \in Calls |-> IF c \in Missing THEN results[c] + 1 ELSE results[c]]
          /\ callAt' = [c \in Calls |-> Stopped(c)]
     ELSE UNCHANGED <<results, callAt>>
  /\ UNCHANGED <<at, loopVars, asked, reply, wishes, told>>

(* Closing the session or stopping the runtime cancels only. *)
CancelTurn ==
  /\ at # "over" /\ ~cancelled /\ cancelled' = TRUE
  /\ UNCHANGED <<at, loopVars, toolVars, wound, told>>

(* CancelledError reaches the task; its finally clauses cancel the calls, and
   the wrapper _run_agent_task publishes a TaskFinishEvent. *)
Unwind ==
  /\ cancelled /\ at # "over" /\ Ends("finish")
  /\ callAt' = [c \in Calls |-> IF c \in Unfinished THEN "stopped" ELSE callAt[c]]
  /\ UNCHANGED <<loopVars, cancelled, wound, asked, results, reply, wishes>>

Next ==
  /\ \/ Compact \/ StreamError \/ StreamFallback \/ StreamOverflow \/ Sleep
     \/ OverflowCompacts \/ OverflowFails \/ StreamEnds
     \/ \E c \in Calls : Start(c) \/ ToolEnds(c) \/ Answer(c)
     \/ ToolsEnd \/ Rewind \/ Handoff \/ HandoffEnds \/ NextStep \/ EmptyRetry \/ Finish
     \/ Interrupt \/ CancelTurn \/ Unwind
  /\ UNCHANGED subAgent

Spec == Init /\ [][Next]_vars

-----------------------------------------------------------------------------
TypeOK ==
  /\ subAgent \in BOOLEAN
  /\ at \in {"compact", "stream", "sleep", "overflow", "tools", "after", "handoff", "over"}
  /\ fails \in 0 .. MaxFailed + 1 /\ models \in 0 .. Fallbacks /\ empties \in 0 .. MaxEmpty
  /\ asked \subseteq Calls /\ wishes \subseteq {"rewind", "handoff"}
  /\ reply \in {"text", "empty", "stop"}

(* A tool call of the history never gets two results, and once the step has *)
(* gone on or an interrupt has been handled each has exactly one, whichever *)
(* of a call's own task and the interrupt came first.                       *)
OneResultPerCall ==
  /\ \A c \in Calls : results[c] <= 1
  /\ at = "after" \/ wound => \A c \in asked : results[c] = 1

(* A turn that is over has said so, and not before, on every way out,       *)
(* cancellation too: by TaskFinishEvent or by an error that cannot be       *)
(* retried, never by both, and once.  A sub-agent alone may report two such *)
(* errors: the task's and, because it raises, the wrapper's.                *)
SaysHowItEnded ==
  /\ told.finish + told.fatal > 0 <=> at = "over"
  /\ told.finish = 0 \/ told.fatal = 0
  /\ told.finish <= 1 /\ told.fatal <= IF subAgent THEN 2 ELSE 1

(* However the model calls fail, and however often compaction or a fallback *)
(* starts the step again, the failed calls in a row are bounded.            *)
FailuresBounded == streak <= (MaxFailed + 1) * (Fallbacks + 1)
=============================================================================
