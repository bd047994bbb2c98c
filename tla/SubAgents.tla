------------------------------ MODULE SubAgents ------------------------------
(* The Agent calls of one turn.  Each call prepares a child session, submits *)
(* the prompt to the child's own actor and follows the child's events for    *)
(* the result (agent/runtime/sub_agent.py).  Nothing but the events ties the *)
(* two together: an interrupt of the parent drops the calls and then goes    *)
(* down to the children it finds at work (agent/runtime/dispatcher.py).      *)
EXTENDS Naturals, Sequences

CONSTANTS
  AgentCalls,      \* Agent calls, all of one step
  MaxTroubles \* bound: failures, errors a child gets over, cut subscriptions, interrupts of a child

VARIABLES
  parent,    \* the parent's turn
  launcher,  \* the launcher of a call
  childOp,   \* the child's RunAgentOperation
  dying,     \* children whose task is cancelled
  news,      \* events of the child its launcher has not read
  lost,      \* calls whose subscription the bus has ended
  seen,      \* what the launcher has read
  spoke,     \* children with a text of the model in their history
  ended,     \* history: how the child's turn ended
  outcome,   \* the result of the call in the parent's history
  cascade,   \* the interrupt of the parent
  reached,   \* history: children at work when the interrupt looked for them
  gotOver,   \* history: children that got over an error
  troubles

childVars == <<parent, launcher, childOp, dying, news, lost, seen, spoke, ended, outcome, cascade,
               reached, gotOver, troubles>>

Live == {"prepares", "follows", "asks", "ends", "stops"}
Ends == {"answer", "fatal", "failed", "cancelled", "silent"}

ChildTypeOK ==
  /\ parent \in {"running", "stopping", "over"}
  /\ launcher \in [AgentCalls -> Live \cup {"none", "over"}]
  /\ childOp \in [AgentCalls -> {"none", "mail", "held", "handled", "task", "begun", "wraps", "ended"}]
  /\ dying \subseteq AgentCalls /\ lost \subseteq AgentCalls /\ spoke \subseteq AgentCalls
  /\ news \in [AgentCalls -> Seq({"error", "finish", "completed", "failed"})]
  /\ seen \in [AgentCalls -> [finish : BOOLEAN, error : BOOLEAN, status : {"none", "completed", "failed"}]]
  /\ ended \in [AgentCalls -> Ends \cup {"no"}]
  /\ outcome \in [AgentCalls -> {"none", "success", "error", "aborted"}]
  /\ cascade \in [pc : {"none", "waits", "goes", "done"}, left : SUBSET AgentCalls]
  /\ reached \subseteq AgentCalls /\ gotOver \subseteq AgentCalls /\ troubles \in 0 .. MaxTroubles

ChildInit ==
  /\ parent = "running" /\ cascade = [pc |-> "none", left |-> {}] /\ reached = {}
  /\ launcher = [c \in AgentCalls |-> "none"] /\ childOp = [c \in AgentCalls |-> "none"]
  /\ news = [c \in AgentCalls |-> <<>>]
  /\ seen = [c \in AgentCalls |-> [finish |-> FALSE, error |-> FALSE, status |-> "none"]]
  /\ ended = [c \in AgentCalls |-> "no"] /\ outcome = [c \in AgentCalls |-> "none"]
  /\ dying = {} /\ lost = {} /\ spoke = {} /\ gotOver = {} /\ troubles = 0

launcherVars == <<launcher, seen, outcome>>
interruptVars == <<parent, cascade, reached>>
turnOf == <<childOp, dying, news, lost, spoke, ended, gotOver, troubles>>

Trouble == troubles < MaxTroubles /\ troubles' = troubles + 1

AtWork(c) == childOp[c] \in {"task", "begun"}

(* What the launcher is sent of the child's events: nothing once it is cut
   off, or gone. *)
Published(c, what) ==
  news' = IF c \in lost \/ launcher[c] # "follows" THEN news
          ELSE [news EXCEPT ![c] = @ \o what]

-----------------------------------------------------------------------------
(* The launcher. *)

(* The spawn is recorded, the child's profile is built in a thread. *)
Spawn(c) ==
  /\ parent = "running" /\ launcher[c] = "none"
  /\ launcher' = [launcher EXCEPT ![c] = "prepares"]
  /\ UNCHANGED <<turnOf, interruptVars, seen, outcome>>

SpawnFails(c) ==
  /\ launcher[c] = "prepares"
  /\ launcher' = [launcher EXCEPT ![c] = "over"] /\ outcome' = [outcome EXCEPT ![c] = "error"]
  /\ Trouble
  /\ UNCHANGED <<childOp, dying, news, lost, spoke, ended, gotOver, interruptVars, seen>>

(* It subscribes before it submits. *)
SubmitPrompt(c) ==
  /\ launcher[c] = "prepares"
  /\ launcher' = [launcher EXCEPT ![c] = "follows"]
  /\ childOp' = [childOp EXCEPT ![c] = "mail"]
  /\ UNCHANGED <<dying, news, lost, spoke, ended, gotOver, troubles, interruptVars, seen, outcome>>

Follow(c) ==
  /\ launcher[c] = "follows" /\ news[c] # <<>>
  /\ LET e == Head(news[c]) IN
       /\ seen' = [seen EXCEPT ![c].finish = @ \/ e = "finish", ![c].error = @ \/ e = "error",
                               ![c].status = IF e \in {"completed", "failed"} THEN e ELSE @]
       /\ launcher' = IF e \in {"completed", "failed"} THEN [launcher EXCEPT ![c] = "ends"] ELSE launcher
  /\ news' = [news EXCEPT ![c] = Tail(@)]
  /\ UNCHANGED <<childOp, dying, lost, spoke, ended, gotOver, troubles, interruptVars, outcome>>

(* The bus ended the subscription: the awaiter knows when the operation is over. *)
CutOff(c) ==
  /\ launcher[c] = "follows" /\ c \in lost /\ news[c] = <<>>
  /\ launcher' = [launcher EXCEPT ![c] = "asks"]
  /\ UNCHANGED <<turnOf, interruptVars, seen, outcome>>

OperationOver(c) == childOp[c] = "ended"

Asked(c) ==
  /\ launcher[c] = "asks" /\ OperationOver(c)
  /\ launcher' = [launcher EXCEPT ![c] = "ends"]
  /\ seen' = [seen EXCEPT ![c].status = IF ended[c] = "failed" THEN "failed" ELSE "completed"]
  /\ UNCHANGED <<turnOf, interruptVars, outcome>>

(* Without a finish and without an error, the last text of the child's history
   is the result. *)
Recovered(c) == seen[c].status = "completed" /\ ~seen[c].error /\ c \in spoke
Succeeds(c) == seen[c].status # "failed" /\ (seen[c].finish \/ Recovered(c))

Return(c) ==
  /\ launcher[c] = "ends"
  /\ launcher' = [launcher EXCEPT ![c] = "over"]
  /\ outcome' = [outcome EXCEPT ![c] = IF Succeeds(c) THEN "success" ELSE "error"]
  /\ UNCHANGED <<turnOf, interruptVars, seen>>

-----------------------------------------------------------------------------
(* The child: an actor with one operation (SessionRuntime), a turn with its  *)
(* events (TaskExecutor), and the bus.                                       *)

(* A getter task takes the item; the worker reserves the root slot; the
   handler creates the task; it takes its first step. *)
Advance(c) ==
  /\ \E step \in {<<"mail", "held">>, <<"held", "handled">>, <<"handled", "task">>, <<"task", "begun">>} :
       /\ childOp[c] = step[1] /\ (step[1] = "task" => c \notin dying)
       /\ childOp' = [childOp EXCEPT ![c] = step[2]]
  /\ UNCHANGED <<launcherVars, interruptVars, dying, news, lost, spoke, ended, gotOver, troubles>>

(* The handler raises; the lifecycle reports the end of the operation. *)
HandlerRaises(c) ==
  /\ childOp[c] = "handled"
  /\ childOp' = [childOp EXCEPT ![c] = "ended"] /\ ended' = [ended EXCEPT ![c] = "failed"]
  /\ Published(c, <<"failed">>) /\ Trouble
  /\ UNCHANGED <<launcherVars, interruptVars, dying, lost, spoke, gotOver>>

Speak(c) ==
  /\ childOp[c] = "begun" /\ c \notin spoke \cup dying
  /\ spoke' = spoke \cup {c}
  /\ UNCHANGED <<launcherVars, interruptVars, childOp, dying, news, lost, ended, gotOver, troubles>>

ErrorAndRetry(c) ==
  /\ childOp[c] = "begun" /\ c \notin dying /\ c \notin gotOver
  /\ gotOver' = gotOver \cup {c} /\ Trouble
  /\ Published(c, <<"error">>)
  /\ UNCHANGED <<launcherVars, interruptVars, childOp, dying, lost, spoke, ended>>

(* An answer or an error ends the turn; a cancelled one says it has finished,
   unless it never began. *)
TurnEnds(c, how) ==
  /\ AtWork(c)
  /\ how \in CASE childOp[c] = "task" /\ c \in dying -> {"silent"}
              [] childOp[c] = "begun" /\ c \in dying -> {"cancelled"}
              [] childOp[c] = "begun" /\ c \in spoke \ dying -> {"answer", "fatal"}
              [] childOp[c] = "begun" /\ c \notin spoke \cup dying -> {"fatal"}
              [] OTHER -> {}
  /\ childOp' = [childOp EXCEPT ![c] = "wraps"] /\ ended' = [ended EXCEPT ![c] = how]
  /\ Published(c, CASE how = "silent" -> <<>> [] how = "fatal" -> <<"error">> [] OTHER -> <<"finish">>)
  /\ UNCHANGED <<launcherVars, interruptVars, dying, lost, spoke, gotOver, troubles>>

(* The wrapper of the operation; whatever became of the task, it "completed". *)
WrapUp(c) ==
  /\ childOp[c] = "wraps"
  /\ childOp' = [childOp EXCEPT ![c] = "ended"]
  /\ Published(c, <<"completed">>)
  /\ UNCHANGED <<launcherVars, interruptVars, dying, lost, spoke, ended, gotOver, troubles>>

(* The launcher's queue overflows with the deltas of the child's texts. *)
CutSubscription(c) ==
  /\ launcher[c] = "follows" /\ childOp[c] = "begun" /\ c \notin lost /\ Trouble
  /\ lost' = lost \cup {c}
  /\ UNCHANGED <<launcherVars, interruptVars, childOp, dying, news, spoke, ended, gotOver>>

-----------------------------------------------------------------------------
(* Interrupts. *)

Cancelled(c) == IF AtWork(c) THEN dying \cup {c} ELSE dying

(* A client interrupts the child by itself. *)
InterruptChild(c) ==
  /\ parent = "running" /\ AtWork(c) /\ c \notin dying
  /\ dying' = Cancelled(c) /\ Trouble
  /\ UNCHANGED <<launcherVars, interruptVars, childOp, news, lost, spoke, ended, gotOver>>

(* The parent is interrupted: unfinished calls get a result, their launchers
   and the turn are cancelled. *)
InterruptParent ==
  /\ parent = "running" /\ cascade.pc = "none"
  /\ parent' = "stopping"
  /\ outcome' = [c \in AgentCalls |-> IF launcher[c] \in Live THEN "aborted" ELSE outcome[c]]
  /\ launcher' = [c \in AgentCalls |-> IF launcher[c] \in Live THEN "stops" ELSE launcher[c]]
  /\ cascade' = [cascade EXCEPT !.pc = "waits"]
  /\ UNCHANGED <<turnOf, seen, reached>>

LauncherStops(c) ==
  /\ launcher[c] = "stops"
  /\ launcher' = [launcher EXCEPT ![c] = "over"]
  /\ news' = [news EXCEPT ![c] = <<>>]
  /\ UNCHANGED <<childOp, dying, lost, spoke, ended, gotOver, troubles, interruptVars, seen, outcome>>

ParentEnds ==
  /\ \A c \in AgentCalls : launcher[c] \in {"none", "over"}
  /\ parent # "over" /\ parent' = "over"
  /\ UNCHANGED <<turnOf, launcherVars, cascade, reached>>

(* Mutant: the children that are still followed. *)
FollowedChildren ==
  {c \in AgentCalls : launcher[c] \in Live /\ childOp[c] \in {"mail", "handled", "task", "begun", "wraps"}}

(* The children whose actor is not idle: an item in a getter task's hands is
   not seen. *)
LiveChildren == {c \in AgentCalls : childOp[c] \in {"mail", "handled", "task", "begun", "wraps"}}

(* After the turn has ended, or 2 seconds. *)
FindChildren ==
  /\ cascade.pc = "waits"
  /\ cascade' = [pc |-> "goes", left |-> LiveChildren]
  /\ reached' = {c \in AgentCalls : AtWork(c)}
  /\ UNCHANGED <<turnOf, launcherVars, parent>>

CascadeTo(c) ==
  /\ cascade.pc = "goes" /\ c \in cascade.left
  /\ cascade' = [cascade EXCEPT !.left = @ \ {c}]
  /\ dying' = Cancelled(c)
  /\ UNCHANGED <<launcherVars, parent, reached, childOp, news, lost, spoke, ended, gotOver, troubles>>

CascadeEnds ==
  /\ cascade.pc = "goes" /\ cascade.left = {}
  /\ cascade' = [cascade EXCEPT !.pc = "done"]
  /\ UNCHANGED <<turnOf, launcherVars, parent, reached>>

ChildNext ==
  \/ \E c \in AgentCalls :
       \/ Spawn(c) \/ SpawnFails(c) \/ SubmitPrompt(c) \/ Follow(c) \/ CutOff(c) \/ Asked(c) \/ Return(c)
       \/ Advance(c) \/ HandlerRaises(c) \/ Speak(c) \/ ErrorAndRetry(c) \/ WrapUp(c)
       \/ CutSubscription(c) \/ InterruptChild(c) \/ LauncherStops(c) \/ CascadeTo(c)
       \/ \E how \in Ends : TurnEnds(c, how)
  \/ InterruptParent \/ ParentEnds \/ FindChildren \/ CascadeEnds

ChildSpec == ChildInit /\ [][ChildNext]_childVars

-----------------------------------------------------------------------------
(* A call that was not interrupted has its result when the child's turn is   *)
(* over, and the result says how it went; a launcher that was cut off from   *)
(* the child's events may only take a text the child did say for an answer,  *)
(* or call a turn that had errors a failure. *)
ResultIsTheChilds ==
  \A c \in AgentCalls :
    /\ outcome[c] \in {"success", "error"} => childOp[c] \in {"none", "ended"}
    /\ outcome[c] = "success" =>
         ended[c] \in {"answer", "cancelled"} \/ (c \in lost /\ c \in spoke)
    /\ outcome[c] = "error" =>
         ended[c] # "answer" \/ c \in lost \cap gotOver

(* No child that was at work when the interrupt of its parent looked for     *)
(* children is left at work. *)
InterruptReachesChildren ==
  cascade.pc = "done" => \A c \in reached : AtWork(c) => c \in dying
=============================================================================
