--------------------------- MODULE InteractiveDrain ---------------------------
(* The follow-up queue of a session people are attached to, and the server   *)
(* task that empties it: what arms a drain, the lock it holds, how long it   *)
(* waits for an idle session, and what it leaves for a later trigger         *)
(* (server/headless.py), next to the turns, messages, Esc and kill of the    *)
(* clients (server/routes/ws.py, server/routes/headless.py). Nothing in here *)
(* yields to the event loop between the checks of a drain and its submit,    *)
(* unless it compacts first. The consumer of the event bus may lag.          *)
EXTENDS Naturals, FollowUpQueue

CONSTANTS
  Msgs,     \* messages of the clients
  MaxExtras, \* bound: compactions, other operations, failures, Esc, kill, attach
  MaxLag    \* bound: events the consumer of the bus has not read yet

VARIABLES
  agent,    \* the follow-up queue in memory, and its head in flight
  mail,     \* operations the actor has not taken yet
  root,     \* what holds the root slot, or None
  ran,      \* the root's task is over, its operation not yet finished
  events,   \* published, not yet read by HeadlessRuntime._consume_events
  failed, interrupted,   \* SessionActivityTracker
  stopped,  \* _stopped_sessions
  starting, \* _turn_starting
  waiting,  \* drains that wait for the session's lock
  drain,    \* the one that holds it
  client,   \* message -> where its client's request is
  over,     \* what wait_for of an operation would return: done or rejected
  accepted, \* history: follow-ups in the order the agent took them, less the killed
  acked,    \* history: follow-ups acknowledged
  extras

vars == <<agent, mail, root, ran, events, failed, interrupted, stopped, starting, waiting, drain,
          client, over, accepted, acked, extras>>

Turn(m) == [kind |-> "turn", id |-> m]
Compact(by) == [kind |-> "compact", id |-> by]
FollowUpOp(m) == [kind |-> "follow", id |-> m]
Other == [kind |-> "other", id |-> None]
Operations == [kind : {"turn", "compact", "follow"}, id : Msgs] \cup {Compact(None), Other}

Event(what) == [what |-> what, of |-> None]
Rejected(m) == [what |-> "rejected", of |-> m]

TypeOK ==
  /\ agent \in [up : {TRUE}, mem : Seq(Msgs), flight : Msgs \cup {None}]
  /\ mail \in Seq(Operations) /\ root \in Operations \cup {None} /\ ran \in BOOLEAN
  /\ events \in Seq([what : {"start", "user", "finish", "error", "queue", "empty", "done", "esc", "kill", "rejected"},
                     of : Msgs \cup {None}])
  /\ failed \in BOOLEAN /\ interrupted \in BOOLEAN /\ stopped \in BOOLEAN
  /\ starting \in Msgs \cup {None} /\ waiting \in Nat
  /\ drain \in {"free", "polls", "compacts", "runs", "flushes"}
  /\ client \in [Msgs -> {"new", "compacts", "queues", "sent"}]
  /\ over \in [Operations -> {"no", "done", "rejected"}]
  /\ accepted \in Seq(Msgs) /\ acked \in Seq(Msgs) /\ extras \in 0..MaxExtras

Init ==
  /\ agent = Loaded(<<>>) /\ mail = <<>> /\ root = None /\ ran = FALSE /\ events = <<>>
  /\ failed = FALSE /\ interrupted = FALSE /\ stopped = FALSE
  /\ starting = None /\ waiting = 0 /\ drain = "free"
  /\ client = [m \in Msgs |-> "new"] /\ over = [o \in Operations |-> "no"]
  /\ accepted = <<>> /\ acked = <<>> /\ extras = 0

\* SessionActor.is_idle: the root slot is claimed as the operation leaves the
\* mailbox.
Idle == root = None /\ mail = <<>>

Emits(s) == events' = events \o [i \in DOMAIN s |-> Event(s[i])]
Extra == extras < MaxExtras /\ extras' = extras + 1
Snapshot(a) == IF a.mem = <<>> THEN "empty" ELSE "queue"

Submits(o) == mail' = Append(mail, o)

\* What somebody waits for is kept until it is collected.
Awaited(o) ==
  \/ o.kind = "compact"
  \/ o.kind = "follow" /\ client[o.id] = "queues"
  \/ o.kind = "turn" /\ agent.flight = o.id
Collects(o) == over' = [over EXCEPT ![o] = "no"]
Result(o, what) == over' = IF Awaited(o) THEN [over EXCEPT ![o] = what] ELSE over

latches == <<failed, interrupted, stopped>>
history == <<accepted, acked>>
actor == <<mail, root, ran, over>>

-----------------------------------------------------------------------------
(* The actor.                                                                *)

\* The next operation: a root operation is refused while another is active, a
\* follow-up is queued at once, a turn's task starts.
Take ==
  /\ mail # <<>> /\ mail' = Tail(mail)
  /\ LET o == Head(mail) IN
     \/ /\ o.kind = "follow"
        /\ agent' = FollowUp(agent, o.id) /\ accepted' = Append(accepted, o.id)
        /\ Result(o, "done") /\ Emits(<<"done">>)
        /\ UNCHANGED <<root, ran>>
     \/ /\ o.kind # "follow" /\ root # None
        /\ Result(o, "rejected")
        /\ events' = Append(events, Rejected(IF o.kind = "turn" THEN o.id ELSE None))
        /\ UNCHANGED <<agent, accepted, root, ran>>
     \/ /\ o.kind # "follow" /\ root = None
        /\ root' = o /\ ran' = FALSE
        /\ Emits(IF o.kind = "turn" THEN <<"start">> ELSE <<>>)
        /\ UNCHANGED <<agent, accepted, over>>
  /\ UNCHANGED <<latches, starting, waiting, drain, client, acked, extras>>

\* The task of a turn ends well, or with a fatal error it reports instead of its
\* finish; the operation is finished later (OpEnds).
TaskEnds(well) ==
  /\ root # None /\ ~ran /\ ran' = TRUE
  /\ well \/ root.kind = "turn"
  /\ IF well THEN UNCHANGED extras ELSE Extra
  /\ Emits(IF root.kind # "turn" THEN <<>> ELSE IF well THEN <<"finish">> ELSE <<"error">>)
  /\ UNCHANGED <<agent, mail, root, over, latches, starting, waiting, drain, client, history>>

OpEnds ==
  /\ root # None /\ ran
  /\ root' = None /\ ran' = FALSE
  /\ Result(root, "done")
  /\ Emits(<<"done">>)
  /\ UNCHANGED <<agent, mail, latches, starting, waiting, drain, client, history, extras>>

\* An operation of the server's own that keeps the actor busy: an away summary,
\* a bash command, a title.
OtherOperation ==
  /\ Extra /\ Submits(Other)
  /\ UNCHANGED <<agent, root, ran, over, events, latches, starting, waiting, drain, client, history>>

-----------------------------------------------------------------------------
(* The clients.                                                              *)

\* mark_session_active lifts the kill and failure latches, and only these.
Revives == failed' = FALSE /\ stopped' = FALSE /\ UNCHANGED interrupted

\* _submit_user_turn, once it knows that the session is idle.
StartsTurn(m) ==
  /\ starting' = m /\ Submits(Turn(m))
  /\ client' = [client EXCEPT ![m] = "sent"]

\* ... or busy: the message becomes a follow-up. The queue event goes out before
\* the actor has taken the operation, and the turn it was sent as is reported done.
QueuesInstead(m) ==
  /\ Submits(FollowUpOp(m))
  /\ client' = [client EXCEPT ![m] = "sent"]

\* A terminal that believes the session idle: it echoes the message and sends a
\* turn.
SendTurn(m) ==
  /\ client[m] = "new" /\ Revives
  /\ \/ Idle /\ StartsTurn(m) /\ Emits(<<"user">>) /\ UNCHANGED extras
     \/ /\ Idle /\ Extra /\ Submits(Compact(m)) /\ Emits(<<"user">>)
        /\ client' = [client EXCEPT ![m] = "compacts"] /\ UNCHANGED starting
     \/ /\ ~Idle /\ QueuesInstead(m) /\ Emits(<<"user", Snapshot(agent), "done">>)
        /\ UNCHANGED <<starting, extras>>
  /\ UNCHANGED <<agent, root, ran, over, waiting, drain, history>>

Compacted(m) ==
  /\ client[m] = "compacts" /\ over[Compact(m)] # "no" /\ Collects(Compact(m))
  /\ \/ Idle /\ StartsTurn(m) /\ UNCHANGED events
     \/ ~Idle /\ QueuesInstead(m) /\ Emits(<<Snapshot(agent), "done">>) /\ UNCHANGED starting
  /\ UNCHANGED <<agent, root, ran, latches, waiting, drain, history, extras>>

\* One that believes it busy queues the message and waits until it is.
SendFollowUp(m) ==
  /\ client[m] = "new" /\ Revives
  /\ Submits(FollowUpOp(m)) /\ client' = [client EXCEPT ![m] = "queues"]
  /\ UNCHANGED <<agent, root, ran, over, events, starting, waiting, drain, history, extras>>

Queued(m) ==
  /\ client[m] = "queues" /\ over[FollowUpOp(m)] = "done" /\ Collects(FollowUpOp(m))
  /\ client' = [client EXCEPT ![m] = "sent"] /\ Emits(<<Snapshot(agent)>>)
  /\ UNCHANGED <<agent, mail, root, ran, latches, starting, waiting, drain, history, extras>>

\* InterruptOperation: the event first, then the task of the turn is cancelled.
\* Esc goes on with the queue.
Cancels(event) ==
  IF root = None \/ ran
    THEN Emits(<<event, "done">>) /\ UNCHANGED ran
    ELSE /\ ran' = TRUE
         /\ Emits(IF root.kind = "turn" THEN <<event, "finish", "done">> ELSE <<event, "done">>)

Esc ==
  /\ Extra /\ root # None /\ Cancels("esc")
  /\ UNCHANGED <<agent, mail, root, over, latches, starting, waiting, drain, client, history>>

\* prepare_interrupt and interrupt_headless: the queue is emptied, and the newest
\* of the accepted are withdrawn with it; a busy session is marked stopped and
\* interrupted.
Kill ==
  /\ Extra
  /\ agent' = PopAll(agent)
  /\ accepted' = SubSeq(accepted, 1, Len(accepted) - Len(agent.mem))
  /\ IF Idle THEN UNCHANGED <<stopped, events, ran>> ELSE stopped' = TRUE /\ Cancels("kill")
  /\ UNCHANGED <<mail, root, over, failed, interrupted, starting, waiting, drain, client, acked>>

-----------------------------------------------------------------------------
(* The server's consumer of the events, and the drains it arms.              *)

\* Variant: only the end of a turn arms a drain.
ArmsAfterTurn(e) == e \in {"finish", "queue", "esc"}

\* _consume_one, after the tracker has read the event.
Arms(e) ==
  \/ e \in {"done", "queue", "esc"}
  \/ e = "finish" /\ ~interrupted

\* SessionActivityTracker.consume, _turn_starting and _schedule_follow_up_drain.
Consume ==
  /\ events # <<>> /\ events' = Tail(events)
  /\ LET e == Head(events).what IN
     /\ failed' = IF e = "error" THEN TRUE ELSE failed /\ e \notin {"start", "user", "finish"}
     /\ interrupted' = IF e = "kill" THEN TRUE ELSE interrupted /\ e \notin {"start", "user", "esc"}
     /\ starting' = IF e = "start" \/ (e = "rejected" /\ Head(events).of = starting) THEN None ELSE starting
     /\ waiting' = IF Arms(e) /\ ~stopped /\ ~failed' THEN waiting + 1 ELSE waiting
  /\ UNCHANGED <<agent, actor, stopped, drain, client, history, extras>>

\* A client attaches: nudge_follow_up_drain.
Attach ==
  /\ Extra /\ Revives /\ waiting' = waiting + 1
  /\ UNCHANGED <<agent, actor, events, starting, drain, client, history>>

Locks ==
  /\ drain = "free" /\ waiting > 0
  /\ drain' = "polls" /\ waiting' = waiting - 1
  /\ UNCHANGED <<agent, actor, events, latches, starting, client, history, extras>>

GivesUp ==
  /\ drain = "polls" /\ ~Idle
  /\ drain' = "free"
  /\ UNCHANGED <<agent, actor, events, latches, starting, waiting, client, history, extras>>

MayRun == ~interrupted /\ starting = None /\ Peek(agent) # None

\* _run_one_follow_up and _start_turn up to the submit.
Launches ==
  /\ agent' = Begin(agent)
  /\ Emits(<<Snapshot(Begin(agent)), "user">>)
  /\ Submits(Turn(Peek(agent)))
  /\ drain' = "runs"

SeesIdle ==
  /\ drain = "polls" /\ Idle
  /\ \/ ~MayRun /\ drain' = "free" /\ UNCHANGED <<agent, mail, events, extras>>
     \/ MayRun /\ CanBegin(agent, Peek(agent)) /\ Launches /\ UNCHANGED extras
     \/ /\ MayRun /\ Extra /\ Submits(Compact(None)) /\ drain' = "compacts"
        /\ UNCHANGED <<agent, events>>
  /\ UNCHANGED <<root, ran, over, latches, starting, waiting, client, history>>

\* After its compaction a drain asks again whether it was interrupted and what is
\* next, and not whether the session is idle.
HasCompacted ==
  /\ drain = "compacts" /\ over[Compact(None)] # "no" /\ Collects(Compact(None))
  /\ IF interrupted \/ Peek(agent) = None
       THEN drain' = "free" /\ UNCHANGED <<agent, mail, events>>
       ELSE Launches
  /\ UNCHANGED <<root, ran, latches, starting, waiting, client, history, extras>>

Running == agent.flight

\* The turn was refused, or it ended: its history is flushed before the tracker is
\* asked whether it failed. An exception puts the message back.
TurnOver ==
  /\ drain = "runs" /\ over[Turn(Running)] # "no" /\ Collects(Turn(Running))
  /\ IF over[Turn(Running)] = "rejected"
       THEN drain' = "free" /\ agent' = Abort(agent)
       ELSE drain' = "flushes" /\ UNCHANGED agent
  /\ UNCHANGED <<mail, root, ran, events, latches, starting, waiting, client, history, extras>>

Settle ==
  /\ drain = "flushes"
  /\ IF failed
       THEN drain' = "free" /\ agent' = Abort(agent) /\ UNCHANGED acked
       ELSE /\ drain' = "polls" /\ agent' = Acknowledge(agent, Running)
            /\ acked' = Append(acked, Running)
  /\ UNCHANGED <<actor, events, latches, starting, waiting, client, accepted, extras>>

Step ==
  \/ Take \/ \E well \in BOOLEAN : TaskEnds(well)
  \/ OpEnds \/ OtherOperation
  \/ \E m \in Msgs : SendTurn(m) \/ Compacted(m) \/ SendFollowUp(m) \/ Queued(m)
  \/ Esc \/ Kill \/ Attach
  \/ Consume \/ Locks \/ GivesUp \/ SeesIdle \/ HasCompacted \/ TurnOver \/ Settle

Next == Step /\ Len(events') <= MaxLag

Spec == Init /\ [][Next]_vars

-----------------------------------------------------------------------------
AtRest ==
  /\ Idle /\ events = <<>> /\ waiting = 0 /\ drain = "free"
  /\ \A m \in Msgs : client[m] \in {"new", "sent"}

(* When nothing is left to happen, nothing waits in the queue but for a      *)
(* reason a person was told: the session was stopped or interrupted by a     *)
(* kill, or its last turn failed. Every drain that skipped, gave up or was   *)
(* refused was armed again, and no turn is believed to be starting.          *)
NothingStranded ==
  AtRest => starting = None /\ (agent.mem # <<>> => failed \/ interrupted \/ stopped)

(* The follow-ups leave the queue in the order they came and none is lost or *)
(* run twice, through launches that are refused, fail or are put back, and   *)
(* kills.                                                                    *)
InOrder == acked \o (IF Running = None THEN <<>> ELSE <<Running>>) \o agent.mem = accepted
===============================================================================
