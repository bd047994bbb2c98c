--------------------------- MODULE HeadlessRuntime ---------------------------
(***************************************************************************)
(* HeadlessRuntime of the server: the run queue and the slots of headless  *)
(* sessions, the launch task of each, the send / steer / kill requests of  *)
(* clients, the event consumer that re-arms the queue, the session meta on *)
(* disk, and a crash of the server with the restore that follows.          *)
(*                                                                         *)
(* A turn is the RunAgentOperation of SessionRuntime, reduced to what the  *)
(* launch sees of it.  Actions are the code between two real suspensions:  *)
(* a write in a thread is a step of its own.                               *)
(***************************************************************************)
EXTENDS FollowUpQueue, Naturals, FiniteSets, SequencesExt

CONSTANTS
  Sessions,
  Prompts, Via, Dest,  \* each prompt: spawn, send, steer or follow; to which session
  Kills, Target,       \* interrupt requests
  MaxRunning,          \* slots
  MaxCrashes,          \* bound on crashes of the server
  MaxFaults,           \* bound on turns that fail and operations that fail beside a turn
  Foreign              \* sessions on which an attached client runs turns of its own

Entry == [s : Sessions, p : Prompts, kind : {"turn", "follow_up", "steer"}]

ASSUME HeadlessAssumption ==
  /\ Via \in [Prompts -> {"spawn", "send", "steer", "follow"}]
  /\ Dest \in [Prompts -> Sessions] /\ Target \in [Kills -> Sessions]
  /\ Prompts \cap Kills = {} /\ None \notin Prompts \cup Kills \cup Sessions \cup Entry
  /\ None \notin Seq(Prompts) /\ "launch" \notin Prompts \cup Kills
  /\ MaxRunning \in Nat \ {0} /\ MaxCrashes \in Nat /\ MaxFaults \in Nat
  /\ Foreign \subseteq Sessions /\ IsFiniteSet(Sessions)

VARIABLES
  disk,                 \* session meta: queued turn, follow-ups, completed turn id, failed
  agent,                \* the Agent in memory, if any
  loading,              \* the durable queue an InitAgent read and has not installed yet
  queue, byId, running, steering, stopped,   \* HeadlessRuntime
  failed, interrupted,  \* SessionActivityTracker
  launch,               \* the launch task of a session
  op,                   \* the turn it submitted
  foreign,              \* a root operation of an attached client
  events, consumer,     \* what _consume_events has to process; the session it persists for
  req, lock, victim,    \* requests, scheduling locks, the entry a kill cancels
  crashes, faults,
  accepted, withdrawn, replaced, settled, marked   \* history: what happened to each prompt

runVars == <<queue, byId, running>>
turnVars == <<op, foreign, faults>>
reqVars == <<req, lock, victim, accepted>>
vars == <<disk, agent, loading, runVars, steering, stopped, failed, interrupted, launch, turnVars,
          events, consumer, reqVars, crashes, settled, withdrawn, replaced, marked>>

NoLaunch == [pc |-> "none", p |-> None, kind |-> "turn", handed |-> FALSE]
NoOp == [st |-> "none", p |-> None]

Init ==
  /\ disk = [s \in Sessions |-> [turn |-> None, queue |-> <<>>, done |-> None, failed |-> FALSE]]
  /\ agent = [s \in Sessions |-> Absent] /\ loading = [s \in Sessions |-> None]
  /\ queue = <<>> /\ byId = [s \in Sessions |-> None] /\ running = {}
  /\ steering = {} /\ stopped = {} /\ failed = {} /\ interrupted = {}
  /\ launch = [s \in Sessions |-> NoLaunch] /\ op = [s \in Sessions |-> NoOp]
  /\ foreign = {} /\ events = <<>> /\ consumer = None
  /\ req = [r \in Prompts \cup Kills |-> "new"] /\ lock = [s \in Sessions |-> None]
  /\ victim = [k \in Kills |-> None]
  /\ crashes = 0 /\ faults = 0
  /\ accepted = {} /\ settled = {} /\ withdrawn = {} /\ replaced = {} /\ marked = {}

Idle(s) == op[s].st \notin {"accepted", "active", "cancelling"} /\ s \notin foreign
Busy(s) == s \in running \/ byId[s] # None \/ (agent[s].up /\ ~Idle(s))

-----------------------------------------------------------------------------
(* The run queue.  Several calls may follow each other in one step, so they *)
(* work on a record of the queue, the index and the running sessions.       *)

Now == [q |-> queue, ids |-> byId, run |-> running, go |-> {}]

Enqueue(h, e) ==
  IF h.ids[e.s] # None THEN h ELSE [h EXCEPT !.q = Append(@, e), !.ids[e.s] = e]

Drop(h, s) == [h EXCEPT !.q = RemoveFirst(@, h.ids[s]), !.ids[s] = None]

Full(h) == Cardinality(h.run) >= MaxRunning

\* Variant: nothing stops the pass when the slots are taken.
PassUnreserved(h, held) ==
  LET e == Head(h.q)
      popped == [h EXCEPT !.q = Tail(@)]
  IN IF h.q = <<>> THEN h
     ELSE IF e.s \in h.run \cup held THEN [popped EXCEPT !.q = Append(@, e)]
     ELSE [popped EXCEPT !.ids[e.s] = None, !.run = @ \cup {e.s}, !.go = @ \cup {e}]

\* One pass of the loop of _pump: the first entry is stale, or of a running or
\* steering session and moved to the end, or takes a slot.
Pass(h, held) ==
  LET e == Head(h.q)
      popped == [h EXCEPT !.q = Tail(@)]
  IN IF h.q = <<>> \/ Full(h) THEN h
     ELSE IF h.ids[e.s] = None THEN popped
     ELSE IF e.s \in h.run \cup held THEN [popped EXCEPT !.q = Append(@, e)]
     ELSE [popped EXCEPT !.ids[e.s] = None, !.run = @ \cup {e.s}, !.go = @ \cup {e}]

\* As many passes as the queue has entries.
Pump(h, held) ==
  LET after[i \in 0 .. Len(h.q)] == IF i = 0 THEN h ELSE Pass(after[i - 1], held)
  IN after[Len(h.q)]

\* The state after h; started sessions get a fresh launch, l holds the others.
Schedules(h, l) ==
  /\ queue' = h.q /\ byId' = h.ids /\ running' = h.run
  /\ launch' = [s \in Sessions |->
                  IF \E e \in h.go : e.s = s
                  THEN LET e == CHOOSE x \in h.go : x.s = s
                       IN [pc |-> "init", p |-> e.p, kind |-> e.kind, handed |-> FALSE]
                  ELSE l[s]]

FollowUpEntry(s, a) == [s |-> s, p |-> Peek(a), kind |-> "follow_up"]

\* _schedule_follow_up_drain of a headless session.
Drained(h, s, stop, fail, a, held) ==
  IF s \in stop \cup fail \/ ~a.up \/ Peek(a) = None THEN h
  ELSE Pump(Enqueue(h, FollowUpEntry(s, a)), held)

\* The queue operations of an agent write the durable queue.
Saves(s, a) ==
  /\ agent' = [agent EXCEPT ![s] = a]
  /\ disk' = [disk EXCEPT ![s].queue = Durable(a)]

Ev(kind, s) == [ev |-> kind, s |-> s]

Held == steering
Prompted(r) == r \in Prompts
To(r) == IF Prompted(r) THEN Dest[r] ELSE Target[r]
histVars == <<crashes, settled, withdrawn, replaced, marked>>
trackVars == <<stopped, failed, interrupted>>

-----------------------------------------------------------------------------
(* Requests of clients.                                                    *)

Free(s) == lock[s] = None
Moves(r, pc) == req' = [req EXCEPT ![r] = pc]
Accepts(p) == accepted' = accepted \cup {p}

\* spawn: persist, enqueue, pump; no scheduling lock.
SpawnWrites(p) ==
  /\ Via[p] = "spawn" /\ req[p] = "new"
  /\ disk' = [disk EXCEPT ![Dest[p]].turn = p] /\ Moves(p, "wrote")
  /\ UNCHANGED <<agent, loading, runVars, steering, trackVars, launch, turnVars, events, consumer,
                 lock, victim, accepted, histVars>>

\* The continuation of spawn, and of a send that found the session idle.
Enqueues(p) ==
  /\ Via[p] \in {"spawn", "send"} /\ req[p] = "wrote"
  /\ Schedules(Pump(Enqueue(Now, [s |-> Dest[p], p |-> p, kind |-> "turn"]), Held), launch)
  /\ stopped' = IF Via[p] = "spawn" THEN stopped \ {Dest[p]} ELSE stopped
  /\ lock' = IF Via[p] = "send" THEN [lock EXCEPT ![Dest[p]] = None] ELSE lock
  /\ Moves(p, "done") /\ Accepts(p)
  /\ UNCHANGED <<disk, agent, loading, steering, failed, interrupted, turnVars, events, consumer,
                 victim, histVars>>

\* The route refuses a session whose turn is queued and has not started.
RouteRefuses(p) ==
  /\ byId[Dest[p]] # None /\ Dest[p] \notin running
  /\ Via[p] = "steer" => byId[Dest[p]].kind = "turn"

\* Clients address a session once the spawn that made it has answered.
Known(s) == \A p \in Prompts : Via[p] = "spawn" /\ Dest[p] = s => req[p] \in {"done", "cut"}

\* A request passes the route and queues on the scheduling lock.
RequestArrives(r) ==
  /\ req[r] = "new" /\ Known(To(r))
  /\ Prompted(r) => Via[r] \in {"send", "steer"}
  /\ Moves(r, IF Prompted(r) /\ RouteRefuses(r) THEN "refused" ELSE "waiting")
  /\ UNCHANGED <<disk, agent, loading, runVars, steering, trackVars, launch, turnVars, events,
                 consumer, lock, victim, accepted, histVars>>

Locks(r) == req[r] = "waiting" /\ Free(To(r)) /\ lock' = [lock EXCEPT ![To(r)] = r]

Unlatches(s) == stopped' = stopped \ {s} /\ failed' = failed \ {s} /\ UNCHANGED interrupted

\* send: lift the latches, then hand off, follow up or write.
Send(p) ==
  LET s == Dest[p]
  IN /\ Via[p] = "send" /\ Locks(p) /\ Unlatches(s)
     /\ Moves(p, IF s \in running /\ ~agent[s].up THEN "handoff"
                 ELSE IF Busy(s) \/ Peek(agent[s]) # None THEN "submitted" ELSE "writing")
     /\ UNCHANGED <<disk, agent, loading, runVars, steering, launch, turnVars, events, consumer,
                    victim, accepted, histVars>>

SendResumes(p) ==
  /\ req[p] = "handed"
  /\ Moves(p, IF Busy(Dest[p]) \/ Peek(agent[Dest[p]]) # None THEN "submitted" ELSE "writing")
  /\ UNCHANGED <<disk, agent, loading, runVars, steering, trackVars, launch, turnVars, events,
                 consumer, lock, victim, accepted, histVars>>

SendWrites(p) ==
  /\ Via[p] = "send" /\ req[p] = "writing"
  /\ disk' = [disk EXCEPT ![Dest[p]].turn = p] /\ Moves(p, "wrote")
  /\ UNCHANGED <<agent, loading, runVars, steering, trackVars, launch, turnVars, events, consumer,
                 lock, victim, accepted, histVars>>

\* The FollowUpAgentOperation of a send, or of an attached client.  Without an
\* Agent the operation fails: ensure_agent has no work_dir to load it from.
FollowUpRuns(p) ==
  LET s == Dest[p]
  IN /\ req[p] = "submitted" \/ (Via[p] = "follow" /\ req[p] = "new" /\ agent[s].up)
     /\ loading[s] = None
     /\ Moves(p, IF Via[p] = "follow" THEN "done" ELSE "followed")
     /\ IF agent[s].up
        THEN Saves(s, FollowUp(agent[s], p)) /\ events' = Append(events, Ev("queued", s))
        ELSE events' = events \o <<Ev("error", s), Ev("opdone", s)>> /\ UNCHANGED <<disk, agent>>
     /\ accepted' = IF Via[p] = "follow" THEN accepted \cup {p} ELSE accepted
     /\ UNCHANGED <<loading, runVars, steering, trackVars, launch, turnVars, consumer, lock, victim,
                    histVars>>

\* send answers "queued" whatever the operation's status.
SendReturns(p) ==
  LET s == Dest[p]
  IN /\ req[p] = "followed" /\ Moves(p, "done") /\ Accepts(p) /\ lock' = [lock EXCEPT ![s] = None]
     /\ Schedules(Drained(Now, s, stopped, failed, agent[s], Held), launch)
     /\ UNCHANGED <<disk, agent, loading, steering, trackVars, turnVars, events, consumer, victim,
                    histVars>>

\* Variant: a kind that nothing else knows.
RunEntry(p) == [s |-> Dest[p], p |-> p, kind |-> "run"]
SteerEntry(p) == [s |-> Dest[p], p |-> p, kind |-> "steer"]

\* steer: refused behind a fresh turn, else takes the place of the queued entry.
Steer(p) ==
  LET s == Dest[p]
      refused == byId[s] # None /\ byId[s].kind = "turn"
  IN /\ Via[p] = "steer"
     /\ req[p] = "waiting" /\ Free(s) /\ Unlatches(s)
     /\ IF refused
        THEN Moves(p, "refused") /\ UNCHANGED <<runVars, launch, steering, lock, replaced>>
        ELSE /\ lock' = [lock EXCEPT ![s] = p] /\ steering' = steering \cup {s}
             /\ Schedules(Enqueue(IF byId[s] = None THEN Now ELSE Drop(Now, s), SteerEntry(p)), launch)
             /\ replaced' = IF byId[s] # None /\ byId[s].kind = "steer"
                            THEN replaced \cup {byId[s].p} ELSE replaced
             /\ Moves(p, "steering")
     /\ UNCHANGED <<disk, agent, loading, turnVars, events, consumer, victim, accepted, crashes,
                    settled, withdrawn, marked>>

\* The write in a thread: it takes the place of the turn on disk, or fails.
SteerWrites(p) ==
  /\ Via[p] = "steer" /\ req[p] = "steering"
  /\ \/ /\ disk' = [disk EXCEPT ![Dest[p]].turn = p] /\ Moves(p, "steerwrote")
        /\ replaced' = replaced \cup ({disk[Dest[p]].turn} \ {None})
     \/ /\ faults < MaxFaults /\ Moves(p, "steerfailed") /\ UNCHANGED <<disk, replaced>>
  /\ faults' = IF req'[p] = "steerfailed" THEN faults + 1 ELSE faults
  /\ UNCHANGED <<agent, loading, runVars, steering, trackVars, launch, op, foreign, events, consumer,
                 lock, victim, accepted, crashes, settled, withdrawn, marked>>

SteerFails(p) ==
  LET s == Dest[p]
  IN /\ req[p] = "steerfailed" /\ Moves(p, "refused") /\ lock' = [lock EXCEPT ![s] = None]
     /\ steering' = steering \ {s}
     /\ Schedules(Pump(IF byId[s] = SteerEntry(p) THEN Drop(Now, s) ELSE Now, Held \ {s}), launch)
     /\ UNCHANGED <<disk, agent, loading, trackVars, turnVars, events, consumer, victim, accepted,
                    histVars>>

Unlocks(s) == lock' = [lock EXCEPT ![s] = None]
\* Variant: the queue is not pumped when the session is released.
SteerEndsUnpumped(p, h) ==
  LET s == Dest[p]
  IN /\ steering' = steering \ {s} /\ Schedules(h, launch)
     /\ Unlocks(s) /\ Moves(p, "done") /\ Accepts(p)

SteerEnds(p, h) ==
  LET s == Dest[p]
  IN /\ steering' = steering \ {s} /\ Schedules(Pump(h, Held \ {s}), launch)
     /\ Unlocks(s) /\ Moves(p, "done") /\ Accepts(p)

\* The write is back: the running turn is interrupted, or the slot is free now.
SteerResumes(p) ==
  LET s == Dest[p]
  IN /\ req[p] = "steerwrote"
     /\ IF ~Idle(s)
        THEN Moves(p, "steerint") /\ UNCHANGED <<steering, runVars, launch, lock, accepted>>
        ELSE SteerEnds(p, Now)
     /\ UNCHANGED <<disk, agent, loading, trackVars, turnVars, events, consumer, victim, histVars>>

\* InterruptOperation: the event first, then the tasks are cancelled.
Interrupts(s) ==
  /\ events' = Append(events, Ev("interrupt", s))
  /\ op' = IF op[s].st = "active" THEN [op EXCEPT ![s].st = "cancelling"] ELSE op
  /\ foreign' = foreign

SteerInterrupts(p) ==
  /\ req[p] = "steerint" /\ loading[Dest[p]] = None /\ Moves(p, "steerwait") /\ Interrupts(Dest[p])
  /\ UNCHANGED <<disk, agent, loading, runVars, steering, trackVars, launch, faults, consumer, lock,
                 victim, accepted, histVars>>

\* The interrupt has ended, by the cancelled task or by its own timeout.
SteerDone(p) ==
  /\ req[p] = "steerwait" /\ SteerEnds(p, Now)
  /\ UNCHANGED <<disk, agent, loading, trackVars, turnVars, events, consumer, victim, histVars>>

-----------------------------------------------------------------------------
(* kill: prepare_interrupt, then an InterruptOperation.                     *)

\* The rest of prepare_interrupt and the route's answer, once the entry is cancelled.
KillEnds(k, h, cancelled) ==
  LET s == Target[k]
      lost == IF agent[s].up THEN ToSet(agent[s].mem)
              ELSE IF cancelled THEN {} ELSE ToSet(disk[s].queue)
  IN /\ IF agent[s].up THEN Saves(s, PopAll(agent[s]))
        ELSE /\ disk' = IF cancelled THEN disk ELSE [disk EXCEPT ![s].queue = <<>>]
             /\ UNCHANGED agent
     /\ withdrawn' = withdrawn \cup lost
     /\ stopped' = IF s \in running \/ ~Idle(s) THEN stopped \cup {s} ELSE stopped
     /\ Moves(k, IF Idle(s) THEN "done" ELSE "killint")
     /\ Schedules(h, launch) /\ Unlocks(s)

Kill(k) ==
  LET s == Target[k]
  IN /\ req[k] = "waiting" /\ Free(s)
     /\ IF byId[s] = None THEN KillEnds(k, Now, FALSE) /\ UNCHANGED victim
        ELSE IF byId[s].kind = "follow_up"
        THEN IF agent[s].up THEN KillEnds(k, Drop(Now, s), TRUE) /\ UNCHANGED victim
             ELSE KillEnds(k, Drop(Now, s), FALSE) /\ UNCHANGED victim
        ELSE /\ lock' = [lock EXCEPT ![s] = k] /\ victim' = [victim EXCEPT ![k] = byId[s].p]
             /\ Schedules(Drop(Now, s), launch) /\ Moves(k, "killwrite")
             /\ UNCHANGED <<disk, agent, stopped, withdrawn>>
     /\ UNCHANGED <<loading, steering, failed, interrupted, turnVars, events, consumer, accepted,
                    crashes, settled, replaced, marked>>

\* The thread clears the queued turn if it still is the cancelled one.
KillWrites(k) ==
  LET s == Target[k]
  IN /\ req[k] = "killwrite" /\ Moves(k, "killwrote")
     /\ disk' = IF disk[s].turn = victim[k] THEN [disk EXCEPT ![s].turn = None] ELSE disk
     /\ withdrawn' = withdrawn \cup {victim[k]}
     /\ UNCHANGED <<agent, loading, runVars, steering, trackVars, launch, turnVars, events, consumer,
                    lock, victim, accepted, crashes, settled, replaced, marked>>

KillResumes(k) ==
  /\ req[k] = "killwrote" /\ KillEnds(k, Now, TRUE)
  /\ UNCHANGED <<loading, steering, failed, interrupted, turnVars, events, consumer, victim, accepted,
                 crashes, settled, replaced, marked>>

KillInterrupts(k) ==
  /\ req[k] = "killint" /\ loading[Target[k]] = None /\ Moves(k, "done") /\ Interrupts(Target[k])
  /\ UNCHANGED <<disk, agent, loading, runVars, steering, trackVars, launch, faults, consumer, lock,
                 victim, accepted, histVars>>

-----------------------------------------------------------------------------
(* The launch task.                                                        *)

At(s, pc) == launch[s].pc = pc
Goes(s, pc) == launch' = [launch EXCEPT ![s].pc = pc]
\* The send that waits for this launch's agent goes on.
HandsOver(s) ==
  req' = [r \in DOMAIN req |-> IF req[r] = "handoff" /\ To(r) = s THEN "handed" ELSE req[r]]

\* The finally block: waiting sends are refused, the slot is freed, the next
\* follow-up is queued unless the session is stopped or failed.
Ends(s, a) ==
  LET freed == [Now EXCEPT !.run = @ \ {s}]
      next == IF s \in stopped \cup failed \/ ~a.up \/ Peek(a) = None THEN freed
              ELSE Enqueue(freed, FollowUpEntry(s, a))
      orphans == {r \in Prompts : req[r] = "handoff" /\ Dest[r] = s}
  IN /\ Schedules(Pump(next, Held), [launch EXCEPT ![s] = NoLaunch])
     /\ req' = [r \in DOMAIN req |-> IF r \in orphans THEN "refused" ELSE req[r]]
     /\ lock' = IF lock[s] \in orphans \cup {"launch"} THEN [lock EXCEPT ![s] = None] ELSE lock

\* The agent is there: a turn is started; a follow-up is, unless interrupted,
\* begun, after a compaction if the context is over its threshold.
Proceeds(s, a) ==
  IF launch[s].kind # "follow_up" THEN Goes(s, "unfail") /\ UNCHANGED <<runVars, req, lock>>
  ELSE IF s \in interrupted \/ Peek(a) = None THEN Ends(s, a)
  ELSE (Goes(s, "begin") \/ Goes(s, "compact")) /\ UNCHANGED <<runVars, req, lock>>

Launches(s) ==
  /\ At(s, "init")
  /\ IF agent[s].up THEN Proceeds(s, agent[s]) /\ UNCHANGED loading
     ELSE /\ loading[s] = None /\ loading' = [loading EXCEPT ![s] = disk[s].queue]
          /\ Goes(s, "loading") /\ UNCHANGED <<runVars, req, lock>>
  /\ UNCHANGED <<disk, agent, steering, trackVars, turnVars, events, consumer, victim, accepted,
                 histVars>>

\* InitAgent ends: the Agent holds the queue that was read from disk, and the end of
\* the operation arms the drain.
Initialized(s) ==
  /\ At(s, "loading") /\ agent' = [agent EXCEPT ![s] = Loaded(loading[s])]
  /\ loading' = [loading EXCEPT ![s] = None] /\ Proceeds(s, agent'[s])
  /\ events' = Append(events, Ev("opdone", s))
  /\ UNCHANGED <<disk, steering, trackVars, turnVars, consumer, victim, accepted, histVars>>

InitFails(s) ==
  /\ At(s, "loading") /\ faults < MaxFaults /\ faults' = faults + 1
  /\ loading' = [loading EXCEPT ![s] = None] /\ events' = events \o <<Ev("error", s), Ev("opdone", s)>>
  /\ settled' = settled \cup {launch[s].p} /\ Ends(s, agent[s])
  /\ UNCHANGED <<disk, agent, steering, trackVars, op, foreign, consumer, victim, accepted,
                 crashes, withdrawn, replaced, marked>>

\* The compaction the launch asked for is a root operation of its own.
Compacts(s) ==
  /\ At(s, "compact") /\ op[s].st = "none"
  /\ IF s \in foreign THEN Goes(s, "recheck") /\ UNCHANGED op
     ELSE op' = [op EXCEPT ![s] = [st |-> "active", p |-> None]] /\ Goes(s, "compacting")
  /\ UNCHANGED <<disk, agent, loading, runVars, steering, trackVars, foreign, faults, events, consumer,
                 reqVars, histVars>>

Rechecks(s) ==
  /\ At(s, "recheck") \/ (At(s, "compacting") /\ op[s].st = "completed")
  /\ op' = [op EXCEPT ![s] = NoOp]
  /\ IF s \in interrupted \/ Peek(agent[s]) = None THEN Ends(s, agent[s])
     ELSE Goes(s, "begin") /\ UNCHANGED <<runVars, req, lock>>
  /\ UNCHANGED <<disk, agent, loading, steering, trackVars, foreign, faults, events, consumer, victim,
                 accepted, histVars>>

\* begin_follow_up: the head leaves the queue in memory, not the one on disk.
Begins(s) ==
  LET id == Peek(agent[s])
  IN /\ At(s, "begin")
     /\ IF id # None /\ CanBegin(agent[s], id)
        THEN /\ agent' = [agent EXCEPT ![s] = Begin(@)]
             /\ launch' = [launch EXCEPT ![s].pc = "unfail", ![s].p = id]
             /\ events' = IF agent'[s].mem = <<>> THEN events ELSE Append(events, Ev("queued", s))
             /\ UNCHANGED <<runVars, req, lock>>
        ELSE Ends(s, agent[s]) /\ UNCHANGED <<agent, events>>
     /\ UNCHANGED <<disk, loading, steering, trackVars, turnVars, consumer, victim, accepted, histVars>>

\* _start_turn: the failed mark is cleared on disk, the user message is shown,
\* the operation is submitted under the prompt's id, waiting sends are handed over.
Submits(s) ==
  /\ At(s, "unfail") /\ Goes(s, "wait")
  /\ disk' = [disk EXCEPT ![s].failed = FALSE] /\ events' = Append(events, Ev("start", s))
  /\ op' = [op EXCEPT ![s] = [st |-> "accepted", p |-> launch[s].p]]
  /\ HandsOver(s)
  /\ UNCHANGED <<agent, loading, runVars, steering, trackVars, foreign, faults, consumer, lock, victim,
                 accepted, histVars>>

\* The launch raises: a follow-up goes back to the head of its queue.
Raises(s) ==
  IF launch[s].kind = "follow_up" /\ CanAbort(agent[s], launch[s].p)
  THEN Saves(s, Abort(agent[s])) ELSE UNCHANGED <<agent, disk>>

\* The operation is over: a rejected or failed one raises.  The consumer is woken
\* by the same events as the awaiter, so it has caught up unless a thread holds it.
Awaits(s) ==
  /\ At(s, "wait") /\ op[s].st \in {"completed", "failed", "rejected"}
  /\ events = <<>> \/ consumer # None
  /\ op' = [op EXCEPT ![s] = NoOp]
  /\ settled' = IF op[s].st = "failed" THEN settled \cup {launch[s].p} ELSE settled
  /\ IF op[s].st = "completed" THEN Goes(s, "flush") /\ UNCHANGED <<agent, disk>>
     ELSE Goes(s, "failing") /\ Raises(s)
  /\ UNCHANGED <<loading, runVars, steering, trackVars, foreign, faults, events, consumer, reqVars,
                 crashes, withdrawn, replaced, marked>>

\* The history is on disk; a turn the tracker saw failing raises.
Flushes(s) ==
  /\ At(s, "flush")
  /\ IF s \in failed
     THEN Goes(s, "failing") /\ Raises(s) /\ settled' = settled \cup {launch[s].p}
     ELSE Goes(s, "mark") /\ UNCHANGED <<agent, disk, settled>>
  /\ UNCHANGED <<loading, runVars, steering, trackVars, turnVars, events, consumer, reqVars, crashes,
                 withdrawn, replaced, marked>>

\* The thread persists the completed turn's id.
Marks(s) ==
  LET p == launch[s].p
  IN /\ At(s, "mark") /\ Goes(s, "marked") /\ disk' = [disk EXCEPT ![s].done = p]
     /\ marked' = marked \cup {p} /\ settled' = settled \cup {p}
     /\ UNCHANGED <<agent, loading, runVars, steering, trackVars, turnVars, events, consumer, reqVars,
                    crashes, withdrawn, replaced>>

\* Phase 2 of the pop of a follow-up.
Acknowledges(s) ==
  /\ At(s, "marked") /\ launch[s].kind = "follow_up"
  /\ IF CanAcknowledge(agent[s], launch[s].p)
     THEN Saves(s, Acknowledge(agent[s], launch[s].p)) ELSE UNCHANGED <<agent, disk>>
  /\ Ends(s, agent'[s])
  /\ UNCHANGED <<loading, steering, trackVars, turnVars, events, consumer, victim, accepted, histVars>>

\* A turn clears its record under the scheduling lock, if it is still its own.
LocksToClear(s) ==
  /\ At(s, "marked") /\ launch[s].kind # "follow_up" /\ Free(s)
  /\ lock' = [lock EXCEPT ![s] = "launch"] /\ Goes(s, "clear")
  /\ UNCHANGED <<disk, agent, loading, runVars, steering, trackVars, turnVars, events, consumer, req,
                 victim, accepted, histVars>>

\* Variant: whatever turn is recorded is cleared.
ClearedAny(s) == [disk EXCEPT ![s].turn = None]
Cleared(s) == IF disk[s].turn = launch[s].p THEN [disk EXCEPT ![s].turn = None] ELSE disk

Clears(s) ==
  /\ At(s, "clear") /\ Ends(s, agent[s]) /\ disk' = Cleared(s)
  /\ UNCHANGED <<agent, loading, steering, trackVars, turnVars, events, consumer, victim, accepted,
                 histVars>>

\* _persist_failed of a launch that raised, then its finally block.
Fails(s) ==
  /\ At(s, "failing") /\ disk' = [disk EXCEPT ![s].failed = TRUE] /\ Ends(s, agent[s])
  /\ UNCHANGED <<agent, loading, steering, trackVars, turnVars, events, consumer, victim, accepted,
                 histVars>>

-----------------------------------------------------------------------------
(* The operations of the session's actor, as the launch sees them.          *)

\* Dispatch: rejected while a root operation of another client runs.
OpStarts(s) ==
  /\ op[s].st = "accepted"
  /\ IF s \in foreign
     THEN /\ faults < MaxFaults /\ faults' = faults + 1
          /\ op' = [op EXCEPT ![s].st = "rejected"] /\ UNCHANGED events
     ELSE /\ op' = [op EXCEPT ![s].st = "active"] /\ events' = Append(events, Ev("start", s))
          /\ UNCHANGED faults
  /\ UNCHANGED <<disk, agent, loading, runVars, steering, trackVars, launch, foreign, consumer, reqVars,
                 histVars>>

\* It finishes, ends in a fatal error, or its handler fails.
OpEnds(s) ==
  /\ op[s].st \in {"active", "cancelling"}
  /\ \/ /\ op' = [op EXCEPT ![s].st = "completed"] /\ UNCHANGED faults
        /\ events' = events \o (IF op[s].p = None THEN <<>> ELSE <<Ev("finish", s)>>)
                            \o <<Ev("opdone", s)>>
     \/ /\ op[s].st = "active" /\ op[s].p # None /\ faults < MaxFaults /\ faults' = faults + 1
        /\ \E st \in {"completed", "failed"} : op' = [op EXCEPT ![s].st = st]
        /\ events' = events \o <<Ev("error", s), Ev("opdone", s)>>
  /\ UNCHANGED <<disk, agent, loading, runVars, steering, trackVars, launch, foreign, consumer, reqVars,
                 histVars>>

ForeignStarts(s) ==
  /\ s \in Foreign /\ agent[s].up /\ Idle(s) /\ loading[s] = None
  /\ faults < MaxFaults /\ faults' = faults + 1
  /\ foreign' = foreign \cup {s} /\ events' = Append(events, Ev("start", s))
  /\ UNCHANGED <<disk, agent, loading, runVars, steering, trackVars, launch, op, consumer, reqVars,
                 histVars>>

ForeignEnds(s) ==
  /\ s \in foreign /\ foreign' = foreign \ {s}
  /\ \/ events' = events \o <<Ev("finish", s), Ev("opdone", s)>> /\ UNCHANGED faults
     \/ /\ faults < MaxFaults /\ faults' = faults + 1
        /\ events' = events \o <<Ev("error", s), Ev("opdone", s)>>
  /\ UNCHANGED <<disk, agent, loading, runVars, steering, trackVars, launch, op, consumer, reqVars,
                 histVars>>

-----------------------------------------------------------------------------
(* The consumer of the bus: one event at a time, blocked while it persists. *)

\* SessionActivityTracker.consume.
Tracks(e) ==
  CASE e.ev = "start"     -> failed' = failed \ {e.s} /\ interrupted' = interrupted \ {e.s}
    [] e.ev = "interrupt" -> interrupted' = interrupted \cup {e.s} /\ UNCHANGED failed
    [] e.ev = "finish"    -> failed' = failed \ {e.s} /\ UNCHANGED interrupted
    [] e.ev = "error"     -> failed' = failed \cup {e.s} /\ UNCHANGED interrupted
    [] OTHER              -> UNCHANGED <<failed, interrupted>>

\* A fatal error is written by a thread; without an Agent it is not.
Persists(e) == consumer' = IF e.ev = "error" /\ agent[e.s].up THEN e.s ELSE None

Triggers(e) ==
  e.ev \in {"queued", "opdone"} \/ (e.ev = "finish" /\ e.s \notin interrupted)

Consumes ==
  LET e == Head(events)
  IN /\ consumer = None /\ events # <<>> /\ events' = Tail(events)
     /\ Tracks(e) /\ Persists(e)
     /\ Schedules(IF Triggers(e) THEN Drained(Now, e.s, stopped, failed', agent[e.s], Held) ELSE Now,
                  launch)
     /\ UNCHANGED <<disk, agent, loading, steering, stopped, turnVars, reqVars, histVars>>

ConsumerPersists ==
  /\ consumer # None /\ consumer' = None /\ disk' = [disk EXCEPT ![consumer].failed = TRUE]
  /\ UNCHANGED <<agent, loading, runVars, steering, trackVars, launch, turnVars, events, reqVars,
                 histVars>>

-----------------------------------------------------------------------------
(* A crash of the server, and the restore of its next start.                *)

\* The queue without the heads whose turn is known to be complete.
Unfinished(q, done) == IF q # <<>> /\ Head(q) = done THEN Tail(q) ELSE q

\* Variant: the completed turn's id is not consulted.
RestoredAll(d) == d
Restored(d) ==
  [d EXCEPT !.turn = IF @ = d.done THEN None ELSE @, !.queue = Unfinished(@, d.done)]

RestoredEntries(d) ==
  {[s |-> s, p |-> d[s].turn, kind |-> "turn"] : s \in {x \in Sessions : d[x].turn # None}} \cup
  {[s |-> s, p |-> Head(d[s].queue), kind |-> "follow_up"] :
     s \in {x \in Sessions : d[x].turn = None /\ d[x].queue # <<>>}}

\* The queue of a new server, with at most one entry of a session.
Queued(order) ==
  [q |-> order, run |-> {}, go |-> {},
   ids |-> [s \in Sessions |-> IF \E e \in ToSet(order) : e.s = s
                               THEN CHOOSE e \in ToSet(order) : e.s = s ELSE None]]

Crash ==
  /\ crashes < MaxCrashes /\ crashes' = crashes + 1
  /\ disk' = [s \in Sessions |-> Restored(disk[s])]
  /\ \E order \in SetToSeqs(RestoredEntries(disk')) :
       Schedules(Pump(Queued(order), {}), [s \in Sessions |-> NoLaunch])
  /\ agent' = [s \in Sessions |-> Absent] /\ loading' = [s \in Sessions |-> None]
  /\ steering' = {} /\ stopped' = {} /\ interrupted' = {}
  /\ failed' = {s \in Sessions : disk[s].failed}
  /\ op' = [s \in Sessions |-> NoOp] /\ foreign' = {} /\ events' = <<>> /\ consumer' = None
  /\ req' = [r \in DOMAIN req |-> IF req[r] \in {"new", "done", "refused"} THEN req[r] ELSE "cut"]
  /\ lock' = [s \in Sessions |-> None] /\ victim' = [k \in Kills |-> None]
  /\ UNCHANGED <<faults, accepted, settled, withdrawn, replaced, marked>>

-----------------------------------------------------------------------------
Done ==
  /\ \A r \in DOMAIN req : req[r] \in {"new", "done", "refused", "cut"}
  /\ running = {} /\ queue = <<>> /\ events = <<>> /\ consumer = None
  /\ UNCHANGED vars

Request(r) ==
  \/ RequestArrives(r)
  \/ IF r \in Kills THEN Kill(r) \/ KillWrites(r) \/ KillResumes(r) \/ KillInterrupts(r)
     ELSE \/ SpawnWrites(r) \/ Enqueues(r) \/ Send(r) \/ SendResumes(r) \/ SendWrites(r)
          \/ FollowUpRuns(r) \/ SendReturns(r) \/ Steer(r) \/ SteerWrites(r) \/ SteerFails(r)
          \/ SteerResumes(r) \/ SteerInterrupts(r) \/ SteerDone(r)

LaunchStep(s) ==
  \/ Launches(s) \/ Initialized(s) \/ InitFails(s) \/ Compacts(s) \/ Rechecks(s) \/ Begins(s)
  \/ Submits(s) \/ Awaits(s) \/ Flushes(s) \/ Marks(s) \/ Acknowledges(s) \/ LocksToClear(s)
  \/ Clears(s) \/ Fails(s)

ActorStep(s) == OpStarts(s) \/ OpEnds(s)

Next ==
  \/ \E r \in Prompts \cup Kills : Request(r)
  \/ \E s \in Sessions : LaunchStep(s) \/ ActorStep(s) \/ ForeignStarts(s) \/ ForeignEnds(s)
  \/ Consumes \/ ConsumerPersists \/ Crash \/ Done

Spec == Init /\ [][Next]_vars

\* asyncio runs every ready task, threads end, and so does every turn.  Clients
\* need not call, and nothing forces a fault or a crash.
Fair ==
  /\ \A s \in Sessions : WF_vars(LaunchStep(s)) /\ WF_vars(ActorStep(s)) /\ WF_vars(ForeignEnds(s))
  /\ \A r \in Prompts \cup Kills : SF_vars(req[r] # "new" /\ Request(r))
  /\ WF_vars(Consumes) /\ WF_vars(ConsumerPersists)

FairSpec == Spec /\ Fair

-----------------------------------------------------------------------------
(* Properties.                                                             *)

PromptOrNone == Prompts \cup {None}
OnDisk(p) == disk[Dest[p]].turn = p \/ p \in ToSet(disk[Dest[p]].queue)

\* Every variable has its type.
TypeOK ==
  /\ disk \in [Sessions -> [turn : PromptOrNone, queue : Seq(Prompts), done : PromptOrNone,
                            failed : BOOLEAN]]
  /\ agent \in [Sessions -> [up : BOOLEAN, mem : Seq(Prompts), flight : PromptOrNone]]
  /\ queue \in Seq(Entry) /\ byId \in [Sessions -> Entry \cup {None}]
  /\ running \cup steering \cup stopped \cup failed \cup interrupted \cup foreign \subseteq Sessions
  /\ \A s \in Sessions : launch[s].p \in PromptOrNone /\ op[s].p \in PromptOrNone
  /\ lock \in [Sessions -> {None, "launch"} \cup Prompts \cup Kills]
  /\ accepted \cup settled \cup withdrawn \cup replaced \cup marked \subseteq Prompts

\* The run queue and its index hold the same entries, at most one for a session:
\* an entry left in one of them is a session that never runs or runs twice.
QueueIndexed ==
  /\ \A s \in Sessions : byId[s] # None => byId[s].s = s /\ byId[s] \in ToSet(queue)
  /\ \A i \in DOMAIN queue : byId[queue[i].s] = queue[i]
  /\ IsInjective(queue)

\* A head in flight is the prompt of the session's launch: left over by a launch
\* that failed, it would block every later follow-up.
InFlightHasLaunch ==
  \A s \in Sessions : agent[s].flight # None => launch[s].p = agent[s].flight

\* At most max_running sessions hold a slot, a session holds one exactly while it
\* has a launch task, which has the head in flight, and what waits for a slot is
\* found by either way to look.
SlotsHeld ==
  /\ Cardinality(running) <= MaxRunning
  /\ running = {s \in Sessions : launch[s] # NoLaunch}
  /\ InFlightHasLaunch
  /\ QueueIndexed

\* A session that ended failed, with its Agent in memory, is restored as failed:
\* the tracker's mark and the one on disk agree once nothing runs and the
\* consumer has caught up.
FailedIsDurable ==
  \A s \in failed : \/ disk[s].failed \/ consumer = s \/ ~agent[s].up
                   \/ launch[s] # NoLaunch \/ Ev("start", s) \in ToSet(events)

\* What a restart would load is what the running server knows: the queue in
\* memory behind the head in flight, and the failed mark.
InMemory(a) == (IF a.flight = None THEN <<>> ELSE <<a.flight>>) \o a.mem
QueueIsDurable == \A s \in Sessions : agent[s].up => disk[s].queue = InMemory(agent[s])
DurableMatches == FailedIsDurable /\ QueueIsDurable

\* A prompt the server said yes to has run or was seen to fail, was withdrawn by a
\* kill, gave way to a steer, or is on disk, where a restart finds it.
NothingForgotten ==
  accepted \subseteq {p \in Prompts : OnDisk(p)} \cup settled \cup withdrawn \cup replaced

\* A turn whose completion is on disk is not submitted again, crashes included.
NeverAgain ==
  [][\A p \in marked, s \in Sessions : op'[s].p = p => op[s].p = p]_vars

\* A prompt a kill took back does not start later.
WithdrawnNeverStarts ==
  [][\A s \in Sessions : op'[s].st = "accepted" /\ op[s].st # "accepted"
                           => op'[s].p \notin withdrawn]_vars

\* A scheduling lock is always given back: a send that waits for a launch, a
\* steer that waits for an interrupt and a launch that clears its turn do not
\* wait on each other.
LocksFreed == \A s \in Sessions : lock[s] # None ~> lock[s] = None

\* Every prompt the server said yes to ends settled, withdrawn or replaced.
Delivered ==
  \A p \in Prompts : p \in accepted ~> p \in settled \cup withdrawn \cup replaced
=============================================================================
