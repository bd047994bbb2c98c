------------------------------ MODULE EventBus ------------------------------
(***************************************************************************)
(* control/event_bus.py.  A publication is numbered per session, handed to *)
(* the recording listener and fanned out to the queue of every subscriber  *)
(* of its scope, in one step of the event loop.  A queue has MaxSize       *)
(* places and one more, kept for the sentinel that ends the stream; a      *)
(* subscriber found full is disconnected.                                  *)
(***************************************************************************)
EXTENDS Naturals, Sequences, FiniteSets

CONSTANTS
  Subscribers, Sessions,
  AnyScope,          \* the scope None: every session
  Sentinel,          \* _DISCONNECT_SENTINEL
  MaxSize,           \* subscriber_queue_maxsize
  MaxLog             \* bound: publications of a behaviour

ASSUME BusAssumption ==
  /\ MaxSize \in Nat \ {0} /\ MaxLog \in Nat
  /\ Sentinel \notin Nat     \* an object of its own, told apart by identity
  /\ AnyScope \notin Sessions /\ "no" \notin Sessions \cup {AnyScope}

VARIABLES
  log,       \* history: the envelopes published, as [session, seq]
  next,      \* _session_event_seq
  members,   \* _subscribers: who is in the bus's map
  opened, start,   \* history: scope and log length at subscribe
  queue,     \* the asyncio.Queue of each subscriber: log positions, Sentinel
  read,      \* what its iterator has yielded
  over,      \* its iterator has returned
  refused    \* history: a put found the queue full (asyncio.QueueFull)

busVars == <<log, next, members, opened, start, queue, read, over, refused>>

Init ==
  /\ log = <<>> /\ next = [x \in Sessions |-> 0]
  /\ members = {} /\ refused = FALSE
  /\ opened = [s \in Subscribers |-> "no"]
  /\ start = [s \in Subscribers |-> 0]
  /\ queue = [s \in Subscribers |-> <<>>]
  /\ read = [s \in Subscribers |-> <<>>]
  /\ over = [s \in Subscribers |-> FALSE]

InScope(s, x) == opened[s] \in {AnyScope, x}

(* put_nowait on a queue of MaxSize + 1 places. *)
Full(q) == Len(q) > MaxSize

(* Mutant: the place kept for the sentinel is given to an event. *)
OverflowedLate(x) == {s \in members : InScope(s, x) /\ Len(queue[s]) > MaxSize}

(* The subscribers a publication finds without a free ordinary place. *)
Overflowed(x) == {s \in members : InScope(s, x) /\ Len(queue[s]) >= MaxSize}

(* Mutants: room is made for the sentinel by dropping the oldest event; the
   sentinel is forgotten. *)
EndedDraining(q) == Append(IF Len(q) >= MaxSize THEN Tail(q) ELSE q, Sentinel)
EndedSilently(q) == q

(* _disconnect_subscriber(notify=True): out of the map, the sentinel behind
   what is queued. *)
Ended(q) == Append(q, Sentinel)

(* _next_event_seq: numbers start at 1. *)
Number(x) == next[x] + 1

Publish(x) ==
  /\ Len(log) < MaxLog
  /\ next' = [next EXCEPT ![x] = @ + 1]
  /\ log' = Append(log, [session |-> x, seq |-> Number(x)])
  /\ queue' = [s \in Subscribers |->
                 IF s \in Overflowed(x) THEN Ended(queue[s])
                 ELSE IF s \in members /\ InScope(s, x) THEN Append(queue[s], Len(log) + 1)
                 ELSE queue[s]]
  /\ refused' = (refused \/ \E s \in members : InScope(s, x) /\ Full(queue[s]))
  /\ members' = members \ Overflowed(x)
  /\ UNCHANGED <<opened, start, read, over>>

Subscribe(s, scope) ==
  /\ opened[s] = "no"
  /\ members' = members \cup {s}
  /\ opened' = [opened EXCEPT ![s] = scope]
  /\ start' = [start EXCEPT ![s] = Len(log)]
  /\ UNCHANGED <<log, next, queue, read, over, refused>>

Unsubscribe(s) ==
  /\ s \in members
  /\ members' = members \ {s}
  /\ queue' = [queue EXCEPT ![s] = Ended(@)]
  /\ refused' = (refused \/ Full(queue[s]))
  /\ UNCHANGED <<log, next, opened, start, read, over>>

(* One turn of _iter_envelopes: the sentinel ends it and detaches. *)
Consume(s) ==
  /\ opened[s] # "no" /\ ~over[s] /\ queue[s] # <<>>
  /\ queue' = [queue EXCEPT ![s] = Tail(@)]
  /\ IF Head(queue[s]) = Sentinel
     THEN /\ over' = [over EXCEPT ![s] = TRUE]
          /\ members' = members \ {s}
          /\ UNCHANGED read
     ELSE /\ read' = [read EXCEPT ![s] = Append(@, Head(queue[s]))]
          /\ UNCHANGED <<over, members>>
  /\ UNCHANGED <<log, next, opened, start, refused>>

(* The consumer stops iterating (break, return, cancelled): finally, detach. *)
Abandon(s) ==
  /\ opened[s] # "no" /\ ~over[s]
  /\ over' = [over EXCEPT ![s] = TRUE]
  /\ members' = members \ {s}
  /\ UNCHANGED <<log, next, opened, start, queue, read, refused>>

BusNext ==
  \/ \E x \in Sessions : Publish(x)
  \/ \E s \in Subscribers :
       \/ \E k \in Sessions \cup {AnyScope} : Subscribe(s, k)
       \/ Unsubscribe(s) \/ Consume(s) \/ Abandon(s)

(* The consumers are tasks of the loop that do nothing else while their
   queue is not empty; nothing obliges a publisher to publish. *)
Spec == Init /\ [][BusNext]_busVars
             /\ \A s \in Subscribers : WF_busVars(Consume(s))

-----------------------------------------------------------------------------
(* Types. *)
TypeOK ==
  /\ log \in Seq([session : Sessions, seq : 1 .. MaxLog])
  /\ next \in [Sessions -> 0 .. MaxLog]
  /\ members \subseteq Subscribers
  /\ opened \in [Subscribers -> Sessions \cup {AnyScope, "no"}]
  /\ start \in [Subscribers -> 0 .. MaxLog]
  /\ queue \in [Subscribers -> Seq(1 .. MaxLog \cup {Sentinel})]
  /\ read \in [Subscribers -> Seq(1 .. MaxLog)]
  /\ over \in [Subscribers -> BOOLEAN] /\ refused \in BOOLEAN

(* The reserved place suffices: no put ever raises QueueFull, and the
   sentinel is there once, at the end, exactly for those out of the map. *)
SentinelAlwaysFits ==
  /\ ~refused
  /\ \A s \in Subscribers :
       /\ Len(queue[s]) <= MaxSize + 1
       /\ ~over[s] /\ opened[s] # "no" =>
            (s \notin members <=> queue[s] # <<>> /\ queue[s][Len(queue[s])] = Sentinel)

(* A consumer the bus has dropped learns it: its stream ends, which is what
   the resubscribing loops of app/runtime.py and server/headless.py wait for. *)
DroppedLearns ==
  \A s \in Subscribers : (opened[s] # "no" /\ s \notin members) ~> over[s]

(* The bus is an EventLog. *)
Promise == INSTANCE EventLog
ImplementsEventLog == Promise!Spec
=============================================================================
