-------------------------- MODULE OperationAwaiter --------------------------
(***************************************************************************)
(* app/runtime_facade.py: OperationCompletionAwaiter on the event bus.     *)
(* RuntimeFacade.submit registers an operation's id, the registry runs the *)
(* operation and its end is published, and the awaiter's own task, one     *)
(* subscriber of the bus like any other, turns the event into the result   *)
(* of wait_for.  A caller may submit without waiting, may be cancelled     *)
(* while it waits, and may submit the same id again: server/headless.py    *)
(* retries a durable turn under the turn's id.                             *)
(***************************************************************************)
EXTENDS EventBus

CONSTANTS
  Ids,          \* operation ids
  Awaiter,      \* the awaiter's subscription
  Home          \* the session the operations and the other events belong to

ASSUME AwaiterAssumption == Awaiter \in Subscribers /\ Home \in Sessions

VARIABLES
  body,        \* per publication: the operation that ended and how, or OtherBody
  op,          \* "new", "running", "over": the life of the operation itself
  ending,      \* history: the status of its last end
  future,      \* _futures: "absent" or "pending"
  completed,   \* _completed_operations: a status or "absent"
  waiter,      \* the caller of wait_for(id): "idle", "waiting", "woken", "got"
  result,      \* what its wait_for returns
  stopped      \* RuntimeFacade._stopped, and the awaiter stopped with it

awVars == <<body, op, ending, future, completed, waiter, result, stopped>>

Statuses == {"completed", "failed", "rejected"}
OtherBody == [id |-> "none", status |-> "other"]

AwInit ==
  /\ Init
  /\ body = <<>> /\ stopped = FALSE
  /\ op = [i \in Ids |-> "new"] /\ ending = [i \in Ids |-> "none"]
  /\ future = [i \in Ids |-> "absent"] /\ completed = [i \in Ids |-> "absent"]
  /\ waiter = [i \in Ids |-> "idle"] /\ result = [i \in Ids |-> "none"]

(* The constructor subscribes, before the facade takes operations. *)
Started == opened[Awaiter] # "no"
Construct == Subscribe(Awaiter, AnyScope) /\ UNCHANGED awVars

(* The other subscribers of the bus: the display of a client, the headless
   consumer, a socket. *)
OtherSubscriber(s) ==
  /\ \/ \E scope \in Sessions \cup {AnyScope} : Subscribe(s, scope)
     \/ Unsubscribe(s) \/ Consume(s) \/ Abandon(s)
  /\ UNCHANGED awVars

(* The ids register refuses with RuntimeError. *)
Registered(i) == future[i] # "absent" \/ completed[i] # "absent"

(* An id comes again after a wait that returned or after nobody waited (the
   retry of a durable turn); a cancelled waiter is being shut down and does
   not retry. *)
Submit(i) ==
  /\ Started /\ ~stopped /\ op[i] # "running" /\ ~Registered(i)
  /\ waiter[i] \in {"idle", "got"}
  /\ op' = [op EXCEPT ![i] = "running"]
  /\ future' = [future EXCEPT ![i] = "pending"]
  /\ waiter' = [waiter EXCEPT ![i] = "idle"]
  /\ result' = [result EXCEPT ![i] = "none"]
  /\ UNCHANGED <<busVars, body, ending, completed, stopped>>

(* The runtime publishes the end of an operation, or any other event.  A
   rejection is two events, but nothing runs between their publications nor
   between the awaiter's reads of them, and both settle the same status: they
   are one here. *)
Finish(i, status) ==
  /\ op[i] = "running"
  /\ Publish(Home)
  /\ body' = Append(body, [id |-> i, status |-> status])
  /\ op' = [op EXCEPT ![i] = "over"]
  /\ ending' = [ending EXCEPT ![i] = status]
  /\ UNCHANGED <<future, completed, waiter, result, stopped>>

OtherEvent(x) ==
  /\ Publish(x)
  /\ body' = Append(body, OtherBody)
  /\ UNCHANGED <<op, ending, future, completed, waiter, result, stopped>>

(* wait_for: a kept status is taken at once, an unknown id is answered None. *)
WaitFor(i) ==
  /\ waiter[i] = "idle" /\ op[i] # "new"
  /\ IF completed[i] # "absent"
     THEN /\ waiter' = [waiter EXCEPT ![i] = "got"]
          /\ result' = [result EXCEPT ![i] = completed[i]]
          /\ completed' = [completed EXCEPT ![i] = "absent"]
     ELSE /\ UNCHANGED completed
          /\ IF future[i] = "absent"
             THEN waiter' = [waiter EXCEPT ![i] = "got"] /\ result' = [result EXCEPT ![i] = "None"]
             ELSE waiter' = [waiter EXCEPT ![i] = "waiting"] /\ UNCHANGED result
  /\ UNCHANGED <<busVars, body, op, ending, future, stopped>>

(* Mutant: the finally clause of wait_for forgets the kept status. *)
ForgetsFuture(i) ==
  /\ future' = [future EXCEPT ![i] = "absent"] /\ UNCHANGED completed

(* The finally clause of wait_for. *)
Forgets(i) ==
  /\ future' = [future EXCEPT ![i] = "absent"]
  /\ completed' = [completed EXCEPT ![i] = "absent"]

Wake(i) ==
  /\ waiter[i] = "woken"
  /\ waiter' = [waiter EXCEPT ![i] = "got"]
  /\ Forgets(i)
  /\ UNCHANGED <<busVars, body, op, ending, result, stopped>>

CancelWait(i) ==
  /\ waiter[i] \in {"waiting", "woken"}
  /\ waiter' = [waiter EXCEPT ![i] = "cancelled"]
  /\ result' = [result EXCEPT ![i] = "none"]
  /\ Forgets(i)
  /\ UNCHANGED <<busVars, body, op, ending, stopped>>

(* Mutant: a future somebody awaits is not resolved. *)
SettlesSilently(e) ==
  /\ future' = [future EXCEPT ![e.id] = "absent"]
  /\ completed' = [completed EXCEPT ![e.id] = e.status]
  /\ UNCHANGED <<waiter, result>>

(* _consume on the end of an operation: the status is kept whether or not
   somebody holds the future, and the future, when there is one, resolved. *)
Settles(e) ==
  /\ future' = [future EXCEPT ![e.id] = "absent"]
  /\ completed' = [completed EXCEPT ![e.id] = e.status]
  /\ IF waiter[e.id] = "waiting" /\ future[e.id] = "pending"
     THEN /\ waiter' = [waiter EXCEPT ![e.id] = "woken"]
          /\ result' = [result EXCEPT ![e.id] = e.status]
     ELSE UNCHANGED <<waiter, result>>

ConsumeEnd ==
  /\ ~stopped /\ Consume(Awaiter)
  /\ LET i == Head(queue[Awaiter]) IN
       IF i # Sentinel /\ body[i] # OtherBody
       THEN Settles(body[i])
       ELSE UNCHANGED <<future, completed, waiter, result>>
  /\ UNCHANGED <<body, op, ending, stopped>>

(* Mutant: the answer given to the waiters is kept as a status. *)
SweptToNone == [i \in Ids |-> "None"]

(* stop clears both maps. *)
Swept == [i \in Ids |-> "absent"]

(* stop: the consumer is cancelled, what is pending resolves to None. *)
Stop ==
  /\ Started /\ ~stopped
  /\ stopped' = TRUE
  /\ IF over[Awaiter] THEN UNCHANGED busVars ELSE Abandon(Awaiter)
  /\ waiter' = [i \in Ids |-> IF waiter[i] = "waiting" THEN "woken" ELSE waiter[i]]
  /\ result' = [i \in Ids |-> IF waiter[i] = "waiting" THEN "None" ELSE result[i]]
  /\ future' = [i \in Ids |-> "absent"]
  /\ completed' = Swept
  /\ UNCHANGED <<body, op, ending>>

AwNext ==
  \/ \E i \in Ids :
       \/ Submit(i) \/ WaitFor(i) \/ Wake(i) \/ CancelWait(i)
       \/ \E status \in Statuses : Finish(i, status)
  \/ Construct \/ ConsumeEnd \/ Stop
  \/ \E x \in Sessions : OtherEvent(x)
  \/ \E s \in Subscribers \ {Awaiter} : OtherSubscriber(s)

(* The consumers and a woken waiter are tasks of the loop. *)
AwFair ==
  /\ WF_<<busVars, awVars>>(ConsumeEnd)
  /\ \A s \in Subscribers \ {Awaiter} : WF_<<busVars, awVars>>(Consume(s) /\ UNCHANGED awVars)
  /\ \A i \in Ids : WF_<<busVars, awVars>>(Wake(i))

AwSpec == AwInit /\ [][AwNext]_<<busVars, awVars>> /\ AwFair

-----------------------------------------------------------------------------
(* Types. *)
AwTypeOK ==
  /\ TypeOK
  /\ body \in Seq([id : Ids, status : Statuses] \cup {OtherBody}) /\ Len(body) = Len(log)
  /\ op \in [Ids -> {"new", "running", "over"}]
  /\ ending \in [Ids -> Statuses \cup {"none"}] /\ stopped \in BOOLEAN
  /\ future \in [Ids -> {"absent", "pending"}]
  /\ completed \in [Ids -> Statuses \cup {"absent"}]
  /\ waiter \in [Ids -> {"idle", "waiting", "woken", "got", "cancelled"}]
  /\ result \in [Ids -> Statuses \cup {"None", "none"}]

EndQueued(i) ==
  \E k \in 1 .. Len(queue[Awaiter]) :
    LET e == queue[Awaiter][k] IN
      e # Sentinel /\ body[e] # OtherBody /\ body[e].id = i

(* A wait that returned a status returned the one of the operation's own end;
   None, which server/headless.py takes for a success, means the facade was
   stopped. *)
ResultIsItsOwn ==
  \A i \in Ids : waiter[i] = "got" =>
    \/ op[i] = "over" /\ result[i] = ending[i]
    \/ result[i] = "None" /\ stopped

(* A caller waits for an operation that is over only while the event is on
   its way or the bus has cut the awaiter off: an overflow of the awaiter's
   queue is the one way to be stranded. *)
StrandedOnlyByOverflow ==
  \A i \in Ids : waiter[i] = "waiting" /\ op[i] = "over" =>
    EndQueued(i) \/ Awaiter \notin members

(* A finished id stays refused only while nobody has collected its end: after
   a wait that returned, the same id, a turn's id for instance, is accepted
   again. *)
CollectedIdIsFree == \A i \in Ids : waiter[i] = "got" => ~Registered(i)

(* A wait is answered with its own operation's end, strands only behind an
   overflow, and leaves its id free. *)
AwaiterSound == ResultIsItsOwn /\ StrandedOnlyByOverflow /\ CollectedIdIsFree

(* While the awaiter's queue does not overflow, the wait for an operation
   that has ended returns. *)
WaitReturns ==
  \A i \in Ids :
    (waiter[i] = "waiting" /\ op[i] = "over")
      ~> (waiter[i] # "waiting" \/ Awaiter \notin members)
=============================================================================
