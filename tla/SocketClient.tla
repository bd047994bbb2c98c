---------------------------- MODULE SocketClient ----------------------------
(***************************************************************************)
(* tui/client/socket_client.py: the terminal's side of one connection.  A  *)
(* message is shown at once and the server's echo of it is swallowed when  *)
(* it comes back; an operation's future is released by its finished event, *)
(* or by the loss of the connection.  The socket is two queues of frames.  *)
(***************************************************************************)
EXTENDS Naturals, Sequences, FiniteSets

CONSTANTS
  Texts,             \* texts of user messages
  Ops,               \* operations the client submits
  MaxSaid,           \* bound: messages of this client and of others
  SwitchWhileWaiting \* another session may be attached while an operation is awaited

VARIABLES
  link,        \* "open", or "lost": the server went away
  up, down,    \* frames on the way
  shown,       \* display: how often each text has been rendered
  mine, theirs,\* history: messages said here and, as seen by the server, elsewhere
  swallows,    \* _pending_echo_swallows
  expired,     \* history: an entry outlived its time, or was dropped with its session
  op,          \* "new", "sent", "waiting", "returned", "failed"
  future,      \* _op_futures: "none", "pending", "set"
  completed,   \* _completed_ops
  server,      \* operations the server has: "unknown", "runs", "over"
  cut          \* history: operations in flight when a connection went away

vars == <<link, up, down, shown, mine, theirs, swallows, expired, op, future,
          completed, server, cut>>
echoVars == <<shown, mine, theirs, swallows, expired>>
opVars == <<op, future, completed, server, cut>>

User(t) == [kind |-> "user", what |-> t]
Operation(o) == [kind |-> "op", what |-> o]
Total(f) == LET S[T \in SUBSET Texts] ==
                  IF T = {} THEN 0 ELSE LET t == CHOOSE x \in T : TRUE IN f[t] + S[T \ {t}]
            IN S[Texts]

Init ==
  /\ link = "open" /\ up = <<>> /\ down = <<>>
  /\ shown = [t \in Texts |-> 0] /\ mine = shown /\ theirs = shown
  /\ swallows = <<>> /\ expired = FALSE
  /\ op = [o \in Ops |-> "new"] /\ future = [o \in Ops |-> "none"] /\ completed = {}
  /\ server = [o \in Ops |-> "unknown"] /\ cut = {}

-----------------------------------------------------------------------------
(* User messages. *)

(* emit_user_message: shown first; the swallow is armed when the frame has
   reached the wire, and not when the send raises. *)
Armed(t) == IF link = "open" THEN Append(swallows, t) ELSE swallows

EmitUserMessage(t) ==
  /\ Total(mine) + Total(theirs) < MaxSaid
  /\ shown' = [shown EXCEPT ![t] = @ + 1] /\ mine' = [mine EXCEPT ![t] = @ + 1]
  /\ up' = IF link = "open" THEN Append(up, User(t)) ELSE up
  /\ swallows' = Armed(t)
  /\ UNCHANGED <<link, down, theirs, expired, opVars>>

(* Another client of the session says something. *)
Foreign(t) ==
  /\ link = "open" /\ Total(mine) + Total(theirs) < MaxSaid
  /\ theirs' = [theirs EXCEPT ![t] = @ + 1] /\ down' = Append(down, User(t))
  /\ UNCHANGED <<link, up, shown, mine, swallows, expired, opVars>>

(* _ECHO_SWALLOW_TTL_SECONDS. *)
Expire ==
  /\ swallows # <<>> /\ swallows' = Tail(swallows) /\ expired' = TRUE
  /\ UNCHANGED <<link, up, down, shown, mine, theirs, opVars>>

(* Mutant: any pending swallow matches, and all before it are given up. *)
SwallowsAny(t) == \E i \in 1 .. Len(swallows) : TRUE

Swallows(t) == swallows # <<>> /\ Head(swallows) = t

ReceiveUser(t) ==
  /\ IF Swallows(t)
     THEN swallows' = Tail(swallows) /\ UNCHANGED shown
     ELSE shown' = [shown EXCEPT ![t] = @ + 1] /\ UNCHANGED swallows
  /\ UNCHANGED <<mine, theirs, expired, opVars>>

-----------------------------------------------------------------------------
(* Operations. *)

Submit(o) ==
  /\ op[o] = "new" /\ future' = [future EXCEPT ![o] = "pending"]
  /\ IF link = "open"
     THEN op' = [op EXCEPT ![o] = "sent"] /\ up' = Append(up, Operation(o))
     ELSE op' = [op EXCEPT ![o] = "failed"] /\ UNCHANGED up
  /\ UNCHANGED <<link, down, echoVars, completed, server, cut>>

Returns(o) ==
  /\ op' = [op EXCEPT ![o] = "returned"]
  /\ future' = [future EXCEPT ![o] = "none"] /\ completed' = completed \ {o}

(* wait_for, called any time after submit: at once when the end came before. *)
WaitFor(o) ==
  /\ op[o] = "sent"
  /\ IF o \in completed \/ future[o] = "none"
     THEN Returns(o)
     ELSE op' = [op EXCEPT ![o] = "waiting"] /\ UNCHANGED <<future, completed>>
  /\ UNCHANGED <<link, up, down, echoVars, server, cut>>

Woken(o) ==
  /\ op[o] = "waiting" /\ (future[o] = "set" \/ o \in completed)
  /\ Returns(o)
  /\ UNCHANGED <<link, up, down, echoVars, server, cut>>

Remembered(o) == completed \cup {o}

ReceiveFinished(o) ==
  /\ completed' = Remembered(o)
  /\ future' = [future EXCEPT ![o] = IF op[o] = "waiting" THEN "set" ELSE "none"]
  /\ UNCHANGED <<echoVars, op, server, cut>>

-----------------------------------------------------------------------------
(* The connection and the server. *)

Receive ==
  /\ link = "open" /\ down # <<>> /\ down' = Tail(down)
  /\ IF Head(down).kind = "user" THEN ReceiveUser(Head(down).what)
     ELSE ReceiveFinished(Head(down).what)
  /\ UNCHANGED <<link, up>>

(* routes/ws.py: an emit frame is published to every client, an op frame is
   submitted; the operation's end is an event like the others. *)
ServerReads ==
  /\ link = "open" /\ up # <<>> /\ up' = Tail(up)
  /\ IF Head(up).kind = "user"
     THEN down' = Append(down, Head(up)) /\ UNCHANGED server
     ELSE server' = [server EXCEPT ![Head(up).what] = "runs"] /\ UNCHANGED down
  /\ UNCHANGED <<link, echoVars, op, future, completed, cut>>

ServerFinishes(o) ==
  /\ server[o] = "runs" /\ server' = [server EXCEPT ![o] = "over"]
  /\ down' = IF link = "open" /\ o \notin cut THEN Append(down, Operation(o)) ELSE down
  /\ UNCHANGED <<link, up, echoVars, op, future, completed, cut>>

InFlight == {o \in Ops : op[o] \in {"sent", "waiting"}}

Released(f) == [o \in Ops |-> IF f[o] = "pending" THEN "set" ELSE f[o]]

(* The receive loop ends and nobody closed the client: the waiters go. *)
Lose ==
  /\ link = "open" /\ link' = "lost" /\ up' = <<>> /\ down' = <<>>
  /\ future' = Released(future) /\ cut' = cut \cup InFlight
  /\ UNCHANGED <<echoVars, op, completed, server>>

(* reattach: another session, another connection; only the swallows go. *)
Reattach ==
  /\ SwitchWhileWaiting \/ \A o \in InFlight : future[o] # "pending"
  /\ link' = "open" /\ up' = <<>> /\ down' = <<>>
  /\ swallows' = <<>> /\ expired' = TRUE /\ cut' = cut \cup InFlight
  /\ UNCHANGED <<shown, mine, theirs, op, future, completed, server>>

Next ==
  \/ \E t \in Texts : EmitUserMessage(t) \/ Foreign(t)
  \/ Expire \/ Receive \/ ServerReads \/ Lose \/ Reattach
  \/ \E o \in Ops : Submit(o) \/ WaitFor(o) \/ Woken(o) \/ ServerFinishes(o)

Spec == Init /\ [][Next]_vars

-----------------------------------------------------------------------------
TypeOK ==
  /\ link \in {"open", "lost"} /\ completed \subseteq Ops /\ cut \subseteq Ops
  /\ \A o \in Ops : /\ op[o] \in {"new", "sent", "waiting", "returned", "failed"}
                    /\ future[o] \in {"none", "pending", "set"}
                    /\ server[o] \in {"unknown", "runs", "over"}

(* However the echoes of this client's messages and the messages of others  *)
(* interleave, with equal texts too: when the wire is quiet every message   *)
(* is on the screen once, and no entry is left to eat a later one.          *)
EchoOnce ==
  link = "open" /\ up = <<>> /\ down = <<>> /\ ~expired =>
    /\ swallows = <<>>
    /\ \A t \in Texts : shown[t] = mine[t] + theirs[t]

(* wait_for returns only when the operation is over on the server or its    *)
(* connection went away, and a caller that waits can still be woken: its    *)
(* end is on the way, has been noted, or the connection's loss released it. *)
WaitIsSound ==
  \A o \in Ops :
    /\ op[o] = "returned" => server[o] = "over" \/ o \in cut
    /\ op[o] = "waiting" /\ future[o] = "pending" =>
         \/ server[o] = "runs" /\ o \notin cut
         \/ \E i \in 1 .. Len(up) : up[i] = Operation(o)
         \/ \E i \in 1 .. Len(down) : down[i] = Operation(o)
=============================================================================
