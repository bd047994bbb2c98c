---------------------------- MODULE AttachReplay ----------------------------
(***************************************************************************)
(* What a client that attaches to a session is shown.  server/session_tape *)
(* records the published events of the session, headless.py cuts the tape  *)
(* back once a turn is on disk, and routes/ws.py splices the history up to *)
(* the tape's base, the tape and the live stream.  A text is the sequence  *)
(* of the numbered pieces it is made of, so a client that has seen every   *)
(* piece once and in order has a strictly increasing view.                 *)
(***************************************************************************)
EXTENDS Naturals, SequencesExt

CONSTANTS
  Clients,
  NoTape,         \* the session has no tape yet
  MaxTurns,       \* bound: turns started
  MaxLoads,       \* bound: times the session is loaded
  MaxPieces,      \* bound: pieces published
  Interleaved,    \* another event may come between a client's two frames
  FarRewinds,     \* a rewind may reach behind the tape's base
  SlowUsage       \* the tape may be reset while a socket loads its usage snapshot

VARIABLES
  items,          \* Session.conversation_history: the text of each entry
  tape,           \* the session's _SessionTape, or NoTape
  seqNo,          \* _session_event_seq of the bus
  said,           \* history: the pieces published so far
  turn,           \* "idle", "echoed", "submitted", "running", "stopping", "ending"
  stream,         \* the text streamed so far, not yet in the history
  turnsRun,
  resets,         \* the tasks _schedule_tape_reset made: how many at each stage
  resident,       \* the session has an actor with an agent
  loads,
  client,         \* each client's socket
  torn,           \* history: the tape does not continue the history where it says it does
  spoilt,         \* history: clients cut off a torn tape, or whose part of the history a rewind cut
  blind           \* history: clients that took the session for running while its tape was reset

harm == <<torn, spoilt, blind>>
vars == <<items, tape, seqNo, said, turn, stream, turnsRun, resets, resident, loads, client, harm>>

Kinds == {"notice", "user", "start", "delta", "complete", "rewind", "interrupt", "finish"}
Envelope == [kind : Kinds, seq : Nat, text : Seq(Nat)]
Tapes == [base : Nat, events : Seq(Envelope), max : Nat]

Stages == {"waits", "flushes", "checks"}
Detached == [at |-> "off", base |-> 0, cut |-> <<>>, max |-> 0, queue |-> <<>>,
             view |-> <<>>, running |-> FALSE]
Text(pieces) == FlattenSeq(pieces)
IsIdle == turn \in {"idle", "echoed"}

Init ==
  /\ items = << <<1>> >> /\ said = 1 /\ tape = NoTape /\ seqNo = 0
  /\ turn = "idle" /\ stream = <<>> /\ turnsRun = 0
  /\ resets = [g \in Stages |-> 0] /\ resident = FALSE /\ loads = 0
  /\ client = [c \in Clients |-> Detached]
  /\ torn = FALSE /\ spoilt = {} /\ blind = {}

-----------------------------------------------------------------------------
(* The tape.  An event is its kind, its sequence number and its text; only
   deltas merge, into one envelope with the later number. *)

Merged(last, event) == [event EXCEPT !.text = last.text \o event.text]

Recorded(t, event) ==
  LET n == Len(t.events)
      merges == n > 0 /\ event.kind = "delta" /\ t.events[n].kind = "delta"
  IN [base |-> t.base, max |-> event.seq,
      events |-> IF merges THEN [t.events EXCEPT ![n] = Merged(@, event)]
                 ELSE Append(t.events, event)]

(* SocketRuntimeClient: the text goes to the display, the mirror of the
   session's state follows the task events. *)
Shows(c, event) ==
  [c EXCEPT !.view = @ \o event.text,
            !.running = IF event.kind = "start" THEN TRUE
                        ELSE IF event.kind \in {"finish", "interrupt"} THEN FALSE ELSE @]

(* The bus numbers the event, records it on the tape in the same step, and
   hands it to every subscription; a client that is live shows it unless its
   replay held it. *)
Receives(c, event) ==
  IF c.at = "welcome" THEN [c EXCEPT !.queue = Append(@, event)]
  ELSE IF c.at = "live" /\ event.seq > c.max THEN Shows(c, event)
  ELSE c

Publish(kind, text) ==
  LET event == [kind |-> kind, seq |-> seqNo + 1, text |-> text]
      fresh == [base |-> Len(items), events |-> <<>>, max |-> 0]
  IN /\ seqNo' = seqNo + 1
     /\ tape' = Recorded(IF tape = NoTape THEN fresh ELSE tape, event)
     /\ client' = [c \in Clients |-> Receives(client[c], event)]

Says(kind) == Publish(kind, <<said + 1>>) /\ said' = said + 1 /\ said < MaxPieces

-----------------------------------------------------------------------------
(* The session. *)

(* InitAgentOperation loads the session; its finished event makes the tape. *)
Rehydrate ==
  /\ ~resident /\ resident' = TRUE
  /\ loads < MaxLoads /\ loads' = loads + 1
  /\ Publish("notice", <<>>)
  /\ UNCHANGED <<items, said, turn, stream, turnsRun, resets, harm>>

(* The reaper closes an idle session; its tape stays. *)
Reclaim ==
  /\ resident /\ turn = "idle" /\ resident' = FALSE
  /\ UNCHANGED <<items, tape, seqNo, said, turn, stream, turnsRun, resets, loads, client, harm>>

(* A message: its UserMessageEvent, and the RunAgentOperation in the same
   step of the loop (a prompt of the headless routes), or in a later frame of
   the client. *)
Echo ==
  /\ resident /\ turn = "idle" /\ turnsRun < MaxTurns
  /\ Says("user")
  /\ turnsRun' = turnsRun + 1
  /\ stream' = <<said + 1>>
  /\ turn' \in {"submitted", "echoed"}
  /\ UNCHANGED <<items, resets, resident, loads, harm>>

Submit ==
  /\ turn = "echoed" /\ turn' = "submitted"
  /\ UNCHANGED <<items, tape, seqNo, said, stream, turnsRun, resets, resident, loads, client, harm>>

(* The run handler appends the message; the task starts. *)
StartTurn ==
  /\ turn = "submitted" /\ turn' = "running"
  /\ items' = Append(items, stream) /\ stream' = <<>>
  /\ Publish("start", <<>>)
  /\ UNCHANGED <<said, turnsRun, resets, resident, loads, harm>>

Delta ==
  /\ turn = "running" /\ Len(stream) < 2
  /\ Says("delta")
  /\ stream' = Append(stream, said + 1)
  /\ UNCHANGED <<items, turn, turnsRun, resets, resident, loads, harm>>

(* The complete message is appended; its event closes the deltas. *)
Complete ==
  /\ turn = "running" /\ stream # <<>>
  /\ items' = Append(items, stream) /\ stream' = <<>>
  /\ Publish("complete", <<>>)
  /\ UNCHANGED <<said, turn, turnsRun, resets, resident, loads, harm>>

(* A title, a notice, a context refresh: nothing a replay must show, and it
   matters only where it hides a user message or a delta on the tape. *)
Notice ==
  /\ resident /\ turn \in {"running"} \cup (IF Interleaved THEN {"echoed"} ELSE {})
  /\ tape.events # <<>> /\ Last(tape.events).kind \in {"user", "delta"}
  /\ Publish("notice", <<>>)
  /\ UNCHANGED <<items, said, turn, stream, turnsRun, resets, resident, loads, harm>>

(* The rewind tool: the history is cut at a checkpoint, the entry appended. *)
Rewind ==
  /\ turn = "running" /\ stream = <<>>
  /\ \E n \in 1 .. Len(items) - 1 :
       /\ FarRewinds \/ n >= tape.base
       /\ items' = Append(SubSeq(items, 1, n), <<said + 1>>)
       /\ torn' = (torn \/ n < tape.base)
       /\ spoilt' = spoilt \cup {c \in Clients : client[c].at = "welcome" /\ n < client[c].base}
  /\ Says("rewind")
  /\ UNCHANGED <<turn, stream, turnsRun, resets, resident, loads, blind>>

(* An interrupt persists what was streamed and cancels the task, whose wrapper
   then publishes a TaskFinishEvent too. *)
Interrupt ==
  /\ turn = "running" /\ turn' = "stopping"
  /\ items' = IF stream = <<>> THEN items ELSE Append(items, stream)
  /\ stream' = <<>>
  /\ Publish("interrupt", <<>>)
  /\ UNCHANGED <<said, turnsRun, resets, resident, loads, harm>>

(* TaskFinishEvent is published before the task leaves the registry; the
   headless consumer starts a reset task for it. *)
Finish ==
  /\ turn \in {"running", "stopping"} /\ stream = <<>> /\ turn' = "ending"
  /\ Publish("finish", <<>>)
  /\ resets' = [resets EXCEPT !["waits"] = @ + 1]
  /\ UNCHANGED <<items, said, stream, turnsRun, resident, loads, harm>>

LeaveTask ==
  /\ turn = "ending" /\ turn' = "idle"
  /\ UNCHANGED <<items, tape, seqNo, said, stream, turnsRun, resets, resident, loads, client, harm>>

-----------------------------------------------------------------------------
(* _reset_tape_after_flush: wait for idle, await the flush, look again. *)

Moved(from, to) ==
  /\ resets[from] > 0
  /\ SlowUsage \/ \A c \in Clients : client[c].at # "info"
  /\ resets' = IF to = "gone" THEN [resets EXCEPT ![from] = @ - 1]
               ELSE [resets EXCEPT ![from] = @ - 1, ![to] = @ + 1]
  /\ UNCHANGED <<items, seqNo, said, turn, stream, turnsRun, resident, loads, client>>

ResetSeesIdle == resident /\ IsIdle /\ Moved("waits", "flushes") /\ UNCHANGED <<tape, harm>>

(* No agent, or not idle within the hundred looks. *)
ResetGivesUp == (~resident \/ ~IsIdle) /\ Moved("waits", "gone") /\ UNCHANGED <<tape, harm>>

ResetFlushed == Moved("flushes", "checks") /\ UNCHANGED <<tape, harm>>

(* Mutant: the session is not looked at again after the flush. *)
SettledUnchecked == resident /\ tape # NoTape

Settled ==
  /\ resident /\ IsIdle
  /\ tape # NoTape
  /\ tape.events # <<>> => Last(tape.events).kind \notin {"user", "start"}

(* A tape that starts anew continues the history, unless a message that was
   echoed is not yet in it. *)
ResetEnds ==
  /\ Moved("checks", "gone")
  /\ IF Settled
       THEN /\ tape' = [tape EXCEPT !.base = Len(items), !.events = <<>>]
            /\ torn' = (turn = "echoed")
            /\ blind' = blind \cup {c \in Clients : client[c].at = "info" /\ client[c].running}
       ELSE UNCHANGED <<tape, torn, blind>>
  /\ UNCHANGED spoilt

-----------------------------------------------------------------------------
(* Attaching. *)

(* The session_info frame is built; then the usage snapshot is awaited. *)
Connect(c) ==
  /\ resident /\ client[c].at = "off"
  /\ client' = [client EXCEPT ![c] = [Detached EXCEPT !.at = "info", !.running = ~IsIdle]]
  /\ UNCHANGED <<items, tape, seqNo, said, turn, stream, turnsRun, resets, resident, loads, harm>>

(* The subscription and the cut, in one step; then the welcome is sent. *)
Attach(c) ==
  /\ resident /\ client[c].at = "info" /\ tape # NoTape
  /\ client' = [client EXCEPT ![c].at = "welcome", ![c].base = tape.base,
                              ![c].cut = tape.events, ![c].max = tape.max]
  /\ spoilt' = IF torn THEN spoilt \cup {c} ELSE spoilt
  /\ UNCHANGED <<items, tape, seqNo, said, turn, stream, turnsRun, resets, resident, loads, torn, blind>>

ReplayedHistory(c) == Text(SubSeq(items, 1, Min({client[c].base, Len(items)})))

(* The history is read when the welcome has been sent; then the tape of the
   cut is shown, and of what the subscription has queued whatever is newer. *)
Replay(c) ==
  /\ client[c].at = "welcome"
  /\ LET m == client[c]
         events == m.cut \o m.queue
         start == [Detached EXCEPT !.at = "live", !.max = m.max, !.running = m.running,
                                   !.view = ReplayedHistory(c)]
         shown[i \in 0 .. Len(events)] ==
           IF i = 0 THEN start
           ELSE IF i <= Len(m.cut) THEN Shows(shown[i - 1], events[i])
           ELSE Receives(shown[i - 1], events[i])
     IN client' = [client EXCEPT ![c] = shown[Len(events)]]
  /\ UNCHANGED <<items, tape, seqNo, said, turn, stream, turnsRun, resets, resident, loads, harm>>

Session ==
  \/ Rehydrate \/ Reclaim
  \/ Echo \/ Submit \/ StartTurn \/ Delta \/ Complete \/ Notice \/ Rewind
  \/ Interrupt \/ Finish \/ LeaveTask
  \/ ResetSeesIdle \/ ResetGivesUp \/ ResetFlushed \/ ResetEnds

Next == Session \/ \E c \in Clients : Connect(c) \/ Attach(c) \/ Replay(c)

Spec == Init /\ [][Next]_vars

-----------------------------------------------------------------------------
TypeOK ==
  /\ turn \in {"idle", "echoed", "submitted", "running", "stopping", "ending"}
  /\ resets \in [Stages -> 0 .. MaxTurns] /\ resident \in BOOLEAN
  /\ said \in 0 .. MaxPieces /\ turnsRun \in 0 .. MaxTurns
  /\ tape \in Tapes \cup {NoTape} /\ (tape # NoTape => tape.base <= Len(items) \/ torn)
  /\ \A c \in Clients : client[c].at \in {"off", "info", "welcome", "live"}
  /\ torn \in BOOLEAN /\ spoilt \subseteq Clients /\ blind \subseteq Clients

(* What a client shows: every piece of the conversation once and in order,  *)
(* and none that is in the history or streaming is missing.                 *)
ShownWhole(c) ==
  client[c].at = "live" =>
    LET view == client[c].view
    IN /\ \A i \in 1 .. Len(view) - 1 : view[i] < view[i + 1]
       /\ Range(Text(items)) \cup Range(stream) \subseteq Range(view)

(* What session_tape.py promises of history, tape and live stream together: *)
(* whenever a client attaches, it shows every piece once and in order.      *)
NoGapNoDup == \A c \in Clients : ShownWhole(c)

(* The promise with the two ways the code breaks it: a rewind that cuts the  *)
(* history below the base of the tape, or of a client that has not read its *)
(* history yet, and a reset that drops a message not yet in the history.    *)
(* Only a client that attaches before the next reset of an idle session, or *)
(* was reading its part, is not shown the whole; every other one is.        *)
WholeUnlessTorn == \A c \in Clients \ spoilt : ShownWhole(c)

(* The mirror a client keeps of the session: a client that has seen every   *)
(* event does not take an idle session for a running one, or the reverse,   *)
(* unless the tape dropped the end of the turn it was told of.              *)
MirrorAgrees ==
  \A c \in Clients \ blind :
    client[c].at = "live" =>
      /\ turn = "running" => client[c].running
      /\ turn = "idle" => ~client[c].running
=============================================================================
