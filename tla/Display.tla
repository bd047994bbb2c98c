------------------------------- MODULE Display -------------------------------
(* The terminal's transcript.  An event goes through a state machine          *)
(* (tui/machine.py) that answers with render commands, and a renderer         *)
(* (tui/renderer.py) carries them out; a tape (control/event_tape.py) keeps   *)
(* the events, and from it the whole screen is painted again when the detail  *)
(* is toggled, on a refresh and when a turn is taken back (tui/display.py).   *)
(* Only what ends up on the screen is modelled: blocks of text, open streams, *)
(* the tail of a command's output, the spinner.  The events come in the order *)
(* the server publishes them (agent/step.py, agent/task.py, SubAgents); those *)
(* published without a suspension in between are consumed in one step.        *)
EXTENDS Naturals, FiniteSets, Sequences

CONSTANTS
  BatchSize,      \* Agent calls of the batch
  MaxReplies,     \* bound: replies
  MaxPrompts,     \* bound: prompts
  MaxPieces,      \* bound: deltas of a reply, of thinking, of a command's output
  LateUnstreamed  \* a reply without deltas may follow another reply

VARIABLES
  inbox,     \* events published and not consumed yet
  about,     \* what the behaviour is about: "talk", "shell", "batch" or "aside"
  phase,     \* the turn
  prompts,   \* prompts so far
  reply,     \* replies so far, deltas of the last one, and whether it is being streamed
  said,      \* history: the pieces of all replies
  mused,     \* deltas of thinking
  shell,     \* the Bash tool: used, its deltas, and whether 3 seconds have passed
  kid,       \* the children
  answered,  \* Agent calls with a result
  doomed,    \* children the interrupt goes down to
  strays,    \* history: children that started after the interrupt of their parent
  aside,     \* the side question
  chore,     \* what else the session does: a command, a compaction, a summary
  dim,       \* history: the spinner was stopped for something else than what it is on for
  spool,     \* EventTape
  detail,    \* TranscriptDetail
  machine,   \* DisplayStateMachine
  screen     \* TUICommandRenderer and the scrollback

turnVars == <<about, phase, prompts, reply, said, mused, shell>>
kidVars == <<kid, answered, doomed, strays>>
besideVars == <<aside, chore>>
displayVars == <<dim, spool, detail, machine, screen>>
vars == <<inbox, turnVars, kidVars, besideVars, displayVars>>

Main == 0
Members == 1 .. BatchSize
Sessions == Members \cup {Main}
MaxTail == 2 * MaxPieces  \* bound: pieces below the prompt

Event(kind, who) == [kind |-> kind, who |-> who, of |-> "none", text |-> <<>>, status |-> "none", linked |-> FALSE]
Said(kind, text) == [Event(kind, Main) EXCEPT !.text = text]
Went(kind, who, status) == [Event(kind, who) EXCEPT !.status = status]

Command(do) == [do |-> do, what |-> "none", who |-> Main, text |-> <<>>]
Block(what, who, text) == [do |-> "Show", what |-> what, who |-> who, text |-> text]
Write(do, text) == [Command(do) EXCEPT !.text = text]

Only(condition, commands) == IF condition THEN commands ELSE <<>>

-----------------------------------------------------------------------------
(* The machine.  A handler takes the machine's state, the event and the       *)
(* detail, and gives the next state and the commands.                         *)

NoMachine ==
  [primary |-> FALSE,                             \* _primary_session_id
   known |-> <<>>, sub |-> {}, active |-> {},     \* _sessions, is_sub_agent, task_active
   end |-> [k \in Members |-> "none"],            \* terminal_status
   flushed |-> {},                                \* compact_batch_flushed
   held |-> [k \in Members |-> "none"],           \* _pending_sub_agent_results
   unspawned |-> 0,                               \* _unspawned_sub_agents_by_batch
   text |-> FALSE, count |-> FALSE,               \* assistant_stream_active, assistant_char_count
   think |-> {}, kept |-> {},                     \* thinking_stream_active, thinking_content
   asides |-> FALSE, bash |-> FALSE,              \* _side_question_pending, _bash_mode_output_...
   pending |-> FALSE, chunks |-> <<>>, live |-> FALSE]  \* the Bash tool's output

Out(m, commands) == [m |-> m, out |-> commands]
Then(before, next) == Out(next.m, before \o next.out)

AnyTaskActive(m) == (m.primary /\ Main \in m.active) \/ m.bash \/ m.sub \cap m.active # {}

SpinnerStop(m) == Only(~m.asides, <<Command("SpinnerStop")>>)

EndStreams == <<Command("EndThought"), Command("EndReply")>>

Batch(m) == m.sub \ m.flushed
Ended(m, ks) == \A k \in ks : m.end[k] # "none"

(* Mutant: a call that was refused is still waited for. *)
BatchWaits(m) == Cardinality(Batch(m)) >= Cardinality(Members) /\ Ended(m, Batch(m))

(* The batch is summarised when those of its members that are to come have
   come and have ended. *)
BatchComplete(m) == Cardinality(Batch(m)) + m.unspawned >= Cardinality(Members) /\ Ended(m, Batch(m))

FinishBatch(m, k, d) ==
  IF d # "compact" \/ k \notin Batch(m) \/ ~BatchComplete(m) THEN Out(m, <<>>)
  ELSE Out([m EXCEPT !.flushed = @ \cup Batch(m)], <<Block("summary", Main, <<Batch(m)>>)>>)

(* finish_thinking: what was kept of a child's thinking is printed. *)
Thoughts(m, ks) ==
  LET s == SelectSeq(m.known, LAMBDA k : k \in ks \cap m.kept)
  IN [i \in DOMAIN s |-> Block("thought", s[i], <<>>)]
Unthink(m, ks) == [m EXCEPT !.think = @ \ ks, !.kept = @ \ ks]

(* _abort_active_sub_agent_sessions; one look at the batch stands for the
   loop, after its first flush the others find nothing. *)
AbortChildren(m, d) ==
  LET ks == m.sub \cap m.active
      n == [Unthink(m, ks) EXCEPT !.active = @ \ ks,
                                  !.end = [k \in Members |-> IF k \in ks THEN "aborted" ELSE @[k]]]
  IN IF ks = {} THEN Out(m, <<>>)
     ELSE Then(Thoughts(m, ks), FinishBatch(n, CHOOSE k \in ks : k \in Batch(m) \/ ks \cap Batch(m) = {}, d))

(* Any tool call closes the main session's streams. *)
CloseStreams(m) ==
  Out([m EXCEPT !.text = FALSE, !.think = @ \ {Main}],
      Only(m.text, <<Command("EndReply")>>) \o Only(Main \in m.think, <<Command("EndThought")>>))

OnTaskStart(m, e, d) ==
  IF e.who = Main
  THEN Out([m EXCEPT !.primary = TRUE, !.active = @ \cup {Main}], <<Command("SpinnerStart")>>)
  ELSE LET k == e.who
           over == m.held[k] \in {"error", "aborted"}
           n == [m EXCEPT !.sub = @ \cup {k}, !.flushed = @ \ {k}, !.held[k] = "none",
                          !.active = IF over THEN @ \ {k} ELSE @ \cup {k},
                          !.end[k] = IF over THEN m.held[k] ELSE "none"]
       IN Then(<<Command("SpinnerStart")>> \o Only(d = "full", <<Block("call", k, <<>>)>>),
               IF over THEN FinishBatch(n, k, d) ELSE Out(n, <<>>))

OnThinkStart(m, e) ==
  LET n == [m EXCEPT !.think = @ \cup {e.who}, !.kept = @ \ {e.who}]
  IN Out(n, Only(e.who = Main, <<Command("StartThought")>>))

OnThinkDelta(m, e, d) ==
  IF e.who = Main THEN Out(m, <<Write("AppendThought", e.text)>>)
  ELSE Out(IF d = "full" THEN [m EXCEPT !.kept = @ \cup {e.who}] ELSE m, <<>>)

OnThinkEnd(m, e, d) ==
  Out(Unthink(m, {e.who}),
      IF e.who = Main THEN <<Command("EndThought"), Command("SpinnerStart")>>
      ELSE Only(d = "full", Thoughts(m, {e.who})))

OnTextStart(m) == Out([m EXCEPT !.text = TRUE, !.count = FALSE], <<Command("StartReply")>>)

OnTextDelta(m, e) == Out([m EXCEPT !.count = TRUE], <<Write("AppendReply", e.text)>>)

OnTextEnd(m) == Out([m EXCEPT !.text = FALSE], <<Command("EndReply"), Command("SpinnerStart")>>)

(* A reply without deltas is shown from the complete message. *)
OnResponse(m, e) ==
  LET late == e.text # <<>> /\ ~m.count IN
  Out([m EXCEPT !.text = FALSE, !.count = @ \/ late],
      Only(late, Only(~m.text, <<Command("StartReply")>>) \o <<Write("AppendReply", e.text)>>)
        \o Only(late \/ m.text, <<Command("EndReply")>>) \o <<Command("SpinnerStart")>>)

OnToolCall(m, e, d) ==
  LET closed == CloseStreams(m) IN
  IF e.of # "bash" THEN closed
  ELSE Out([closed.m EXCEPT !.pending = TRUE, !.chunks = <<>>],
           closed.out \o Only(d = "full", <<Block("command", Main, <<>>)>>))

(* Output is held back until the command has run for 3 seconds. *)
OnOutput(m, e) ==
  IF ~m.live /\ e.status = "early" THEN Out([m EXCEPT !.pending = TRUE, !.chunks = @ \o e.text], <<>>)
  ELSE Out([m EXCEPT !.live = TRUE, !.chunks = <<>>, !.pending = TRUE],
           <<Write("AppendTail", m.chunks \o e.text)>>)

OnBashResult(m) ==
  Out([m EXCEPT !.pending = FALSE, !.chunks = <<>>, !.live = FALSE],
      Only(m.live, <<Command("EndTail")>>) \o <<Block("result", Main, <<>>)>>)

OnAgentResult(m, e, d) ==
  LET k == e.of
      bad == e.status \in {"error", "aborted"}
  IN CASE e.linked /\ k \in m.sub ->
            FinishBatch([m EXCEPT !.active = IF bad THEN @ \ {k} ELSE @,
                                  !.end[k] = IF bad /\ @ = "none" THEN e.status ELSE @], k, d)
       [] e.linked -> Out([m EXCEPT !.held[k] = e.status], <<>>)
       [] ~e.linked /\ bad ->
            LET n == [m EXCEPT !.unspawned = @ + 1]
                batch == Batch(n)
            IN IF batch = {} THEN Out(n, <<>>) ELSE FinishBatch(n, CHOOSE j \in batch : TRUE, d)
       [] OTHER -> Out(m, <<>>)

(* It ends the streams of the screen, whatever session it is of. *)
OnMetadata(m, e) == Out(m, EndStreams \o Only(e.who \notin m.sub, <<Block("metadata", Main, <<>>)>>))

OnTaskFinish(m, e, d) ==
  LET k == e.who
      n == [m EXCEPT !.active = @ \ {k}]
      told == m.count \/ e.text = <<>> \/ e.status = "cancelled"
      shown == <<Command("StartReply"), Write("AppendReply", e.text), Command("EndReply")>>
  IN IF k \in m.sub
     THEN Then(Thoughts(m, {k}) \o Only(d = "full", <<Block("answer", k, <<>>)>>),
               FinishBatch([Unthink(n, {k}) EXCEPT !.end[k] = IF e.status = "cancelled" THEN "aborted" ELSE "success"],
                           k, d))
     ELSE Out([n EXCEPT !.text = FALSE, !.think = @ \ {k}],
              Only(k \in m.think, <<Command("EndThought")>>) \o Only(m.text, <<Command("EndReply")>>)
                \o Only(~told, shown) \o SpinnerStop(m))

(* A child that has not started counts as the main session. *)
OnInterrupt(m, e, d) ==
  LET k == e.who
      n == [Unthink(m, {k}) EXCEPT !.active = @ \ {k}]
      notice == Only(e.status = "notice", <<Block("interrupt", Main, <<>>)>>)
      children == AbortChildren(n, d)
  IN IF k \in m.sub THEN Out(n, SpinnerStop(m) \o Thoughts(m, {k}) \o notice)
     ELSE Out(children.m, SpinnerStop(m) \o children.out \o EndStreams \o notice)

(* An error that is not tried again. *)
OnError(m, e, d) ==
  LET k == e.who
      n == [m EXCEPT !.active = @ \ {k}]
      failed == FinishBatch([Unthink(n, {k}) EXCEPT !.end[k] = "error"], k, d)
      children == AbortChildren(n, d)
  IN IF k \in m.sub
     THEN Out(failed.m, Thoughts(m, {k}) \o failed.out
                          \o Only(d = "full", <<Block("error", k, <<>>)>>) \o SpinnerStop(m))
     ELSE Out(children.m, <<Block("error", Main, <<>>)>> \o SpinnerStop(m) \o children.out)

(* Commands of the user and their output, compactions, summaries. *)
OnChoreStart(m, e) ==
  Out([m EXCEPT !.bash = @ \/ e.of = "bash"],
      Only(e.of = "bash" \/ Main \notin m.active, <<Command("SpinnerStart")>>)
        \o Only(e.of = "bash", <<Command("StartTail")>>))

OnChoreEnd(m, e) ==
  Out([m EXCEPT !.bash = @ /\ e.of # "bash"],
      Only(e.of = "bash", <<Command("EndTail"), Block("result", Main, <<>>)>>)
        \o Only(e.of = "bash" \/ Main \notin m.active, <<Command("SpinnerStop")>>)
        \o Only(e.of = "compaction", <<Block("compacted", Main, <<>>)>>))

OnAsideStart(m) ==
  Out([m EXCEPT !.asides = TRUE], Only(~m.asides /\ ~AnyTaskActive(m), <<Command("SpinnerStart")>>))

OnAsideEnd(m, e) ==
  Out([m EXCEPT !.asides = FALSE],
      <<Block(IF e.kind = "Aside" THEN "aside" ELSE "aside failed", Main, <<>>)>>
        \o Only(m.asides /\ ~AnyTaskActive(m), <<Command("SpinnerStop")>>))

Know(m, who) ==
  IF who = Main \/ \E i \in DOMAIN m.known : m.known[i] = who THEN m
  ELSE [m EXCEPT !.known = @ \o <<who>>]

Handle(m0, e, d) ==
  LET m == Know(Know(m0, e.who), IF e.linked THEN e.of ELSE Main)
  IN CASE e.kind = "User" -> Out(m, <<Block("user", Main, e.text)>>)
       [] e.kind = "TaskStart" -> OnTaskStart(m, e, d)
       [] e.kind = "ThinkStart" -> OnThinkStart(m, e)
       [] e.kind = "ThinkDelta" -> OnThinkDelta(m, e, d)
       [] e.kind = "ThinkEnd" -> OnThinkEnd(m, e, d)
       [] e.kind = "TextStart" -> OnTextStart(m)
       [] e.kind = "TextDelta" -> OnTextDelta(m, e)
       [] e.kind = "TextEnd" -> OnTextEnd(m)
       [] e.kind = "Response" -> OnResponse(m, e)
       [] e.kind = "ToolCall" -> OnToolCall(m, e, d)
       [] e.kind = "Output" -> OnOutput(m, e)
       [] e.kind = "BashResult" -> OnBashResult(m)
       [] e.kind = "AgentResult" -> OnAgentResult(m, e, d)
       [] e.kind = "Metadata" -> OnMetadata(m, e)
       [] e.kind = "TaskFinish" -> OnTaskFinish(m, e, d)
       [] e.kind = "Interrupt" -> OnInterrupt(m, e, d)
       [] e.kind = "Error" -> OnError(m, e, d)
       [] e.kind = "ChoreStart" -> OnChoreStart(m, e)
       [] e.kind = "ChoreOutput" -> Out(m, <<Write("AppendTail", e.text)>>)
       [] e.kind = "ChoreEnd" -> OnChoreEnd(m, e)
       [] e.kind = "AsideStart" -> OnAsideStart(m)
       [] e.kind \in {"Aside", "AsideFailed"} -> OnAsideEnd(m, e)

-----------------------------------------------------------------------------
(* The renderer. *)

Closed == [on |-> FALSE, text |-> <<>>]
Opened == [on |-> TRUE, text |-> <<>>]

BlankScreen ==
  [spinner |-> FALSE, printed |-> <<>>,
   reply |-> Closed, thought |-> Closed,   \* the markdown streams
   preview |-> Closed,                     \* thinking below the prompt
   tail |-> Closed]                        \* a command's output below the prompt

StartStream(s) == IF s.on THEN s ELSE Opened
AddTo(s, text) == IF s.on THEN [s EXCEPT !.text = @ \o text] ELSE s

Printed(r, block) == [r EXCEPT !.printed = @ \o <<block>>]

EndReply(r) ==
  LET n == [r EXCEPT !.reply = Closed] IN
  IF r.reply.text = <<>> THEN n ELSE Printed(n, Block("reply", Main, r.reply.text))

EndThought(r, d) ==
  LET n == [r EXCEPT !.thought = Closed] IN
  IF d = "compact" THEN [r EXCEPT !.preview = Closed]
  ELSE IF r.thought.text = <<>> THEN n ELSE Printed(n, Block("thought", Main, r.thought.text))

Carry(r, c, d) ==
  CASE c.do = "SpinnerStart" -> [r EXCEPT !.spinner = TRUE]
    [] c.do = "SpinnerStop" -> [r EXCEPT !.spinner = FALSE]
    [] c.do = "Show" -> Printed(r, c)
    [] c.do = "StartReply" -> [r EXCEPT !.reply = StartStream(@)]
    [] c.do = "AppendReply" -> [r EXCEPT !.reply = AddTo(@, c.text)]
    [] c.do = "EndReply" -> EndReply(r)
    [] c.do = "StartThought" -> IF d = "compact" THEN [r EXCEPT !.preview = Opened]
                                ELSE [r EXCEPT !.thought = StartStream(@)]
    [] c.do = "AppendThought" -> IF d = "compact" THEN [r EXCEPT !.preview = AddTo(@, c.text)]
                                 ELSE [r EXCEPT !.thought = AddTo(@, c.text)]
    [] c.do = "EndThought" -> EndThought(r, d)
    [] c.do = "StartTail" -> [r EXCEPT !.tail = Opened]
    [] c.do = "AppendTail" -> [r EXCEPT !.tail = AddTo(StartStream(@), c.text)]
    [] c.do = "EndTail" -> [r EXCEPT !.tail = Closed]

Execute(r, commands, d) ==
  LET after[i \in 0 .. Len(commands)] == IF i = 0 THEN r ELSE Carry(after[i - 1], commands[i], d)
  IN after[Len(commands)]

-----------------------------------------------------------------------------
(* The tape and the painting of a screen from it. *)

Deltas == {"ThinkDelta", "TextDelta", "Output", "ChoreOutput"}

(* Deltas that follow one another are one event, with the time of the last. *)
Record(s, e) ==
  LET last == s.items[Len(s.items)]
      merges == e.kind \in Deltas /\ s.open /\ last.kind = e.kind /\ last.who = e.who
  IN [open |-> e.kind \in Deltas,
      items |-> IF merges
                THEN [s.items EXCEPT ![Len(s.items)] = [e EXCEPT !.text = last.text \o e.text]]
                ELSE s.items \o <<e>>]

Before(items, i) == SubSeq(items, 1, i - 1)

(* A turn that was taken back is hidden: from the nearest prompt, if it is the
   one, to the mark. *)
ApplyRetractions(items) ==
  LET Prompts(s) == {i \in DOMAIN s : s[i].kind = "User"}
      Hide(s, e) ==
        IF Prompts(s) = {} THEN s
        ELSE LET i == CHOOSE i \in Prompts(s) : \A j \in Prompts(s) : j <= i
             IN IF s[i].text = e.text THEN Before(s, i) ELSE s
      result[i \in 0 .. Len(items)] ==
        IF i = 0 THEN <<>>
        ELSE IF items[i].kind = "Retracted" THEN Hide(result[i - 1], items[i])
        ELSE result[i - 1] \o <<items[i]>>
  IN result[Len(items)]

IsSpinner(c) == c.do \in {"SpinnerStart", "SpinnerStop"}

(* The tail of a running command is not cleared (reset_replay_state). *)
Wiped(r) == [BlankScreen EXCEPT !.tail = r.tail]

Rebuild(r, items, d) ==
  LET at[i \in 0 .. Len(items)] ==
        IF i = 0 THEN [m |-> NoMachine, r |-> Wiped(r)]
        ELSE LET was == at[i - 1]
                 h == Handle(was.m, items[i], d)
             IN [m |-> h.m, r |-> Execute(was.r, SelectSeq(h.out, LAMBDA c : ~IsSpinner(c)), d)]
      last == at[Len(items)]
  IN [m |-> last.m, s |-> spool,
      r |-> [last.r EXCEPT !.spinner = AnyTaskActive(last.m) \/ last.m.asides]]

(* Events that stop the spinner for something else than what it is on for. *)
Dims(e) == e.kind \in {"ChoreEnd", "Aside", "AsideFailed"} \/ (e.kind \in {"Error", "Interrupt"} /\ e.who # Main)

(* consume_envelope, for all that has been published together. *)
Consumed(list) ==
  LET at[i \in 0 .. Len(list)] ==
        IF i = 0 THEN [m |-> machine, r |-> screen, s |-> spool]
        ELSE LET was == at[i - 1]
                 e == list[i]
                 h == Handle(was.m, e, detail)
                 taped == Record(was.s, e)
             IN IF e.kind = "Retracted"
                THEN [Rebuild(was.r, ApplyRetractions(taped.items), detail) EXCEPT !.s = [taped EXCEPT !.open = FALSE]]
                ELSE [m |-> h.m, r |-> Execute(was.r, h.out, detail), s |-> taped]
  IN at[Len(list)]

Consume ==
  /\ inbox # <<>> /\ inbox' = <<>>
  /\ \E last \in {Consumed(inbox)} : machine' = last.m /\ screen' = last.r /\ spool' = last.s
  /\ dim' = (~screen'.spinner /\ (dim \/ \E i \in DOMAIN inbox : Dims(inbox[i])))
  /\ UNCHANGED <<detail, turnVars, kidVars, besideVars>>

-----------------------------------------------------------------------------
(* What happens: the events the server publishes, and the keys.  The server  *)
(* does not look at the display, so that it may wait for it here.             *)

Publish(list) == inbox = <<>> /\ inbox' = list /\ UNCHANGED displayVars

DisplayInit ==
  /\ about \in {"talk", "shell", "batch", "aside"}
  /\ inbox = <<>> /\ phase = "rest" /\ prompts = 0 /\ said = <<>> /\ mused = 0
  /\ reply = [n |-> 0, deltas |-> 0, on |-> FALSE]
  /\ shell = [used |-> FALSE, n |-> 0, late |-> FALSE]
  /\ kid = [k \in Members |-> "none"] /\ answered = {} /\ doomed = {} /\ strays = {}
  /\ aside = "none" /\ chore = "none" /\ dim = FALSE
  /\ spool = [items |-> <<>>, open |-> FALSE] /\ detail = "compact"
  /\ machine = NoMachine /\ screen = BlankScreen

\* Ctrl+O; a refresh does what two of them do.
PaintAgain ==
  /\ inbox = <<>> /\ Len(screen.tail.text) < MaxTail
  /\ detail' = IF detail = "compact" THEN "full" ELSE "compact"
  /\ \E built \in {Rebuild(screen, ApplyRetractions(spool.items), detail')} :
       machine' = built.m /\ screen' = built.r
  /\ spool' = [spool EXCEPT !.open = FALSE]
  /\ dim' = (chore = "compaction" /\ ~screen'.spinner)
  /\ UNCHANGED <<inbox, turnVars, kidVars, besideVars>>

Prompt ==
  /\ phase = "rest" /\ prompts < (IF about = "talk" THEN MaxPrompts ELSE 1) /\ chore \notin {"bash", "compaction"} /\ doomed = {}
  /\ prompts' = prompts + 1 /\ phase' = "turn"
  /\ Publish(<<Said("User", <<prompts + 1>>), Event("TaskStart", Main)>>)
  /\ UNCHANGED <<about, reply, said, mused, shell, kidVars, besideVars>>

Thinking == phase = "thinking"
StopThinking == Only(Thinking, <<Event("ThinkEnd", Main)>>)
StopText == Only(reply.on, <<Event("TextEnd", Main)>>)

Think ==
  /\ about = "talk" /\ phase \in {"turn", "thinking"} /\ ~reply.on /\ mused < MaxPieces
  /\ phase' = "thinking" /\ mused' = mused + 1
  /\ Publish(Only(~Thinking, <<Event("ThinkStart", Main)>>) \o <<Said("ThinkDelta", <<mused + 1>>)>>)
  /\ UNCHANGED <<about, prompts, reply, said, shell, kidVars, besideVars>>

Say ==
  /\ about \in {"talk", "shell"} /\ phase \in {"turn", "thinking"}
  /\ IF reply.on THEN reply.deltas < MaxPieces ELSE reply.n < MaxReplies
  /\ LET r == IF reply.on THEN [reply EXCEPT !.deltas = @ + 1]
              ELSE [n |-> reply.n + 1, deltas |-> 1, on |-> TRUE]
          piece == <<r.n, r.deltas>>
     IN /\ reply' = r /\ said' = said \o <<piece>> /\ phase' = "turn"
        /\ Publish(StopThinking \o Only(~reply.on, <<Event("TextStart", Main)>>)
                     \o <<Said("TextDelta", <<piece>>)>>)
  /\ UNCHANGED <<about, prompts, mused, shell, kidVars, besideVars>>

(* The complete message.  A reply that was not streamed comes with it. *)
Complete ==
  /\ phase \in {"turn", "thinking"}
  /\ LET piece == <<reply.n + 1, 1>>
          whole == SelectSeq(said, LAMBDA p : p[1] = reply.n)
     IN IF reply.on
        THEN /\ Publish(StopText \o <<Said("Response", whole)>>)
             /\ reply' = [reply EXCEPT !.on = FALSE] /\ UNCHANGED said
        ELSE /\ reply.n < MaxReplies /\ (said = <<>> \/ LateUnstreamed)
             /\ Publish(StopThinking \o <<Said("Response", <<piece>>)>>)
             /\ reply' = [n |-> reply.n + 1, deltas |-> 1, on |-> FALSE]
             /\ said' = said \o <<piece>>
  /\ phase' = "said"
  /\ UNCHANGED <<about, prompts, mused, shell, kidVars, besideVars>>

(* A tool call ends the streams of its message. *)
CallBash ==
  /\ about = "shell" /\ phase \in {"turn", "thinking"} /\ ~shell.used
  /\ phase' = "bash" /\ reply' = [reply EXCEPT !.on = FALSE]
  /\ shell' = [shell EXCEPT !.used = TRUE]
  /\ Publish(StopThinking \o StopText
               \o <<Said("Response", IF reply.on THEN SelectSeq(said, LAMBDA p : p[1] = reply.n) ELSE <<>>),
                   [Event("ToolCall", Main) EXCEPT !.of = "bash"]>>)
  /\ UNCHANGED <<about, prompts, said, mused, kidVars, besideVars>>

ThreeSeconds ==
  /\ phase = "bash" /\ ~shell.late /\ shell' = [shell EXCEPT !.late = TRUE]
  /\ UNCHANGED <<about, phase, prompts, reply, said, mused, kidVars, besideVars, displayVars, inbox>>

CommandWrites ==
  /\ phase = "bash" /\ shell.n < MaxPieces
  /\ shell' = [shell EXCEPT !.n = @ + 1]
  /\ Publish(<<[Said("Output", <<shell.n + 1>>) EXCEPT !.of = "bash", !.status = IF shell.late THEN "late" ELSE "early"]>>)
  /\ UNCHANGED <<about, phase, prompts, reply, said, mused, kidVars, besideVars>>

BashResult(status) == Went("BashResult", Main, status)

CommandEnds ==
  /\ phase = "bash" /\ phase' = "turn"
  /\ Publish(<<BashResult("success")>>)
  /\ UNCHANGED <<about, prompts, reply, said, mused, shell, kidVars, besideVars>>

Finish ==
  /\ phase = "said" /\ phase' = "rest"
  /\ Publish(<<Event("Metadata", Main),
               [Went("TaskFinish", Main, "success") EXCEPT !.text = SelectSeq(said, LAMBDA p : p[1] = reply.n)]>>)
  /\ UNCHANGED <<about, prompts, reply, said, mused, shell, kidVars, besideVars>>

(* Between two steps: every try has failed.  Bound: not after a batch. *)
Fail ==
  /\ phase = "turn" /\ ~reply.on /\ answered = {} /\ phase' = "rest"
  /\ Publish(<<Event("Error", Main)>>)
  /\ UNCHANGED <<about, prompts, reply, said, mused, shell, kidVars, besideVars>>

-----------------------------------------------------------------------------
(* The children of a batch. *)

AgentResult(k, status, linked) == [Went("AgentResult", Main, status) EXCEPT !.of = k, !.linked = linked]

CallAgents ==
  /\ about = "batch" /\ phase = "turn" /\ kid = [k \in Members |-> "none"]
  /\ phase' = "agents" /\ kid' = [k \in Members |-> "called"]
  /\ Publish(<<Said("Response", <<>>), [Event("ToolCall", Main) EXCEPT !.of = "agent"]>>)
  /\ UNCHANGED <<about, prompts, reply, said, mused, shell, answered, doomed, strays, besideVars>>

KidGoes(k, to, list) ==
  /\ kid' = [kid EXCEPT ![k] = to]
  /\ Publish(list)
  /\ UNCHANGED <<turnVars, answered, doomed, besideVars>>

(* The spawn is recorded: the call's result will name the child. *)
Link(k) ==
  /\ phase = "agents" /\ kid[k] = "called" /\ \A j \in 1 .. k - 1 : kid[j] # "called"
  /\ kid' = [kid EXCEPT ![k] = "linked"]
  /\ UNCHANGED <<inbox, turnVars, answered, doomed, strays, besideVars, displayVars>>

KidStarts(k) ==
  /\ kid[k] = "linked" /\ phase # "stopping"
  /\ KidGoes(k, "runs", <<Event("TaskStart", k)>>)
  /\ strays' = IF phase # "agents" THEN strays \cup {k} ELSE strays

(* Bound: the first one. *)
KidThinks(k) ==
  /\ kid[k] = "runs" /\ k = 1
  /\ KidGoes(k, "thinks", <<Event("ThinkStart", k), Event("ThinkDelta", k)>>) /\ UNCHANGED strays

KidAtWork(k) == kid[k] \in {"runs", "thinks", "thought"}

KidConcludes(k) ==
  /\ kid[k] = "thinks"
  /\ KidGoes(k, "thought", <<Event("ThinkEnd", k)>>) /\ UNCHANGED strays

\* Bound: the last one fails.
KidEnds(k) ==
  /\ KidAtWork(k) /\ kid[k] # "thinks" /\ UNCHANGED strays
  /\ \/ KidGoes(k, "finished", <<Event("Metadata", k), Went("TaskFinish", k, "success")>>)
     \/ k = BatchSize /\ KidGoes(k, "failed", <<Event("Error", k)>>)

(* Somebody interrupts the child.  Bound: the last one, at work. *)
KidInterrupted(k) ==
  /\ phase = "agents" /\ KidAtWork(k) /\ k = BatchSize /\ UNCHANGED strays
  /\ KidGoes(k, "stops", <<Went("Interrupt", k, "notice")>>)

KidStops(k) ==
  /\ kid[k] = "stops" /\ UNCHANGED strays
  /\ KidGoes(k, "finished", <<Went("TaskFinish", k, "cancelled")>>)

Answered(k, to, event) ==
  /\ phase = "agents" /\ k \notin answered
  /\ answered' = answered \cup {k} /\ kid' = [kid EXCEPT ![k] = to]
  /\ phase' = IF answered' = Members THEN "turn" ELSE phase
  /\ Publish(<<event>>)
  /\ UNCHANGED <<about, prompts, reply, said, mused, shell, doomed, strays, besideVars>>

(* The call fails before or after the spawn, without the child; the child's
   operation fails before its turn; the child has ended. *)
AgentAnswers(k) ==
  \/ kid[k] \in {"called", "linked"} /\ Answered(k, "refused", AgentResult(k, "error", FALSE))
  \/ kid[k] = "linked" /\ Answered(k, "lost", AgentResult(k, "error", TRUE))
  \/ kid[k] = "finished" /\ Answered(k, "finished", AgentResult(k, "success", TRUE))
  \/ kid[k] = "failed" /\ Answered(k, "failed", AgentResult(k, "error", TRUE))

(* The interrupt goes down to a child, which may not have started yet. *)
CascadeTo(k) ==
  /\ phase = "rest" /\ k \in doomed /\ (\A j \in 1 .. k - 1 : j \notin doomed /\ kid[j] # "stops")
  /\ doomed' = doomed \ {k}
  /\ kid' = [kid EXCEPT ![k] = IF KidAtWork(k) THEN "stops" ELSE @]
  /\ Publish(<<Went("Interrupt", k, "notice")>>)
  /\ UNCHANGED <<turnVars, answered, strays, besideVars>>

-----------------------------------------------------------------------------
(* What the turn has published so far. *)
SincePrompt ==
  LET items == spool.items
      start == CHOOSE i \in DOMAIN items : items[i].kind = "User" /\ items[i].text = <<prompts>>
  IN {items[i].kind : i \in {j \in DOMAIN items : j > start}}

Fresh == SincePrompt \subseteq {"TaskStart", "ThinkStart", "ThinkDelta", "ThinkEnd"}

(* The results of calls that have none, in the order of the calls. *)
Aborts ==
  LET open == {k \in Members : kid[k] # "none" /\ k \notin answered}
      list[ks \in SUBSET Members] ==
        IF ks = {} THEN <<>>
        ELSE LET k == CHOOSE j \in ks : TRUE
             IN <<AgentResult(k, "aborted", kid[k] # "called")>> \o list[ks \ {k}]
  IN list[open] \o Only(phase = "bash", <<BashResult("aborted")>>)

(* An interrupt of the turn: a turn that has shown nothing may be taken back.
   Bound: not after a batch. *)
Interrupt ==
  /\ inbox = <<>> /\ phase \notin {"rest", "stopping"} /\ answered # Members /\ phase' = "stopping"
  /\ LET list == Aborts \o Only("Response" \in SincePrompt, <<Event("Metadata", Main)>>)
                   \o <<Went("Interrupt", Main, IF Fresh THEN "silent" ELSE "notice")>>
         mark == Said("Retracted", <<prompts>>)
     IN \/ Publish(list)
        \/ Fresh /\ about # "aside" /\ Publish(list \o <<mark>>)
  /\ reply' = [reply EXCEPT !.on = FALSE]
  /\ UNCHANGED <<about, prompts, said, mused, shell, kidVars, besideVars>>

(* Children at work are followed up one after the other, and those of the
   others that have an operation in their mailbox. *)
Stopped ==
  /\ phase = "stopping" /\ phase' = "rest"
  /\ Publish(<<Went("TaskFinish", Main, "cancelled")>>)
  /\ \E S \in SUBSET {k \in Members : kid[k] = "linked"} :
       doomed' = S \cup {k \in Members : KidAtWork(k) \/ kid[k] = "stops"}
  /\ UNCHANGED <<about, prompts, reply, said, mused, shell, kid, answered, strays, besideVars>>

-----------------------------------------------------------------------------
(* A side question, and what the session does besides turns. *)

Beside(list) == Publish(list) /\ UNCHANGED <<turnVars, kidVars>>

AskAside ==
  /\ about = "aside" /\ aside = "none" /\ aside' = "asked"
  /\ Beside(<<Event("AsideStart", Main)>>) /\ UNCHANGED chore

AnswerAside ==
  /\ aside = "asked" /\ aside' = "over"
  /\ \E kind \in {"Aside", "AsideFailed"} : Beside(<<Event(kind, Main)>>)
  /\ UNCHANGED chore

Chore(kind, what) == [Event(kind, Main) EXCEPT !.of = what]

StartChore(what) ==
  /\ about = "aside" /\ chore = "none" /\ phase = "rest" /\ chore' = what
  /\ Beside(<<Chore("ChoreStart", what)>>) /\ UNCHANGED aside

ChoreWrites ==
  /\ chore = "bash" /\ screen.tail.text = <<>>
  /\ Beside(<<Said("ChoreOutput", <<1>>)>>) /\ UNCHANGED besideVars

EndChore ==
  /\ chore \in {"bash", "compaction", "summary"} /\ chore' = "over"
  /\ Beside(<<Chore("ChoreEnd", chore)>>) /\ UNCHANGED aside

DisplayNext ==
  \/ Consume \/ PaintAgain
  \/ Prompt \/ Think \/ Say \/ Complete \/ CallBash \/ ThreeSeconds \/ CommandWrites \/ CommandEnds
  \/ Finish \/ Fail \/ CallAgents \/ Interrupt \/ Stopped
  \/ \E k \in Members :
       \/ Link(k) \/ KidStarts(k) \/ KidThinks(k) \/ KidConcludes(k) \/ KidEnds(k) \/ KidInterrupted(k)
       \/ KidStops(k) \/ AgentAnswers(k) \/ CascadeTo(k)
  \/ AskAside \/ AnswerAside \/ ChoreWrites \/ EndChore
  \/ \E what \in {"bash", "compaction", "summary"} : StartChore(what)

DisplaySpec == DisplayInit /\ [][DisplayNext]_vars

-----------------------------------------------------------------------------
DisplayTypeOK ==
  /\ about \in {"talk", "shell", "batch", "aside"} /\ prompts \in 0 .. MaxPrompts
  /\ phase \in {"rest", "turn", "thinking", "said", "bash", "agents", "stopping"}
  /\ mused \in 0 .. MaxPieces
  /\ reply \in [n : 0 .. MaxReplies, deltas : 0 .. MaxPieces, on : BOOLEAN]
  /\ shell \in [used : BOOLEAN, n : 0 .. MaxPieces, late : BOOLEAN]
  /\ kid \in [Members -> {"none", "called", "linked", "refused", "lost", "runs", "thinks", "thought",
                          "stops", "finished", "failed"}]
  /\ answered \subseteq Members /\ doomed \subseteq Members /\ strays \subseteq Members
  /\ aside \in {"none", "asked", "over"} /\ chore \in {"none", "bash", "compaction", "summary", "over"}
  /\ dim \in BOOLEAN /\ detail \in {"compact", "full"}

Concat(list) ==
  LET all[i \in 0 .. Len(list)] == IF i = 0 THEN <<>> ELSE all[i - 1] \o list[i].text IN all[Len(list)]
Blocks(what) == SelectSeq(screen.printed, LAMBDA b : b.what = what)

(* Every piece of a reply the server has published is on the screen, once    *)
(* and in order, whether it came as a delta or with the complete message,    *)
(* and whatever the detail was changed to in between (OnResponse, Record,    *)
(* Rebuild). *)
RepliesShown == inbox = <<>> => Concat(Blocks("reply")) \o screen.reply.text = said

(* Painting the screen again from the tape gives what it shows already, and  *)
(* the machine the state it has (TUIDisplay._render_events_to_scrollback):   *)
(* the tape, its merged deltas and its hidden turns lose nothing. *)
RepaintAgrees ==
  inbox = <<>> => LET built == Rebuild(screen, ApplyRetractions(spool.items), detail) IN
  /\ built.m = machine
  /\ built.r = [screen EXCEPT !.spinner = built.r.spinner, !.tail = built.r.tail]

Summarised(k) == Cardinality({i \in DOMAIN Blocks("summary") : k \in Blocks("summary")[i].text[1]})

(* In compact detail a child's work is seen in the summary of its batch and  *)
(* nowhere else: no child is summarised twice, and once the turn is over     *)
(* every child that ran has been, unless a member of the batch was announced *)
(* and never started, or started after it had been given up. *)
BatchSummarised ==
  detail = "compact" =>
    \A k \in Members :
      /\ Summarised(k) <= 1
      /\ inbox = <<>> /\ phase = "rest" /\ strays = {} /\ (\A j \in Members : kid[j] \notin {"linked", "lost"})
           => (k \in machine.sub => Summarised(k) = 1)

(* The spinner turns while the turn, a command, a compaction or a side       *)
(* question is on, unless the end of something else has stopped it, and it   *)
(* does not turn when nothing is on. *)
Busy == phase \notin {"rest", "stopping"} \/ chore \in {"bash", "compaction"} \/ aside = "asked"
SpinnerTruth ==
  inbox = <<>> =>
  /\ Busy /\ ~dim => screen.spinner
  /\ phase = "rest" /\ ~Busy /\ chore # "summary" /\ strays = {} => ~screen.spinner
=============================================================================
