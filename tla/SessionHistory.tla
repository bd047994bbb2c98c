--------------------------- MODULE SessionHistory ---------------------------
(***************************************************************************)
(* The history of one session, in memory and on disk.  session.py appends  *)
(* to conversation_history and to events.jsonl; a rewind, a retraction and *)
(* a compaction cut the list in memory and leave a marker in the file, and *)
(* history.py replays the markers when the session is loaded again.        *)
(* Indices are the code's: a cut c keeps the items from c + 1 on.          *)
(***************************************************************************)
EXTENDS Naturals, SequencesExt

CONSTANTS
  Texts,        \* texts of user messages
  MaxRaw        \* bound: entries of events.jsonl

VARIABLES
  raw,          \* events.jsonl
  live,         \* Session.conversation_history
  nextId,       \* Session.next_checkpoint_id
  call,         \* the tool call whose result the turn waits for, or 0
  stepped,      \* the last step ran a tool (TaskExecutor looks at the managers then)
  shifted       \* history: a compaction or a rewind was made on a list a load had cut

vars == <<raw, live, nextId, call, stepped, shifted>>

(* One shape for every entry: a user text, a tool call or checkpoint number,
   the first kept index of a compaction. *)
Item(kind, text, n) == [kind |-> kind, text |-> text, n |-> n]
User(t) == Item("user", t, 0)
Assistant(n) == Item("assistant", "", n)
Result(n) == Item("result", "", n)
Checkpoint(n) == Item("checkpoint", "", n)
RewindEntry(n) == Item("rewind", "", n)
RetractEntry(t) == Item("retract", t, 0)
Compaction(cut) == Item("compaction", "", cut)
Interrupted(n) == Item("aborted", "", n)

Drop(h, c) == SubSeq(h, c + 1, Len(h))
Take(h, c) == SubSeq(h, 1, c)
IndicesOf(h, P(_)) == {i \in 1 .. Len(h) : P(h[i])}
IsCompaction(x) == x.kind = "compaction"
NotCompaction(x) == x.kind # "compaction"

(* find_checkpoint_index_in_history: the first match, 0 when there is none. *)
CheckpointAt(h, n) ==
  LET found == IndicesOf(h, LAMBDA x : x = Checkpoint(n))
  IN IF found = {} THEN 0 ELSE Min(found)

LastUser(h) ==
  LET found == IndicesOf(h, LAMBDA x : x.kind = "user")
  IN IF found = {} THEN 0 ELSE Max(found)

-----------------------------------------------------------------------------
(* Loading. *)

Rewound(h, entry) ==
  LET i == CheckpointAt(h, entry.n)
  IN Append(IF i = 0 THEN h ELSE Take(h, i), entry)

(* Mutant: the message is removed, and what came after it too. *)
RetractedToEnd(h, entry) ==
  LET i == LastUser(h)
  IN IF i # 0 /\ h[i].text = entry.text THEN Append(Take(h, i - 1), entry) ELSE Append(h, entry)

Retracted(h, entry) ==
  LET i == LastUser(h)
  IN Append(IF i # 0 /\ h[i].text = entry.text THEN Take(h, i - 1) \o Drop(h, i) ELSE h, entry)

Replayed(h, x) ==
  CASE x.kind = "rewind" -> Rewound(h, x)
    [] x.kind = "retract" -> Retracted(h, x)
    [] OTHER -> Append(h, x)

Active(r) == FoldLeft(Replayed, <<>>, r)

LastCompaction(h) ==
  LET found == IndicesOf(h, IsCompaction)
  IN IF found = {} THEN 0 ELSE Max(found)

(* rebuild_loaded_history: the markers replayed, then cut at the last
   compaction, whose own index becomes 1. *)
Rebuilt(r) ==
  LET h == Active(r)
      c == LastCompaction(h)
  IN IF c = 0 THEN h
     ELSE <<Compaction(1)>> \o SelectSeq(Drop(h, h[c].n), NotCompaction)

-----------------------------------------------------------------------------
(* What the model is sent. *)

LeadingResults(h) ==
  LET others == IndicesOf(h, LAMBDA x : x.kind # "result")
  IN IF others = {} THEN Len(h) ELSE Min(others) - 1

(* _strip_dangling_tool_calls: an unanswered call gets an aborted result. *)
Answered(h) == {h[i].n : i \in IndicesOf(h, LAMBDA x : x.kind = "result")}

Stripped(h) ==
  FlattenSeq([i \in 1 .. Len(h) |->
    IF h[i].kind = "assistant" /\ h[i].n # 0 /\ h[i].n \notin Answered(h)
    THEN <<h[i], Interrupted(h[i].n)>> ELSE <<h[i]>>])

(* get_llm_history; markers that are no messages are not sent, a rewind is
   sent as a reminder. *)
View(h) ==
  LET c == LastCompaction(h)
      start == IF h[c].n > Len(h) THEN c ELSE h[c].n
      kept == SelectSeq(Drop(h, start), NotCompaction)
      sent == IF c = 0 THEN h ELSE <<Item("summary", "", 0)>> \o Drop(kept, LeadingResults(kept))
  IN Stripped(SelectSeq(sent, LAMBDA x : x.kind # "retract"))

-----------------------------------------------------------------------------
(* Where a compaction may cut: run_compaction with _find_cut_index,
   _adjust_cut_index and _avoid_splitting_tool_step.  Which message crosses
   the token budget is left open. *)

IsResult(h, c) == c < Len(h) /\ h[c + 1].kind = "result"
IsAnchor(x) == x.kind \in {"user", "assistant"}
IsMessage(x) == x.kind \in {"user", "assistant", "checkpoint", "result"}

Base(h) == LET c == LastCompaction(h) IN IF c = 0 THEN 0 ELSE h[c].n

Candidates(h) ==
  {c \in Base(h) .. Len(h) - 1 : IsMessage(h[c + 1]) /\ ~IsResult(h, c)}
    \cup (IF Base(h) < Len(h) THEN {Base(h)} ELSE {})

PastResults(h, c) ==
  IF ~IsResult(h, c) THEN c
  ELSE LET on == {d \in c .. Len(h) - 1 : ~IsResult(h, d)}
       IN IF on = {} THEN c ELSE Min(on)

AtAnchor(h, c) ==
  IF h[c + 1].kind # "checkpoint" THEN c
  ELSE LET after == {d \in c + 1 .. Len(h) - 1 : IsAnchor(h[d + 1])}
           before == {d \in 0 .. c - 1 : IsAnchor(h[d + 1])}
       IN IF after # {} THEN Min(after) ELSE IF before # {} THEN Max(before) ELSE c

NotSplitting(h, c) ==
  LET before == {d \in Base(h) .. c - 1 : h[d + 1].kind = "assistant"}
      last == Max(before)
      n == h[last + 1].n
  IN IF c <= Base(h) \/ before = {} THEN c
     ELSE IF n # 0 /\ n \notin Answered(Take(h, c)) THEN last ELSE c

Cuts(h) == {c \in {NotSplitting(h, AtAnchor(h, PastResults(h, d))) : d \in Candidates(h)} :
              c > Base(h)}

-----------------------------------------------------------------------------
Init ==
  /\ raw = <<>> /\ live = <<>> /\ nextId = 0 /\ call = 0
  /\ stepped = FALSE /\ shifted = FALSE

(* An earlier load has cut the list: its indices are no longer the file's. *)
Cut == Len(live) # Len(Active(raw))

Room(k) == Len(raw) + k <= MaxRaw

Record(items) == raw' = raw \o items /\ live' = live \o items

(* A turn starts: the message, then the task's checkpoint. *)
BeginTurn(t) ==
  /\ call = 0 /\ Room(2)
  /\ Record(<<User(t), Checkpoint(nextId)>>)
  /\ nextId' = nextId + 1 /\ stepped' = FALSE
  /\ UNCHANGED <<call, shifted>>

Answer ==
  /\ call = 0 /\ live # <<>> /\ Room(1)
  /\ Record(<<Assistant(0)>>)
  /\ stepped' = FALSE
  /\ UNCHANGED <<nextId, call, shifted>>

CallTool ==
  /\ call = 0 /\ live # <<>> /\ Room(1)
  /\ call' = Len(raw) + 1
  /\ Record(<<Assistant(Len(raw) + 1)>>)
  /\ stepped' = FALSE
  /\ UNCHANGED <<nextId, shifted>>

ToolResult ==
  /\ call # 0 /\ Room(1)
  /\ Record(<<Result(call)>>)
  /\ call' = 0 /\ stepped' = TRUE
  /\ UNCHANGED <<nextId, shifted>>

(* revert_to_checkpoint, after the step whose tool asked for it. *)
Rewind(n) ==
  /\ call = 0 /\ Room(1) /\ n < nextId
  /\ stepped
  /\ CheckpointAt(live, n) # 0
  /\ live' = Append(Take(live, CheckpointAt(live, n)), RewindEntry(n))
  /\ raw' = Append(raw, RewindEntry(n))
  /\ nextId' = n + 1 /\ stepped' = FALSE
  /\ shifted' = (shifted \/ Cut)
  /\ UNCHANGED call

(* retract_last_user_message: the turn was interrupted before it showed
   anything, so nothing of the model follows the message. *)
Retract(t) ==
  /\ call = 0 /\ Room(1)
  /\ LET i == LastUser(live) IN
       /\ i # 0 /\ live[i].text = t
       /\ \A j \in i + 1 .. Len(live) : live[j].kind \in {"checkpoint", "compaction"}
       /\ live' = Append(Take(live, i - 1) \o Drop(live, i), RetractEntry(t))
  /\ raw' = Append(raw, RetractEntry(t))
  /\ stepped' = FALSE
  /\ UNCHANGED <<nextId, call, shifted>>

(* A compaction, or a handoff, which keeps nothing. *)
Compact ==
  /\ call = 0 /\ Room(1) /\ live # <<>>
  /\ \E c \in Cuts(live) \cup {Len(live)} : Record(<<Compaction(c)>>)
  /\ shifted' = (shifted \/ Cut) /\ stepped' = FALSE
  /\ UNCHANGED <<nextId, call>>

(* The server restarts, in the middle of a turn perhaps, or another client of
   the store loads the session. *)
Load ==
  /\ live # Rebuilt(raw) \/ call # 0
  /\ live' = Rebuilt(raw)
  /\ call' = 0 /\ stepped' = FALSE
  /\ UNCHANGED <<raw, nextId, shifted>>

Next ==
  \/ \E t \in Texts : BeginTurn(t) \/ Retract(t)
  \/ Answer \/ CallTool \/ ToolResult \/ Compact \/ Load
  \/ \E n \in 0 .. MaxRaw : Rewind(n)

Spec == Init /\ [][Next]_vars

-----------------------------------------------------------------------------
Kinds == {"user", "assistant", "result", "checkpoint", "rewind", "retract", "compaction"}

(* Types. *)
TypeOK ==
  /\ \A h \in {raw, live} : \A i \in 1 .. Len(h) :
       h[i].kind \in Kinds /\ h[i].text \in Texts \cup {""} /\ h[i].n \in 0 .. MaxRaw
  /\ Len(raw) <= MaxRaw /\ nextId \in 0 .. MaxRaw /\ call \in 0 .. MaxRaw
  /\ stepped \in BOOLEAN /\ shifted \in BOOLEAN

(* A session loaded again sends the model what the running one would have
   sent, whatever was rewound, retracted or compacted. *)
SameView == View(live) = View(Rebuilt(raw))

(* SameView, as long as nothing was compacted or rewound on a list that an
   earlier load had already cut at a compaction. *)
ReloadKeepsView == ~shifted => SameView

(* Every tool result the model is sent follows its call, and every call is
   followed by exactly one result, real or synthetic: what the providers
   demand.  While a tool runs nothing is sent. *)
WellPaired ==
  call = 0 =>
    LET v == View(live)
        answers(n) == IndicesOf(v, LAMBDA x : x.kind \in {"result", "aborted"} /\ x.n = n)
    IN \A i \in 1 .. Len(v) :
         /\ v[i].kind = "assistant" /\ v[i].n # 0 =>
              Cardinality(answers(v[i].n)) = 1 /\ \A j \in answers(v[i].n) : j > i
         /\ v[i].kind = "result" =>
              \E j \in 1 .. i - 1 : v[j] = Assistant(v[i].n)
=============================================================================
