------------------------------ MODULE FileEdits ------------------------------
(* One text file of a workspace, between the tools of a session and whoever  *)
(* else writes it.  A tool may change a file only if the tracker's entry     *)
(* says the model has seen what is there: the entry is made by the tools,    *)
(* by shell commands that look like a read, and by the attachments of a      *)
(* turn (tool/file, tool/shell/file_tracking.py, agent/attachments).  The    *)
(* tools of a session run one after another; every read and write of a tool  *)
(* is a thread's, and other programs write the file at any time.             *)
EXTENDS Naturals

CONSTANTS
  Contents,     \* texts of the file
  Gone,         \* there is no file
  NoText,       \* no hash, no cached text, nothing to write
  OldSessions   \* a session of an older version may have left its entry

VARIABLES
  file,         \* the text on disk
  entry,        \* file_tracker[path]
  tool,         \* the tool call, or attachment, at work
  late,         \* what the thread of a cancelled tool has still to write
  belief,       \* history: the text the model takes the file to have
  hidden,       \* history: how the entry came to follow a text the model was not shown
  slipped,      \* history: the entry's mtime is that of a later write than its hash
  replaced      \* history: what the tool that has just written replaced

fileVars == <<file, entry, tool, late, belief, hidden, slipped, replaced>>

NoEntry == [known |-> FALSE, sha |-> NoText, same |-> FALSE, cached |-> NoText, full |-> FALSE]
Idle == [pc |-> "idle", kind |-> "none", got |-> NoText, after |-> NoText, old |-> NoText,
         raced |-> FALSE]

Causes == {"check", "shell", "patch", "gone"}
Kinds == {"full", "part", "check", "edit", "write", "cat", "sed", "patch"}
Changing == {"edit", "write", "patch"}

(* Types. *)
FileTypeOK ==
  /\ file \in Contents \cup {Gone}
  /\ entry \in [known : BOOLEAN, sha : Contents \cup {NoText}, same : BOOLEAN,
                cached : Contents \cup {NoText}, full : BOOLEAN]
  /\ tool \in [pc : {"idle", "reads", "has", "writes", "wrote"}, kind : Kinds \cup {"none"},
               got : Contents \cup {NoText}, after : Contents \cup {NoText},
               old : Contents \cup {NoText}, raced : BOOLEAN]
  /\ late \in [kind : Changing \cup {"none"}, text : Contents \cup {NoText}]
  /\ belief \in Contents \cup {NoText} /\ hidden \in Causes \cup {"no"} /\ slipped \in BOOLEAN
  /\ replaced \in Causes \cup {"nothing", "known", "raced", "slipped", "blind"}

(* The file is new to the session, or an old session kept its mtime only. *)
FileInit ==
  /\ file \in Contents \cup {Gone}
  /\ \/ entry = NoEntry /\ belief = NoText
     \/ OldSessions /\ file # Gone /\ entry = [NoEntry EXCEPT !.known = TRUE, !.same = TRUE] /\ belief = file
  /\ tool = Idle /\ late = [kind |-> "none", text |-> NoText]
  /\ hidden = "no" /\ slipped = FALSE /\ replaced = "nothing"

Exists == file # Gone
Hashed == entry.known /\ entry.sha # NoText

(* A new FileStatus with the mtime of now; same: the file's mtime is the entry's. *)
Tracked(sha, cached, full) ==
  [known |-> TRUE, sha |-> sha, same |-> TRUE, cached |-> cached, full |-> full]
Written(text) == file' = text /\ entry' = [entry EXCEPT !.same = FALSE]
Believes(text, sha, cause) == belief' = text /\ hidden' = IF sha = text THEN "no" ELSE cause

-----------------------------------------------------------------------------
(* The others. *)

(* history: the file changed after the tool had read it. *)
Raced == tool' = [tool EXCEPT !.raced = @ \/ tool.pc \in {"has", "writes"}]

(* Another program writes, touches or deletes the file; it may put the old
   mtime back. *)
OtherWrites(text, keepsTime) ==
  /\ text # Gone \/ Exists
  /\ file' = text
  /\ IF keepsTime /\ text # Gone /\ Exists
     THEN UNCHANGED entry /\ slipped' = (slipped \/ (entry.known /\ entry.same))
     ELSE entry' = [entry EXCEPT !.same = FALSE] /\ UNCHANGED slipped
  /\ Raced
  /\ UNCHANGED <<late, belief, hidden, replaced>>

(* The server restarts: cached_content is not saved with the tracker. *)
Restart ==
  /\ tool.pc = "idle"
  /\ entry' = [entry EXCEPT !.cached = NoText]
  /\ late' = [kind |-> "none", text |-> NoText]
  /\ UNCHANGED <<file, tool, belief, hidden, slipped, replaced>>

-----------------------------------------------------------------------------
(* Reading. *)

(* What makes ReadTool answer that the file is unchanged. *)
StubDue == Exists /\ Hashed /\ entry.full /\ entry.same

(* What makes the attachment of an @ reference say so. *)
InContext == Exists /\ Hashed /\ (entry.same \/ file = entry.sha)

(* Read, or an @ reference, of the whole file; part of it. *)
BeginRead(kind) ==
  /\ tool.pc = "idle" /\ Exists
  /\ kind = "full" => ~StubDue
  /\ tool' = [Idle EXCEPT !.pc = "reads", !.kind = kind]
  /\ UNCHANGED <<file, entry, late, belief, hidden, slipped, replaced>>

(* file_changed_externally_attachment, at the start of every step. *)
Changed == IF entry.sha # NoText THEN file # entry.sha ELSE ~entry.same

BeginCheck ==
  /\ tool.pc = "idle" /\ Exists /\ entry.known
  /\ Changed /\ ~StubDue
  /\ tool' = [Idle EXCEPT !.pc = "reads", !.kind = "check", !.old = entry.cached]
  /\ UNCHANGED <<file, entry, late, belief, hidden, slipped, replaced>>

(* The thread, or the command, reads the file. *)
Reads ==
  /\ tool.pc = "reads"
  /\ tool' = IF Exists THEN [tool EXCEPT !.pc = "has", !.got = file]
             ELSE IF tool.kind = "write" THEN [tool EXCEPT !.pc = "has"] ELSE Idle
  /\ UNCHANGED <<file, entry, late, belief, hidden, slipped, replaced>>

(* Mutant: the hash, too, is taken when the entry is made. *)
EntryOfNow(cached) == Tracked(file, cached, tool.kind # "part")

(* What the tracker keeps of a read: the hash of what was read, the text
   and the mtime of what is there now.  A long text is not cached. *)
EntryRead(cached) == Tracked(tool.got, cached, tool.kind # "part")

EndRead ==
  /\ tool.pc = "has" /\ tool.kind \in {"full", "part"} /\ tool' = Idle
  /\ IF Exists
     THEN /\ \E cached \in {NoText} \cup (IF tool.kind = "full" THEN {file} ELSE {}) :
               entry' = EntryRead(cached)
          /\ Believes(tool.got, tool.got, "check") /\ slipped' = (file # entry'.sha)
     ELSE Believes(tool.got, entry.sha, "gone") /\ UNCHANGED <<entry, slipped>>
  /\ UNCHANGED <<file, late, replaced>>

(* The attachment tells the model what changed, if it has both texts. *)
EndCheck ==
  /\ tool.pc = "has" /\ tool.kind = "check" /\ tool' = Idle
  /\ IF Exists
     THEN \E cached \in {NoText, file} :
            /\ entry' = EntryRead(cached)
            /\ slipped' = (file # entry'.sha)
            /\ Believes(IF NoText \notin {tool.old, cached} /\ tool.old # cached
                        THEN cached ELSE belief, tool.got, "check")
     ELSE UNCHANGED <<entry, belief, hidden, slipped>>
  /\ UNCHANGED <<file, late, replaced>>

-----------------------------------------------------------------------------
(* Changing. *)

BeginEdit ==
  /\ tool.pc = "idle" /\ Exists /\ entry.known
  /\ tool' = [Idle EXCEPT !.pc = "reads", !.kind = "edit"]
  /\ UNCHANGED <<file, entry, late, belief, hidden, slipped, replaced>>

(* Write asks for an entry only if there is a file. *)
BeginWrite(text) ==
  /\ tool.pc = "idle" /\ (Exists => entry.known)
  /\ tool' = [Idle EXCEPT !.pc = IF Exists THEN "reads" ELSE "writes", !.kind = "write",
                          !.after = text]
  /\ UNCHANGED <<file, entry, late, belief, hidden, slipped, replaced>>

(* The patch is worked out and written in one thread, and asks for nothing. *)
BeginPatch ==
  /\ tool.pc = "idle" /\ Exists
  /\ tool' = [Idle EXCEPT !.pc = "reads", !.kind = "patch"]
  /\ UNCHANGED <<file, entry, late, belief, hidden, slipped, replaced>>

Unchanged == IF entry.sha # NoText /\ tool.got # NoText THEN tool.got = entry.sha
             ELSE entry.same \/ ~Exists

(* The check, and the text to write. *)
Checks(text) ==
  /\ tool.pc = "has" /\ tool.kind \in Changing
  /\ tool.kind \in {"edit", "patch"} => text # tool.got
  /\ tool.kind = "write" => text = tool.after
  /\ tool' = IF tool.kind = "patch" \/ Unchanged
             THEN [tool EXCEPT !.pc = "writes", !.after = text] ELSE Idle
  /\ UNCHANGED <<file, entry, late, belief, hidden, slipped, replaced>>

(* What a write of the tool does to the texts of others. *)
Replaces ==
  CASE ~Exists -> "nothing"
    [] Exists /\ file = belief -> "known"
    [] Exists /\ file # belief /\ tool.raced -> "raced"
    [] OTHER -> IF hidden # "no" THEN hidden ELSE IF slipped THEN "slipped" ELSE "blind"

(* write_text; a patch makes its entry in the thread. *)
Writes ==
  /\ tool.pc = "writes" /\ tool.kind \in {"edit", "write"}
  /\ Written(tool.after) /\ replaced' = Replaces
  /\ tool' = [tool EXCEPT !.pc = "wrote"]
  /\ UNCHANGED <<late, belief, hidden, slipped>>

PatchWrites ==
  /\ tool.pc = "writes" /\ tool.kind = "patch"
  /\ file' = tool.after /\ entry' = Tracked(tool.after, tool.after, FALSE) /\ slipped' = FALSE
  /\ Believes(IF belief = tool.got THEN tool.after ELSE belief, tool.after, "patch")
  /\ tool' = Idle
  /\ UNCHANGED <<late, replaced>>

(* The result, and the entry with the mtime of now; without a file, no entry. *)
EndWrite ==
  /\ tool.pc = "wrote" /\ tool.kind \in {"edit", "write"} /\ tool' = Idle
  /\ replaced' = "nothing"
  /\ IF Exists
     THEN /\ entry' = Tracked(tool.after, tool.after, FALSE)
          /\ Believes(tool.after, tool.after, "check") /\ slipped' = (file # tool.after)
     ELSE Believes(tool.after, entry.sha, "gone") /\ UNCHANGED <<entry, slipped>>
  /\ UNCHANGED <<file, late>>

-----------------------------------------------------------------------------
(* Shell commands the tracker understands. *)

BeginCommand(kind) ==
  /\ tool.pc = "idle" /\ Exists
  /\ tool' = [Idle EXCEPT !.pc = "reads", !.kind = kind]
  /\ UNCHANGED <<file, entry, late, belief, hidden, slipped, replaced>>

(* sed -i changes what it finds. *)
SedWrites(text) ==
  /\ tool.pc = "has" /\ tool.kind = "sed" /\ text # tool.got
  /\ Written(text) /\ tool' = [tool EXCEPT !.pc = "wrote", !.after = text]
  /\ UNCHANGED <<late, belief, hidden, slipped, replaced>>

(* The command is over: what the file holds now counts as read. *)
EndCommand ==
  /\ \/ tool.pc = "has" /\ tool.kind = "cat"
     \/ tool.pc = "wrote" /\ tool.kind = "sed"
  /\ tool' = Idle
  /\ LET shown == IF tool.kind = "cat" THEN tool.got
                  ELSE IF belief = tool.got THEN tool.after ELSE belief
     IN IF Exists
        THEN entry' = Tracked(file, NoText, FALSE) /\ Believes(shown, file, "shell") /\ slipped' = FALSE
        ELSE Believes(shown, entry.sha, "gone") /\ UNCHANGED <<entry, slipped>>
  /\ UNCHANGED <<file, late, replaced>>

-----------------------------------------------------------------------------
(* The user interrupts the tool; a thread that has begun to write goes on. *)
Interrupted ==
  /\ tool.pc # "idle" /\ tool' = Idle /\ replaced' = "nothing"
  /\ \/ UNCHANGED late
     \/ /\ tool.pc = "writes" /\ tool.kind \in Changing /\ late.text = NoText
        /\ late' = [kind |-> tool.kind, text |-> tool.after]
  /\ UNCHANGED <<file, entry, belief, hidden, slipped>>

LateWrite ==
  /\ late.text # NoText
  /\ late' = [kind |-> "none", text |-> NoText]
  /\ file' = late.text
  /\ IF late.kind = "patch"
     THEN /\ entry' = Tracked(late.text, late.text, FALSE)
          /\ Believes(belief, late.text, "patch") /\ slipped' = FALSE
     ELSE entry' = [entry EXCEPT !.same = FALSE] /\ UNCHANGED <<belief, hidden, slipped>>
  /\ Raced /\ UNCHANGED replaced

FileNext ==
  \/ \E t \in Contents : BeginWrite(t) \/ Checks(t) \/ SedWrites(t)
  \/ \E t \in Contents \cup {Gone}, k \in BOOLEAN : OtherWrites(t, k)
  \/ \E k \in {"full", "part"} : BeginRead(k)
  \/ \E k \in {"cat", "sed"} : BeginCommand(k)
  \/ Restart \/ BeginCheck \/ Reads \/ EndRead \/ EndCheck
  \/ BeginEdit \/ BeginPatch \/ Writes \/ PatchWrites \/ EndWrite \/ EndCommand
  \/ Interrupted \/ LateWrite

FileSpec == FileInit /\ [][FileNext]_fileVars

-----------------------------------------------------------------------------
(* An edit or a write replaces what the model believes is there, unless the  *)
(* file changed while the tool was at work, the mtime deceives, or the entry *)
(* came to follow a text in a way the model was not shown. *)
SeenBeforeReplaced == replaced # "blind"

(* The model is told that a file is unchanged, or that it has it in its      *)
(* context, only when what it has is what is there, with the same exceptions. *)
UnchangedIsTrue ==
  StubDue \/ InContext => file = belief \/ hidden # "no" \/ slipped
=============================================================================
