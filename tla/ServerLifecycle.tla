--------------------------- MODULE ServerLifecycle ---------------------------
(* The one server of a user: the flock and the socket file that name it, its *)
(* start, stop, reload in place and death, and the commands that find it,    *)
(* start it, compare its code with their own and hand it their request       *)
(* (server/server.py, server/lifecycle.py, server/routes/server.py,          *)
(* cli/server_cmd.py and cli/uds_client.py). The file on disk outlives its   *)
(* server; the lock does not.                                                *)
EXTENDS Naturals, FiniteSets

CONSTANTS
  Procs,       \* process ids servers run under
  Cmds,        \* commands of the user, one request each
  NoProc,
  MaxEvents    \* bound: servers killed or failing to start, stopped or reloaded
               \* by force, and upgrades of the installed code

VARIABLES
  installed,   \* the version an exec loads now
  lock,        \* the process that holds server.lock
  sock,        \* the process whose listener the file server.sock leads to
  proc,        \* process -> what it is doing and what it runs
  cmd,         \* command -> where it is
  work,        \* process -> requests it is working on
  listed,      \* process -> requests whose session list_active_sessions shows
  incidents    \* how many of the bounded events there were

vars == <<installed, lock, sock, proc, cmd, work, listed, incidents>>

NoServer == [st |-> "none", runs |-> 0, says |-> 0, leaves |-> FALSE, reload |-> FALSE]
Fresh == [NoServer EXCEPT !.st = "loaded", !.runs = installed]

Versions == 0..MaxEvents + 1

Off == [pc |-> "off", code |-> 0, checked |-> FALSE, again |-> FALSE]

TypeOK ==
  /\ installed \in Versions /\ incidents \in 0..MaxEvents
  /\ lock \in Procs \cup {NoProc} /\ sock \in Procs \cup {NoProc}
  /\ proc \in [Procs -> [st : {"none", "loaded", "locked", "ready", "serving", "closing", "cleaned", "released"},
                         runs : Versions, says : Versions,
                         leaves : BOOLEAN, reload : BOOLEAN]]
  /\ cmd \in [Cmds -> [pc : {"off", "status", "reload", "reloading", "starting", "send", "answer", "over"},
                       code : Versions, checked : BOOLEAN, again : BOOLEAN]]
  /\ work \in [Procs -> SUBSET Cmds] /\ listed \in [Procs -> SUBSET Cmds]

Earlier == CHOOSE p \in Procs : TRUE

\* No server, or one that a command started before the code last changed.
Init ==
  /\ \/ /\ installed = 0 /\ lock = NoProc /\ sock = NoProc
        /\ proc = [p \in Procs |-> NoServer]
     \/ /\ installed = 1 /\ lock = Earlier /\ sock = Earlier
        /\ proc = [p \in Procs |-> IF p = Earlier THEN [NoServer EXCEPT !.st = "serving"] ELSE NoServer]
  /\ cmd = [c \in Cmds |-> Off]
  /\ work = [p \in Procs |-> {}] /\ listed = [p \in Procs |-> {}]
  /\ incidents = 0

\* A request over the socket reaches this process, which answers while its
\* listener is open: also after it was told to leave, until the loop of uvicorn
\* looks at should_exit.
Answers(p) == sock = p /\ proc[p].st = "serving"
Reachable == \E p \in Procs : Answers(p)

-----------------------------------------------------------------------------
(* A server process.                                                         *)

To(p, st) == proc' = [proc EXCEPT ![p].st = st]

\* _SingletonLock.acquire: the second one exits with ServerAlreadyRunningError.
Acquire(p) ==
  /\ proc[p].st = "loaded"
  /\ IF lock = NoProc
       THEN /\ lock' = p /\ To(p, "locked")
       ELSE /\ proc' = [proc EXCEPT ![p] = NoServer] /\ UNCHANGED lock
  /\ UNCHANGED <<installed, sock, cmd, work, listed, incidents>>

\* The stale file goes, the components are built, and create_app takes the
\* fingerprint of the code that is installed by then.
Prepare(p) ==
  /\ proc[p].st = "locked"
  /\ sock' = NoProc
  /\ proc' = [proc EXCEPT ![p].st = "ready", ![p].says = installed]
  /\ UNCHANGED <<installed, lock, cmd, work, listed, incidents>>

\* initialize_app_components raises: only the lock is given back.
StartFails(p) ==
  /\ proc[p].st = "locked" /\ incidents < MaxEvents
  /\ incidents' = incidents + 1
  /\ proc' = [proc EXCEPT ![p] = NoServer] /\ lock' = NoProc /\ sock' = NoProc
  /\ UNCHANGED <<installed, cmd, work, listed>>

\* uvicorn binds: a socket file at the path, whoever's it is, is replaced.
Bind(p) ==
  /\ proc[p].st = "ready"
  /\ To(p, "serving") /\ sock' = p
  /\ UNCHANGED <<installed, lock, cmd, work, listed, incidents>>

\* The loop of uvicorn sees should_exit and closes the listener; what is being
\* answered is still answered.
Close(p) ==
  /\ proc[p].st = "serving" /\ proc[p].leaves
  /\ To(p, "closing")
  /\ UNCHANGED <<installed, lock, sock, cmd, work, listed, incidents>>

\* cleanup_app_components interrupts what runs.
CleanUp(p) ==
  /\ proc[p].st = "closing"
  /\ work' = [work EXCEPT ![p] = {}] /\ listed' = [listed EXCEPT ![p] = {}]
  /\ To(p, "cleaned")
  /\ UNCHANGED <<installed, lock, sock, cmd, incidents>>

\* Mutant: the lock is released first and the file removed after.
DepartsUnlocked(p) ==
  \/ /\ proc[p].st = "cleaned"
     /\ lock' = NoProc /\ To(p, "released") /\ UNCHANGED sock
  \/ /\ proc[p].st = "released" /\ sock # NoProc
     /\ sock' = NoProc /\ UNCHANGED <<proc, lock>>

\* The end of start_server: the file is removed before the lock is released.
Departs(p) ==
  \/ /\ proc[p].st = "cleaned" /\ sock # NoProc
     /\ sock' = NoProc /\ UNCHANGED <<proc, lock>>
  \/ /\ proc[p].st = "cleaned" /\ sock = NoProc
     /\ lock' = NoProc /\ To(p, "released") /\ UNCHANGED sock

Leave(p) ==
  /\ Departs(p)
  /\ UNCHANGED <<installed, cmd, work, listed, incidents>>

\* run_command: a reload executes the program anew under the same process id,
\* and another server may have taken the lock by then.
Exit(p) ==
  /\ proc[p].st = "released"
  /\ proc' = [proc EXCEPT ![p] = IF proc[p].reload THEN Fresh ELSE NoServer]
  /\ UNCHANGED <<installed, lock, sock, cmd, work, listed, incidents>>

\* Killed: the system frees the lock, the file stays.
Die(p) ==
  /\ proc[p].st # "none" /\ incidents < MaxEvents
  /\ incidents' = incidents + 1
  /\ proc' = [proc EXCEPT ![p] = NoServer]
  /\ lock' = IF lock = p THEN NoProc ELSE lock
  /\ sock' = IF sock = p THEN NoProc ELSE sock
  /\ work' = [work EXCEPT ![p] = {}] /\ listed' = [listed EXCEPT ![p] = {}]
  /\ UNCHANGED <<installed, cmd>>

\* A request is done.  Its session may stay listed: the handle of a task that was
\* cancelled before its first step is not removed.
WorkEnds(p, c) ==
  /\ c \in work[p] /\ proc[p].st = "serving"
  /\ work' = [work EXCEPT ![p] = @ \ {c}]
  /\ listed' \in {listed, [listed EXCEPT ![p] = @ \ {c}]}
  /\ UNCHANGED <<installed, lock, sock, proc, cmd, incidents>>

\* list_active_sessions goes by is_idle() and by the headless queue.  It shows a
\* session whose actor has something in a mailbox, a root task, a handle or a question,
\* or whose turn is in _queue; not one whose operation a getter holds, whose turn is
\* being written to disk, or whose pumped launch is loading the agent in a thread.
Lists(p, c) ==
  /\ proc[p].st = "serving" /\ c \in work[p] \ listed[p]
  /\ listed' = [listed EXCEPT ![p] = @ \cup {c}]
  /\ UNCHANGED <<installed, lock, sock, proc, cmd, work, incidents>>

Unlists(p, c) ==
  /\ proc[p].st = "serving" /\ c \in listed[p]
  /\ listed' = [listed EXCEPT ![p] = @ \ {c}]
  /\ UNCHANGED <<installed, lock, sock, proc, cmd, work, incidents>>

-----------------------------------------------------------------------------
(* A command of the user.                                                    *)

Moves(c, pc) == cmd' = [cmd EXCEPT ![c].pc = pc]
ServersRest == UNCHANGED <<installed, lock, sock, proc, work, listed, incidents>>

Begin(c) ==
  /\ cmd[c].pc = "off"
  /\ cmd' = [cmd EXCEPT ![c].pc = "status", ![c].code = installed]
  /\ ServersRest

\* ensure_server_running: a server answers. verify_server_code looks once per
\* process, at the answer of the moment.
Verify(c, p) ==
  /\ cmd[c].pc = "status" /\ Answers(p)
  /\ cmd' = [cmd EXCEPT ![c].checked = TRUE,
                        ![c].pc = IF cmd[c].checked \/ proc[p].says = cmd[c].code \/ listed[p] # {}
                                    THEN "send" ELSE "reload"]
  /\ ServersRest

\* No answer, or none within three seconds: a server is started.
Spawn(c, p) ==
  /\ cmd[c].pc = "status" /\ proc[p].st = "none"
  /\ proc' = [proc EXCEPT ![p] = Fresh]
  /\ Moves(c, "starting")
  /\ UNCHANGED <<installed, lock, sock, work, listed, incidents>>

\* Whoever answers is taken for the server that was started.
Started(c, p) ==
  /\ cmd[c].pc = "starting" /\ Answers(p)
  /\ cmd' = [cmd EXCEPT ![c].pc = "send", ![c].checked = TRUE]
  /\ ServersRest

NeverStarted(c) ==
  /\ cmd[c].pc = "starting" /\ Moves(c, "over")
  /\ ServersRest

\* server_reload and list_active_sessions, in one step of the server.
MayReload(p) == listed[p] = {}

\* verify_server_code asks for the reload; 409 when a session slipped in.
AskReload(c, p) ==
  /\ cmd[c].pc = "reload" /\ Answers(p)
  /\ IF MayReload(p)
       THEN /\ proc' = [proc EXCEPT ![p].leaves = TRUE, ![p].reload = TRUE]
            /\ Moves(c, "reloading")
       ELSE Moves(c, "send") /\ UNCHANGED proc
  /\ UNCHANGED <<installed, lock, sock, work, listed, incidents>>

ReloadUnanswered(c) ==
  /\ cmd[c].pc = "reload" /\ Moves(c, "send")
  /\ ServersRest

\* _wait_for_reloaded_server: the fingerprint is the only sign; after thirty
\* seconds the command warns and goes on.
Reloaded(c, p) ==
  /\ cmd[c].pc = "reloading" /\ Answers(p) /\ proc[p].says = cmd[c].code
  /\ Moves(c, "send")
  /\ ServersRest

NotReloaded(c) ==
  /\ cmd[c].pc = "reloading" /\ Moves(c, "send")
  /\ ServersRest

\* request_with_autostart: the request is handled; its answer is another step.
Handle(c, p) ==
  /\ cmd[c].pc = "send" /\ Answers(p)
  /\ work' = [work EXCEPT ![p] = @ \cup {c}]
  /\ Moves(c, "answer")
  /\ UNCHANGED <<installed, lock, sock, proc, listed, incidents>>

Return(c) ==
  /\ cmd[c].pc = "answer" /\ Moves(c, "over")
  /\ ServersRest

\* Any transport error, a late answer included, is taken for a server that is
\* not running: the request is sent a second time, the code is not compared
\* again, and the second failure is the caller's.
Retry(c) ==
  /\ cmd[c].pc = "answer" \/ (cmd[c].pc = "send" /\ ~Reachable)
  /\ cmd' = [cmd EXCEPT ![c].pc = IF cmd[c].again THEN "over" ELSE "status", ![c].again = TRUE]
  /\ ServersRest

-----------------------------------------------------------------------------
(* The user.                                                                 *)

\* klaude server stop, or reload --force, or a signal.
ForcedExit(p, reload) ==
  /\ Answers(p) /\ incidents < MaxEvents
  /\ incidents' = incidents + 1
  /\ proc' = [proc EXCEPT ![p].leaves = TRUE, ![p].reload = @ \/ reload]
  /\ UNCHANGED <<installed, lock, sock, cmd, work, listed>>

Upgrade ==
  /\ incidents < MaxEvents /\ incidents' = incidents + 1
  /\ installed' = installed + 1
  /\ UNCHANGED <<lock, sock, proc, cmd, work, listed>>

ServerStep(p) ==
  \/ Acquire(p) \/ Prepare(p) \/ StartFails(p) \/ Bind(p) \/ Close(p) \/ CleanUp(p)
  \/ Leave(p) \/ Exit(p) \/ Die(p)
  \/ \E c \in Cmds : WorkEnds(p, c) \/ Lists(p, c) \/ Unlists(p, c)
  \/ \E reload \in BOOLEAN : ForcedExit(p, reload)

CommandStep(c) ==
  \/ Begin(c) \/ NeverStarted(c) \/ ReloadUnanswered(c) \/ NotReloaded(c) \/ Return(c) \/ Retry(c)
  \/ \E p \in Procs :
       Verify(c, p) \/ Spawn(c, p) \/ Started(c, p) \/ AskReload(c, p) \/ Reloaded(c, p) \/ Handle(c, p)

Next ==
  \/ \E p \in Procs : ServerStep(p)
  \/ \E c \in Cmds : CommandStep(c)
  \/ Upgrade

Spec == Init /\ [][Next]_vars

-----------------------------------------------------------------------------
(* One server: whoever touches the socket file holds the lock, and the file  *)
(* of a server that serves leads to it, so that a server that leaves, dies   *)
(* or starts never cuts its successor or predecessor off (the flock of       *)
(* _SingletonLock around unlink, bind, cleanup and unlink).                  *)
OneServer ==
  \A p \in Procs :
    /\ proc[p].st \in {"locked", "ready", "serving", "closing", "cleaned"} => lock = p
    /\ proc[p].st = "serving" => sock = p

(* Only the process that holds the lock works on requests: a server that     *)
(* leaves interrupts its work before it gives the lock back, so that no two  *)
(* processes of the user ever run turns, and write session files, at once.   *)
WorkUnderLock == \A p \in Procs : work[p] # {} => lock = p

(* A reload comes back: while a command waits for one, and nothing else      *)
(* happened, some process is serving or on its way, be it the re-executed    *)
(* one or one that another command started and that took the lock meanwhile. *)
ReloadComesBack ==
  incidents = 0 /\ (\E c \in Cmds : cmd[c].pc = "reloading") => \E p \in Procs : proc[p].st # "none"
===============================================================================
