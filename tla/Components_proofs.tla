-------------------------- MODULE Components_proofs --------------------------
(* Proofs about the components MCComponents checks next to each other, each  *)
(* from an inductive invariant of its own module.                            *)
EXTENDS MCComponents, Integers, Sequences, TLAPS, FiniteSetTheorems

-----------------------------------------------------------------------------
(* A step of the whole is a step of the component it is about, or leaves     *)
(* that component alone.                                                     *)

LEMMA AboutOne ==
  ASSUME [Next]_vars
  PROVE  /\ which' = which
         /\ which = "turn" => [Turn!Next]_turnVars
         /\ which = "server" => [Server!Next]_serverVars
         /\ which = "files" => [Files!FileNext]_fileVars
         /\ which = "children" => [Kids!ChildNext]_childVars
         /\ which = "store" => [Store!Next]_storeVars
<1>1. CASE UNCHANGED vars
  BY <1>1 DEF vars
<1>2. CASE Next
  BY <1>2 DEF Next, OthersRest, AboutHistory, AboutStore, AboutAttach, AboutTurn, AboutClient,
              AboutServer, AboutDrain, AboutDisplay, AboutFiles, AboutChildren
<1> QED BY <1>1, <1>2

-----------------------------------------------------------------------------
(* ServerLifecycle: whoever touches the socket file holds the lock, the lock *)
(* is held by a process at work, and one that leaves on its way out of a     *)
(* reload comes back.                                                        *)

Holding == {"locked", "ready", "serving", "closing", "cleaned"}

HoldsLock ==
  \A p \in Procs :
    /\ proc[p].st \in Holding <=> lock = p
    /\ proc[p].st = "serving" => sock = p

LeavesToReload ==
  incidents = 0 =>
    \A p \in Procs :
      /\ proc[p].leaves => proc[p].reload
      /\ proc[p].st \in {"closing", "cleaned", "released"} => proc[p].leaves

\* A process works on requests from the time it serves until it cleans up.
Working == \A p \in Procs : work[p] # {} => proc[p].st \in {"serving", "closing"}

ComesBack == incidents = 0 /\ (\E c \in Cmds : cmd[c].pc = "reloading") => \E p \in Procs : proc[p].st # "none"

ServerRecord ==
  [st : Holding \cup {"none", "loaded", "released"}, runs : Server!Versions, says : Server!Versions,
   leaves : BOOLEAN, reload : BOOLEAN]

CommandRecord ==
  [pc : {"off", "status", "reload", "reloading", "starting", "send", "answer", "over"},
   code : Server!Versions, checked : BOOLEAN, again : BOOLEAN]

ServerInv ==
  /\ Server!TypeOK
  /\ installed <= incidents + 1
  /\ HoldsLock
  /\ LeavesToReload
  /\ ComesBack
  /\ Working

LEMMA ServerStarts ==
  ASSUME Server!Init PROVE ServerInv
<1> USE ServerAssumption
<1>1. Server!Earlier \in Procs
  BY DEF Server!Earlier
<1>2. Server!TypeOK /\ installed <= incidents + 1
  <2>1. /\ installed \in Server!Versions /\ installed <= incidents + 1 /\ incidents \in 0..MaxEvents
        /\ lock \in Procs \cup {NoProc} /\ sock \in Procs \cup {NoProc}
    BY <1>1 DEF Server!Init, Server!Versions
  <2>2. proc \in [Procs -> ServerRecord]
    <3>1. 0 \in Server!Versions
      BY DEF Server!Versions
    <3>2. Server!NoServer \in ServerRecord
      BY <3>1 DEF Server!NoServer, ServerRecord
    <3>3. [Server!NoServer EXCEPT !.st = "serving"] \in ServerRecord
      BY <3>2 DEF ServerRecord, Holding
    <3> QED BY <3>2, <3>3 DEF Server!Init
  <2>3. cmd \in [Cmds -> CommandRecord]
    BY DEF Server!Init, Server!Off, CommandRecord, Server!Versions
  <2> QED BY <2>1, <2>2, <2>3 DEF Server!Init, Server!TypeOK, ServerRecord, CommandRecord, Holding
<1>3. HoldsLock /\ LeavesToReload /\ ComesBack /\ Working
  BY <1>1 DEF Server!Init, HoldsLock, LeavesToReload, ComesBack, Working, Holding, Server!NoServer, Server!Off
<1> QED BY <1>2, <1>3 DEF ServerInv, Server!Init

\* Every action changes the record of one process and of one command at most.
LEMMA ServerTypes ==
  ASSUME ServerInv, Server!Next
  PROVE  Server!TypeOK' /\ installed' <= incidents' + 1
<1> USE ServerAssumption DEF Server!Versions
<1>0. /\ proc \in [Procs -> ServerRecord] /\ cmd \in [Cmds -> CommandRecord]
      /\ installed \in Server!Versions /\ installed <= incidents + 1 /\ incidents \in 0..MaxEvents
      /\ lock \in Procs \cup {NoProc} /\ sock \in Procs \cup {NoProc}
      /\ work \in [Procs -> SUBSET Cmds] /\ listed \in [Procs -> SUBSET Cmds]
  BY DEF ServerInv, Server!TypeOK, ServerRecord, CommandRecord, Holding
<1>1. SUFFICES /\ proc' \in [Procs -> ServerRecord] /\ cmd' \in [Cmds -> CommandRecord]
               /\ installed' \in Server!Versions /\ installed' <= incidents' + 1 /\ incidents' \in 0..MaxEvents
               /\ lock' \in Procs \cup {NoProc} /\ sock' \in Procs \cup {NoProc}
               /\ work' \in [Procs -> SUBSET Cmds] /\ listed' \in [Procs -> SUBSET Cmds]
  BY DEF Server!TypeOK, ServerRecord, CommandRecord, Holding
<1>n. Server!NoServer \in ServerRecord /\ Server!Fresh \in ServerRecord
  <2>1. 0 \in Server!Versions
    OBVIOUS
  <2>2. Server!NoServer \in ServerRecord
    BY <2>1 DEF Server!NoServer, ServerRecord
  <2> QED BY <1>0, <2>2 DEF Server!Fresh, ServerRecord
<1>2. ASSUME NEW p \in Procs, Server!ServerStep(p)
      PROVE  /\ proc' \in [Procs -> ServerRecord] /\ cmd' \in [Cmds -> CommandRecord]
             /\ installed' \in Server!Versions /\ installed' <= incidents' + 1 /\ incidents' \in 0..MaxEvents
             /\ lock' \in Procs \cup {NoProc} /\ sock' \in Procs \cup {NoProc}
             /\ work' \in [Procs -> SUBSET Cmds] /\ listed' \in [Procs -> SUBSET Cmds]
  <2> USE <1>0, <1>n
  <2>t. ASSUME NEW st \in Holding \cup {"none", "loaded", "released"}, Server!To(p, st)
        PROVE  proc' \in [Procs -> ServerRecord]
    <3>1. [proc[p] EXCEPT !.st = st] \in ServerRecord
      BY DEF ServerRecord
    <3> QED BY <2>t, <3>1 DEF Server!To
  <2>m. /\ "locked" \in Holding /\ "ready" \in Holding /\ "serving" \in Holding
        /\ "closing" \in Holding /\ "cleaned" \in Holding
    BY DEF Holding
  <2>e. /\ [work EXCEPT ![p] = {}] \in [Procs -> SUBSET Cmds]
        /\ [listed EXCEPT ![p] = {}] \in [Procs -> SUBSET Cmds]
    OBVIOUS
  <2>1. CASE Server!Acquire(p)
    <3>1. CASE lock = NoProc
      BY <2>1, <2>t, <2>m, <3>1 DEF Server!Acquire
    <3>2. CASE lock # NoProc
      BY <2>1, <3>2 DEF Server!Acquire
    <3> QED BY <3>1, <3>2
  <2>7. CASE Server!StartFails(p)
    BY <2>7 DEF Server!StartFails
  <2>8. CASE Server!Exit(p)
    BY <2>8 DEF Server!Exit
  <2>9. CASE Server!Die(p)
    BY <2>9, <2>e DEF Server!Die
  <2>2. CASE Server!Prepare(p)
    <3>1. [proc[p] EXCEPT !.st = "ready", !.says = installed] \in ServerRecord
      BY <2>m DEF ServerRecord
    <3> QED BY <2>2, <3>1 DEF Server!Prepare
  <2>10. CASE Server!Bind(p) \/ Server!Close(p)
    BY <2>10, <2>t, <2>m DEF Server!Bind, Server!Close
  <2>r. proc[p] \in ServerRecord /\ work[p] \subseteq Cmds /\ listed[p] \subseteq Cmds
    OBVIOUS
  <2>3. CASE Server!CleanUp(p)
    <3>1. [proc[p] EXCEPT !.st = "cleaned"] \in ServerRecord
      BY <2>r DEF ServerRecord, Holding
    <3>2. listed' \in [Procs -> SUBSET Cmds] /\ work' \in [Procs -> SUBSET Cmds]
      BY <2>3, <2>r DEF Server!CleanUp
    <3> QED BY <2>3, <3>1, <3>2 DEF Server!CleanUp, Server!To
  <2>6. CASE Server!Leave(p)
    BY <2>6, <2>t DEF Server!Leave, Server!Departs
  <2>4. CASE \E c \in Cmds : Server!WorkEnds(p, c) \/ Server!Lists(p, c) \/ Server!Unlists(p, c)
    BY <2>4 DEF Server!WorkEnds, Server!Lists, Server!Unlists
  <2>5. CASE \E reload \in BOOLEAN : Server!ForcedExit(p, reload)
    <3>1. PICK reload \in BOOLEAN : Server!ForcedExit(p, reload)
      BY <2>5
    <3>2. (proc[p].reload \/ reload) \in BOOLEAN
      OBVIOUS
    <3>3. [proc[p] EXCEPT !.leaves = TRUE, !.reload = proc[p].reload \/ reload] \in ServerRecord
      BY <2>r, <3>2 DEF ServerRecord
    <3> QED BY <3>1, <3>3 DEF Server!ForcedExit
  <2> QED BY <1>2, <2>1, <2>2, <2>3, <2>4, <2>5, <2>6, <2>7, <2>8, <2>9, <2>10 DEF Server!ServerStep
<1>3. ASSUME NEW c \in Cmds, Server!CommandStep(c)
      PROVE  /\ proc' \in [Procs -> ServerRecord] /\ cmd' \in [Cmds -> CommandRecord]
             /\ work' \in [Procs -> SUBSET Cmds] /\ listed' = listed
             /\ UNCHANGED <<installed, incidents, lock, sock>>
  <2> USE <1>0, <1>n
  <2>1. CASE Server!Begin(c) \/ Server!NeverStarted(c) \/ Server!ReloadUnanswered(c) \/ Server!NotReloaded(c)
    BY <2>1 DEF Server!Begin, Server!NeverStarted, Server!ReloadUnanswered, Server!NotReloaded,
                Server!Moves, Server!ServersRest, CommandRecord
  <2>2. CASE Server!Return(c)
    BY <2>2 DEF Server!Return, Server!Moves, Server!ServersRest, CommandRecord
  <2>6. CASE Server!Retry(c)
    <3>1. \A pc \in {"over", "status"} : [cmd[c] EXCEPT !.pc = pc, !.again = TRUE] \in CommandRecord
      BY DEF CommandRecord
    <3> QED BY <2>6, <3>1 DEF Server!Retry, Server!ServersRest
  <2>3. CASE \E p \in Procs : Server!Verify(c, p) \/ Server!Started(c, p) \/ Server!Reloaded(c, p)
    BY <2>3 DEF Server!Verify, Server!Started, Server!Reloaded, Server!Moves, Server!ServersRest, CommandRecord
  <2>4. CASE \E p \in Procs : Server!Spawn(c, p) \/ Server!Handle(c, p)
    BY <2>4 DEF Server!Spawn, Server!Handle, Server!Moves, CommandRecord
  <2>5. CASE \E p \in Procs : Server!AskReload(c, p)
    <3>1. PICK p \in Procs : Server!AskReload(c, p)
      BY <2>5
    <3>2. cmd' \in [Cmds -> CommandRecord]
      BY <3>1 DEF Server!AskReload, Server!Moves, CommandRecord
    <3>3. proc' \in [Procs -> ServerRecord]
      <4>1. [proc[p] EXCEPT !.leaves = TRUE, !.reload = TRUE] \in ServerRecord
        BY DEF ServerRecord
      <4> QED BY <3>1, <4>1 DEF Server!AskReload
    <3> QED BY <3>1, <3>2, <3>3 DEF Server!AskReload
  <2> QED BY <1>3, <2>1, <2>2, <2>3, <2>4, <2>5, <2>6 DEF Server!CommandStep
<1>4. CASE Server!Upgrade
  BY <1>0, <1>4 DEF Server!Upgrade
<1> QED BY <1>0, <1>2, <1>3, <1>4 DEF Server!Next

\* What To leaves alone.
LEMMA OneMoves ==
  ASSUME proc \in [Procs -> ServerRecord], NEW p \in Procs, NEW st, Server!To(p, st)
  PROVE  /\ proc'[p].st = st /\ proc'[p].leaves = proc[p].leaves /\ proc'[p].reload = proc[p].reload
         /\ \A q \in Procs \ {p} : proc'[q] = proc[q]
BY DEF Server!To, ServerRecord

LEMMA ServerLock ==
  ASSUME ServerInv, Server!Next
  PROVE  HoldsLock'
<1> USE ServerAssumption
<1>0. /\ proc \in [Procs -> ServerRecord] /\ lock \in Procs \cup {NoProc}
      /\ HoldsLock
  BY DEF ServerInv, Server!TypeOK, ServerRecord, Holding
<1>n. /\ Server!NoServer.st = "none" /\ Server!Fresh.st = "loaded"
  BY DEF Server!NoServer, Server!Fresh
<1>1. ASSUME NEW p \in Procs, Server!ServerStep(p) PROVE HoldsLock'
  <2>1. CASE Server!Acquire(p)
    <3>1. CASE lock = NoProc
      BY <2>1, <3>1, <1>0, OneMoves DEF Server!Acquire, HoldsLock, Holding
    <3>2. CASE lock # NoProc
      BY <2>1, <3>2, <1>0, <1>n DEF Server!Acquire, HoldsLock, Holding
    <3> QED BY <3>1, <3>2
  <2>2. CASE Server!Prepare(p)
    <3>1. proc'[p].st = "ready" /\ \A q \in Procs \ {p} : proc'[q] = proc[q]
      BY <2>2, <1>0 DEF Server!Prepare, ServerRecord
    <3> QED BY <2>2, <3>1, <1>0 DEF Server!Prepare, HoldsLock, Holding
  <2>3. CASE Server!StartFails(p) \/ Server!Exit(p)
    BY <2>3, <1>0, <1>n DEF Server!StartFails, Server!Exit, HoldsLock, Holding
  <2>4. CASE Server!Bind(p) \/ Server!Close(p) \/ Server!CleanUp(p)
    BY <2>4, <1>0, OneMoves DEF Server!Bind, Server!Close, Server!CleanUp, HoldsLock, Holding
  <2>5. CASE Server!Leave(p)
    BY <2>5, <1>0, OneMoves DEF Server!Leave, Server!Departs, HoldsLock, Holding
  <2>6. CASE Server!Die(p)
    BY <2>6, <1>0, <1>n DEF Server!Die, HoldsLock, Holding
  <2>7. CASE \E c \in Cmds : Server!WorkEnds(p, c) \/ Server!Lists(p, c) \/ Server!Unlists(p, c)
    BY <2>7, <1>0 DEF Server!WorkEnds, Server!Lists, Server!Unlists, HoldsLock
  <2>8. CASE \E reload \in BOOLEAN : Server!ForcedExit(p, reload)
    BY <2>8, <1>0 DEF Server!ForcedExit, HoldsLock, Holding, ServerRecord
  <2> QED BY <1>1, <2>1, <2>2, <2>3, <2>4, <2>5, <2>6, <2>7, <2>8 DEF Server!ServerStep
<1>2. ASSUME NEW c \in Cmds, Server!CommandStep(c) PROVE HoldsLock'
  <2>1. CASE \E p \in Procs : Server!Spawn(c, p)
    BY <2>1, <1>0, <1>n DEF Server!Spawn, HoldsLock, Holding
  <2>2. CASE \E p \in Procs : Server!AskReload(c, p)
    BY <2>2, <1>0 DEF Server!AskReload, HoldsLock, Holding, ServerRecord
  <2>3. CASE UNCHANGED <<lock, sock, proc>>
    BY <2>3, <1>0 DEF HoldsLock
  <2> QED
    BY <1>2, <2>1, <2>2, <2>3
       DEF Server!CommandStep, Server!Begin, Server!NeverStarted, Server!ReloadUnanswered,
           Server!NotReloaded, Server!Return, Server!Retry, Server!Verify, Server!Started,
           Server!Reloaded, Server!Handle, Server!ServersRest
<1>3. CASE Server!Upgrade
  BY <1>3, <1>0 DEF Server!Upgrade, HoldsLock
<1> QED BY <1>1, <1>2, <1>3 DEF Server!Next

\* Requests are taken while serving, and dropped before the end of closing.
LEMMA ServerWork ==
  ASSUME ServerInv, Server!Next
  PROVE  Working'
<1>0. /\ proc \in [Procs -> ServerRecord] /\ work \in [Procs -> SUBSET Cmds]
      /\ HoldsLock /\ Working
  BY DEF ServerInv, Server!TypeOK, ServerRecord, Holding
<1>1. ASSUME NEW p \in Procs, work' = work,
             \A q \in Procs \ {p} : proc'[q] = proc[q],
             proc[p].st \notin {"serving", "closing"} \/ proc'[p].st \in {"serving", "closing"}
      PROVE  Working'
  BY <1>0, <1>1 DEF Working
<1>2. ASSUME NEW p \in Procs, Server!ServerStep(p) PROVE Working'
  <2>1. CASE Server!Acquire(p) \/ Server!StartFails(p) \/ Server!Exit(p)
    <3>1. /\ work' = work /\ proc[p].st \notin {"serving", "closing"}
          /\ \A q \in Procs \ {p} : proc'[q] = proc[q]
      BY <2>1, <1>0 DEF Server!Acquire, Server!StartFails, Server!Exit, Server!To
    <3> QED BY <1>1, <3>1
  <2>2. CASE Server!Prepare(p) \/ Server!Bind(p) \/ Server!Leave(p)
    <3>1. /\ work' = work /\ proc[p].st \notin {"serving", "closing"}
          /\ \A q \in Procs \ {p} : proc'[q] = proc[q]
      BY <2>2, <1>0 DEF Server!Prepare, Server!Bind, Server!Leave, Server!Departs, Server!To
    <3> QED BY <1>1, <3>1
  <2>3. CASE Server!Close(p)
    <3>1. work' = work /\ proc'[p].st = "closing" /\ \A q \in Procs \ {p} : proc'[q] = proc[q]
      BY <2>3, <1>0, OneMoves DEF Server!Close
    <3> QED BY <1>1, <3>1
  <2>4. CASE Server!CleanUp(p) \/ Server!Die(p)
    <3>1. /\ work'[p] = {}
          /\ \A q \in Procs \ {p} : proc'[q] = proc[q] /\ work'[q] = work[q]
      BY <2>4, <1>0 DEF Server!CleanUp, Server!Die, Server!To
    <3> QED BY <1>0, <3>1 DEF Working
  <2>5. CASE \E c \in Cmds : Server!WorkEnds(p, c) \/ Server!Lists(p, c) \/ Server!Unlists(p, c)
    <3>1. proc' = proc /\ \A q \in Procs : work'[q] \subseteq work[q]
      BY <2>5, <1>0 DEF Server!WorkEnds, Server!Lists, Server!Unlists
    <3> QED BY <1>0, <3>1 DEF Working
  <2>6. CASE \E reload \in BOOLEAN : Server!ForcedExit(p, reload)
    <3>1. /\ work' = work /\ proc'[p].st = proc[p].st
          /\ \A q \in Procs \ {p} : proc'[q] = proc[q]
      BY <2>6, <1>0 DEF Server!ForcedExit, ServerRecord
    <3> QED BY <1>1, <3>1
  <2> QED BY <1>2, <2>1, <2>2, <2>3, <2>4, <2>5, <2>6 DEF Server!ServerStep
<1>3. ASSUME NEW c \in Cmds, Server!CommandStep(c) PROVE Working'
  <2>1. CASE \E p \in Procs : Server!Spawn(c, p)
    <3>1. PICK p \in Procs : Server!Spawn(c, p)
      BY <2>1
    <3>2. /\ work' = work /\ proc[p].st = "none" /\ \A q \in Procs \ {p} : proc'[q] = proc[q]
      BY <3>1, <1>0 DEF Server!Spawn
    <3> QED BY <1>1, <3>2
  <2>2. CASE \E p \in Procs : Server!AskReload(c, p)
    <3>1. PICK p \in Procs : Server!AskReload(c, p)
      BY <2>2
    <3>2. /\ work' = work /\ proc'[p].st = proc[p].st
          /\ \A q \in Procs \ {p} : proc'[q] = proc[q]
      BY <3>1, <1>0 DEF Server!AskReload, ServerRecord
    <3> QED BY <1>1, <3>2
  <2>3. CASE \E p \in Procs : Server!Handle(c, p)
    <3>1. PICK p \in Procs : Server!Handle(c, p)
      BY <2>3
    <3>2. /\ proc' = proc /\ proc[p].st = "serving"
          /\ \A q \in Procs \ {p} : work'[q] = work[q]
      BY <3>1, <1>0 DEF Server!Handle, Server!Answers
    <3> QED BY <1>0, <3>2 DEF Working
  <2>4. CASE UNCHANGED <<proc, work>>
    BY <1>0, <2>4 DEF Working
  <2> QED BY <1>3, <2>1, <2>2, <2>3, <2>4
       DEF Server!CommandStep, Server!Begin, Server!NeverStarted, Server!ReloadUnanswered,
           Server!NotReloaded, Server!Return, Server!Retry, Server!Verify, Server!Started,
           Server!Reloaded, Server!ServersRest
<1>4. CASE Server!Upgrade
  BY <1>4, <1>0 DEF Server!Upgrade, Working
<1> QED BY <1>2, <1>3, <1>4 DEF Server!Next

\* A server that leaves unforced leaves to be executed anew.
LEMMA ServerReload ==
  ASSUME ServerInv, Server!Next
  PROVE  LeavesToReload' /\ ComesBack'
<1> USE ServerAssumption
<1>0. /\ proc \in [Procs -> ServerRecord] /\ lock \in Procs \cup {NoProc}
      /\ cmd \in [Cmds -> CommandRecord] /\ incidents \in Nat
      /\ HoldsLock /\ LeavesToReload /\ ComesBack
  BY DEF ServerInv, Server!TypeOK, ServerRecord, CommandRecord, Holding
<1>n. /\ Server!NoServer.st = "none" /\ ~Server!NoServer.leaves
      /\ Server!Fresh.st = "loaded" /\ ~Server!Fresh.leaves
  BY DEF Server!NoServer, Server!Fresh
<1>1. ASSUME NEW p \in Procs, Server!ServerStep(p)
      PROVE  LeavesToReload' /\ ComesBack'
  <2>0. cmd' = cmd
    BY <1>1
       DEF Server!ServerStep, Server!Acquire, Server!Prepare, Server!StartFails, Server!Bind, Server!Close,
           Server!CleanUp, Server!Leave, Server!Departs, Server!Exit, Server!Die, Server!WorkEnds,
           Server!Lists, Server!Unlists, Server!ForcedExit
  <2>1. CASE Server!Acquire(p)
    <3>1. CASE lock = NoProc
      BY <2>0, <2>1, <3>1, <1>0, OneMoves DEF Server!Acquire, LeavesToReload, ComesBack
    <3>2. CASE lock # NoProc
      <4>1. lock \in Procs /\ lock # p /\ proc[lock].st # "none"
        BY <2>1, <3>2, <1>0 DEF Server!Acquire, HoldsLock, Holding
      <4> QED BY <2>0, <2>1, <3>2, <4>1, <1>0, <1>n DEF Server!Acquire, LeavesToReload, ComesBack
    <3> QED BY <3>1, <3>2
  <2>2. CASE Server!Prepare(p)
    <3>1. /\ proc'[p].st = "ready" /\ proc'[p].leaves = proc[p].leaves
          /\ proc'[p].reload = proc[p].reload
          /\ \A q \in Procs \ {p} : proc'[q] = proc[q]
      BY <2>2, <1>0 DEF Server!Prepare, ServerRecord
    <3> QED BY <2>0, <2>2, <3>1, <1>0 DEF Server!Prepare, LeavesToReload, ComesBack
  <2>3. CASE Server!StartFails(p) \/ Server!Die(p) \/ \E reload \in BOOLEAN : Server!ForcedExit(p, reload)
    BY <2>0, <2>3, <1>0 DEF Server!StartFails, Server!Die, Server!ForcedExit, LeavesToReload, ComesBack
  <2>4. CASE Server!Exit(p)
    BY <2>0, <2>4, <1>0, <1>n DEF Server!Exit, LeavesToReload, ComesBack
  <2>5. CASE Server!Bind(p) \/ Server!Close(p) \/ Server!CleanUp(p)
    BY <2>0, <2>5, <1>0, OneMoves
       DEF Server!Bind, Server!Close, Server!CleanUp, LeavesToReload, ComesBack
  <2>6. CASE Server!Leave(p)
    BY <2>0, <2>6, <1>0, OneMoves DEF Server!Leave, Server!Departs, LeavesToReload, ComesBack
  <2>7. CASE \E c \in Cmds : Server!WorkEnds(p, c) \/ Server!Lists(p, c) \/ Server!Unlists(p, c)
    BY <2>0, <2>7, <1>0 DEF Server!WorkEnds, Server!Lists, Server!Unlists, LeavesToReload, ComesBack
  <2> QED BY <1>1, <2>1, <2>2, <2>3, <2>4, <2>5, <2>6, <2>7 DEF Server!ServerStep
<1>2. ASSUME NEW c \in Cmds, Server!CommandStep(c)
      PROVE  LeavesToReload' /\ ComesBack'
  <2>1. CASE \E p \in Procs : Server!Spawn(c, p)
    BY <2>1, <1>0, <1>n DEF Server!Spawn, Server!Moves, LeavesToReload, ComesBack, CommandRecord
  <2>2. CASE \E p \in Procs : Server!AskReload(c, p)
    <3>1. PICK p \in Procs : Server!AskReload(c, p)
      BY <2>2
    <3>2. CASE UNCHANGED proc /\ Server!Moves(c, "send")
      BY <3>1, <3>2, <1>0 DEF Server!AskReload, Server!Moves, LeavesToReload, ComesBack, CommandRecord
    <3>3. CASE /\ Server!MayReload(p)
               /\ proc' = [proc EXCEPT ![p].leaves = TRUE, ![p].reload = TRUE]
      <4>1. proc[p].st = "serving" /\ incidents' = incidents
        BY <3>1 DEF Server!AskReload, Server!Answers
      <4>2. /\ \A q \in Procs : proc'[q].st = proc[q].st
            /\ \A q \in Procs \ {p} : proc'[q] = proc[q]
            /\ proc'[p].reload
        BY <3>3, <1>0 DEF ServerRecord
      <4> QED BY <4>1, <4>2, <1>0 DEF LeavesToReload, ComesBack
    <3> QED BY <3>1, <3>2, <3>3 DEF Server!AskReload
  <2>3. CASE /\ UNCHANGED <<proc, incidents>>
             /\ \A d \in Cmds : cmd'[d].pc = "reloading" => cmd[d].pc = "reloading"
    BY <2>3, <1>0 DEF LeavesToReload, ComesBack
  <2>4. ASSUME NEW p \in Procs, Server!Verify(c, p)
        PROVE  \A d \in Cmds : cmd'[d].pc = "reloading" => cmd[d].pc = "reloading"
    BY <2>4, <1>0 DEF Server!Verify, CommandRecord
  <2>5. CASE Server!Begin(c) \/ Server!NeverStarted(c) \/ Server!ReloadUnanswered(c)
             \/ Server!NotReloaded(c) \/ Server!Return(c) \/ Server!Retry(c)
    BY <2>5, <2>3, <1>0 DEF Server!Begin, Server!NeverStarted, Server!ReloadUnanswered,
           Server!NotReloaded, Server!Return, Server!Retry, Server!Moves, Server!ServersRest, CommandRecord
  <2>6. CASE \E p \in Procs : Server!Verify(c, p)
    BY <2>6, <2>4, <2>3 DEF Server!Verify, Server!ServersRest
  <2>7. CASE \E p \in Procs : Server!Started(c, p) \/ Server!Reloaded(c, p) \/ Server!Handle(c, p)
    BY <2>7, <2>3, <1>0 DEF Server!Started, Server!Reloaded, Server!Handle, Server!Moves,
                            Server!ServersRest, CommandRecord
  <2> QED BY <1>2, <2>1, <2>2, <2>5, <2>6, <2>7 DEF Server!CommandStep
<1>3. CASE Server!Upgrade
  BY <1>3, <1>0 DEF Server!Upgrade, LeavesToReload, ComesBack
<1> QED BY <1>1, <1>2, <1>3 DEF Server!Next

LEMMA ServerStutters ==
  ASSUME ServerInv, UNCHANGED serverVars PROVE ServerInv'
<1>1. Server!TypeOK'
  BY DEF ServerInv, serverVars, Server!TypeOK, Server!Versions
<1>2. HoldsLock' /\ LeavesToReload' /\ ComesBack' /\ Working'
  BY DEF ServerInv, serverVars, HoldsLock, LeavesToReload, ComesBack, Working
<1> QED BY <1>1, <1>2 DEF ServerInv, serverVars

(* ServerLifecycle: one server owns the socket at a time, only the holder of *)
(* the lock works on requests, and a reload comes back: for any processes    *)
(* and commands. *)
THEOREM OneServerOnly == Spec => []OneServerAtATime
<1> DEFINE Inv == which = "server" => ServerInv
<1>1. Init => Inv
  BY ServerStarts DEF Init
<1>2. Inv /\ [Next]_vars => Inv'
  <2>1. ASSUME ServerInv, Server!Next PROVE ServerInv'
    BY <2>1, ServerTypes, ServerLock, ServerWork, ServerReload DEF ServerInv
  <2>2. ASSUME Inv, [Next]_vars, which = "server" PROVE ServerInv'
    <3>1. [Server!Next]_serverVars
      BY <2>2, AboutOne
    <3> QED BY <2>1, <2>2, <3>1, ServerStutters
  <2> QED BY <2>2, AboutOne
<1>3. Inv => OneServerAtATime
  BY DEF OneServerAtATime, ServerInv, HoldsLock, ComesBack, Working, Holding, Server!OneServer,
         Server!WorkUnderLock, Server!ReloadComesBack
<1> QED BY <1>1, <1>2, <1>3, PTL DEF Spec

-----------------------------------------------------------------------------
(* TaskExecutor: where a call is tells how many results it has, where the    *)
(* turn is tells which calls are answered, and every failure uses up a retry *)
(* or a fallback model.                                                      *)

TurnTypes ==
  /\ Turn!TypeOK
  /\ callAt \in [Turn!Calls -> {"none", "queued", "running", "done", "answered", "stopped"}]
  /\ results \in [Turn!Calls -> Nat]
  /\ cancelled \in BOOLEAN /\ wound \in BOOLEAN
  /\ told \in [finish : Nat, fatal : Nat]
  /\ streak \in Nat

CallsTell ==
  \A c \in Turn!Calls :
    /\ results[c] = IF callAt[c] = "answered" \/ (callAt[c] = "stopped" /\ wound) THEN 1 ELSE 0
    /\ c \notin asked <=> callAt[c] = "none"
    /\ callAt[c] = "stopped" => wound \/ at = "over"

AnsweredOnTime ==
  /\ at \notin {"tools", "over"} => Turn!Answered(asked)
  /\ wound => cancelled /\ \A c \in asked : callAt[c] \in {"answered", "stopped"}

\* The failures the retries and models used so far account for.
Spent == fails + (MaxFailed + 1) * (Fallbacks - models)

FailuresSpent ==
  /\ at \in {"compact", "tools", "after", "handoff"} => streak = 0
  /\ at \in {"stream", "sleep", "overflow"} => fails <= MaxFailed
  /\ at \in {"stream", "sleep"} => streak <= Spent
  /\ at = "overflow" => streak <= Spent + 1
  /\ Turn!FailuresBounded

TurnInv == TurnTypes /\ Turn!SaysHowItEnded /\ CallsTell /\ AnsweredOnTime /\ FailuresSpent

LEMMA TurnStarts ==
  ASSUME Turn!Init PROVE TurnInv
<1> USE TurnAssumption DEF Turn!Init
<1>1. TurnTypes /\ Turn!SaysHowItEnded
  <2>1. Turn!TypeOK
    BY DEF Turn!TypeOK
  <2>2. callAt \in [Turn!Calls -> {"none", "queued", "running", "done", "answered", "stopped"}]
    OBVIOUS
  <2>3. results \in [Turn!Calls -> Nat] /\ streak \in Nat
    OBVIOUS
  <2>4. told \in [finish : Nat, fatal : Nat] /\ told.finish = 0 /\ told.fatal = 0
    <3>1. told = [finish |-> 0, fatal |-> 0]
      OBVIOUS
    <3> QED BY <3>1
  <2>5. Turn!SaysHowItEnded
    <3>1. at # "over" /\ subAgent \in BOOLEAN
      OBVIOUS
    <3>2. /\ told.finish + told.fatal = 0 /\ told.finish <= 1
          /\ told.fatal <= 1 /\ told.fatal <= 2
      BY <2>4
    <3> QED BY <2>4, <3>1, <3>2 DEF Turn!SaysHowItEnded
  <2> QED BY <2>1, <2>2, <2>3, <2>4, <2>5 DEF TurnTypes
<1>2. CallsTell /\ AnsweredOnTime
  BY DEF CallsTell, AnsweredOnTime, Turn!Answered
<1>3. FailuresSpent
  <2>1. (MaxFailed + 1) * (Fallbacks + 1) \in Nat
    OBVIOUS
  <2> QED BY <2>1 DEF FailuresSpent, Turn!FailuresBounded
<1> QED BY <1>1, <1>2, <1>3 DEF TurnInv

\* Every step starts before the end, and either ends the turn or says nothing.
LEMMA TurnSays ==
  ASSUME TurnInv, Turn!Next
  PROVE  /\ told' \in [finish : Nat, fatal : Nat] /\ Turn!SaysHowItEnded'
         /\ at # "over" /\ subAgent' = subAgent /\ subAgent \in BOOLEAN
         /\ at' \in {"compact", "stream", "sleep", "overflow", "tools", "after", "handoff", "over"}
<1>0. told \in [finish : Nat, fatal : Nat] /\ Turn!SaysHowItEnded
  BY DEF TurnInv, TurnTypes
<1> DEFINE Places == {"compact", "stream", "sleep", "overflow", "tools", "after", "handoff"}
           EndsNow == \E how \in {"finish", "fatal"} : Turn!Ends(how)
           EndsTwice == /\ at' = "over"
                        /\ told' = [told EXCEPT !.fatal = @ + IF subAgent THEN 2 ELSE 1]
           GoesOn == told' = told /\ at' \in Places
<1>s. subAgent' = subAgent /\ subAgent \in BOOLEAN
  BY DEF TurnInv, TurnTypes, Turn!TypeOK, Turn!Next
<1>1. at # "over" /\ (EndsNow \/ EndsTwice \/ GoesOn)
  <2>0. at \in Places \cup {"over"}
    BY DEF TurnInv, TurnTypes, Turn!TypeOK
  <2>1. CASE \/ Turn!Compact \/ Turn!StreamOverflow \/ Turn!Sleep \/ Turn!StreamEnds \/ Turn!ToolsEnd
             \/ Turn!Rewind \/ Turn!Handoff \/ Turn!NextStep \/ Turn!EmptyRetry
    BY <2>1 DEF Turn!Compact, Turn!StreamOverflow, Turn!ModelFails, Turn!Sleep, Turn!StreamEnds,
                Turn!ToolsEnd, Turn!Rewind, Turn!Handoff, Turn!NextStep, Turn!EmptyRetry, Turn!At,
                Turn!Continues, Turn!endVars
  <2>2. CASE Turn!StreamError \/ Turn!StreamFallback \/ Turn!OverflowCompacts
    BY <2>2 DEF Turn!StreamError, Turn!StreamFallback, Turn!OverflowCompacts, Turn!ModelFails,
                Turn!Retries, Turn!At
  <2>3. CASE Turn!HandoffEnds \/ Turn!Finish \/ Turn!Unwind
    BY <2>3 DEF Turn!HandoffEnds, Turn!Finish, Turn!Unwind, Turn!At, Turn!Continues
  <2>6. CASE Turn!OverflowFails
    BY <2>6 DEF Turn!OverflowFails, Turn!At
  <2>4. CASE \E c \in Turn!Calls : Turn!Start(c) \/ Turn!ToolEnds(c) \/ Turn!Answer(c)
    BY <2>4, <2>0 DEF Turn!Start, Turn!ToolEnds, Turn!Answer, Turn!At, Turn!endVars
  <2>5. CASE Turn!Interrupt \/ Turn!CancelTurn
    BY <2>5, <2>0 DEF Turn!Interrupt, Turn!CancelTurn
  <2> QED BY <2>1, <2>2, <2>3, <2>4, <2>5, <2>6 DEF Turn!Next
<1>n. told.finish = 0 /\ told.fatal = 0
  BY <1>0, <1>1 DEF Turn!SaysHowItEnded
<1>2. CASE EndsNow
  <2>1. PICK how \in {"finish", "fatal"} : Turn!Ends(how)
    BY <1>2
  <2> QED BY <2>1, <1>0, <1>1, <1>n, <1>s DEF Turn!Ends, Turn!SaysHowItEnded
<1>3. CASE EndsTwice
  BY <1>3, <1>0, <1>1, <1>n, <1>s DEF Turn!SaysHowItEnded
<1>4. CASE GoesOn
  BY <1>4, <1>0, <1>1, <1>n, <1>s DEF Turn!SaysHowItEnded
<1> QED BY <1>1, <1>2, <1>3, <1>4, <1>s

\* A fallback model pays for as many failures as there are retries.
LEMMA Budget ==
  ASSUME NEW m \in Nat, NEW f \in Nat, NEW k \in 0 .. f
  PROVE  /\ (m + 1) * k \in Nat
         /\ (m + 1) * (k + 1) = (m + 1) * k + m + 1
         /\ \A j \in 0 .. k : (m + 1) * (f - k) <= (m + 1) * (f - j)
         /\ (m + 1) * (f - k) + m + 1 <= (m + 1) * (f + 1)
<1>1. (m + 1) * k \in Nat
  OBVIOUS
<1>2. (m + 1) * (k + 1) = (m + 1) * k + m + 1
  OBVIOUS
<1>3. \A j \in 0 .. k : (m + 1) * (f - k) <= (m + 1) * (f - j)
  OBVIOUS
<1>4. (m + 1) * (f - k) + m + 1 <= (m + 1) * (f + 1)
  OBVIOUS
<1> QED BY <1>1, <1>2, <1>3, <1>4

LEMMA TurnFailures ==
  ASSUME TurnInv, Turn!Next
  PROVE  /\ fails' \in 0 .. MaxFailed + 1 /\ models' \in 0 .. Fallbacks
         /\ empties' \in 0 .. MaxEmpty /\ streak' \in Nat
         /\ FailuresSpent'
<1> USE TurnAssumption
<1>0. /\ fails \in 0 .. MaxFailed + 1 /\ models \in 0 .. Fallbacks
      /\ empties \in 0 .. MaxEmpty /\ streak \in Nat /\ FailuresSpent
  BY DEF TurnInv, TurnTypes, Turn!TypeOK
<1> DEFINE Paid(m) == (MaxFailed + 1) * (Fallbacks - m)
           Limit == (MaxFailed + 1) * (Fallbacks + 1)
<1>p. /\ \A m \in 0 .. Fallbacks : Paid(m) \in Nat /\ Paid(m) + MaxFailed + 1 <= Limit
      /\ \A m \in 0 .. Fallbacks : \A n \in 0 .. m : Paid(m) <= Paid(n)
      /\ \A m \in 1 .. Fallbacks : Paid(m - 1) = Paid(m) + MaxFailed + 1
      /\ Limit \in Nat
  <2>1. ASSUME NEW m \in 0 .. Fallbacks
        PROVE  Paid(m) \in Nat /\ Paid(m) + MaxFailed + 1 <= Limit
    BY Budget
  <2>2. ASSUME NEW m \in 0 .. Fallbacks, NEW n \in 0 .. m
        PROVE  Paid(m) <= Paid(n)
    BY Budget
  <2>3. ASSUME NEW m \in 1 .. Fallbacks
        PROVE  Paid(m - 1) = Paid(m) + MaxFailed + 1
    <3>1. Fallbacks - (m - 1) = (Fallbacks - m) + 1 /\ Fallbacks - m \in 0 .. Fallbacks
      OBVIOUS
    <3> QED BY <3>1, Budget
  <2> QED BY <2>1, <2>2, <2>3
<1>f. /\ at \in {"compact", "tools", "after", "handoff"} => streak = 0
      /\ at \in {"stream", "sleep", "overflow"} => fails <= MaxFailed
      /\ at \in {"stream", "sleep"} => streak <= fails + Paid(models)
      /\ at = "overflow" => streak <= fails + Paid(models) + 1
      /\ streak <= Limit
  BY <1>0 DEF FailuresSpent, Spent, Turn!FailuresBounded
<1>g. SUFFICES /\ fails' \in 0 .. MaxFailed + 1 /\ models' \in 0 .. Fallbacks
               /\ empties' \in 0 .. MaxEmpty /\ streak' \in Nat
               /\ at' \in {"compact", "tools", "after", "handoff"} => streak' = 0
               /\ at' \in {"stream", "sleep", "overflow"} => fails' <= MaxFailed
               /\ at' \in {"stream", "sleep"} => streak' <= fails' + Paid(models')
               /\ at' = "overflow" => streak' <= fails' + Paid(models') + 1
               /\ streak' <= Limit
  BY DEF FailuresSpent, Spent, Turn!FailuresBounded
<1> HIDE DEF Paid, Limit
<1> USE <1>0, <1>p, <1>f
<1>1. CASE Turn!Compact
  BY <1>1 DEF Turn!Compact, Turn!At
<1>2. CASE Turn!StreamError
  BY <1>2 DEF Turn!StreamError, Turn!ModelFails, Turn!Retries, Turn!Ends, Turn!At
<1>3. CASE Turn!StreamFallback
  BY <1>3 DEF Turn!StreamFallback, Turn!ModelFails, Turn!Ends, Turn!At
<1>4. CASE Turn!StreamOverflow
  BY <1>4 DEF Turn!StreamOverflow, Turn!ModelFails, Turn!At
<1>5. CASE Turn!OverflowCompacts
  BY <1>5 DEF Turn!OverflowCompacts, Turn!Retries, Turn!Ends, Turn!At
<1>6. CASE Turn!StreamEnds \/ Turn!Sleep \/ Turn!OverflowFails
  BY <1>6 DEF Turn!StreamEnds, Turn!Sleep, Turn!OverflowFails, Turn!Ends, Turn!At, Turn!loopVars
<1>7. CASE \/ Turn!ToolsEnd \/ Turn!Rewind \/ Turn!Handoff \/ Turn!HandoffEnds \/ Turn!NextStep
           \/ Turn!EmptyRetry \/ Turn!Finish
  BY <1>7 DEF Turn!ToolsEnd, Turn!Rewind, Turn!Handoff, Turn!HandoffEnds, Turn!NextStep, Turn!EmptyRetry,
              Turn!RetriesEmpty, Turn!Finish, Turn!Ends, Turn!Continues, Turn!At, Turn!loopVars
<1>8. CASE \E c \in Turn!Calls : Turn!Start(c) \/ Turn!ToolEnds(c) \/ Turn!Answer(c)
  BY <1>8 DEF Turn!Start, Turn!ToolEnds, Turn!Answer, Turn!loopVars
<1>9. CASE Turn!Interrupt \/ Turn!CancelTurn \/ Turn!Unwind
  BY <1>9 DEF Turn!Interrupt, Turn!CancelTurn, Turn!Unwind, Turn!Ends, Turn!loopVars
<1> QED BY <1>1, <1>2, <1>3, <1>4, <1>5, <1>6, <1>7, <1>8, <1>9 DEF Turn!Next

LEMMA TurnCalls ==
  ASSUME TurnInv, Turn!Next
  PROVE  /\ asked' \subseteq Turn!Calls /\ wishes' \subseteq {"rewind", "handoff"}
         /\ reply' \in {"text", "empty", "stop"}
         /\ callAt' \in [Turn!Calls -> {"none", "queued", "running", "done", "answered", "stopped"}]
         /\ results' \in [Turn!Calls -> Nat]
         /\ cancelled' \in BOOLEAN /\ wound' \in BOOLEAN
         /\ CallsTell' /\ AnsweredOnTime'
<1> DEFINE CallStates == {"none", "queued", "running", "done", "answered", "stopped"}
           Fine == /\ asked \subseteq Turn!Calls /\ wishes \subseteq {"rewind", "handoff"}
                   /\ reply \in {"text", "empty", "stop"}
                   /\ callAt \in [Turn!Calls -> CallStates]
                   /\ results \in [Turn!Calls -> Nat]
                   /\ cancelled \in BOOLEAN /\ wound \in BOOLEAN
                   /\ CallsTell /\ AnsweredOnTime
<1>0. Fine /\ at # "over"
  BY TurnSays DEF TurnInv, TurnTypes, Turn!TypeOK
<1>g. SUFFICES Fine'
  OBVIOUS
\* The steps that leave the calls alone.
<1>1. CASE /\ UNCHANGED <<asked, callAt, results, wound>> /\ cancelled' \in BOOLEAN
           /\ wishes' \subseteq {"rewind", "handoff"} /\ reply' \in {"text", "empty", "stop"}
           /\ cancelled => cancelled'
           /\ at' \in {"tools", "over"} \/ Turn!Answered(asked)
  BY <1>1, <1>0 DEF CallsTell, AnsweredOnTime, Turn!Answered
<1>2. CASE \/ Turn!Compact \/ Turn!StreamError \/ Turn!StreamFallback \/ Turn!StreamOverflow
           \/ Turn!Sleep \/ Turn!OverflowCompacts \/ Turn!OverflowFails
  <2>1. Turn!Answered(asked)
    BY <1>2, <1>0 DEF Turn!Compact, Turn!StreamError, Turn!StreamFallback, Turn!StreamOverflow,
           Turn!Sleep, Turn!OverflowCompacts, Turn!OverflowFails, Turn!ModelFails, Turn!At, AnsweredOnTime
  <2> QED
    BY <1>1, <1>2, <1>0, <2>1
       DEF Turn!Compact, Turn!StreamError, Turn!StreamFallback, Turn!StreamOverflow,
           Turn!Sleep, Turn!OverflowCompacts, Turn!OverflowFails, Turn!ModelFails, Turn!toolVars, Turn!endVars
<1>3. CASE \/ Turn!ToolsEnd \/ Turn!Rewind \/ Turn!Handoff \/ Turn!HandoffEnds \/ Turn!NextStep
           \/ Turn!EmptyRetry \/ Turn!Finish \/ Turn!CancelTurn
  <2>1. Turn!Answered(asked) \/ Turn!CancelTurn
    BY <1>3, <1>0 DEF Turn!ToolsEnd, Turn!Rewind, Turn!Handoff, Turn!HandoffEnds, Turn!NextStep,
           Turn!EmptyRetry, Turn!Finish, Turn!At, AnsweredOnTime
  <2>2. CASE Turn!CancelTurn
    BY <1>1, <2>2, <1>0 DEF Turn!CancelTurn, Turn!toolVars, AnsweredOnTime
  <2>3. CASE Turn!Answered(asked) /\ ~Turn!CancelTurn
    BY <1>1, <1>3, <1>0, <2>3
       DEF Turn!ToolsEnd, Turn!Rewind, Turn!Handoff, Turn!HandoffEnds, Turn!NextStep, Turn!EmptyRetry,
           Turn!Finish, Turn!toolVars, Turn!endVars
  <2> QED BY <2>1, <2>2, <2>3
<1>4. CASE Turn!StreamEnds
  <2>1. asked' \subseteq Turn!Calls /\ at' \in {"tools", "after"} /\ ~cancelled
    BY <1>4 DEF Turn!StreamEnds, Turn!At
  <2>2. /\ callAt' = [c \in Turn!Calls |-> IF c \in asked' THEN "queued" ELSE "none"]
        /\ results' = [c \in Turn!Calls |-> 0]
        /\ UNCHANGED <<wishes, cancelled, wound>> /\ reply' \in {"text", "empty"}
        /\ at' = "after" => asked' = {}
    BY <1>4 DEF Turn!StreamEnds, Turn!endVars
  <2>3. CallsTell'
    BY <2>1, <2>2, <1>0 DEF CallsTell
  <2>4. AnsweredOnTime'
    BY <2>1, <2>2, <1>0 DEF AnsweredOnTime, Turn!Answered
  <2> QED BY <2>1, <2>2, <2>3, <2>4, <1>0
<1>5. ASSUME NEW c \in Turn!Calls, Turn!Start(c) PROVE Fine'
  BY <1>5, <1>0 DEF Turn!Start, Turn!At, Turn!endVars, CallsTell, AnsweredOnTime
<1>6. ASSUME NEW c \in Turn!Calls, Turn!ToolEnds(c) PROVE Fine'
  <2>1. c \in asked /\ ~wound
    BY <1>6, <1>0 DEF Turn!ToolEnds, CallsTell, AnsweredOnTime
  <2>2. wishes' \subseteq {"rewind", "handoff"} /\ reply' \in {"text", "empty", "stop"}
    BY <1>6, <1>0 DEF Turn!ToolEnds
  <2> QED BY <1>6, <1>0, <2>1, <2>2 DEF Turn!ToolEnds, Turn!endVars, CallsTell, AnsweredOnTime
<1>7. ASSUME NEW c \in Turn!Calls, Turn!Answer(c) PROVE Fine'
  <2>1. c \in asked /\ ~wound /\ results[c] = 0
    BY <1>7, <1>0 DEF Turn!Answer, CallsTell, AnsweredOnTime
  <2> QED BY <1>7, <1>0, <2>1 DEF Turn!Answer, Turn!endVars, CallsTell, AnsweredOnTime
<1>8. CASE Turn!Interrupt
  <2>0. /\ ~wound /\ wound' = TRUE /\ cancelled' = TRUE /\ UNCHANGED <<at, asked, reply, wishes>>
    BY <1>8 DEF Turn!Interrupt
  <2>1. CASE at = "tools"
    <3>1. /\ results' = [c \in Turn!Calls |-> IF c \in Turn!Unfinished THEN results[c] + 1 ELSE results[c]]
          /\ callAt' = [c \in Turn!Calls |-> IF c \in Turn!Unfinished THEN "stopped" ELSE callAt[c]]
      BY <1>8, <2>1 DEF Turn!Interrupt, Turn!Missing, Turn!Stopped
    <3>2. /\ results' \in [Turn!Calls -> Nat] /\ callAt' \in [Turn!Calls -> CallStates]
      BY <3>1, <1>0
    <3>3. CallsTell'
      BY <2>0, <2>1, <3>1, <1>0 DEF CallsTell, Turn!Unfinished
    <3>4. AnsweredOnTime'
      <4>1. ASSUME NEW c \in asked PROVE callAt'[c] \in {"answered", "stopped"}
        BY <3>1, <1>0 DEF CallsTell, Turn!Unfinished
      <4> QED BY <2>0, <2>1, <4>1 DEF AnsweredOnTime
    <3> QED BY <2>0, <3>2, <3>3, <3>4, <1>0
  <2>2. CASE at # "tools"
    <3>1. UNCHANGED <<results, callAt>> /\ Turn!Answered(asked)
      BY <1>8, <2>2, <1>0 DEF Turn!Interrupt, AnsweredOnTime
    <3> QED BY <2>0, <2>2, <3>1, <1>0 DEF CallsTell, AnsweredOnTime, Turn!Answered
  <2> QED BY <2>1, <2>2
<1>9. CASE Turn!Unwind
  <2>0. /\ cancelled /\ at' = "over" /\ UNCHANGED <<cancelled, wound, asked, results, reply, wishes>>
        /\ callAt' = [c \in Turn!Calls |-> IF c \in Turn!Unfinished THEN "stopped" ELSE callAt[c]]
    BY <1>9 DEF Turn!Unwind, Turn!Ends
  <2>1. callAt' \in [Turn!Calls -> CallStates]
    BY <2>0, <1>0
  <2>2. CallsTell'
    BY <2>0, <1>0 DEF CallsTell, AnsweredOnTime, Turn!Unfinished
  <2>3. AnsweredOnTime'
    BY <2>0, <1>0 DEF AnsweredOnTime, Turn!Unfinished
  <2> QED BY <2>0, <2>1, <2>2, <2>3, <1>0
<1> QED BY <1>2, <1>3, <1>4, <1>5, <1>6, <1>7, <1>8, <1>9 DEF Turn!Next

LEMMA TurnStutters ==
  ASSUME TurnInv, UNCHANGED turnVars PROVE TurnInv'
<1>1. TurnTypes'
  BY DEF TurnInv, turnVars, TurnTypes, Turn!TypeOK
<1>2. Turn!SaysHowItEnded' /\ CallsTell' /\ AnsweredOnTime' /\ FailuresSpent'
  BY DEF TurnInv, turnVars, Turn!SaysHowItEnded, CallsTell, AnsweredOnTime, Turn!Answered, FailuresSpent,
         Spent, Turn!FailuresBounded
<1> QED BY <1>1, <1>2 DEF TurnInv

(* TaskExecutor: a turn that ends says how, by one finish or by an error that *)
(* cannot be retried (two of a sub-agent at most), after a bounded number of *)
(* failures in a row, and every call of a step it has left, or that was      *)
(* interrupted, has one result: for any calls, retries and fallback models.  *)
THEOREM TurnsAreWhole == Spec => []TurnWhole
<1> DEFINE Inv == which = "turn" => TurnInv
<1>1. Init => Inv
  BY TurnStarts DEF Init
<1>2. Inv /\ [Next]_vars => Inv'
  <2>1. ASSUME TurnInv, Turn!Next PROVE TurnInv'
    BY <2>1, TurnSays, TurnFailures, TurnCalls DEF TurnInv, TurnTypes, Turn!TypeOK
  <2>2. ASSUME Inv, [Next]_vars, which = "turn" PROVE TurnInv'
    <3>1. [Turn!Next]_turnVars
      BY <2>2, AboutOne
    <3> QED BY <2>1, <2>2, <3>1, TurnStutters
  <2> QED BY <2>2, AboutOne
<1>3. Inv => TurnWhole
  <2>1. TurnInv => Turn!OneResultPerCall
    <3>1. ASSUME TurnInv, NEW c \in asked PROVE c \in Turn!Calls
      BY <3>1 DEF TurnInv, TurnTypes, Turn!TypeOK
    <3> QED BY <3>1 DEF TurnInv, CallsTell, AnsweredOnTime, Turn!Answered, Turn!OneResultPerCall
  <2> QED BY <2>1 DEF TurnWhole, TurnInv, FailuresSpent
<1> QED BY <1>1, <1>2, <1>3, PTL DEF Spec

-----------------------------------------------------------------------------
(* FileEdits: the entry follows the file as long as its mtime does, the      *)
(* model believes what the entry says unless a hidden cause says not, and a  *)
(* tool that has checked replaces what it has read.                          *)

\* A tool call that has a text to write has it from the texts of the file.
ToolHas ==
  /\ tool.pc = "reads" => tool.got = NoText
  /\ tool.pc \in {"writes", "wrote"} => tool.after \in Contents
  /\ tool.pc = "has" /\ tool.kind # "write" => tool.got \in Contents
  /\ tool.kind = "write" => tool.after \in Contents
  /\ late.text # NoText => late.text \in Contents

\* The entry, and what the model makes of it.
EntryFollows ==
  /\ entry.same => Files!Exists
  /\ Files!Hashed /\ hidden = "no" => belief = entry.sha
  /\ Files!Hashed /\ entry.same /\ ~slipped => file = entry.sha
  /\ entry.sha = NoText /\ entry.same => file = belief \/ hidden # "no" \/ slipped
  /\ entry.sha # NoText \/ entry.same => entry.known

\* What a tool has read is there, and was checked before the tool writes.
ReadIsThere ==
  ~tool.raced =>
    /\ tool.pc = "has" => IF Files!Exists THEN tool.got = file ELSE tool.got = NoText
    /\ tool.pc = "writes" /\ tool.kind \in {"edit", "write"} /\ Files!Exists =>
         file = belief \/ hidden # "no" \/ slipped

FileInv ==
  Files!FileTypeOK /\ ToolHas /\ EntryFollows /\ ReadIsThere /\ Files!SeenBeforeReplaced

EntryRecord ==
  [known : BOOLEAN, sha : Contents \cup {NoText}, same : BOOLEAN,
   cached : Contents \cup {NoText}, full : BOOLEAN]
ToolRecord ==
  [pc : {"idle", "reads", "has", "writes", "wrote"}, kind : Files!Kinds \cup {"none"},
   got : Contents \cup {NoText}, after : Contents \cup {NoText},
   old : Contents \cup {NoText}, raced : BOOLEAN]

LEMMA FilesStart ==
  ASSUME Files!FileInit PROVE FileInv
<1> USE FileAssumption DEF Files!FileInit
<1>1. Files!NoEntry \in EntryRecord /\ Files!Idle \in ToolRecord
  BY DEF Files!NoEntry, Files!Idle, EntryRecord, ToolRecord, Files!Kinds
<1>2. [Files!NoEntry EXCEPT !.known = TRUE, !.same = TRUE] \in EntryRecord
  BY <1>1 DEF EntryRecord
<1>3. Files!FileTypeOK
  BY <1>1, <1>2, ZenonT(60) DEF Files!FileTypeOK, EntryRecord, ToolRecord, Files!Changing, Files!Causes
<1>4. ToolHas /\ ReadIsThere /\ Files!SeenBeforeReplaced
  BY DEF ToolHas, ReadIsThere, Files!SeenBeforeReplaced, Files!Idle
<1>5. /\ entry.sha = NoText
      /\ entry.same => entry.known /\ file # Gone /\ file = belief
  <2>1. CASE entry = Files!NoEntry
    BY <2>1 DEF Files!NoEntry
  <2>2. CASE entry = [Files!NoEntry EXCEPT !.known = TRUE, !.same = TRUE] /\ file # Gone /\ belief = file
    <3>1. entry.sha = NoText /\ entry.known
      BY <2>2 DEF Files!NoEntry
    <3> QED BY <2>2, <3>1
  <2> QED BY <2>1, <2>2
<1>6. EntryFollows
  BY <1>5 DEF EntryFollows, Files!Exists, Files!Hashed
<1> QED BY <1>3, <1>4, <1>6 DEF FileInv

LEMMA FileTypes ==
  ASSUME FileInv, Files!FileNext PROVE Files!FileTypeOK' /\ ToolHas'
<1> USE FileAssumption
<1> DEFINE Text == Contents \cup {NoText}
           Fine == /\ file \in Contents \cup {Gone}
                   /\ entry \in EntryRecord /\ tool \in ToolRecord
                   /\ late \in [kind : Files!Changing \cup {"none"}, text : Text]
                   /\ belief \in Text /\ hidden \in Files!Causes \cup {"no"} /\ slipped \in BOOLEAN
                   /\ replaced \in Files!Causes \cup {"nothing", "known", "raced", "slipped", "blind"}
                   /\ ToolHas
<1>0. Fine
  BY DEF FileInv, Files!FileTypeOK, EntryRecord, ToolRecord
<1>g. SUFFICES Fine'
  BY DEF Files!FileTypeOK, EntryRecord, ToolRecord
<1>i. /\ Files!Idle \in ToolRecord /\ Files!Idle.pc = "idle" /\ Files!Idle.kind = "none"
      /\ Files!Idle.got = NoText
  BY DEF Files!Idle, ToolRecord, Files!Kinds
<1>t. \A sha, cached \in Text, full \in BOOLEAN : Files!Tracked(sha, cached, full) \in EntryRecord
  BY DEF Files!Tracked, EntryRecord
<1> USE <1>0, <1>i
<1>1. CASE \/ Files!BeginCheck \/ Files!BeginEdit \/ Files!BeginPatch
           \/ \E k \in {"full", "part"} : Files!BeginRead(k)
           \/ \E k \in {"cat", "sed"} : Files!BeginCommand(k)
  <2>1. /\ tool' \in ToolRecord /\ tool'.pc = "reads" /\ tool'.kind # "write" /\ tool'.got = NoText
        /\ UNCHANGED <<file, entry, late, belief, hidden, slipped, replaced>>
    <3>1. CASE Files!BeginCheck
      BY <3>1 DEF Files!BeginCheck, ToolRecord, EntryRecord, Files!Kinds
    <3>2. CASE Files!BeginEdit \/ Files!BeginPatch
      BY <3>2, ZenonT(60) DEF Files!BeginEdit, Files!BeginPatch, ToolRecord, Files!Kinds
    <3>3. CASE \E k \in {"full", "part"} : Files!BeginRead(k)
      BY <3>3, ZenonT(60) DEF Files!BeginRead, ToolRecord, Files!Kinds
    <3>4. CASE \E k \in {"cat", "sed"} : Files!BeginCommand(k)
      BY <3>4, ZenonT(60) DEF Files!BeginCommand, ToolRecord, Files!Kinds
    <3> QED BY <1>1, <3>1, <3>2, <3>3, <3>4
  <2> QED BY <2>1 DEF ToolHas
<1>2. ASSUME NEW t \in Contents, Files!BeginWrite(t) PROVE Fine'
  <2>1. /\ tool' \in ToolRecord /\ tool'.pc \in {"reads", "writes"} /\ tool'.kind = "write" /\ tool'.after = t
        /\ tool'.got = NoText
        /\ UNCHANGED <<file, entry, late, belief, hidden, slipped, replaced>>
    <3>1. [Files!Idle EXCEPT !.pc = "reads", !.kind = "write", !.after = t] \in ToolRecord
      BY DEF ToolRecord, Files!Kinds
    <3>2. [Files!Idle EXCEPT !.pc = "writes", !.kind = "write", !.after = t] \in ToolRecord
      BY DEF ToolRecord, Files!Kinds
    <3>3. tool' \in ToolRecord
      BY <1>2, <3>1, <3>2 DEF Files!BeginWrite
    <3>4. tool'.pc \in {"reads", "writes"} /\ tool'.kind = "write" /\ tool'.after = t /\ tool'.got = NoText
      BY <1>2 DEF Files!BeginWrite, Files!Idle
    <3> QED BY <1>2, <3>3, <3>4 DEF Files!BeginWrite
  <2> QED BY <2>1 DEF ToolHas
<1>3. ASSUME NEW t \in Contents, Files!Checks(t) PROVE Fine'
  <2>1. /\ tool' \in ToolRecord
        /\ \/ tool' = Files!Idle
           \/ tool'.pc = "writes" /\ tool'.kind = tool.kind /\ tool'.after = t
        /\ UNCHANGED <<file, entry, late, belief, hidden, slipped, replaced>>
    BY <1>3, ZenonT(60) DEF Files!Checks, ToolRecord
  <2> QED BY <2>1 DEF ToolHas
<1>4. ASSUME NEW t \in Contents, Files!SedWrites(t) PROVE Fine'
  <2>1. /\ tool' \in ToolRecord /\ tool'.pc = "wrote" /\ tool'.kind = "sed" /\ tool'.after = t
        /\ entry' \in EntryRecord /\ file' = t
        /\ UNCHANGED <<late, belief, hidden, slipped, replaced>>
    BY <1>4 DEF Files!SedWrites, Files!Written, ToolRecord, EntryRecord
  <2> QED BY <2>1 DEF ToolHas
<1>r. ASSUME Files!Raced
      PROVE  /\ tool' \in ToolRecord /\ tool'.pc = tool.pc /\ tool'.kind = tool.kind
             /\ tool'.after = tool.after /\ tool'.got = tool.got
  <2>1. (tool.raced \/ tool.pc \in {"has", "writes"}) \in BOOLEAN
    OBVIOUS
  <2> QED BY <1>r, <2>1 DEF Files!Raced, ToolRecord
<1>5. ASSUME NEW t \in Contents \cup {Gone}, NEW k \in BOOLEAN, Files!OtherWrites(t, k) PROVE Fine'
  <2>1. entry' \in EntryRecord /\ slipped' \in BOOLEAN /\ file' = t
    BY <1>5, ZenonT(60) DEF Files!OtherWrites, EntryRecord
  <2>2. UNCHANGED <<late, belief, hidden, replaced>> /\ Files!Raced
    BY <1>5 DEF Files!OtherWrites
  <2> QED BY <2>1, <2>2, <1>r DEF ToolHas
<1>6. CASE Files!Restart
  <2>1. entry' \in EntryRecord
    BY <1>6 DEF Files!Restart, EntryRecord
  <2> QED BY <1>6, <2>1 DEF Files!Restart, ToolHas
<1>7. CASE Files!Reads
  <2>1. /\ tool' \in ToolRecord
        /\ \/ tool' = Files!Idle
           \/ /\ tool'.pc = "has" /\ tool'.kind = tool.kind /\ tool'.after = tool.after
              /\ tool.kind # "write" => tool'.got \in Contents
    <3>1. CASE Files!Exists
      <4>1. tool' = [tool EXCEPT !.pc = "has", !.got = file] /\ file \in Contents
        BY <1>7, <3>1 DEF Files!Reads, Files!Exists
      <4> QED BY <4>1 DEF ToolRecord
    <3>2. CASE ~Files!Exists /\ tool.kind = "write"
      <4>1. tool' = [tool EXCEPT !.pc = "has"]
        BY <1>7, <3>2 DEF Files!Reads
      <4> QED BY <4>1, <3>2 DEF ToolRecord
    <3>3. CASE ~Files!Exists /\ tool.kind # "write"
      BY <1>7, <3>3 DEF Files!Reads
    <3> QED BY <3>1, <3>2, <3>3
  <2> QED BY <1>7, <2>1, ZenonT(60) DEF Files!Reads, ToolHas
<1>8. CASE Files!EndRead \/ Files!EndCheck
  <2>1. tool' = Files!Idle /\ UNCHANGED <<file, late, replaced>> /\ tool.got \in Contents
    BY <1>8 DEF Files!EndRead, Files!EndCheck, ToolHas
  <2>2. /\ entry' \in EntryRecord /\ belief' \in Text /\ hidden' \in Files!Causes \cup {"no"}
        /\ slipped' \in BOOLEAN
    <3>1. \A cached \in Text : Files!EntryRead(cached) \in EntryRecord
      BY <1>t, <2>1 DEF Files!EntryRead
    <3>2. entry' \in EntryRecord
      BY <1>8, <3>1 DEF Files!EndRead, Files!EndCheck, Files!Exists
    <3>3. belief' \in Text /\ hidden' \in Files!Causes \cup {"no"}
      BY <1>8, <2>1 DEF Files!EndRead, Files!EndCheck, Files!Believes, Files!Exists, Files!Causes
    <3>4. slipped' \in BOOLEAN
      BY <1>8 DEF Files!EndRead, Files!EndCheck
    <3> QED BY <3>2, <3>3, <3>4
  <2> QED BY <2>1, <2>2 DEF ToolHas
<1>9. CASE Files!Writes
  <2>1. tool.after \in Contents
    BY <1>9 DEF Files!Writes, ToolHas
  <2>2. /\ tool' \in ToolRecord /\ tool'.pc = "wrote" /\ tool'.kind = tool.kind /\ tool'.after = tool.after
        /\ entry' \in EntryRecord /\ file' = tool.after
        /\ UNCHANGED <<late, belief, hidden, slipped>>
    BY <1>9 DEF Files!Writes, Files!Written, ToolRecord, EntryRecord
  <2>3. replaced' \in Files!Causes \cup {"nothing", "known", "raced", "slipped", "blind"}
    BY <1>9 DEF Files!Writes, Files!Replaces, Files!Causes
  <2> QED BY <2>1, <2>2, <2>3 DEF ToolHas
<1>10. CASE Files!PatchWrites \/ Files!EndWrite
  <2>1. tool.after \in Contents /\ tool' = Files!Idle /\ UNCHANGED late
    BY <1>10 DEF Files!PatchWrites, Files!EndWrite, ToolHas
  <2>2. /\ entry' \in EntryRecord /\ belief' \in Text /\ hidden' \in Files!Causes \cup {"no"}
        /\ slipped' \in BOOLEAN /\ file' \in Contents \cup {Gone}
        /\ replaced' \in {replaced, "nothing"}
    <3>1. entry' \in EntryRecord
      <4>1. Files!Tracked(tool.after, tool.after, FALSE) \in EntryRecord
        BY <1>t, <2>1
      <4> QED BY <1>10, <4>1 DEF Files!PatchWrites, Files!EndWrite
    <3>2. belief' \in Text /\ hidden' \in Files!Causes \cup {"no"}
      BY <1>10, <2>1 DEF Files!PatchWrites, Files!EndWrite, Files!Believes, Files!Causes
    <3>3. slipped' \in BOOLEAN
      <4>1. slipped' \in {FALSE, file # tool.after, slipped}
        BY <1>10 DEF Files!PatchWrites, Files!EndWrite
      <4> QED BY <4>1
    <3>4. file' \in Contents \cup {Gone} /\ replaced' \in {replaced, "nothing"}
      BY <1>10, <2>1 DEF Files!PatchWrites, Files!EndWrite
    <3> QED BY <3>1, <3>2, <3>3, <3>4
  <2> QED BY <2>1, <2>2 DEF ToolHas
<1>11. CASE Files!EndCommand
  <2>1. tool' = Files!Idle /\ UNCHANGED <<file, late, replaced>>
    BY <1>11 DEF Files!EndCommand
  <2>2. /\ entry' \in EntryRecord /\ belief' \in Text /\ hidden' \in Files!Causes \cup {"no"}
        /\ slipped' \in BOOLEAN
    <3> DEFINE printed == IF tool.kind = "cat" THEN tool.got
                        ELSE IF belief = tool.got THEN tool.after ELSE belief
    <3>1. printed \in Text
      BY DEF ToolRecord
    <3> HIDE DEF printed
    <3>2. CASE Files!Exists
      <4>1. /\ entry' = Files!Tracked(file, NoText, FALSE) /\ file \in Contents
            /\ Files!Believes(printed, file, "shell") /\ slipped' = FALSE
        BY <1>11, <3>2 DEF Files!EndCommand, Files!Exists, printed
      <4> QED BY <1>t, <4>1, <3>1 DEF Files!Believes, Files!Causes
    <3>3. CASE ~Files!Exists
      <4>1. Files!Believes(printed, entry.sha, "gone") /\ UNCHANGED <<entry, slipped>>
        BY <1>11, <3>3 DEF Files!EndCommand, printed
      <4> QED BY <4>1, <3>1 DEF Files!Believes, Files!Causes
    <3> QED BY <3>2, <3>3
  <2> QED BY <2>1, <2>2 DEF ToolHas
<1>12. CASE Files!Interrupted
  <2>1. tool' = Files!Idle /\ replaced' = "nothing" /\ UNCHANGED <<file, entry, belief, hidden, slipped>>
    BY <1>12 DEF Files!Interrupted
  <2>2. /\ late' \in [kind : Files!Changing \cup {"none"}, text : Text]
        /\ late'.text # NoText => late'.text \in Contents
    BY <1>12 DEF Files!Interrupted, ToolHas, ToolRecord
  <2> QED BY <2>1, <2>2 DEF ToolHas
<1>13. CASE Files!LateWrite
  <2>1. late.text \in Contents /\ late' = [kind |-> "none", text |-> NoText]
    BY <1>13 DEF Files!LateWrite, ToolHas
  <2>2. /\ entry' \in EntryRecord /\ belief' \in Text /\ hidden' \in Files!Causes \cup {"no"}
        /\ slipped' \in BOOLEAN /\ file' = late.text /\ replaced' = replaced
    <3>1. CASE late.kind = "patch"
      BY <1>13, <1>t, <2>1, <3>1 DEF Files!LateWrite, Files!Believes, Files!Causes
    <3>2. CASE late.kind # "patch"
      BY <1>13, <2>1, <3>2 DEF Files!LateWrite, EntryRecord
    <3> QED BY <3>1, <3>2
  <2>3. Files!Raced
    BY <1>13 DEF Files!LateWrite
  <2> QED BY <2>1, <2>2, <2>3, <1>r DEF ToolHas
<1> QED
  BY <1>1, <1>2, <1>3, <1>4, <1>5, <1>6, <1>7, <1>8, <1>9, <1>10, <1>11, <1>12, <1>13, FileAssumption
     DEF Files!FileNext

LEMMA FileEntry ==
  ASSUME FileInv, Files!FileNext PROVE EntryFollows'
<1> USE FileAssumption
<1>0. /\ entry \in EntryRecord /\ tool \in ToolRecord /\ file \in Contents \cup {Gone}
      /\ late \in [kind : Files!Changing \cup {"none"}, text : Contents \cup {NoText}]
      /\ slipped \in BOOLEAN
      /\ ToolHas /\ EntryFollows /\ ReadIsThere
  BY DEF FileInv, Files!FileTypeOK, EntryRecord, ToolRecord
\* A new entry with the mtime of now, of a text the file holds or has slipped from.
<1>t. ASSUME NEW sha \in Contents, NEW cached, NEW full, entry' = Files!Tracked(sha, cached, full),
             file' # Gone, hidden' = "no" => belief' = sha, ~slipped' => file' = sha
      PROVE  EntryFollows'
  <2>1. entry'.sha = sha /\ entry'.known
    BY <1>t DEF Files!Tracked
  <2>2. sha # NoText
    OBVIOUS
  <2> QED BY <1>t, <2>1, <2>2 DEF EntryFollows, Files!Exists, Files!Hashed
\* The mtime is no longer the entry's.
<1>w. ASSUME entry' = [entry EXCEPT !.same = FALSE], UNCHANGED <<belief, hidden>>
      PROVE  EntryFollows'
  <2>1. entry'.sha = entry.sha /\ entry'.known = entry.known /\ ~entry'.same
    BY <1>w, <1>0 DEF EntryRecord
  <2> QED BY <1>w, <1>0, <2>1 DEF EntryFollows, Files!Exists, Files!Hashed
\* The file went, and its entry stays.
<1>h. ASSUME ~Files!Exists, UNCHANGED <<file, entry, slipped>>,
             NEW text, Files!Believes(text, entry.sha, "gone")
      PROVE  EntryFollows'
  BY <1>h, <1>0 DEF EntryFollows, Files!Exists, Files!Hashed, Files!Believes
<1>s. ASSUME UNCHANGED <<file, entry, belief, hidden, slipped>>
      PROVE  EntryFollows'
  BY <1>s, <1>0, SMTT(30) DEF EntryFollows, Files!Exists, Files!Hashed
<1>1. CASE \/ Files!BeginCheck \/ Files!BeginEdit \/ Files!BeginPatch \/ Files!Reads \/ Files!Interrupted
           \/ \E k \in {"full", "part"} : Files!BeginRead(k)
           \/ \E k \in {"cat", "sed"} : Files!BeginCommand(k)
           \/ \E t \in Contents : Files!BeginWrite(t) \/ Files!Checks(t)
  BY <1>1, <1>s DEF Files!BeginCheck, Files!BeginEdit, Files!BeginPatch, Files!Reads, Files!Interrupted,
                    Files!BeginRead, Files!BeginCommand, Files!BeginWrite, Files!Checks
<1>2. CASE Files!Writes \/ \E t \in Contents : Files!SedWrites(t)
  BY <1>2, <1>w DEF Files!Writes, Files!SedWrites, Files!Written
<1>3. ASSUME NEW t \in Contents \cup {Gone}, NEW k \in BOOLEAN, Files!OtherWrites(t, k) PROVE EntryFollows'
  <2>1. CASE entry' = [entry EXCEPT !.same = FALSE]
    BY <1>3, <2>1, <1>w DEF Files!OtherWrites
  <2>2. CASE UNCHANGED entry /\ slipped' = (slipped \/ (entry.known /\ entry.same)) /\ t # Gone
    <3>1. file' = t /\ UNCHANGED <<belief, hidden>>
      BY <1>3 DEF Files!OtherWrites
    <3>2. entry.same => entry.known /\ slipped'
      BY <2>2, <1>0 DEF EntryFollows
    <3> QED BY <2>2, <3>1, <3>2, <1>0 DEF EntryFollows, Files!Exists, Files!Hashed
  <2> QED BY <1>3, <2>1, <2>2 DEF Files!OtherWrites
<1>4. CASE Files!Restart
  <2>1. entry'.sha = entry.sha /\ entry'.known = entry.known /\ entry'.same = entry.same
    BY <1>4, <1>0 DEF Files!Restart, EntryRecord
  <2> QED BY <1>4, <2>1, <1>0 DEF Files!Restart, EntryFollows, Files!Exists, Files!Hashed
<1>5. CASE Files!EndRead
  <2>1. tool.got \in Contents
    BY <1>5, <1>0 DEF Files!EndRead, ToolHas
  <2>2. CASE Files!Exists
    <3>1. PICK cached : entry' = Files!EntryRead(cached)
      BY <1>5, <2>2 DEF Files!EndRead
    <3>2. entry'.sha = tool.got
      BY <3>1 DEF Files!EntryRead, Files!Tracked
    <3>3. file' = file /\ Files!Believes(tool.got, tool.got, "check") /\ slipped' = (file # tool.got)
      BY <1>5, <2>2, <3>2 DEF Files!EndRead
    <3> QED BY <2>1, <2>2, <3>1, <3>3, <1>t DEF Files!EntryRead, Files!Believes, Files!Exists
  <2>3. CASE ~Files!Exists
    BY <1>5, <2>3, <1>h DEF Files!EndRead
  <2> QED BY <2>2, <2>3
<1>6. CASE Files!EndCheck
  <2>1. tool.got \in Contents
    BY <1>6, <1>0 DEF Files!EndCheck, ToolHas
  <2>2. CASE Files!Exists
    <3>1. PICK cached \in {NoText, file} :
            /\ entry' = Files!EntryRead(cached)
            /\ slipped' = (file # entry'.sha)
            /\ Files!Believes(IF NoText \notin {tool.old, cached} /\ tool.old # cached
                              THEN cached ELSE belief, tool.got, "check")
      BY <1>6, <2>2 DEF Files!EndCheck
    <3>2. entry'.sha = tool.got
      BY <3>1 DEF Files!EntryRead, Files!Tracked
    <3>3. file' = file /\ (hidden' = "no" => belief' = tool.got)
      BY <1>6, <3>1 DEF Files!EndCheck, Files!Believes
    <3> QED BY <2>1, <2>2, <3>1, <3>2, <3>3, <1>t DEF Files!EntryRead, Files!Exists
  <2>3. CASE ~Files!Exists
    BY <1>6, <2>3, <1>s DEF Files!EndCheck
  <2> QED BY <2>2, <2>3
<1>7. CASE Files!PatchWrites
  <2>1. tool.after \in Contents
    BY <1>7, <1>0 DEF Files!PatchWrites, ToolHas
  <2>2. /\ entry' = Files!Tracked(tool.after, tool.after, FALSE) /\ file' = tool.after
        /\ hidden' = "no" => belief' = tool.after
    BY <1>7 DEF Files!PatchWrites, Files!Believes
  <2> QED BY <2>1, <2>2, <1>t
<1>8. CASE Files!EndWrite
  <2>1. tool.after \in Contents
    BY <1>8, <1>0 DEF Files!EndWrite, ToolHas
  <2>2. CASE Files!Exists
    <3>1. /\ entry' = Files!Tracked(tool.after, tool.after, FALSE) /\ slipped' = (file # tool.after)
          /\ belief' = tool.after /\ file' = file
      BY <1>8, <2>2 DEF Files!EndWrite, Files!Believes
    <3> QED BY <2>1, <2>2, <3>1, <1>t DEF Files!Exists
  <2>3. CASE ~Files!Exists
    BY <1>8, <2>3, <1>h DEF Files!EndWrite
  <2> QED BY <2>2, <2>3
<1>9. CASE Files!EndCommand
  <2> DEFINE printed == IF tool.kind = "cat" THEN tool.got
                      ELSE IF belief = tool.got THEN tool.after ELSE belief
  <2>1. CASE Files!Exists
    <3>1. /\ entry' = Files!Tracked(file, NoText, FALSE) /\ file \in Contents /\ file' = file
          /\ Files!Believes(printed, file, "shell") /\ slipped' = FALSE
      BY <1>9, <2>1, <1>0 DEF Files!EndCommand, Files!Exists
    <3> QED BY <3>1, <2>1, <1>t DEF Files!Believes, Files!Exists
  <2>2. CASE ~Files!Exists
    <3>1. Files!Believes(printed, entry.sha, "gone") /\ UNCHANGED <<file, entry, slipped>>
      BY <1>9, <2>2 DEF Files!EndCommand
    <3> QED BY <3>1, <2>2, <1>h
  <2> QED BY <2>1, <2>2
<1>10. CASE Files!LateWrite
  <2>1. late.text \in Contents /\ file' = late.text
    BY <1>10, <1>0 DEF Files!LateWrite, ToolHas
  <2>2. CASE late.kind = "patch"
    <3>1. /\ entry' = Files!Tracked(late.text, late.text, FALSE)
          /\ hidden' = "no" => belief' = late.text
      BY <1>10, <2>2 DEF Files!LateWrite, Files!Believes
    <3> QED BY <2>1, <3>1, <1>t
  <2>3. CASE late.kind # "patch"
    BY <1>10, <2>3, <1>w DEF Files!LateWrite
  <2> QED BY <2>2, <2>3
<1> QED
  BY <1>1, <1>2, <1>3, <1>4, <1>5, <1>6, <1>7, <1>8, <1>9, <1>10 DEF Files!FileNext

LEMMA FileRead ==
  ASSUME FileInv, Files!FileNext PROVE ReadIsThere' /\ Files!SeenBeforeReplaced'
<1> USE FileAssumption
<1>0. /\ entry \in EntryRecord /\ tool \in ToolRecord /\ file \in Contents \cup {Gone}
      /\ ToolHas /\ EntryFollows /\ ReadIsThere /\ replaced # "blind"
  BY DEF FileInv, Files!FileTypeOK, Files!SeenBeforeReplaced, EntryRecord, ToolRecord
<1> DEFINE Fine == ReadIsThere' /\ replaced' # "blind"
<1>g. SUFFICES Fine
  BY DEF Files!SeenBeforeReplaced
<1>1. ASSUME tool'.pc \notin {"has", "writes"}, replaced' # "blind" PROVE Fine
  BY <1>1 DEF ReadIsThere
<1>i. Files!Idle.pc = "idle"
  BY DEF Files!Idle
<1>2. CASE \/ Files!BeginCheck \/ Files!BeginEdit \/ Files!BeginPatch
           \/ \E k \in {"full", "part"} : Files!BeginRead(k)
           \/ \E k \in {"cat", "sed"} : Files!BeginCommand(k)
  <2>1. [Files!Idle EXCEPT !.pc = "reads"].pc = "reads" /\ "pc" \in DOMAIN Files!Idle
    BY DEF Files!Idle
  <2>2. tool'.pc = "reads" /\ replaced' = replaced
    <3>1. CASE Files!BeginCheck
      BY <3>1 DEF Files!BeginCheck, Files!Idle
    <3>2. CASE Files!BeginEdit \/ Files!BeginPatch
      BY <3>2 DEF Files!BeginEdit, Files!BeginPatch, Files!Idle
    <3>3. CASE \E k \in {"full", "part"} : Files!BeginRead(k)
      BY <3>3 DEF Files!BeginRead, Files!Idle
    <3>4. CASE \E k \in {"cat", "sed"} : Files!BeginCommand(k)
      BY <3>4 DEF Files!BeginCommand, Files!Idle
    <3> QED BY <1>2, <3>1, <3>2, <3>3, <3>4
  <2> QED BY <2>2, <1>1, <1>0
<1>3. ASSUME NEW t \in Contents, Files!BeginWrite(t) PROVE Fine
  <2>1. /\ tool'.pc = IF Files!Exists THEN "reads" ELSE "writes"
        /\ file' = file /\ replaced' = replaced
    BY <1>3 DEF Files!BeginWrite, Files!Idle
  <2> QED BY <2>1, <1>0 DEF ReadIsThere, Files!Exists
<1>4. CASE Files!Reads
  <2>1. /\ \/ tool'.pc = "idle"
           \/ /\ tool'.pc = "has" /\ tool'.got = IF Files!Exists THEN file ELSE tool.got
              /\ ~Files!Exists => tool.kind = "write"
        /\ file' = file /\ replaced' = replaced
    BY <1>4, <1>0, <1>i DEF Files!Reads, ToolRecord
  <2>2. tool.pc = "reads" /\ tool.got = NoText
    BY <1>4, <1>0 DEF Files!Reads, ToolHas
  <2> QED BY <2>1, <2>2, <1>0 DEF ReadIsThere, Files!Exists
<1>5. ASSUME NEW t \in Contents, Files!Checks(t) PROVE Fine
  <2>1. /\ \/ tool'.pc = "idle"
           \/ /\ tool'.pc = "writes" /\ tool'.kind = tool.kind /\ tool'.raced = tool.raced
              /\ tool.kind = "patch" \/ Files!Unchanged
        /\ UNCHANGED <<file, entry, belief, hidden, slipped, replaced>> /\ tool.pc = "has"
    BY <1>5, <1>0, <1>i DEF Files!Checks, ToolRecord
  <2>2. CASE tool'.pc = "idle"
    BY <2>1, <2>2, <1>1, <1>0
  <2>3. ASSUME tool'.pc = "writes", tool.kind # "patch", ~tool.raced, Files!Exists
        PROVE  file = belief \/ hidden # "no" \/ slipped
    <3>1. Files!Unchanged /\ tool.got = file /\ file # NoText
      BY <2>1, <2>3, <1>0 DEF ReadIsThere, Files!Exists
    <3>2. CASE entry.sha # NoText
      BY <3>1, <3>2, <1>0 DEF Files!Unchanged, EntryFollows, Files!Hashed
    <3>3. CASE entry.sha = NoText
      BY <3>1, <3>3, <2>3, <1>0 DEF Files!Unchanged, EntryFollows
    <3> QED BY <3>2, <3>3
  <2> QED BY <2>1, <2>2, <2>3, <1>0 DEF ReadIsThere, Files!Exists
<1>6. CASE Files!Raced /\ replaced' = replaced
  <2>1. /\ tool'.pc = tool.pc
        /\ ~tool'.raced => tool.pc \notin {"has", "writes"}
    BY <1>6, <1>0 DEF Files!Raced, ToolRecord
  <2> QED BY <2>1, <1>6, <1>0 DEF ReadIsThere
<1>7. ASSUME NEW t \in Contents \cup {Gone}, NEW k \in BOOLEAN, Files!OtherWrites(t, k) PROVE Fine
  BY <1>6, <1>7 DEF Files!OtherWrites
<1>8. CASE Files!LateWrite
  BY <1>6, <1>8 DEF Files!LateWrite
<1>9. CASE Files!Restart
  BY <1>1, <1>9, <1>0 DEF Files!Restart
<1>10. CASE Files!Writes
  <2>1. tool'.pc = "wrote"
    BY <1>10, <1>0 DEF Files!Writes, ToolRecord
  <2>2. Files!Replaces # "blind"
    <3>1. CASE Files!Exists /\ file # belief /\ ~tool.raced /\ hidden = "no"
      BY <1>10, <3>1, <1>0 DEF Files!Writes, Files!Replaces, ReadIsThere
    <3>2. CASE hidden # "no"
      BY <3>2 DEF Files!Replaces, FileInv, Files!FileTypeOK, Files!Causes
    <3>3. CASE ~Files!Exists \/ file = belief \/ tool.raced
      BY <3>3 DEF Files!Replaces
    <3> QED BY <3>1, <3>2, <3>3
  <2> QED BY <2>1, <2>2, <1>1, <1>10 DEF Files!Writes
<1>11. ASSUME NEW t \in Contents, Files!SedWrites(t) PROVE Fine
  <2>1. tool'.pc = "wrote" /\ replaced' = replaced
    BY <1>11, <1>0 DEF Files!SedWrites, ToolRecord
  <2> QED BY <2>1, <1>1, <1>0
<1>12. CASE \/ Files!EndRead \/ Files!EndCheck \/ Files!PatchWrites \/ Files!EndWrite \/ Files!EndCommand
            \/ Files!Interrupted
  <2>1. tool' = Files!Idle /\ replaced' \in {replaced, "nothing"}
    BY <1>12 DEF Files!EndRead, Files!EndCheck, Files!PatchWrites, Files!EndWrite, Files!EndCommand,
                 Files!Interrupted
  <2> QED BY <2>1, <1>i, <1>1, <1>0
<1> QED
  BY <1>2, <1>3, <1>4, <1>5, <1>7, <1>8, <1>9, <1>10, <1>11, <1>12 DEF Files!FileNext

LEMMA FilesStutter ==
  ASSUME FileInv, UNCHANGED fileVars PROVE FileInv'
<1>1. Files!FileTypeOK'
  BY DEF FileInv, fileVars, Files!FileTypeOK
<1>2. ToolHas' /\ EntryFollows' /\ ReadIsThere' /\ Files!SeenBeforeReplaced'
  BY DEF FileInv, fileVars, ToolHas, EntryFollows, ReadIsThere, Files!Exists, Files!Hashed,
         Files!SeenBeforeReplaced
<1> QED BY <1>1, <1>2 DEF FileInv

(* FileEdits: a tool replaces only what the model has seen, and what it is   *)
(* told of a file is true, for any texts, other writers, restarts,           *)
(* interrupts and threads that write late.                                   *)
THEOREM FilesAreKnown == Spec => []FilesKnown
<1> DEFINE Inv == which = "files" => FileInv
<1>1. Init => Inv
  BY FilesStart DEF Init
<1>2. Inv /\ [Next]_vars => Inv'
  <2>1. ASSUME FileInv, Files!FileNext PROVE FileInv'
    BY <2>1, FileTypes, FileEntry, FileRead DEF FileInv
  <2>2. ASSUME Inv, [Next]_vars, which = "files" PROVE FileInv'
    <3>1. [Files!FileNext]_fileVars
      BY <2>2, AboutOne
    <3> QED BY <2>1, <2>2, <3>1, FilesStutter
  <2> QED BY <2>2, AboutOne
<1>3. Inv => FilesKnown
  <2>1. FileInv => Files!UnchangedIsTrue
    BY DEF FileInv, EntryFollows, Files!UnchangedIsTrue, Files!StubDue, Files!InContext, Files!Exists,
           Files!Hashed
  <2> QED BY <2>1 DEF FilesKnown, FileInv
<1> QED BY <1>1, <1>2, <1>3, PTL DEF Spec

-----------------------------------------------------------------------------
(* SubAgents: the events a launcher has read and those on their way say      *)
(* together how its child's turn ended, unless its subscription was cut.     *)

Within(s, e) == \E i \in 1 .. Len(s) : s[i] = e
EndsLast(s) == \A i \in 1 .. Len(s) : s[i] \in {"completed", "failed"} => i = Len(s)
Has(c, e) == Within(news[c], e)

\* How far a child is, and what its turn can have said.
KidProgress(c) ==
  /\ launcher[c] \in {"none", "prepares"} => childOp[c] = "none"
  /\ childOp[c] \in {"none", "mail", "held", "handled", "task"} => c \notin spoke
  /\ ended[c] # "no" <=> childOp[c] \in {"wraps", "ended"}
  /\ ended[c] \in {"silent", "failed"} => c \notin spoke
  /\ ended[c] = "answer" => c \in spoke

\* What the events say is so, and the end of the operation comes last.
KidHeard(c) ==
  /\ Has(c, "finish") \/ seen[c].finish => ended[c] \in {"answer", "cancelled"}
  /\ Has(c, "error") \/ seen[c].error => c \in gotOver \/ ended[c] = "fatal"
  /\ Has(c, "failed") \/ seen[c].status = "failed" => ended[c] = "failed"
  /\ Has(c, "completed") \/ Has(c, "failed") => childOp[c] = "ended"
  /\ EndsLast(news[c])

\* A launcher that was not cut off has heard, or will hear, all of it.
KidFollowed(c) ==
  /\ launcher[c] = "asks" => c \in lost
  /\ launcher[c] = "ends" => childOp[c] = "ended" /\ seen[c].status # "none"
  /\ launcher[c] = "follows" /\ c \notin lost =>
       /\ ended[c] \in {"answer", "cancelled"} => seen[c].finish \/ Has(c, "finish")
       /\ ended[c] = "fatal" => seen[c].error \/ Has(c, "error")
  /\ launcher[c] = "ends" /\ c \notin lost =>
       /\ ended[c] \in {"answer", "cancelled"} => seen[c].finish
       /\ ended[c] = "fatal" => seen[c].error

KidResult(c) ==
  /\ outcome[c] \in {"success", "error"} => launcher[c] = "over" /\ childOp[c] \in {"none", "ended"}
  /\ outcome[c] = "success" =>
       ended[c] \in {"answer", "cancelled"} \/ (c \in lost /\ c \in spoke)
  /\ outcome[c] = "error" => ended[c] # "answer" \/ c \in lost \cap gotOver

KidInv(c) == KidProgress(c) /\ KidHeard(c) /\ KidFollowed(c) /\ KidResult(c)

\* The interrupt works its way through the children it has found.
CascadeReaches ==
  /\ cascade.pc \notin {"none", "waits"} =>
       \A c \in reached : childOp[c] \in {"task", "begun", "wraps", "ended"}
  /\ cascade.pc \in {"goes", "done"} =>
       \A c \in reached : c \in cascade.left \/ (Kids!AtWork(c) => c \in dying)
  /\ cascade.pc = "done" => cascade.left = {}

ChildInv == Kids!ChildTypeOK /\ (\A c \in AgentCalls : KidInv(c)) /\ CascadeReaches

ChildEvents == {"error", "finish", "completed", "failed"}

LEMMA NewsGrows ==
  ASSUME NEW s \in Seq(ChildEvents), NEW x \in ChildEvents
  PROVE  /\ s \o <<x>> \in Seq(ChildEvents) /\ s \o <<>> = s
         /\ \A e : Within(s \o <<x>>, e) <=> Within(s, e) \/ e = x
         /\ ~Within(s, "completed") /\ ~Within(s, "failed") => EndsLast(s \o <<x>>)
<1>1. /\ s \o <<x>> \in Seq(ChildEvents) /\ Len(s \o <<x>>) = Len(s) + 1 /\ Len(s) \in Nat
      /\ \A i \in 1 .. Len(s) : (s \o <<x>>)[i] = s[i]
      /\ (s \o <<x>>)[Len(s) + 1] = x /\ s \o <<>> = s
  OBVIOUS
<1> DEFINE t == s \o <<x>>
<1> HIDE DEF t
<1>2. ASSUME NEW e PROVE Within(t, e) <=> Within(s, e) \/ e = x
  BY <1>1 DEF Within, t
<1>3. ASSUME ~Within(s, "completed"), ~Within(s, "failed") PROVE EndsLast(t)
  BY <1>1, <1>3 DEF EndsLast, Within, t
<1> QED BY <1>1, <1>2, <1>3 DEF t

LEMMA NewsRead ==
  ASSUME NEW s \in Seq(ChildEvents), s # <<>>
  PROVE  /\ Head(s) \in ChildEvents /\ Tail(s) \in Seq(ChildEvents)
         /\ \A e : Within(s, e) <=> e = Head(s) \/ Within(Tail(s), e)
         /\ EndsLast(s) => EndsLast(Tail(s))
         /\ EndsLast(s) /\ Head(s) \in {"completed", "failed"} => \A e : ~Within(Tail(s), e)
<1>1. /\ Head(s) = s[1] /\ Head(s) \in ChildEvents /\ Len(s) >= 1 /\ Len(s) \in Nat
      /\ Tail(s) \in Seq(ChildEvents) /\ Len(Tail(s)) = Len(s) - 1
      /\ \A i \in 1 .. Len(s) - 1 : Tail(s)[i] = s[i + 1]
  OBVIOUS
<1> DEFINE t == Tail(s)
<1> HIDE DEF t
<1>2. ASSUME NEW e PROVE Within(s, e) <=> e = s[1] \/ Within(t, e)
  <2>1. ASSUME Within(t, e) PROVE Within(s, e)
    BY <1>1, <2>1 DEF Within, t
  <2>2. ASSUME Within(s, e), e # s[1] PROVE Within(t, e)
    <3>1. PICK i \in 1 .. Len(s) : s[i] = e
      BY <2>2 DEF Within
    <3>2. i - 1 \in 1 .. Len(s) - 1 /\ (i - 1) + 1 = i
      BY <3>1, <2>2, <1>1
    <3> QED BY <3>1, <3>2, <1>1 DEF Within, t
  <2>3. Within(s, s[1])
    BY <1>1 DEF Within
  <2> QED BY <2>1, <2>2, <2>3
<1>3. ASSUME EndsLast(s) PROVE EndsLast(t)
  <2> SUFFICES ASSUME NEW i \in 1 .. Len(t), t[i] \in {"completed", "failed"} PROVE i = Len(t)
    BY DEF EndsLast
  <2>1. i + 1 \in 1 .. Len(s) /\ s[i + 1] = t[i] /\ i \in Nat
    BY <1>1 DEF t
  <2>2. s[i + 1] \in {"completed", "failed"} => i + 1 = Len(s)
    BY <2>1, <1>3 DEF EndsLast
  <2>3. Len(t) = Len(s) - 1
    BY <1>1 DEF t
  <2> QED BY <2>1, <2>2, <2>3, <1>1
<1>4. ASSUME EndsLast(s), s[1] \in {"completed", "failed"}, NEW e PROVE ~Within(t, e)
  <2>0. 1 \in 1 .. Len(s)
    BY <1>1
  <2>1. Len(s) = 1
    BY <2>0, <1>4 DEF EndsLast
  <2> QED BY <2>1, <1>1 DEF Within, t
<1> QED BY <1>1, <1>2, <1>3, <1>4 DEF t

LEMMA NoNews ==
  EndsLast(<<>>) /\ \A e : ~Within(<<>>, e)
BY DEF EndsLast, Within

LEMMA ChildrenStart ==
  ASSUME Kids!ChildInit PROVE ChildInv
<1> USE ChildAssumption DEF Kids!ChildInit
<1>1. Kids!ChildTypeOK
  BY DEF Kids!ChildTypeOK, Kids!Live, Kids!Ends
<1>2. ASSUME NEW c \in AgentCalls PROVE KidInv(c)
  <2>1. EndsLast(news[c]) /\ \A e : ~Has(c, e)
    BY NoNews DEF Has
  <2> QED BY <2>1 DEF KidInv, KidProgress, KidHeard, KidFollowed, KidResult
<1>3. CascadeReaches
  BY DEF CascadeReaches
<1> QED BY <1>1, <1>2, <1>3 DEF ChildInv

\* A step about another child leaves this one as it is.
LEMMA KidStays ==
  ASSUME NEW c \in AgentCalls, KidInv(c),
         launcher'[c] = launcher[c], childOp'[c] = childOp[c], news'[c] = news[c], seen'[c] = seen[c],
         ended'[c] = ended[c], outcome'[c] = outcome[c],
         c \in lost' <=> c \in lost, c \in spoke' <=> c \in spoke, c \in gotOver' <=> c \in gotOver
  PROVE  KidInv(c)'
BY DEF KidInv, KidProgress, KidHeard, KidFollowed, KidResult, Has

\* What an event of a child does to the news of its launcher.
LEMMA Publishing ==
  ASSUME news \in [AgentCalls -> Seq(ChildEvents)], NEW c \in AgentCalls, NEW e \in ChildEvents,
         Kids!Published(c, <<e>>)
  PROVE  /\ news' \in [AgentCalls -> Seq(ChildEvents)]
         /\ \A d \in AgentCalls \ {c} : news'[d] = news[d]
         /\ c \in lost \/ launcher[c] # "follows" => news'[c] = news[c]
         /\ c \notin lost /\ launcher[c] = "follows" => news'[c] = news[c] \o <<e>>
<1>1. news[c] \o <<e>> \in Seq(ChildEvents)
  BY NewsGrows
<1> QED BY <1>1 DEF Kids!Published

LEMMA ChildTypes ==
  ASSUME ChildInv, Kids!ChildNext PROVE Kids!ChildTypeOK'
<1> USE ChildAssumption
<1> DEFINE Lives == Kids!Live \cup {"none", "over"}
           Stages == {"none", "mail", "held", "handled", "task", "begun", "wraps", "ended"}
           Seen == [finish : BOOLEAN, error : BOOLEAN, status : {"none", "completed", "failed"}]
           Outcomes == {"none", "success", "error", "aborted"}
           LauncherTypes == /\ launcher \in [AgentCalls -> Lives] /\ seen \in [AgentCalls -> Seen]
                            /\ outcome \in [AgentCalls -> Outcomes]
           TurnTypesOf == /\ childOp \in [AgentCalls -> Stages]
                          /\ dying \subseteq AgentCalls /\ lost \subseteq AgentCalls
                          /\ spoke \subseteq AgentCalls /\ gotOver \subseteq AgentCalls
                          /\ news \in [AgentCalls -> Seq(ChildEvents)]
                          /\ ended \in [AgentCalls -> Kids!Ends \cup {"no"}]
                          /\ troubles \in 0 .. MaxTroubles
           InterruptTypes == /\ parent \in {"running", "stopping", "over"} /\ reached \subseteq AgentCalls
                             /\ cascade \in [pc : {"none", "waits", "goes", "done"}, left : SUBSET AgentCalls]
           Fine == LauncherTypes /\ TurnTypesOf /\ InterruptTypes
<1>0. Fine
  BY DEF ChildInv, Kids!ChildTypeOK, ChildEvents
<1>g. SUFFICES Fine'
  BY DEF Kids!ChildTypeOK, ChildEvents
<1>l. LauncherTypes /\ UNCHANGED Kids!launcherVars => LauncherTypes'
  BY DEF Kids!launcherVars
<1>i. InterruptTypes /\ UNCHANGED Kids!interruptVars => InterruptTypes'
  BY DEF Kids!interruptVars
<1>t. TurnTypesOf /\ UNCHANGED Kids!turnOf => TurnTypesOf'
  BY DEF Kids!turnOf
<1>1. ASSUME NEW c \in AgentCalls, Kids!Spawn(c) \/ Kids!CutOff(c) \/ Kids!Asked(c) \/ Kids!Return(c)
      PROVE  Fine'
  <2>1. UNCHANGED Kids!turnOf /\ UNCHANGED Kids!interruptVars
    BY <1>1 DEF Kids!Spawn, Kids!CutOff, Kids!Asked, Kids!Return
  <2>2. launcher' \in [AgentCalls -> Lives]
    <3>1. \E st \in {"prepares", "asks", "ends", "over"} : launcher' = [launcher EXCEPT ![c] = st]
      BY <1>1 DEF Kids!Spawn, Kids!CutOff, Kids!Asked, Kids!Return
    <3>2. {"prepares", "asks", "ends", "over"} \subseteq Lives
      BY DEF Kids!Live
    <3> HIDE DEF Lives
    <3> QED BY <3>1, <3>2, <1>0
  <2>4. outcome' \in [AgentCalls -> Outcomes]
    BY <1>1, <1>0 DEF Kids!Spawn, Kids!CutOff, Kids!Asked, Kids!Return
  <2>3. seen' \in [AgentCalls -> Seen]
    <3>1. CASE Kids!Asked(c)
      <4>1. (IF ended[c] = "failed" THEN "failed" ELSE "completed") \in {"none", "completed", "failed"}
        OBVIOUS
      <4>2. seen[c] \in Seen
        BY <1>0
      <4>3. [seen[c] EXCEPT !.status = IF ended[c] = "failed" THEN "failed" ELSE "completed"] \in Seen
        BY <4>1, <4>2
      <4>4. seen' = [seen EXCEPT ![c] = [seen[c] EXCEPT !.status = IF ended[c] = "failed" THEN "failed" ELSE "completed"]]
        BY <3>1 DEF Kids!Asked
      <4> QED BY <4>3, <4>4, <1>0
    <3>2. CASE ~Kids!Asked(c)
      BY <3>2, <1>1, <1>0 DEF Kids!Spawn, Kids!CutOff, Kids!Return
    <3> QED BY <3>1, <3>2
  <2> HIDE DEF Lives, Seen, Outcomes, TurnTypesOf, InterruptTypes
  <2> QED BY <2>1, <2>2, <2>3, <2>4, <1>0, <1>i, <1>t
<1>2. ASSUME NEW c \in AgentCalls, Kids!SpawnFails(c) \/ Kids!SubmitPrompt(c) \/ Kids!LauncherStops(c)
      PROVE  Fine'
  <2>1. UNCHANGED Kids!interruptVars /\ UNCHANGED <<seen, dying, lost, spoke, ended, gotOver>>
    BY <1>2 DEF Kids!SpawnFails, Kids!SubmitPrompt, Kids!LauncherStops
  <2>2. launcher' \in [AgentCalls -> Lives] /\ outcome' \in [AgentCalls -> Outcomes]
    BY <1>2, <1>0 DEF Kids!SpawnFails, Kids!SubmitPrompt, Kids!LauncherStops, Kids!Live
  <2>3. childOp' \in [AgentCalls -> Stages]
    BY <1>2, <1>0 DEF Kids!SpawnFails, Kids!SubmitPrompt, Kids!LauncherStops
  <2>5. troubles' \in 0 .. MaxTroubles
    BY <1>2, <1>0 DEF Kids!SpawnFails, Kids!SubmitPrompt, Kids!LauncherStops, Kids!Trouble
  <2>4. news' \in [AgentCalls -> Seq(ChildEvents)]
    <3>1. <<>> \in Seq(ChildEvents)
      OBVIOUS
    <3>2. news' = news \/ news' = [news EXCEPT ![c] = <<>>]
      BY <1>2 DEF Kids!SpawnFails, Kids!SubmitPrompt, Kids!LauncherStops
    <3> QED BY <3>1, <3>2, <1>0
  <2> HIDE DEF Lives, Seen, Outcomes, Stages, InterruptTypes
  <2> QED BY <2>1, <2>2, <2>3, <2>4, <2>5, <1>0, <1>i
<1>3. ASSUME NEW c \in AgentCalls, Kids!Follow(c) PROVE Fine'
  <2>1. /\ UNCHANGED Kids!interruptVars
        /\ UNCHANGED <<outcome, childOp, dying, lost, spoke, ended, gotOver, troubles>>
    BY <1>3 DEF Kids!Follow
  <2>2. launcher' \in [AgentCalls -> Lives]
    BY <1>3, <1>0 DEF Kids!Follow, Kids!Live
  <2>3. news' \in [AgentCalls -> Seq(ChildEvents)]
    <3>1. Tail(news[c]) \in Seq(ChildEvents)
      BY <1>3, <1>0, NewsRead DEF Kids!Follow
    <3>2. news' = [news EXCEPT ![c] = Tail(news[c])]
      BY <1>3 DEF Kids!Follow
    <3> QED BY <1>0, <3>1, <3>2
  <2>4. seen' \in [AgentCalls -> Seen]
    <3> DEFINE e == Head(news[c])
    <3>1. /\ (seen[c].finish \/ e = "finish") \in BOOLEAN /\ (seen[c].error \/ e = "error") \in BOOLEAN
          /\ (IF e \in {"completed", "failed"} THEN e ELSE seen[c].status) \in {"none", "completed", "failed"}
      BY <1>0
    <3>2. seen[c] \in Seen
      BY <1>0
    <3>3. [seen[c] EXCEPT !.finish = @ \/ e = "finish", !.error = @ \/ e = "error",
                          !.status = IF e \in {"completed", "failed"} THEN e ELSE @] \in Seen
      BY <3>1, <3>2
    <3>4. seen' = [seen EXCEPT ![c] =
                     [seen[c] EXCEPT !.finish = @ \/ e = "finish", !.error = @ \/ e = "error",
                                     !.status = IF e \in {"completed", "failed"} THEN e ELSE @]]
      BY <1>3 DEF Kids!Follow
    <3> QED BY <3>3, <3>4, <1>0
  <2> HIDE DEF Lives, Seen, Outcomes, Stages, InterruptTypes
  <2> QED BY <2>1, <2>2, <2>3, <2>4, <1>0, <1>i
<1>4. ASSUME NEW c \in AgentCalls, Kids!Advance(c) \/ Kids!Speak(c) \/ Kids!CutSubscription(c) \/ Kids!InterruptChild(c)
      PROVE  Fine'
  <2>1. UNCHANGED Kids!launcherVars /\ UNCHANGED Kids!interruptVars /\ UNCHANGED <<news, ended, gotOver>>
    BY <1>4 DEF Kids!Advance, Kids!Speak, Kids!CutSubscription, Kids!InterruptChild
  <2>2. childOp' \in [AgentCalls -> Stages]
    <3>1. \/ childOp' = childOp
          \/ \E st \in Stages : childOp' = [childOp EXCEPT ![c] = st]
      BY <1>4 DEF Kids!Advance, Kids!Speak, Kids!CutSubscription, Kids!InterruptChild
    <3> QED BY <3>1, <1>0
  <2>4. troubles' \in 0 .. MaxTroubles
    BY <1>4, <1>0 DEF Kids!Advance, Kids!Speak, Kids!CutSubscription, Kids!InterruptChild, Kids!Trouble
  <2>3. dying' \subseteq AgentCalls /\ lost' \subseteq AgentCalls /\ spoke' \subseteq AgentCalls
    BY <1>4, <1>0 DEF Kids!Advance, Kids!Speak, Kids!CutSubscription, Kids!InterruptChild, Kids!Cancelled
  <2> HIDE DEF LauncherTypes, Stages, InterruptTypes
  <2> QED BY <2>1, <2>2, <2>3, <2>4, <1>0, <1>i, <1>l
<1>5. ASSUME NEW c \in AgentCalls, Kids!HandlerRaises(c) \/ Kids!ErrorAndRetry(c) \/ Kids!WrapUp(c)
      PROVE  Fine'
  <2>1. UNCHANGED Kids!launcherVars /\ UNCHANGED Kids!interruptVars /\ UNCHANGED <<dying, lost, spoke>>
    BY <1>5 DEF Kids!HandlerRaises, Kids!ErrorAndRetry, Kids!WrapUp
  <2>2. childOp' \in [AgentCalls -> Stages] /\ gotOver' \subseteq AgentCalls
    BY <1>5, <1>0 DEF Kids!HandlerRaises, Kids!ErrorAndRetry, Kids!WrapUp
  <2>5. troubles' \in 0 .. MaxTroubles
    BY <1>5, <1>0 DEF Kids!HandlerRaises, Kids!ErrorAndRetry, Kids!WrapUp, Kids!Trouble
  <2>3. ended' \in [AgentCalls -> Kids!Ends \cup {"no"}]
    BY <1>5, <1>0 DEF Kids!HandlerRaises, Kids!ErrorAndRetry, Kids!WrapUp, Kids!Ends
  <2>4. news' \in [AgentCalls -> Seq(ChildEvents)]
    <3>1. \E e \in ChildEvents : Kids!Published(c, <<e>>)
      BY <1>5 DEF Kids!HandlerRaises, Kids!ErrorAndRetry, Kids!WrapUp, ChildEvents
    <3> QED BY <3>1, <1>0, Publishing
  <2> HIDE DEF LauncherTypes, Stages, InterruptTypes
  <2> QED BY <2>1, <2>2, <2>3, <2>4, <2>5, <1>0, <1>i, <1>l
<1>6. ASSUME NEW c \in AgentCalls, NEW how \in Kids!Ends, Kids!TurnEnds(c, how) PROVE Fine'
  <2>1. /\ UNCHANGED Kids!launcherVars /\ UNCHANGED Kids!interruptVars
        /\ UNCHANGED <<dying, lost, spoke, gotOver, troubles>>
    BY <1>6 DEF Kids!TurnEnds
  <2>2. childOp' \in [AgentCalls -> Stages] /\ ended' \in [AgentCalls -> Kids!Ends \cup {"no"}]
    BY <1>6, <1>0 DEF Kids!TurnEnds
  <2>3. news' \in [AgentCalls -> Seq(ChildEvents)]
    <3>1. CASE how = "silent"
      <4>1. Kids!Published(c, <<>>)
        BY <1>6, <3>1 DEF Kids!TurnEnds
      <4>2. news[c] \o <<>> = news[c]
        BY <1>0, NewsGrows DEF ChildEvents
      <4> QED BY <4>1, <4>2, <1>0 DEF Kids!Published
    <3>2. CASE how # "silent"
      <4>1. \E e \in ChildEvents : Kids!Published(c, <<e>>)
        BY <1>6, <3>2 DEF Kids!TurnEnds, ChildEvents
      <4> QED BY <4>1, <1>0, Publishing
    <3> QED BY <3>1, <3>2
  <2> HIDE DEF LauncherTypes, Stages, InterruptTypes
  <2> QED BY <2>1, <2>2, <2>3, <1>0, <1>i, <1>l
<1>7. ASSUME NEW c \in AgentCalls, Kids!CascadeTo(c) PROVE Fine'
  <2>1. /\ UNCHANGED Kids!launcherVars
        /\ UNCHANGED <<parent, reached, childOp, news, lost, spoke, ended, gotOver, troubles>>
    BY <1>7 DEF Kids!CascadeTo
  <2>2. dying' \subseteq AgentCalls
    BY <1>7, <1>0 DEF Kids!CascadeTo, Kids!Cancelled
  <2>3. cascade' \in [pc : {"none", "waits", "goes", "done"}, left : SUBSET AgentCalls]
    BY <1>7, <1>0 DEF Kids!CascadeTo
  <2> HIDE DEF LauncherTypes, Stages
  <2> QED BY <2>1, <2>2, <2>3, <1>0, <1>l
<1>8. CASE Kids!InterruptParent \/ Kids!ParentEnds \/ Kids!FindChildren \/ Kids!CascadeEnds
  <2>1. UNCHANGED Kids!turnOf /\ UNCHANGED seen
    BY <1>8 DEF Kids!InterruptParent, Kids!ParentEnds, Kids!FindChildren, Kids!CascadeEnds, Kids!launcherVars
  <2>2. launcher' \in [AgentCalls -> Lives] /\ outcome' \in [AgentCalls -> Outcomes]
    BY <1>8, <1>0 DEF Kids!InterruptParent, Kids!ParentEnds, Kids!FindChildren, Kids!CascadeEnds,
                      Kids!launcherVars, Kids!Live
  <2>3. InterruptTypes'
    <3> DEFINE Cascades == [pc : {"none", "waits", "goes", "done"}, left : SUBSET AgentCalls]
    <3>1. [cascade EXCEPT !.pc = "waits"] \in Cascades /\ [cascade EXCEPT !.pc = "done"] \in Cascades
      BY <1>0
    <3>2. [pc |-> "goes", left |-> Kids!LiveChildren] \in Cascades
      BY DEF Kids!LiveChildren
    <3>3. cascade \in Cascades
      BY <1>0
    <3> HIDE DEF Cascades
    <3>4. cascade' \in Cascades
      BY <1>8, <3>1, <3>2, <3>3 DEF Kids!InterruptParent, Kids!ParentEnds, Kids!FindChildren, Kids!CascadeEnds
    <3>5. parent' \in {"running", "stopping", "over"} /\ reached' \subseteq AgentCalls
      BY <1>8, <1>0 DEF Kids!InterruptParent, Kids!ParentEnds, Kids!FindChildren, Kids!CascadeEnds
    <3> QED BY <3>4, <3>5 DEF Cascades
  <2> HIDE DEF Lives, Seen, Outcomes, TurnTypesOf, InterruptTypes
  <2> QED BY <2>1, <2>2, <2>3, <1>0, <1>t
<1> QED BY <1>1, <1>2, <1>3, <1>4, <1>5, <1>6, <1>7, <1>8 DEF Kids!ChildNext

\* What a child and its launcher are taken through by the steps about them.
LEMMA OthersStay ==
  ASSUME ChildInv, NEW k \in AgentCalls, NEW c \in AgentCalls, c # k,
         \/ Kids!Spawn(c) \/ Kids!SpawnFails(c) \/ Kids!SubmitPrompt(c) \/ Kids!Follow(c) \/ Kids!CutOff(c)
         \/ Kids!Asked(c) \/ Kids!Return(c) \/ Kids!Advance(c) \/ Kids!HandlerRaises(c) \/ Kids!Speak(c)
         \/ Kids!ErrorAndRetry(c) \/ Kids!WrapUp(c) \/ Kids!CutSubscription(c) \/ Kids!LauncherStops(c)
         \/ \E how \in Kids!Ends : Kids!TurnEnds(c, how)
  PROVE  /\ launcher'[k] = launcher[k] /\ childOp'[k] = childOp[k] /\ news'[k] = news[k]
         /\ seen'[k] = seen[k] /\ ended'[k] = ended[k] /\ outcome'[k] = outcome[k]
         /\ k \in lost' <=> k \in lost
         /\ k \in spoke' <=> k \in spoke
         /\ k \in gotOver' <=> k \in gotOver
<1>0. /\ DOMAIN launcher = AgentCalls /\ DOMAIN childOp = AgentCalls /\ DOMAIN news = AgentCalls
      /\ DOMAIN seen = AgentCalls /\ DOMAIN ended = AgentCalls /\ DOMAIN outcome = AgentCalls
  BY DEF ChildInv, Kids!ChildTypeOK
<1>1. CASE Kids!Spawn(c) \/ Kids!CutOff(c)
  BY <1>1, <1>0 DEF Kids!Spawn, Kids!CutOff, Kids!turnOf
<1>2. CASE Kids!SpawnFails(c) \/ Kids!SubmitPrompt(c) \/ Kids!LauncherStops(c)
  BY <1>2, <1>0 DEF Kids!SpawnFails, Kids!SubmitPrompt, Kids!LauncherStops
<1>3. CASE Kids!Follow(c)
  <2>1. seen'[k] = seen[k]
    BY <1>3, <1>0 DEF Kids!Follow
  <2> QED BY <2>1, <1>3, <1>0 DEF Kids!Follow
<1>4. CASE Kids!Asked(c) \/ Kids!Return(c)
  BY <1>4, <1>0 DEF Kids!Asked, Kids!Return, Kids!turnOf
<1>5. CASE Kids!Advance(c) \/ Kids!Speak(c) \/ Kids!CutSubscription(c)
  BY <1>5, <1>0 DEF Kids!Advance, Kids!Speak, Kids!CutSubscription, Kids!launcherVars
<1>6. CASE Kids!HandlerRaises(c)
  BY <1>6, <1>0 DEF Kids!HandlerRaises, Kids!Published, Kids!launcherVars
<1>7. CASE Kids!ErrorAndRetry(c)
  BY <1>7, <1>0 DEF Kids!ErrorAndRetry, Kids!Published, Kids!launcherVars
<1>8. CASE Kids!WrapUp(c)
  BY <1>8, <1>0 DEF Kids!WrapUp, Kids!Published, Kids!launcherVars
<1>9. ASSUME NEW how \in Kids!Ends, Kids!TurnEnds(c, how)
      PROVE  /\ launcher'[k] = launcher[k] /\ childOp'[k] = childOp[k] /\ news'[k] = news[k]
             /\ seen'[k] = seen[k] /\ ended'[k] = ended[k] /\ outcome'[k] = outcome[k]
             /\ lost' = lost /\ spoke' = spoke /\ gotOver' = gotOver
  BY <1>9, <1>0 DEF Kids!TurnEnds, Kids!Published, Kids!launcherVars
<1> QED BY <1>1, <1>2, <1>3, <1>4, <1>5, <1>6, <1>7, <1>8, <1>9

LEMMA LauncherMoves ==
  ASSUME ChildInv, NEW c \in AgentCalls,
         \/ Kids!Spawn(c) \/ Kids!SpawnFails(c) \/ Kids!SubmitPrompt(c) \/ Kids!Follow(c) \/ Kids!CutOff(c)
         \/ Kids!Asked(c) \/ Kids!Return(c) \/ Kids!LauncherStops(c)
  PROVE  KidInv(c)'
<1>0. /\ launcher \in [AgentCalls -> Kids!Live \cup {"none", "over"}]
      /\ outcome \in [AgentCalls -> {"none", "success", "error", "aborted"}]
      /\ seen \in [AgentCalls -> [finish : BOOLEAN, error : BOOLEAN, status : {"none", "completed", "failed"}]]
      /\ DOMAIN childOp = AgentCalls
      /\ news \in [AgentCalls -> Seq(ChildEvents)]
      /\ ended[c] \in Kids!Ends \cup {"no"}
  BY DEF ChildInv, Kids!ChildTypeOK, ChildEvents
<1>k. KidProgress(c) /\ KidHeard(c) /\ KidFollowed(c) /\ KidResult(c)
  BY DEF ChildInv, KidInv
<1>s. ASSUME news'[c] = news[c] PROVE /\ \A e : Has(c, e)' <=> Has(c, e)
                                      /\ EndsLast(news[c])' <=> EndsLast(news[c])
  BY <1>s DEF Has
<1>1. CASE Kids!Spawn(c) \/ Kids!CutOff(c)
  <2>1. /\ UNCHANGED <<childOp, news, lost, spoke, ended, gotOver, seen, outcome>>
        /\ \/ launcher[c] = "none" /\ launcher'[c] = "prepares"
           \/ launcher[c] = "follows" /\ c \in lost /\ launcher'[c] = "asks"
    BY <1>1, <1>0 DEF Kids!Spawn, Kids!CutOff, Kids!turnOf
  <2> QED BY <2>1, <1>s, <1>k DEF KidInv, KidProgress, KidHeard, KidFollowed, KidResult
<1>2. CASE Kids!SpawnFails(c)
  <2>1. /\ UNCHANGED <<childOp, news, lost, spoke, ended, gotOver, seen>>
        /\ launcher[c] = "prepares" /\ launcher'[c] = "over" /\ outcome'[c] = "error"
    BY <1>2, <1>0 DEF Kids!SpawnFails
  <2> QED BY <2>1, <1>s, <1>k DEF KidInv, KidProgress, KidHeard, KidFollowed, KidResult
<1>3. CASE Kids!SubmitPrompt(c)
  <2>1. /\ UNCHANGED <<news, lost, spoke, ended, gotOver, seen, outcome>>
        /\ launcher[c] = "prepares" /\ launcher'[c] = "follows" /\ childOp'[c] = "mail"
    BY <1>3, <1>0 DEF Kids!SubmitPrompt
  <2> QED BY <2>1, <1>s, <1>k DEF KidInv, KidProgress, KidHeard, KidFollowed, KidResult
<1>4. CASE Kids!LauncherStops(c)
  <2>1. /\ UNCHANGED <<childOp, lost, spoke, ended, gotOver, seen, outcome>>
        /\ launcher[c] = "stops" /\ launcher'[c] = "over" /\ news'[c] = <<>>
    BY <1>4, <1>0 DEF Kids!LauncherStops
  <2>2. EndsLast(news[c])' /\ \A e : ~Has(c, e)'
    BY <2>1, NoNews DEF Has
  <2> QED BY <2>1, <2>2, <1>k DEF KidInv, KidProgress, KidHeard, KidFollowed, KidResult
<1>5. CASE Kids!Asked(c)
  <2>1. /\ UNCHANGED <<childOp, news, lost, spoke, ended, gotOver, outcome>>
        /\ launcher[c] = "asks" /\ launcher'[c] = "ends" /\ childOp[c] = "ended"
    BY <1>5, <1>0 DEF Kids!Asked, Kids!turnOf, Kids!OperationOver
  <2>2. /\ seen'[c].finish = seen[c].finish /\ seen'[c].error = seen[c].error
        /\ seen'[c].status = IF ended[c] = "failed" THEN "failed" ELSE "completed"
    BY <1>5, <1>0 DEF Kids!Asked
  <2> QED BY <2>1, <2>2, <1>s, <1>k DEF KidInv, KidProgress, KidHeard, KidFollowed, KidResult
<1>6. CASE Kids!Return(c)
  <2>1. /\ UNCHANGED <<childOp, news, lost, spoke, ended, gotOver, seen>>
        /\ launcher[c] = "ends" /\ launcher'[c] = "over"
        /\ outcome'[c] = IF Kids!Succeeds(c) THEN "success" ELSE "error"
    BY <1>6, <1>0 DEF Kids!Return, Kids!turnOf
  <2>2. /\ childOp[c] = "ended" /\ seen[c].status \in {"completed", "failed"}
        /\ ended[c] \in Kids!Ends
    BY <2>1, <1>k, <1>0 DEF KidFollowed, KidProgress
  <2>3. Kids!Succeeds(c) => ended[c] \in {"answer", "cancelled"} \/ (c \in lost /\ c \in spoke)
    BY <2>1, <2>2, <1>k DEF Kids!Succeeds, Kids!Recovered, KidProgress, KidHeard, KidFollowed, Kids!Ends
  <2>4. ~Kids!Succeeds(c) => ended[c] # "answer" \/ c \in lost \cap gotOver
    BY <2>1, <2>2, <1>k DEF Kids!Succeeds, Kids!Recovered, KidProgress, KidHeard, KidFollowed, Kids!Ends
  <2>5. KidResult(c)'
    BY <2>1, <2>2, <2>3, <2>4 DEF KidResult
  <2> QED BY <2>1, <2>5, <1>s, <1>k DEF KidInv, KidProgress, KidHeard, KidFollowed
<1>7. CASE Kids!Follow(c)
  <2> DEFINE e == Head(news[c])
  <2>1. /\ UNCHANGED <<childOp, lost, spoke, ended, gotOver, outcome>>
        /\ launcher[c] = "follows" /\ news[c] # <<>> /\ news'[c] = Tail(news[c])
        /\ launcher'[c] = IF e \in {"completed", "failed"} THEN "ends" ELSE "follows"
    BY <1>7, <1>0 DEF Kids!Follow
  <2>2. /\ seen'[c].finish <=> seen[c].finish \/ e = "finish"
        /\ seen'[c].error <=> seen[c].error \/ e = "error"
        /\ seen'[c].status = IF e \in {"completed", "failed"} THEN e ELSE seen[c].status
    <3>1. seen'[c] = [seen[c] EXCEPT !.finish = @ \/ e = "finish", !.error = @ \/ e = "error",
                                     !.status = IF e \in {"completed", "failed"} THEN e ELSE @]
      BY <1>7, <1>0 DEF Kids!Follow
    <3>2. seen[c] \in [finish : BOOLEAN, error : BOOLEAN, status : {"none", "completed", "failed"}]
      BY <1>0
    <3> QED BY <3>1, <3>2
  <2> HIDE DEF e
  <2>3. /\ e \in ChildEvents
        /\ \A x : Has(c, x) <=> x = e \/ Has(c, x)'
        /\ EndsLast(news[c])'
        /\ e \in {"completed", "failed"} => \A x : ~Has(c, x)'
    BY <2>1, <1>0, <1>k, NewsRead DEF Has, e, KidHeard
  <2>4. Has(c, e) /\ (e \in {"completed", "failed"} => childOp[c] = "ended")
    BY <2>3, <1>k DEF KidHeard
  <2>5. KidHeard(c)'
    BY <2>1, <2>2, <2>3, <2>4, <1>k DEF KidHeard
  <2>6. KidFollowed(c)'
    BY <2>1, <2>2, <2>3, <2>4, <1>k DEF KidFollowed
  <2> QED BY <2>1, <2>5, <2>6, <1>k DEF KidInv, KidProgress, KidResult
<1> QED BY <1>1, <1>2, <1>3, <1>4, <1>5, <1>6, <1>7

LEMMA ChildMoves ==
  ASSUME ChildInv, NEW c \in AgentCalls,
         \/ Kids!Advance(c) \/ Kids!HandlerRaises(c) \/ Kids!Speak(c) \/ Kids!ErrorAndRetry(c)
         \/ Kids!WrapUp(c) \/ Kids!CutSubscription(c)
         \/ \E how \in Kids!Ends : Kids!TurnEnds(c, how)
  PROVE  KidInv(c)'
<1>0. /\ childOp \in [AgentCalls ->
                        {"none", "mail", "held", "handled", "task", "begun", "wraps", "ended"}]
      /\ DOMAIN ended = AgentCalls
      /\ news \in [AgentCalls -> Seq(ChildEvents)]
      /\ ended[c] \in Kids!Ends \cup {"no"}
  BY DEF ChildInv, Kids!ChildTypeOK, ChildEvents
<1>k. KidProgress(c) /\ KidHeard(c) /\ KidFollowed(c) /\ KidResult(c)
  BY DEF ChildInv, KidInv
<1>s. ASSUME news'[c] = news[c] PROVE /\ \A e : Has(c, e)' <=> Has(c, e)
                                      /\ EndsLast(news[c])' <=> EndsLast(news[c])
  BY <1>s DEF Has
<1>p. ASSUME NEW e \in ChildEvents, Kids!Published(c, <<e>>), childOp[c] # "ended"
      PROVE  /\ \A x : Has(c, x)' <=> \/ Has(c, x)
                                      \/ x = e /\ c \notin lost /\ launcher[c] = "follows"
             /\ EndsLast(news[c])'
  <2>1. CASE c \in lost \/ launcher[c] # "follows"
    BY <2>1, <1>p, <1>0, <1>s, <1>k, Publishing DEF KidHeard
  <2>2. CASE c \notin lost /\ launcher[c] = "follows"
    <3>1. news'[c] = news[c] \o <<e>> /\ news[c] \in Seq(ChildEvents)
      BY <2>2, <1>p, <1>0, Publishing
    <3>2. ~Has(c, "completed") /\ ~Has(c, "failed")
      BY <1>p, <1>k DEF KidHeard
    <3> QED BY <3>1, <3>2, <2>2, NewsGrows DEF Has
  <2> QED BY <2>1, <2>2
<1>1. CASE Kids!Advance(c)
  <2>1. /\ UNCHANGED <<launcher, seen, outcome, news, lost, spoke, ended, gotOver>>
        /\ \/ childOp[c] = "mail" /\ childOp'[c] = "held"
           \/ childOp[c] = "held" /\ childOp'[c] = "handled"
           \/ childOp[c] = "handled" /\ childOp'[c] = "task"
           \/ childOp[c] = "task" /\ childOp'[c] = "begun"
    BY <1>1, <1>0 DEF Kids!Advance, Kids!launcherVars
  <2> QED BY <2>1, <1>s, <1>k DEF KidInv, KidProgress, KidHeard, KidFollowed, KidResult
<1>2. CASE Kids!Speak(c) \/ Kids!CutSubscription(c)
  <2>1. /\ UNCHANGED <<launcher, seen, outcome, childOp, news, ended, gotOver>>
        /\ childOp[c] = "begun"
        /\ (c \in lost => c \in lost') /\ (c \in spoke => c \in spoke')
        /\ c \in lost' => c \in lost \/ launcher[c] = "follows"
    BY <1>2, <1>0 DEF Kids!Speak, Kids!CutSubscription, Kids!launcherVars
  <2>2. ended[c] = "no"
    BY <2>1, <1>k DEF KidProgress
  <2> QED BY <2>1, <2>2, <1>s, <1>k DEF KidInv, KidProgress, KidHeard, KidFollowed, KidResult
<1>3. CASE Kids!HandlerRaises(c)
  <2>1. /\ UNCHANGED <<launcher, seen, outcome, lost, spoke, gotOver>>
        /\ childOp[c] = "handled" /\ childOp'[c] = "ended" /\ ended'[c] = "failed"
    BY <1>3, <1>0 DEF Kids!HandlerRaises, Kids!launcherVars
  <2>2. /\ \A x : Has(c, x)' <=> \/ Has(c, x)
                                 \/ x = "failed" /\ c \notin lost /\ launcher[c] = "follows"
        /\ EndsLast(news[c])'
    BY <1>3, <2>1, <1>p DEF Kids!HandlerRaises, ChildEvents
  <2>3. ended[c] = "no"
    BY <2>1, <1>k DEF KidProgress
  <2> QED BY <2>1, <2>2, <2>3, <1>k DEF KidInv, KidProgress, KidHeard, KidFollowed, KidResult
<1>4. CASE Kids!ErrorAndRetry(c)
  <2>1. /\ UNCHANGED <<launcher, seen, outcome, childOp, lost, spoke, ended>>
        /\ childOp[c] = "begun" /\ c \in gotOver'
    BY <1>4, <1>0 DEF Kids!ErrorAndRetry, Kids!launcherVars
  <2>2. /\ \A x : Has(c, x)' <=> \/ Has(c, x)
                                 \/ x = "error" /\ c \notin lost /\ launcher[c] = "follows"
        /\ EndsLast(news[c])'
    BY <1>4, <2>1, <1>p DEF Kids!ErrorAndRetry, ChildEvents
  <2> QED BY <2>1, <2>2, <1>k DEF KidInv, KidProgress, KidHeard, KidFollowed, KidResult
<1>5. CASE Kids!WrapUp(c)
  <2>1. /\ UNCHANGED <<launcher, seen, outcome, lost, spoke, ended, gotOver>>
        /\ childOp[c] = "wraps" /\ childOp'[c] = "ended"
    BY <1>5, <1>0 DEF Kids!WrapUp, Kids!launcherVars
  <2>2. /\ \A x : Has(c, x)' <=> \/ Has(c, x)
                                 \/ x = "completed" /\ c \notin lost /\ launcher[c] = "follows"
        /\ EndsLast(news[c])'
    BY <1>5, <2>1, <1>p DEF Kids!WrapUp, ChildEvents
  <2> QED BY <2>1, <2>2, <1>k DEF KidInv, KidProgress, KidHeard, KidFollowed, KidResult
<1>6. ASSUME NEW how \in Kids!Ends, Kids!TurnEnds(c, how) PROVE KidInv(c)'
  <2>1. /\ UNCHANGED <<launcher, seen, outcome, lost, spoke, gotOver>>
        /\ childOp[c] \in {"task", "begun"} /\ childOp'[c] = "wraps" /\ ended'[c] = how
    BY <1>6, <1>0 DEF Kids!TurnEnds, Kids!launcherVars, Kids!AtWork
  <2>2. /\ how = "answer" => c \in spoke
        /\ how = "silent" => childOp[c] = "task"
        /\ how # "failed"
    BY <1>6 DEF Kids!TurnEnds
  <2>3. ended[c] = "no"
    BY <2>1, <1>k DEF KidProgress
  <2>4. CASE how = "silent"
    <3>1. Kids!Published(c, <<>>)
      BY <1>6, <2>4 DEF Kids!TurnEnds
    <3>2. news'[c] = news[c]
      BY <3>1, <1>0, NewsGrows DEF Kids!Published, ChildEvents
    <3> QED BY <2>1, <2>2, <2>3, <2>4, <3>2, <1>s, <1>k
            DEF KidInv, KidProgress, KidHeard, KidFollowed, KidResult
  <2>5. CASE how # "silent"
    <3> DEFINE word == IF how = "fatal" THEN "error" ELSE "finish"
    <3>1. Kids!Published(c, <<word>>) /\ word \in ChildEvents
      BY <1>6, <2>5 DEF Kids!TurnEnds, ChildEvents
    <3>2. /\ \A x : Has(c, x)' <=> \/ Has(c, x)
                                   \/ x = word /\ c \notin lost /\ launcher[c] = "follows"
          /\ EndsLast(news[c])'
      BY <3>1, <2>1, <1>p
    <3> QED BY <2>1, <2>2, <2>3, <2>5, <3>2, <1>k
            DEF KidInv, KidProgress, KidHeard, KidFollowed, KidResult, Kids!Ends
  <2> QED BY <2>4, <2>5
<1> QED BY <1>1, <1>2, <1>3, <1>4, <1>5, <1>6

LEMMA KidsKept ==
  ASSUME ChildInv, Kids!ChildNext, NEW k \in AgentCalls PROVE KidInv(k)'
<1>1. ASSUME NEW c \in AgentCalls,
             \/ Kids!Spawn(c) \/ Kids!SpawnFails(c) \/ Kids!SubmitPrompt(c) \/ Kids!Follow(c)
             \/ Kids!CutOff(c) \/ Kids!Asked(c) \/ Kids!Return(c) \/ Kids!LauncherStops(c)
      PROVE  KidInv(k)'
  <2>1. CASE c = k
    BY <2>1, <1>1, LauncherMoves
  <2>2. CASE c # k
    BY <2>2, <1>1, OthersStay, KidStays DEF ChildInv
  <2> QED BY <2>1, <2>2
<1>2. ASSUME NEW c \in AgentCalls,
             \/ Kids!Advance(c) \/ Kids!HandlerRaises(c) \/ Kids!Speak(c) \/ Kids!ErrorAndRetry(c)
             \/ Kids!WrapUp(c) \/ Kids!CutSubscription(c)
             \/ \E how \in Kids!Ends : Kids!TurnEnds(c, how)
      PROVE  KidInv(k)'
  <2>1. CASE c = k
    BY <2>1, <1>2, ChildMoves
  <2>2. CASE c # k
    BY <2>2, <1>2, OthersStay, KidStays DEF ChildInv
  <2> QED BY <2>1, <2>2
<1>3. ASSUME \/ \E c \in AgentCalls : Kids!InterruptChild(c) \/ Kids!CascadeTo(c)
             \/ Kids!ParentEnds \/ Kids!FindChildren \/ Kids!CascadeEnds
      PROVE  KidInv(k)'
  <2>1. UNCHANGED <<launcher, childOp, news, seen, ended, outcome, lost, spoke, gotOver>>
    BY <1>3 DEF Kids!InterruptChild, Kids!CascadeTo, Kids!ParentEnds, Kids!FindChildren,
                Kids!CascadeEnds, Kids!launcherVars, Kids!turnOf
  <2> QED BY <2>1, KidStays DEF ChildInv
<1>4. ASSUME Kids!InterruptParent PROVE KidInv(k)'
  <2>1. UNCHANGED <<childOp, news, seen, ended, lost, spoke, gotOver>>
    BY <1>4 DEF Kids!InterruptParent, Kids!turnOf
  <2>2. /\ launcher'[k] = IF launcher[k] \in Kids!Live THEN "stops" ELSE launcher[k]
        /\ outcome'[k] = IF launcher[k] \in Kids!Live THEN "aborted" ELSE outcome[k]
    BY <1>4 DEF Kids!InterruptParent
  <2>3. KidInv(k) /\ (\A e : Has(k, e)' <=> Has(k, e)) /\ (EndsLast(news[k])' <=> EndsLast(news[k]))
    BY <2>1 DEF ChildInv, Has
  <2> QED BY <2>1, <2>2, <2>3
          DEF KidInv, KidProgress, KidHeard, KidFollowed, KidResult, Kids!Live
<1> QED BY <1>1, <1>2, <1>3, <1>4 DEF Kids!ChildNext

LEMMA CascadeKept ==
  ASSUME ChildInv, Kids!ChildNext PROVE CascadeReaches'
<1>0. /\ childOp \in [AgentCalls ->
                        {"none", "mail", "held", "handled", "task", "begun", "wraps", "ended"}]
      /\ DOMAIN childOp = AgentCalls /\ reached \subseteq AgentCalls
      /\ cascade \in [pc : {"none", "waits", "goes", "done"}, left : SUBSET AgentCalls]
      /\ CascadeReaches
  BY DEF ChildInv, Kids!ChildTypeOK
<1>k. \A c \in AgentCalls : KidProgress(c)
  BY DEF ChildInv, KidInv
<1> DEFINE Late == {"task", "begun", "wraps", "ended"}
<1>1. ASSUME UNCHANGED <<cascade, reached>>, dying \subseteq dying',
             \A c \in reached : childOp[c] \in Late =>
               childOp'[c] \in Late /\ (Kids!AtWork(c)' => Kids!AtWork(c))
      PROVE  CascadeReaches'
  BY <1>1, <1>0 DEF CascadeReaches
<1>2. ASSUME NEW c \in AgentCalls,
             \/ Kids!Spawn(c) \/ Kids!SpawnFails(c) \/ Kids!Follow(c) \/ Kids!CutOff(c)
             \/ Kids!Asked(c) \/ Kids!Return(c) \/ Kids!LauncherStops(c) \/ Kids!Speak(c)
             \/ Kids!ErrorAndRetry(c) \/ Kids!CutSubscription(c) \/ Kids!InterruptChild(c)
      PROVE  CascadeReaches'
  <2>1. UNCHANGED <<cascade, reached, childOp>> /\ dying \subseteq dying'
    BY <1>2 DEF Kids!Spawn, Kids!SpawnFails, Kids!Follow, Kids!CutOff, Kids!Asked, Kids!Return,
                Kids!LauncherStops, Kids!Speak, Kids!ErrorAndRetry, Kids!CutSubscription,
                Kids!InterruptChild, Kids!Cancelled, Kids!turnOf, Kids!interruptVars
  <2> QED BY <2>1, <1>1 DEF Kids!AtWork
<1>3. ASSUME NEW c \in AgentCalls, Kids!SubmitPrompt(c) PROVE CascadeReaches'
  <2>1. UNCHANGED <<cascade, reached, dying>> /\ childOp[c] = "none"
        /\ childOp' = [childOp EXCEPT ![c] = "mail"]
    BY <1>3, <1>k DEF Kids!SubmitPrompt, Kids!interruptVars, KidProgress
  <2> QED BY <2>1, <1>0, <1>1 DEF Kids!AtWork
<1>4. ASSUME NEW c \in AgentCalls,
             \/ Kids!Advance(c) \/ Kids!HandlerRaises(c) \/ Kids!WrapUp(c)
             \/ \E how \in Kids!Ends : Kids!TurnEnds(c, how)
      PROVE  CascadeReaches'
  <2>1. /\ UNCHANGED <<cascade, reached, dying>>
        /\ \/ childOp' = [childOp EXCEPT ![c] = "held"] /\ childOp[c] \notin Late
           \/ childOp' = [childOp EXCEPT ![c] = "handled"] /\ childOp[c] \notin Late
           \/ childOp' = [childOp EXCEPT ![c] = "task"] /\ childOp[c] \notin Late
           \/ childOp' = [childOp EXCEPT ![c] = "begun"] /\ childOp[c] = "task"
           \/ childOp' = [childOp EXCEPT ![c] = "wraps"]
           \/ childOp' = [childOp EXCEPT ![c] = "ended"]
    BY <1>4 DEF Kids!Advance, Kids!HandlerRaises, Kids!WrapUp, Kids!TurnEnds, Kids!interruptVars
  <2> QED BY <2>1, <1>0, <1>1 DEF Kids!AtWork
<1>5. CASE Kids!InterruptParent
  <2>1. cascade'.pc = "waits"
    BY <1>5, <1>0 DEF Kids!InterruptParent
  <2> QED BY <2>1 DEF CascadeReaches
<1>6. CASE Kids!ParentEnds
  <2>1. UNCHANGED <<cascade, reached, childOp, dying>>
    BY <1>6 DEF Kids!ParentEnds, Kids!turnOf
  <2> QED BY <2>1, <1>1 DEF Kids!AtWork
<1>7. CASE Kids!FindChildren
  <2>1. /\ cascade'.pc = "goes" /\ cascade'.left = Kids!LiveChildren
        /\ reached' = {c \in AgentCalls : Kids!AtWork(c)} /\ UNCHANGED childOp
    BY <1>7 DEF Kids!FindChildren, Kids!turnOf
  <2> QED BY <2>1 DEF CascadeReaches, Kids!LiveChildren, Kids!AtWork
<1>8. ASSUME NEW c \in AgentCalls, Kids!CascadeTo(c) PROVE CascadeReaches'
  <2>1. /\ cascade.pc = "goes" /\ cascade'.pc = "goes" /\ cascade'.left = cascade.left \ {c}
        /\ UNCHANGED <<reached, childOp>> /\ dying' = Kids!Cancelled(c)
    BY <1>8, <1>0 DEF Kids!CascadeTo
  <2> QED BY <2>1, <1>0 DEF CascadeReaches, Kids!Cancelled, Kids!AtWork
<1>9. CASE Kids!CascadeEnds
  <2>1. /\ cascade.pc = "goes" /\ cascade'.pc = "done" /\ cascade.left = {} /\ cascade'.left = {}
        /\ UNCHANGED <<reached, childOp, dying>>
    BY <1>9, <1>0 DEF Kids!CascadeEnds, Kids!turnOf
  <2> QED BY <2>1, <1>0 DEF CascadeReaches, Kids!AtWork
<1> QED BY <1>2, <1>3, <1>4, <1>5, <1>6, <1>7, <1>8, <1>9 DEF Kids!ChildNext

LEMMA ChildrenKept ==
  ASSUME ChildInv, [Kids!ChildNext]_childVars PROVE ChildInv'
<1>1. CASE Kids!ChildNext
  BY <1>1, ChildTypes, KidsKept, CascadeKept DEF ChildInv
<1>2. CASE UNCHANGED childVars
  <2>1. Kids!ChildTypeOK'
    BY <1>2 DEF ChildInv, childVars, Kids!ChildTypeOK
  <2>2. ASSUME NEW c \in AgentCalls PROVE KidInv(c)'
    BY <1>2, KidStays DEF ChildInv, childVars
  <2>3. CascadeReaches'
    BY <1>2 DEF ChildInv, childVars, CascadeReaches, Kids!AtWork
  <2> QED BY <2>1, <2>2, <2>3 DEF ChildInv
<1> QED BY <1>1, <1>2

LEMMA ChildrenAreRight ==
  ASSUME ChildInv PROVE Kids!ResultIsTheChilds /\ Kids!InterruptReachesChildren
<1>1. Kids!ResultIsTheChilds
  BY DEF ChildInv, KidInv, KidResult, Kids!ResultIsTheChilds
<1>2. Kids!InterruptReachesChildren
  BY DEF ChildInv, CascadeReaches, Kids!InterruptReachesChildren
<1> QED BY <1>1, <1>2

(* SubAgents: an Agent call ends after its child, with what became of the     *)
(* child's turn, and an interrupt of the parent reaches the children at work, *)
(* for any number of calls, troubles and cut subscriptions.                   *)
THEOREM ChildrenAlwaysAnswer == Spec => []ChildrenAnswer
<1> DEFINE Inv == which = "children" => ChildInv
<1>1. Init => Inv
  BY ChildrenStart DEF Init
<1>2. Inv /\ [Next]_vars => Inv'
  <2>1. ASSUME Inv, [Next]_vars, which = "children" PROVE ChildInv'
    BY <2>1, AboutOne, ChildrenKept
  <2> QED BY <2>1, AboutOne
<1>3. Inv => ChildrenAnswer
  BY ChildrenAreRight DEF ChildrenAnswer
<1> QED BY <1>1, <1>2, <1>3, PTL DEF Spec

-----------------------------------------------------------------------------
(* SessionStore: batches are numbered in the order they were appended, the   *)
(* queue holds the last of them, and the file holds the settled ones and     *)
(* what the thread has written of the first of the queue.                    *)

Keys == [queue : Values \cup {Unset}, turn : Values \cup {Unset}]
Entries == Store!Numbers \X Store!Places

StoreTypes ==
  /\ own \in Keys
  /\ disk \in [exists : BOOLEAN, queue : Values \cup {Unset}, turn : Values \cup {Unset}]
  /\ events \in Seq(Entries)
  /\ batches \in Seq([n : Store!Numbers, meta : Keys])
  /\ step \in {"begin", "half", "whole", "told"}
  /\ done \in [Store!Numbers -> {"none", "pending", "ok", "failed"}]
  /\ flush \in [n : Nat, got : {"none", "ok", "failed"}]
  /\ cache \in [stat : Nat, items : Seq(Entries)]
  /\ reader \in [Readers -> [at : {"idle", "stat", "decode", "fill", "over"},
                             stat : Nat, items : Seq(Entries)]]

\* The first metadata file is written with what the session holds.
KeysKept ==
  /\ Store!RuntimeKeysSurvive
  /\ ~disk.exists =>
       /\ own.queue = Unset /\ own.turn = queuedTurn
       /\ \A i \in 1 .. Len(batches) : batches[i].meta = own

\* The batch in the thread, or the next one.
FirstBatch == Store!NextNumber - Len(batches)

Numbered ==
  /\ Store!NextNumber \in 1 .. MaxBatches + 1
  /\ Len(batches) < Store!NextNumber
  /\ \A n \in Store!Numbers :
       /\ done[n] = "none" <=> Store!NextNumber <= n
       /\ done[n] = "pending" <=> FirstBatch <= n /\ n < Store!NextNumber
  /\ \A i \in 1 .. Len(batches) : batches[i].n = FirstBatch - 1 + i

\* The entries of the first batch that are in the file.
Partly == IF step = "begin" THEN 0 ELSE IF step = "half" THEN 1 ELSE 2

Written(n) ==
  \E i \in 1 .. Len(events) - 1 :
    /\ events[i] = <<n, 1>> /\ events[i + 1] = <<n, 2>>
    /\ \A j \in 1 .. i - 1 : events[j][1] < n

Filed ==
  /\ batches = <<>> => step = "begin"
  /\ Partly <= Len(events)
  /\ \A j \in 1 .. Len(events) - Partly : events[j][1] < FirstBatch
  /\ Partly > 0 => events[Len(events) - Partly + 1] = <<FirstBatch, 1>>
  /\ Partly = 2 => events[Len(events)] = <<FirstBatch, 2>>
  /\ \A n \in Store!Numbers : done[n] = "ok" => Written(n)

FlushedUpTo ==
  /\ flush.n < Store!NextNumber
  /\ flush.got = "ok" => flush.n < FirstBatch

\* The beginning of the file, from which no more than s entries are missing.
PartOf(s, t) == s <= Len(t) /\ Len(t) <= Len(events) /\ \A i \in 1 .. Len(t) : t[i] = events[i]

Loaded ==
  /\ PartOf(cache.stat, cache.items)
  /\ \A r \in Readers :
       /\ reader[r].at \in {"stat", "decode"} => reader[r].stat <= Len(events)
       /\ reader[r].at \in {"fill", "over"} => PartOf(reader[r].stat, reader[r].items)

StoreInv == StoreTypes /\ KeysKept /\ Numbered /\ Filed /\ FlushedUpTo /\ Loaded

\* The library's operator, as the instance names it.
LEMMA StoreCardinality ==
  ASSUME NEW S PROVE Store!Cardinality(S) = Cardinality(S)
BY DEF Store!Cardinality, Cardinality, Store!IsFiniteSet, IsFiniteSet

LEMMA NoneNumbered ==
  ASSUME done = [n \in Store!Numbers |-> "none"] PROVE Store!NextNumber = 1
<1>1. {n \in Store!Numbers : done[n] # "none"} = {}
  OBVIOUS
<1> QED BY <1>1, FS_EmptySet, StoreCardinality DEF Store!NextNumber

LEMMA OneMoreNumbered ==
  ASSUME StoreTypes, Store!NextNumber \in Store!Numbers, done[Store!NextNumber] = "none",
         done' = [done EXCEPT ![Store!NextNumber] = "pending"]
  PROVE  Store!NextNumber' = Store!NextNumber + 1
<1> USE StoreAssumption
<1> DEFINE S == {n \in Store!Numbers : done[n] # "none"}
           k == Store!NextNumber
<1>1. IsFiniteSet(S)
  <2>1. IsFiniteSet(1 .. MaxBatches)
    BY FS_Interval
  <2> QED BY <2>1, FS_Subset DEF Store!Numbers
<1>2. k \notin S /\ {n \in Store!Numbers : done'[n] # "none"} = S \cup {k}
  BY DEF StoreTypes
<1>3. Cardinality(S \cup {k}) = Cardinality(S) + 1
  BY <1>1, <1>2, FS_AddElement
<1>4. k = Cardinality(S) + 1 /\ Store!NextNumber' = Cardinality(S \cup {k}) + 1
  BY <1>2, StoreCardinality DEF Store!NextNumber
<1> QED BY <1>3, <1>4

LEMMA SameNumbered ==
  ASSUME StoreTypes,
         \A n \in Store!Numbers : done'[n] = "none" <=> done[n] = "none"
  PROVE  Store!NextNumber' = Store!NextNumber
<1>1. {n \in Store!Numbers : done'[n] # "none"} = {n \in Store!Numbers : done[n] # "none"}
  OBVIOUS
<1> QED BY <1>1 DEF Store!NextNumber, Store!Numbers

LEMMA StoreStarts ==
  ASSUME Store!Init PROVE StoreInv
<1> USE StoreAssumption
<1>0. /\ events = <<>> /\ batches = <<>> /\ step = "begin"
      /\ done = [n \in Store!Numbers |-> "none"]
      /\ flush = [n |-> 0, got |-> "none"] /\ cache = [stat |-> 0, items |-> <<>>]
      /\ reader = [r \in Readers |-> [at |-> "idle", stat |-> 0, items |-> <<>>]]
      /\ own \in Keys /\ own.queue = Unset /\ own.turn = queuedTurn
      /\ disk \in [exists : BOOLEAN, queue : Values \cup {Unset}, turn : Values \cup {Unset}]
      /\ disk.exists => disk.turn = queuedTurn /\ disk.queue = own.queue
  <2>1. PICK v \in {Unset} \cup Values :
          /\ own = [queue |-> Unset, turn |-> v] /\ queuedTurn = v
          /\ \/ disk = [exists |-> TRUE, queue |-> Unset, turn |-> v]
             \/ v = Unset /\ disk = [exists |-> FALSE, queue |-> Unset, turn |-> Unset]
    BY DEF Store!Init
  <2>2. /\ own \in Keys /\ own.queue = Unset /\ own.turn = queuedTurn
        /\ disk \in [exists : BOOLEAN, queue : Values \cup {Unset}, turn : Values \cup {Unset}]
        /\ disk.exists => disk.turn = queuedTurn /\ disk.queue = own.queue
    <3>1. CASE disk = [exists |-> TRUE, queue |-> Unset, turn |-> v]
      BY <2>1, <3>1 DEF Keys
    <3>2. CASE v = Unset /\ disk = [exists |-> FALSE, queue |-> Unset, turn |-> Unset]
      BY <2>1, <3>2 DEF Keys
    <3> QED BY <2>1, <3>1, <3>2
  <2> QED BY <2>2 DEF Store!Init, Store!Empty
<1>1. Store!NextNumber = 1
  BY <1>0, NoneNumbered
<1>2. StoreTypes
  <2>1. <<>> \in Seq(Entries) /\ <<>> \in Seq([n : Store!Numbers, meta : Keys])
    OBVIOUS
  <2> QED BY <1>0, <2>1 DEF StoreTypes
<1>3. KeysKept /\ Numbered /\ FlushedUpTo
  BY <1>0, <1>1 DEF KeysKept, Store!RuntimeKeysSurvive, Numbered, FlushedUpTo, FirstBatch, Store!Numbers
<1>4. Filed /\ Loaded
  BY <1>0 DEF Filed, Partly, Loaded, PartOf
<1> QED BY <1>2, <1>3, <1>4 DEF StoreInv

-----------------------------------------------------------------------------
(* What the steps do to the queue, the file and the numbers. *)

\* A batch is numbered and queued.
Appended ==
  LET n == Store!NextNumber
  IN /\ n \in Store!Numbers
     /\ batches' = Append(batches, [n |-> n, meta |-> own])
     /\ done' = [done EXCEPT ![n] = "pending"]

\* The first batch leaves the queue with an outcome.
Settled(x) ==
  /\ batches # <<>>
  /\ done' = [done EXCEPT ![Head(batches).n] = x]
  /\ batches' = Tail(batches) /\ step' = "begin"
  /\ UNCHANGED <<own, events, flush, cache, reader, queuedTurn>>

QueueRests == UNCHANGED <<batches, done>>

LEMMA FirstInQueue ==
  ASSUME StoreTypes, Numbered, batches # <<>>
  PROVE  /\ FirstBatch \in Store!Numbers /\ FirstBatch < Store!NextNumber
         /\ Head(batches) = batches[1]
         /\ Head(batches).n = FirstBatch /\ done[FirstBatch] = "pending"
<1> USE StoreAssumption
<1> DEFINE Batch == [n : Store!Numbers, meta : Keys]
<1>0. batches \in Seq(Batch)
  BY DEF StoreTypes
<1> HIDE DEF Batch
<1>1. Len(batches) \in Nat \ {0} /\ Head(batches) = batches[1] /\ batches[1] \in Batch
  BY <1>0
<1>2. batches[1].n = FirstBatch
  <2>1. FirstBatch \in Int
    BY <1>1 DEF Numbered, FirstBatch
  <2>2. batches[1].n = FirstBatch - 1 + 1
    BY <1>1 DEF Numbered
  <2> QED BY <2>1, <2>2
<1>3. FirstBatch \in Store!Numbers /\ FirstBatch < Store!NextNumber
  <2>1. FirstBatch \in Store!Numbers
    BY <1>1, <1>2 DEF Batch
  <2>2. Store!NextNumber \in Nat
    BY DEF Numbered
  <2> QED BY <1>1, <2>1, <2>2 DEF FirstBatch
<1>4. done[FirstBatch] = "pending"
  BY <1>3 DEF Numbered, Store!Numbers
<1> QED BY <1>1, <1>2, <1>3, <1>4

LEMMA AppendedNumbered ==
  ASSUME StoreTypes, Numbered, Appended
  PROVE  /\ Numbered' /\ FirstBatch' = FirstBatch /\ Store!NextNumber' = Store!NextNumber + 1
<1> USE StoreAssumption
<1> DEFINE k == Store!NextNumber
           l == Len(batches)
<1>1. k \in Store!Numbers /\ done[k] = "none" /\ k \in 1 .. MaxBatches /\ l \in Nat /\ l < k
  BY DEF Appended, Numbered, StoreTypes, Store!Numbers
<1>2. Store!NextNumber' = k + 1
  BY <1>1, OneMoreNumbered DEF Appended
<1>3. /\ Len(batches') = l + 1
      /\ \A i \in 1 .. l : batches'[i] = batches[i]
      /\ batches'[l + 1].n = k
  BY DEF Appended, StoreTypes
<1>4. FirstBatch' = FirstBatch /\ FirstBatch = k - l
  BY <1>1, <1>2, <1>3 DEF FirstBatch
<1>5. \A n \in Store!Numbers : done'[n] = IF n = k THEN "pending" ELSE done[n]
  BY DEF Appended, StoreTypes
<1>n. /\ \A n \in Store!Numbers :
           /\ done[n] = "none" <=> k <= n
           /\ done[n] = "pending" <=> FirstBatch <= n /\ n < k
      /\ \A i \in 1 .. l : batches[i].n = FirstBatch - 1 + i
  BY DEF Numbered
<1> HIDE DEF k, l
<1>6. \A n \in Store!Numbers :
        /\ done'[n] = "none" <=> k + 1 <= n
        /\ done'[n] = "pending" <=> FirstBatch <= n /\ n < k + 1
  BY <1>1, <1>4, <1>5, <1>n DEF Store!Numbers
<1>7. \A i \in 1 .. l + 1 : batches'[i].n = FirstBatch - 1 + i
  <2>1. ASSUME NEW i \in 1 .. l PROVE batches'[i].n = FirstBatch - 1 + i
    BY <2>1, <1>3, <1>n
  <2>2. k = FirstBatch - 1 + (l + 1) /\ FirstBatch \in Int
    BY <1>1, <1>4
  <2> QED BY <1>1, <1>3, <2>1, <2>2
<1>8. (/\ k + 1 \in 1 .. MaxBatches + 1 /\ l + 1 < k + 1)
  BY <1>1
<1>9. Numbered'
  BY <1>2, <1>3, <1>4, <1>6, <1>7, <1>8 DEF Numbered, Store!Numbers
<1> QED BY <1>2, <1>4, <1>9 DEF k

LEMMA SettledNumbered ==
  ASSUME StoreTypes, Numbered, NEW x \in {"ok", "failed"}, Settled(x)
  PROVE  /\ Numbered' /\ FirstBatch' = FirstBatch + 1 /\ Store!NextNumber' = Store!NextNumber
         /\ done'[FirstBatch] = x
         /\ \A n \in Store!Numbers : n # FirstBatch => done'[n] = done[n]
<1> USE StoreAssumption
<1> DEFINE k == Store!NextNumber
           l == Len(batches)
           f == FirstBatch
<1>1. /\ f \in Store!Numbers /\ f \in 1 .. MaxBatches /\ f < k /\ Head(batches).n = f
      /\ done[f] = "pending" /\ k \in 1 .. MaxBatches + 1
  BY FirstInQueue DEF Settled, Store!Numbers, Numbered
<1>2. \A n \in Store!Numbers : done'[n] = IF n = f THEN x ELSE done[n]
  BY <1>1 DEF Settled, StoreTypes
<1>3. Store!NextNumber' = k
  <2>1. \A n \in Store!Numbers : done'[n] = "none" <=> done[n] = "none"
    BY <1>1, <1>2
  <2> QED BY <2>1, SameNumbered
<1>4. l \in Nat \ {0} /\ Len(batches') = l - 1 /\ \A i \in 1 .. l - 1 : batches'[i] = batches[i + 1]
  BY DEF Settled, StoreTypes
<1>5. f = k - l /\ FirstBatch' = f + 1
  BY <1>1, <1>3, <1>4 DEF FirstBatch
<1>n. /\ \A n \in Store!Numbers :
           /\ done[n] = "none" <=> k <= n
           /\ done[n] = "pending" <=> f <= n /\ n < k
      /\ \A i \in 1 .. l : batches[i].n = f - 1 + i
  BY DEF Numbered
<1> HIDE DEF k, l, f
<1>6. \A n \in Store!Numbers :
        /\ done'[n] = "none" <=> k <= n
        /\ done'[n] = "pending" <=> f + 1 <= n /\ n < k
  BY <1>1, <1>2, <1>n DEF Store!Numbers
<1>7. \A i \in 1 .. l - 1 : batches'[i].n = f + 1 - 1 + i
  <2>1. ASSUME NEW i \in 1 .. l - 1 PROVE batches'[i].n = f + 1 - 1 + i
    <3>1. i + 1 \in 1 .. l /\ batches'[i] = batches[i + 1] /\ i \in Nat /\ f \in Nat
      BY <1>1, <1>4, <2>1
    <3>2. batches[i + 1].n = f - 1 + (i + 1)
      BY <1>n, <3>1
    <3> QED BY <3>1, <3>2
  <2> QED BY <2>1
<1>8. Numbered'
  BY <1>1, <1>3, <1>4, <1>5, <1>6, <1>7 DEF Numbered, Store!Numbers
<1> QED BY <1>1, <1>2, <1>3, <1>5, <1>8 DEF f, k

LEMMA QueueRestsNumbered ==
  ASSUME Numbered, QueueRests
  PROVE  Numbered' /\ FirstBatch' = FirstBatch /\ Store!NextNumber' = Store!NextNumber
<1>1. Store!NextNumber' = Store!NextNumber
  BY DEF QueueRests, Store!NextNumber, Store!Numbers
<1>2. FirstBatch' = FirstBatch
  BY <1>1 DEF FirstBatch, QueueRests
<1> QED BY <1>1, <1>2 DEF Numbered, QueueRests, Store!Numbers

\* Every step is one of these three for the queue.
LEMMA QueueSteps ==
  ASSUME Store!Next
  PROVE  \/ /\ Store!AppendHistory /\ Appended
            /\ UNCHANGED <<own, disk, events, step, flush, cache, reader, queuedTurn>>
         \/ Store!WriteMeta /\ Settled("ok")
         \/ Store!WriteFails /\ Settled("failed") /\ disk' = disk
         \/ QueueRests
BY DEF Store!Next, Appended, Settled, QueueRests, Store!AppendHistory, Store!WaitForFlush, Store!Flushed,
       Store!WriteEntry, Store!InvalidateCache, Store!WriteMeta, Store!WriteFails, Store!Writing,
       Store!Outcome, Store!SetQueue, Store!PersistTurn, Store!Stat, Store!Lookup, Store!Decode, Store!Fill

LEMMA StoreTyped ==
  ASSUME StoreTypes, Numbered, Store!Next
  PROVE  StoreTypes'
<1> USE StoreAssumption
<1> DEFINE Disks == [exists : BOOLEAN, queue : Values \cup {Unset}, turn : Values \cup {Unset}]
           Batch == [n : Store!Numbers, meta : Keys]
           Threads == [at : {"idle", "stat", "decode", "fill", "over"}, stat : Nat, items : Seq(Entries)]
           Moved == /\ own' \in Keys /\ disk' \in Disks /\ events' \in Seq(Entries)
                    /\ step' \in {"begin", "half", "whole", "told"}
                    /\ flush' \in [n : Nat, got : {"none", "ok", "failed"}]
                    /\ cache' \in [stat : Nat, items : Seq(Entries)]
                    /\ reader' \in [Readers -> Threads]
<1>0. /\ own \in Keys /\ disk \in Disks /\ events \in Seq(Entries) /\ batches \in Seq(Batch)
      /\ step \in {"begin", "half", "whole", "told"}
      /\ done \in [Store!Numbers -> {"none", "pending", "ok", "failed"}]
      /\ flush \in [n : Nat, got : {"none", "ok", "failed"}]
      /\ cache \in [stat : Nat, items : Seq(Entries)]
      /\ reader \in [Readers -> Threads]
  BY DEF StoreTypes
<1>k. Store!NextNumber \in Nat \ {0}
  BY DEF Numbered
<1> HIDE DEF Batch
<1>q. batches' \in Seq(Batch) /\ done' \in [Store!Numbers -> {"none", "pending", "ok", "failed"}]
  <2>1. CASE Appended
    <3>1. [n |-> Store!NextNumber, meta |-> own] \in Batch
      BY <2>1, <1>0 DEF Appended, Batch
    <3> QED BY <2>1, <3>1, <1>0 DEF Appended
  <2>2. ASSUME NEW x \in {"ok", "failed"}, Settled(x)
        PROVE  batches' \in Seq(Batch) /\ done' \in [Store!Numbers -> {"none", "pending", "ok", "failed"}]
    <3>1. batches' \in Seq(Batch)
      BY <2>2, <1>0 DEF Settled
    <3> QED BY <2>2, <3>1, <1>0 DEF Settled
  <2>3. CASE QueueRests
    BY <2>3, <1>0 DEF QueueRests
  <2> QED BY <2>1, <2>2, <2>3, QueueSteps
<1> SUFFICES Moved
  BY <1>q DEF StoreTypes, Batch, Store!Numbers, Entries, Store!Places
<1> HIDE DEF Disks, Threads
<1>1. CASE Store!AppendHistory
  BY <1>0, <1>1 DEF Store!AppendHistory
<1>2. CASE Store!WaitForFlush \/ Store!Flushed
  <2>1. flush' \in [n : Nat, got : {"none", "ok", "failed"}]
    <3>1. CASE Store!WaitForFlush
      BY <1>0, <3>1, <1>k DEF Store!WaitForFlush
    <3>2. CASE Store!Flushed
      BY <1>0, <3>2 DEF Store!Flushed
    <3> QED BY <1>2, <3>1, <3>2
  <2> QED BY <1>0, <1>2, <2>1 DEF Store!WaitForFlush, Store!Flushed
<1>3. CASE Store!WriteEntry
  <2>1. FirstBatch \in Store!Numbers /\ Head(batches).n = FirstBatch
    BY <1>3, FirstInQueue DEF Store!WriteEntry, Store!Writing
  <2>2. <<Head(batches).n, IF step = "begin" THEN 1 ELSE 2>> \in Entries
    BY <2>1 DEF Entries, Store!Places
  <2> QED BY <1>0, <1>3, <2>2 DEF Store!WriteEntry
<1>4. CASE Store!InvalidateCache
  BY <1>0, <1>4 DEF Store!InvalidateCache, Store!Empty
<1>5. CASE Store!WriteMeta
  <2>1. Head(batches) \in Batch
    BY <1>0, <1>5 DEF Store!WriteMeta, Store!Writing
  <2>2. disk' \in Disks
    BY <1>0, <1>5, <2>1 DEF Store!WriteMeta, Store!Merged, Batch, Disks, Keys
  <2> QED BY <1>0, <1>5, <2>2 DEF Store!WriteMeta
<1>6. CASE Store!WriteFails
  BY <1>0, <1>6 DEF Store!WriteFails
<1>7. ASSUME NEW v \in Values \cup {Unset}, Store!SetQueue(v) \/ Store!PersistTurn(v)
      PROVE  Moved
  <2>1. own' \in Keys
    BY <1>0, <1>7 DEF Store!SetQueue, Store!PersistTurn, Keys
  <2>2. disk' \in Disks
    <3>1. CASE Store!PersistTurn(v)
      BY <1>0, <3>1 DEF Store!PersistTurn, Disks
    <3>2. CASE Store!SetQueue(v)
      BY <1>0, <3>2 DEF Store!SetQueue, Disks, Keys
    <3> QED BY <1>7, <3>1, <3>2
  <2> QED BY <1>0, <1>7, <2>1, <2>2 DEF Store!SetQueue, Store!PersistTurn
<1>8. ASSUME NEW r \in Readers, Store!Stat(r) \/ Store!Lookup(r) \/ Store!Decode(r) \/ Store!Fill(r)
      PROVE  Moved
  <2>0. reader[r] \in Threads /\ Len(events) \in Nat
    BY <1>0
  <2>1. cache' \in [stat : Nat, items : Seq(Entries)]
    BY <1>0, <1>8, <2>0 DEF Store!Stat, Store!Lookup, Store!Decode, Store!Fill, Threads
  <2>2. reader' \in [Readers -> Threads]
    <3>1. CASE Store!Stat(r)
      BY <1>0, <3>1, <2>0 DEF Store!Stat, Threads
    <3>2. CASE Store!Lookup(r)
      <4>1. reader'[r] \in Threads
        BY <1>0, <3>2, <2>0 DEF Store!Lookup, Threads
      <4> QED BY <1>0, <3>2, <4>1 DEF Store!Lookup
    <3>3. CASE Store!Decode(r)
      <4>1. [reader[r] EXCEPT !.at = "fill", !.items = events] \in Threads
        BY <1>0, <2>0 DEF Threads
      <4> QED BY <1>0, <3>3, <4>1 DEF Store!Decode
    <3>4. CASE Store!Fill(r)
      BY <1>0, <3>4, <2>0 DEF Store!Fill, Threads
    <3> QED BY <1>8, <3>1, <3>2, <3>3, <3>4
  <2> QED BY <1>0, <1>8, <2>1, <2>2 DEF Store!Stat, Store!Lookup, Store!Decode, Store!Fill
<1> QED BY <1>1, <1>2, <1>3, <1>4, <1>5, <1>6, <1>7, <1>8 DEF Store!Next

LEMMA NumberedKept ==
  ASSUME StoreTypes, Numbered, Store!Next
  PROVE  Numbered'
BY QueueSteps, AppendedNumbered, SettledNumbered, QueueRestsNumbered

\* The metadata file holds the last of every key, and until there is one the
\* session's own is what every queued batch carries.
LEMMA StoreKeys ==
  ASSUME StoreTypes, KeysKept, Store!Next
  PROVE  KeysKept'
<1>0. /\ own \in Keys /\ batches \in Seq([n : Store!Numbers, meta : Keys])
      /\ disk \in [exists : BOOLEAN, queue : Values \cup {Unset}, turn : Values \cup {Unset}]
  BY DEF StoreTypes
<1>k. /\ disk.exists => disk.turn = queuedTurn /\ disk.queue = own.queue
      /\ ~disk.exists =>
           /\ own.queue = Unset /\ own.turn = queuedTurn
           /\ \A i \in 1 .. Len(batches) : batches[i].meta = own
  BY DEF KeysKept, Store!RuntimeKeysSurvive
<1> USE DEF KeysKept, Store!RuntimeKeysSurvive
<1>1. CASE Store!AppendHistory
  <2>1. /\ Len(batches') = Len(batches) + 1
        /\ \A i \in 1 .. Len(batches) : batches'[i] = batches[i]
        /\ batches'[Len(batches) + 1].meta = own
    BY <1>0, <1>1 DEF Store!AppendHistory
  <2> QED BY <1>0, <1>1, <1>k, <2>1 DEF Store!AppendHistory
<1>2. CASE UNCHANGED <<own, disk, batches, queuedTurn>>
  BY <1>2, <1>k
<1>3. CASE Store!WriteMeta
  <2>1. Head(batches) = batches[1] /\ 1 \in 1 .. Len(batches)
    BY <1>0, <1>3 DEF Store!WriteMeta, Store!Writing
  <2> QED BY <1>0, <1>3, <1>k, <2>1 DEF Store!WriteMeta, Store!Merged
<1>4. CASE Store!WriteFails
  <2>1. \A i \in 1 .. Len(batches') : batches'[i] = batches[i + 1] /\ i + 1 \in 1 .. Len(batches)
    BY <1>0, <1>4 DEF Store!WriteFails, Store!Writing
  <2> QED BY <1>4, <1>k, <2>1 DEF Store!WriteFails
<1>5. ASSUME NEW v \in Values \cup {Unset}, Store!SetQueue(v) PROVE KeysKept'
  <2>1. CASE disk.exists
    BY <1>0, <1>5, <1>k, <2>1 DEF Store!SetQueue, Keys
  <2>2. CASE ~disk.exists /\ v # Unset
    BY <1>0, <1>5, <1>k, <2>2 DEF Store!SetQueue, Keys
  <2>3. CASE ~disk.exists /\ v = Unset
    <3>1. own' = own /\ disk' = disk
      BY <1>0, <1>5, <1>k, <2>3 DEF Store!SetQueue, Keys
    <3> QED BY <1>5, <1>k, <2>3, <3>1 DEF Store!SetQueue
  <2> QED BY <2>1, <2>2, <2>3
<1>6. ASSUME NEW v \in Values \cup {Unset}, Store!PersistTurn(v) PROVE KeysKept'
  BY <1>0, <1>6, <1>k DEF Store!PersistTurn
<1> QED
  BY <1>1, <1>2, <1>3, <1>4, <1>5, <1>6
     DEF Store!Next, Store!WaitForFlush, Store!Flushed, Store!WriteEntry, Store!InvalidateCache,
         Store!Stat, Store!Lookup, Store!Decode, Store!Fill

\* An entry appended leaves what was written where it was.
LEMMA StaysWritten ==
  ASSUME events \in Seq(Entries), NEW e \in Entries, events' = Append(events, e) \/ events' = events,
         NEW n, Written(n)
  PROVE  Written(n)'
<1>1. CASE events' = Append(events, e)
  <2>1. /\ Len(events) \in Nat /\ Len(events') = Len(events) + 1
        /\ \A i \in 1 .. Len(events) : events'[i] = events[i]
    BY <1>1
  <2>2. PICK i \in 1 .. Len(events) - 1 :
          /\ events[i] = <<n, 1>> /\ events[i + 1] = <<n, 2>>
          /\ \A j \in 1 .. i - 1 : events[j][1] < n
    BY DEF Written
  <2>3. /\ i \in 1 .. Len(events') - 1 /\ i \in 1 .. Len(events) /\ i + 1 \in 1 .. Len(events)
        /\ \A j \in 1 .. i - 1 : j \in 1 .. Len(events)
    BY <2>1
  <2> QED BY <2>1, <2>2, <2>3 DEF Written
<1>2. CASE events' = events
  BY <1>2 DEF Written
<1> QED BY <1>1, <1>2

LEMMA StoreFiled ==
  ASSUME StoreTypes, Numbered, Filed, Store!Next
  PROVE  Filed'
<1> USE StoreAssumption
<1> DEFINE f == FirstBatch
           l == Len(events)
<1>0. /\ events \in Seq(Entries) /\ l \in Nat /\ f \in Nat
      /\ step \in {"begin", "half", "whole", "told"}
      /\ Partly \in 0 .. 2
  BY DEF StoreTypes, Numbered, FirstBatch, Partly
<1>n. /\ batches = <<>> => step = "begin"
      /\ Partly <= l
      /\ \A j \in 1 .. l - Partly : events[j][1] < f
      /\ Partly > 0 => events[l - Partly + 1] = <<f, 1>>
      /\ Partly = 2 => events[l] = <<f, 2>>
      /\ \A n \in Store!Numbers : done[n] = "ok" => Written(n)
  BY DEF Filed
<1>1. CASE QueueRests
  <2>0. FirstBatch' = f
    BY <1>1, QueueRestsNumbered
  <2>1. CASE UNCHANGED <<events, step>>
    <3>1. Partly' = Partly /\ \A n : Written(n) => Written(n)'
      BY <2>1 DEF Partly, Written
    <3> QED BY <1>1, <1>n, <2>0, <2>1, <3>1 DEF Filed, QueueRests, Store!Numbers
  <2>2. CASE Store!WriteEntry
    <3>0. batches # <<>> /\ Head(batches).n = f /\ f \in Store!Numbers
      BY <2>2, FirstInQueue DEF Store!WriteEntry, Store!Writing
    <3>1. PICK p \in {1, 2} : /\ p = IF step = "begin" THEN 1 ELSE 2
                              /\ events' = Append(events, <<f, p>>)
      BY <2>2, <3>0 DEF Store!WriteEntry
    <3>2. <<f, p>> \in Entries
      BY <3>0 DEF Entries, Store!Places
    <3>3. /\ Len(events') = l + 1 /\ events'[l + 1] = <<f, p>>
          /\ \A i \in 1 .. l : events'[i] = events[i]
      BY <1>0, <3>1, <3>2
    <3>4. Partly = p - 1 /\ Partly' = p
      BY <2>2, <3>1 DEF Store!WriteEntry, Partly
    <3>5. \A n \in Store!Numbers : done'[n] = "ok" => Written(n)'
      BY <1>0, <1>1, <1>n, <3>1, <3>2, StaysWritten DEF QueueRests
    <3> HIDE DEF l, f
    <3>6. /\ p <= l + 1
          /\ \A j \in 1 .. l + 1 - p : events'[j][1] < f
          /\ events'[l + 1 - p + 1] = <<f, 1>>
          /\ p = 2 => events'[l + 1] = <<f, 2>>
      BY <1>0, <1>n, <3>3, <3>4
    <3> QED BY <1>1, <2>0, <3>0, <3>3, <3>4, <3>5, <3>6 DEF Filed, QueueRests, Store!Numbers, l, f
  <2>3. CASE Store!InvalidateCache
    <3>1. Partly' = Partly /\ \A n : Written(n) => Written(n)'
      BY <2>3 DEF Store!InvalidateCache, Partly, Written
    <3> QED BY <1>1, <1>n, <2>0, <2>3, <3>1
          DEF Filed, QueueRests, Store!InvalidateCache, Store!Writing, Store!Numbers
  <2>4. Store!WriteEntry \/ Store!InvalidateCache \/ UNCHANGED <<events, step>> \/ ~QueueRests
    <3>1. Store!WriteMeta => batches' # batches
      BY DEF Store!WriteMeta, Store!Writing, StoreTypes
    <3>2. Store!WriteFails => batches' # batches
      BY DEF Store!WriteFails, Store!Writing, StoreTypes
    <3> QED
      BY <3>1, <3>2
         DEF Store!Next, QueueRests, Store!AppendHistory, Store!WaitForFlush, Store!Flushed, Store!SetQueue,
             Store!PersistTurn, Store!Stat, Store!Lookup, Store!Decode, Store!Fill
  <2> QED BY <1>1, <2>1, <2>2, <2>3, <2>4
<1>2. CASE Store!AppendHistory /\ Appended /\ UNCHANGED <<events, step>>
  <2>1. FirstBatch' = f /\ Partly' = Partly /\ \A n : Written(n) => Written(n)'
    BY <1>2, AppendedNumbered DEF Partly, Written
  <2>2. batches' # <<>>
    BY <1>2 DEF Appended, StoreTypes
  <2>3. \A n \in Store!Numbers : done'[n] = "ok" => done[n] = "ok"
    BY <1>2 DEF Appended, StoreTypes
  <2> QED BY <1>2, <1>n, <2>1, <2>2, <2>3 DEF Filed, Store!Numbers
<1>3. ASSUME NEW x \in {"ok", "failed"}, Settled(x), x = "ok" => step = "told"
      PROVE  Filed'
  <2>1. /\ FirstBatch' = f + 1 /\ f \in Store!Numbers
        /\ \A n \in Store!Numbers : n # f => done'[n] = done[n]
        /\ done'[f] = x
    BY <1>3, SettledNumbered, FirstInQueue DEF Settled
  <2>2. Partly' = 0 /\ events' = events /\ step' = "begin" /\ \A n : Written(n) => Written(n)'
    BY <1>3 DEF Settled, Partly, Written
  <2>3. \A j \in 1 .. l : events[j][1] < f + 1
    <3> SUFFICES ASSUME NEW j \in 1 .. l PROVE events[j][1] < f + 1
      OBVIOUS
    <3>1. CASE j <= l - Partly
      <4>1. events[j] \in Entries
        BY <1>0
      <4>2. events[j][1] \in Nat
        BY <4>1 DEF Entries, Store!Numbers
      <4>3. events[j][1] < f
        BY <1>0, <1>n, <3>1
      <4> QED BY <1>0, <4>2, <4>3
    <3>2. CASE j = l - Partly + 1 /\ Partly > 0
      BY <1>0, <1>n, <3>2
    <3>3. CASE j = l /\ Partly = 2
      BY <1>0, <1>n, <3>3
    <3> QED BY <1>0, <3>1, <3>2, <3>3
  <2>4. x = "ok" => Written(f)
    <3>1. ASSUME step = "told" PROVE Written(f)
      <4>1. Partly = 2
        BY <3>1 DEF Partly
      <4>2. /\ l - 1 \in 1 .. l - 1 /\ l - 1 + 1 = l /\ l - 2 + 1 = l - 1
            /\ \A j \in 1 .. l - 2 : events[j][1] < f
            /\ events[l - 1] = <<f, 1>> /\ events[l] = <<f, 2>>
        BY <1>0, <1>n, <4>1
      <4>3. \A j \in 1 .. (l - 1) - 1 : events[j][1] < f
        BY <1>0, <4>2
      <4> QED BY <4>2, <4>3 DEF Written
    <3> QED BY <1>3, <3>1
  <2>5. \A n \in Store!Numbers : done'[n] = "ok" => Written(n)'
    BY <1>n, <2>1, <2>2, <2>4
  <2>6. (l >= 0 /\ l - 0 = l)
    BY <1>0
  <2> QED BY <2>1, <2>2, <2>3, <2>5, <2>6 DEF Filed, Store!Numbers
<1> QED BY <1>1, <1>2, <1>3, QueueSteps DEF Store!WriteMeta

LEMMA StoreFlushed ==
  ASSUME StoreTypes, Numbered, FlushedUpTo, Store!Next
  PROVE  FlushedUpTo'
<1> USE StoreAssumption
<1>0. /\ flush \in [n : Nat, got : {"none", "ok", "failed"}] /\ FirstBatch \in Nat
      /\ Store!NextNumber \in 1 .. MaxBatches + 1
      /\ flush.n < Store!NextNumber /\ (flush.got = "ok" => flush.n < FirstBatch)
  BY DEF StoreTypes, Numbered, FirstBatch, FlushedUpTo
<1>1. CASE QueueRests
  <2>0. FirstBatch' = FirstBatch /\ Store!NextNumber' = Store!NextNumber
    BY <1>1, QueueRestsNumbered
  <2>1. CASE flush' = flush
    BY <1>0, <2>0, <2>1 DEF FlushedUpTo
  <2>2. CASE Store!WaitForFlush
    BY <1>0, <2>0, <2>2 DEF Store!WaitForFlush, FlushedUpTo
  <2>3. CASE Store!Flushed
    <3>1. flush'.n = flush.n
      BY <1>0, <2>3 DEF Store!Flushed
    <3>2. flush.n \in Store!Numbers /\ done[flush.n] # "pending"
      BY <1>0, <2>3 DEF Store!Flushed, Store!Numbers
    <3>3. flush.n < FirstBatch
      BY <1>0, <3>2 DEF Numbered
    <3> QED BY <1>0, <2>0, <3>1, <3>3 DEF FlushedUpTo
  <2>4. Store!WaitForFlush \/ Store!Flushed \/ flush' = flush
    BY DEF Store!Next, Store!AppendHistory, Store!WriteEntry, Store!InvalidateCache, Store!WriteMeta,
           Store!WriteFails, Store!SetQueue, Store!PersistTurn, Store!Stat, Store!Lookup, Store!Decode,
           Store!Fill
  <2> QED BY <2>1, <2>2, <2>3, <2>4
<1>2. CASE Appended /\ flush' = flush
  BY <1>0, <1>2, AppendedNumbered DEF FlushedUpTo
<1>3. ASSUME NEW x \in {"ok", "failed"}, Settled(x) PROVE FlushedUpTo'
  <2>1. FirstBatch' = FirstBatch + 1 /\ Store!NextNumber' = Store!NextNumber /\ flush' = flush
    BY <1>3, SettledNumbered DEF Settled
  <2>2. flush.got = "ok" => flush.n < FirstBatch + 1
    BY <1>0
  <2> QED BY <1>0, <2>1, <2>2 DEF FlushedUpTo
<1> QED BY <1>1, <1>2, <1>3, QueueSteps

\* What is a part of the file stays one, the file only grows.
LEMMA StaysPart ==
  ASSUME events \in Seq(Entries), NEW e \in Entries, events' = Append(events, e) \/ events' = events,
         NEW s, NEW t, Len(t) \in Nat, PartOf(s, t)
  PROVE  /\ s <= Len(t) /\ Len(t) <= Len(events')
         /\ \A i \in 1 .. Len(t) : t[i] = events'[i]
<1>1. CASE events' = Append(events, e)
  <2>1. /\ Len(events) \in Nat /\ Len(events') = Len(events) + 1
        /\ \A i \in 1 .. Len(events) : events'[i] = events[i]
    BY <1>1
  <2> QED BY <2>1 DEF PartOf
<1>2. CASE events' = events
  BY <1>2 DEF PartOf
<1> QED BY <1>1, <1>2

LEMMA StoreLoaded ==
  ASSUME StoreTypes, Numbered, Loaded, Store!Next
  PROVE  Loaded'
<1> USE StoreAssumption
<1> DEFINE Threads == [at : {"idle", "stat", "decode", "fill", "over"}, stat : Nat, items : Seq(Entries)]
<1>0. /\ events \in Seq(Entries) /\ Len(events) \in Nat
      /\ cache \in [stat : Nat, items : Seq(Entries)] /\ Len(cache.items) \in Nat
      /\ reader \in [Readers -> Threads]
  BY DEF StoreTypes
<1>n. /\ PartOf(cache.stat, cache.items)
      /\ \A r \in Readers :
           /\ Len(reader[r].items) \in Nat
           /\ reader[r].at \in {"stat", "decode"} => reader[r].stat <= Len(events)
           /\ reader[r].at \in {"fill", "over"} => PartOf(reader[r].stat, reader[r].items)
  BY <1>0 DEF Loaded
<1> HIDE DEF Threads
<1>1. CASE UNCHANGED <<events, cache, reader>>
  BY <1>1, <1>n DEF Loaded, PartOf
<1>2. CASE Store!WriteEntry
  <2>1. PICK e \in Entries : events' = Append(events, e)
    <3>1. Head(batches).n = FirstBatch /\ FirstBatch \in Store!Numbers
      BY <1>2, FirstInQueue DEF Store!WriteEntry, Store!Writing
    <3>2. <<Head(batches).n, IF step = "begin" THEN 1 ELSE 2>> \in Entries
      BY <3>1 DEF Entries, Store!Places
    <3> QED BY <1>2, <3>2 DEF Store!WriteEntry
  <2>2. Len(events) <= Len(events')
    BY <1>0, <2>1
  <2>3. ASSUME NEW s, NEW t, Len(t) \in Nat, PartOf(s, t)
        PROVE  /\ s <= Len(t) /\ Len(t) <= Len(events')
               /\ \A i \in 1 .. Len(t) : t[i] = events'[i]
    BY <1>0, <2>1, <2>3, StaysPart
  <2>4. cache' = cache /\ reader' = reader
    BY <1>2 DEF Store!WriteEntry
  <2>5. PartOf(cache.stat, cache.items)'
    BY <1>0, <1>n, <2>3, <2>4 DEF PartOf
  <2>6. ASSUME NEW r \in Readers
        PROVE  /\ reader'[r].at \in {"stat", "decode"} => reader'[r].stat <= Len(events')
               /\ reader'[r].at \in {"fill", "over"} => PartOf(reader[r].stat, reader[r].items)'
    <3>1. reader[r].stat \in Nat /\ Len(events') \in Nat
      BY <1>0, <2>1 DEF Threads
    <3> QED BY <1>0, <1>n, <2>2, <2>3, <2>4, <3>1 DEF PartOf
  <2> QED BY <2>4, <2>5, <2>6 DEF Loaded
<1>3. CASE Store!InvalidateCache
  <2>1. cache'.stat = 0 /\ Len(cache'.items) = 0 /\ events' = events /\ reader' = reader
    BY <1>3 DEF Store!InvalidateCache, Store!Empty
  <2>2. PartOf(cache.stat, cache.items)'
    BY <1>0, <2>1 DEF PartOf
  <2> QED BY <1>n, <2>1, <2>2 DEF Loaded, PartOf
<1>4. ASSUME NEW r \in Readers, Store!Stat(r) \/ Store!Lookup(r) \/ Store!Decode(r) \/ Store!Fill(r)
      PROVE  Loaded'
  <2>0. /\ events' = events /\ \A q \in Readers \ {r} : reader'[q] = reader[q]
        /\ reader[r] \in Threads
        /\ cache' = cache \/ Store!Fill(r)
    BY <1>0, <1>4 DEF Store!Stat, Store!Lookup, Store!Decode, Store!Fill
  <2>1. /\ reader'[r].at \in {"stat", "decode"} => reader'[r].stat <= Len(events)
        /\ reader'[r].at \in {"fill", "over"} => PartOf(reader'[r].stat, reader'[r].items)
    <3>1. CASE Store!Stat(r)
      BY <1>0, <3>1 DEF Store!Stat
    <3>2. CASE Store!Lookup(r)
      <4>1. reader[r].at = "stat" /\ reader[r].stat <= Len(events)
        BY <1>n, <3>2 DEF Store!Lookup
      <4>2. CASE Store!CacheHit(reader[r].stat)
        <5>1. reader'[r] = [reader[r] EXCEPT !.at = "over", !.items = cache.items]
          BY <1>0, <3>2, <4>2 DEF Store!Lookup
        <5>2. /\ reader'[r].at = "over" /\ reader'[r].stat = cache.stat
              /\ reader'[r].items = cache.items
          BY <2>0, <4>2, <5>1 DEF Threads, Store!CacheHit
        <5> QED BY <1>n, <5>2
      <4>3. CASE ~Store!CacheHit(reader[r].stat)
        <5>1. reader'[r] = [reader[r] EXCEPT !.at = "decode"]
          BY <1>0, <3>2, <4>3 DEF Store!Lookup
        <5> QED BY <2>0, <4>1, <5>1 DEF Threads
      <4> QED BY <4>2, <4>3
    <3>3. CASE Store!Decode(r)
      <4>1. reader[r].stat <= Len(events)
        BY <1>n, <3>3 DEF Store!Decode
      <4>2. reader'[r] = [reader[r] EXCEPT !.at = "fill", !.items = events]
        BY <1>0, <3>3 DEF Store!Decode
      <4>3. reader'[r].at = "fill" /\ reader'[r].stat = reader[r].stat /\ reader'[r].items = events
        BY <2>0, <4>2 DEF Threads
      <4> QED BY <1>0, <4>1, <4>3 DEF PartOf
    <3>4. CASE Store!Fill(r)
      <4>1. PartOf(reader[r].stat, reader[r].items)
        BY <1>n, <3>4 DEF Store!Fill
      <4>2. reader'[r] = [reader[r] EXCEPT !.at = "over"]
        BY <1>0, <3>4 DEF Store!Fill
      <4> QED BY <2>0, <4>1, <4>2 DEF Threads
    <3> QED BY <1>4, <3>1, <3>2, <3>3, <3>4
  <2>2. PartOf(cache.stat, cache.items)'
    <3>1. CASE cache' = cache
      BY <1>n, <2>0, <3>1 DEF PartOf
    <3>2. CASE Store!Fill(r)
      <4>1. PartOf(reader[r].stat, reader[r].items)
        BY <1>n, <3>2 DEF Store!Fill
      <4> QED BY <2>0, <3>2, <4>1 DEF Store!Fill, PartOf
    <3> QED BY <2>0, <3>1, <3>2
  <2> QED BY <1>n, <2>0, <2>1, <2>2 DEF Loaded, PartOf
<1> QED
  BY <1>1, <1>2, <1>3, <1>4
     DEF Store!Next, Store!AppendHistory, Store!WaitForFlush, Store!Flushed, Store!WriteMeta,
         Store!WriteFails, Store!SetQueue, Store!PersistTurn

LEMMA StoreStutters ==
  ASSUME StoreInv, UNCHANGED storeVars PROVE StoreInv'
<1> USE DEF StoreInv, storeVars
<1>1. Store!NextNumber' = Store!NextNumber
  BY DEF Store!NextNumber, Store!Numbers
<1>2. StoreTypes' /\ KeysKept' /\ Loaded'
  BY DEF StoreTypes, KeysKept, Store!RuntimeKeysSurvive, Loaded, PartOf, Store!Numbers, Entries, Store!Places
<1>3. Numbered' /\ FirstBatch' = FirstBatch
  BY <1>1 DEF Numbered, FirstBatch, Store!Numbers
<1>4. Filed' /\ FlushedUpTo'
  BY <1>1, <1>3 DEF Filed, Partly, Written, FlushedUpTo, Store!Numbers
<1> QED BY <1>2, <1>3, <1>4

\* What the loads returned and what the flush promised, from the invariant.
LEMMA StoreIsRight ==
  ASSUME StoreInv
  PROVE  Store!RuntimeKeysSurvive /\ Store!FlushMeansWritten /\ Store!LoadIsFresh
<1> USE StoreAssumption
<1>1. Store!FlushMeansWritten
  <2>1. ASSUME flush.got = "ok", NEW n \in 1 .. flush.n, done[n] # "failed"
        PROVE  Written(n)
    <3>1. n \in Store!Numbers /\ n < FirstBatch /\ n < Store!NextNumber
      <4>1. /\ flush.n \in Nat /\ Len(batches) \in Nat /\ Store!NextNumber \in 1 .. MaxBatches + 1
            /\ flush.n < FirstBatch
        BY <2>1 DEF StoreInv, StoreTypes, Numbered, FlushedUpTo
      <4> QED BY <4>1 DEF FirstBatch, Store!Numbers
    <3>2. done[n] \in {"none", "pending", "ok", "failed"}
      BY <3>1 DEF StoreInv, StoreTypes
    <3>3. done[n] # "none" /\ done[n] # "pending"
      <4>1. n \in Nat /\ FirstBatch \in Int /\ Store!NextNumber \in Int
        BY <3>1 DEF StoreInv, StoreTypes, Numbered, FirstBatch
      <4>2. ~(Store!NextNumber <= n) /\ ~(FirstBatch <= n)
        BY <3>1, <4>1
      <4> QED BY <3>1, <4>2 DEF StoreInv, Numbered
    <3> QED BY <2>1, <3>1, <3>2, <3>3 DEF StoreInv, Filed
  <2> QED BY <2>1 DEF Store!FlushMeansWritten, Written
<1>2. Store!LoadIsFresh
  <2> SUFFICES ASSUME NEW r \in Readers, reader[r].at = "over"
               PROVE  /\ Len(reader[r].items) >= reader[r].stat
                      /\ reader[r].items = SubSeq(events, 1, Len(reader[r].items))
    BY DEF Store!LoadIsFresh
  <2> DEFINE t == reader[r].items
  <2>1. t \in Seq(Entries) /\ events \in Seq(Entries) /\ reader[r].stat \in Nat
    BY DEF StoreInv, StoreTypes
  <2>2. PartOf(reader[r].stat, t)
    BY DEF StoreInv, Loaded
  <2> HIDE DEF t
  <2>3. /\ Len(t) \in Nat /\ reader[r].stat <= Len(t) /\ Len(t) <= Len(events)
        /\ \A i \in 1 .. Len(t) : t[i] = events[i]
    BY <2>1, <2>2 DEF PartOf
  <2>4. t = SubSeq(events, 1, Len(t))
    <3>1. SubSeq(events, 1, Len(t)) \in Seq(Entries) /\ Len(SubSeq(events, 1, Len(t))) = Len(t)
      BY <2>1, <2>3
    <3>2. \A i \in 1 .. Len(t) : SubSeq(events, 1, Len(t))[i] = t[i]
      BY <2>1, <2>3
    <3> QED BY <2>1, <3>1, <3>2
  <2> QED BY <2>1, <2>3, <2>4 DEF t
<1> QED BY <1>1, <1>2 DEF StoreInv, KeysKept

(* SessionStore: a queued batch never undoes what update_meta wrote, a flush *)
(* means written, and a load is fresh: for any threads, values and number of *)
(* batches, updates and failed writes.                                       *)
THEOREM FilesAlwaysAgree == Spec => []FilesAgree
<1> DEFINE Inv == which = "store" => StoreInv
<1>1. Init => Inv
  BY StoreStarts DEF Init
<1>2. Inv /\ [Next]_vars => Inv'
  <2>1. ASSUME StoreInv, Store!Next PROVE StoreInv'
    BY <2>1, StoreTyped, NumberedKept, StoreKeys, StoreFiled, StoreFlushed, StoreLoaded DEF StoreInv
  <2>2. ASSUME Inv, [Next]_vars, which = "store" PROVE StoreInv'
    <3>1. [Store!Next]_storeVars
      BY <2>2, AboutOne
    <3> QED BY <2>1, <2>2, <3>1, StoreStutters
  <2> QED BY <2>2, AboutOne
<1>3. Inv => FilesAgree
  BY StoreIsRight DEF FilesAgree
<1> QED BY <1>1, <1>2, <1>3, PTL DEF Spec

=============================================================================
