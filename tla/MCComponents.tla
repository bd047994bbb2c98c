----------------------------- MODULE MCComponents -----------------------------
(* The components that have a state machine of their own, each checked by    *)
(* itself: which one a behaviour is about is chosen at the start, and the    *)
(* others stay in their initial state.                                       *)
EXTENDS Naturals, FiniteSets

CONSTANTS
  Texts, MaxRaw,
  Readers, Values, Unset, MaxBatches, MaxUpdates, MaxFaults,
  Clients, NoTape, MaxTurns, MaxLoads, MaxPieces, Interleaved, FarRewinds, SlowUsage,
  Sequential, Concurrent, MaxFailed, MaxEmpty, Fallbacks, MaxSteps,
  Ops, MaxSaid, SwitchWhileWaiting,
  Procs, Cmds, NoProc, MaxEvents,
  Msgs, None, MaxExtras, MaxLag,
  Contents, Gone, NoText, OldSessions,
  AgentCalls, MaxTroubles,
  BatchSize, MaxReplies, MaxPrompts, MaxDeltas, LateUnstreamed

VARIABLES
  which,        \* the component a behaviour is about
  raw, live, nextId, call, stepped, shifted,
  own, disk, events, batches, step, done, flush, cache, reader, queuedTurn, updates, faults,
  items, tape, seqNo, said, turn, stream, turnsRun, resets, resident, loads, client,
  torn, spoilt, blind,
  subAgent, at, fails, models, empties, skipCompact, steps, asked, callAt, results, reply,
  wishes, cancelled, wound, told, streak,
  link, up, down, shown, mine, theirs, swallows, expired, op, future, completed, server, cut,
  installed, lock, sock, proc, cmd, work, listed, incidents,
  agent, mail, root, ran, published, failed, interrupted, stopped, starting, waiting, drain,
  request, over, accepted, acked, extras,
  file, entry, tool, late, belief, hidden, slipped, replaced,
  parent, launcher, childOp, dying, news, lost, seen, spoke, ended, outcome, cascade, reached,
  gotOver, troubles,
  inbox, about, phase, prompts, speech, uttered, mused, shell, kid, answered, doomed, strays,
  aside, chore, dim, spool, detail, machine, screen

historyVars == <<raw, live, nextId, call, stepped, shifted>>
storeVars == <<own, disk, events, batches, step, done, flush, cache, reader, queuedTurn, updates, faults>>
attachVars == <<items, tape, seqNo, said, turn, stream, turnsRun, resets, resident, loads, client,
                torn, spoilt, blind>>
turnVars == <<subAgent, at, fails, models, empties, skipCompact, steps, asked, callAt, results, reply,
                 wishes, cancelled, wound, told, streak>>
clientVars == <<link, up, down, shown, mine, theirs, swallows, expired, op, future,
                 completed, server, cut>>
serverVars == <<installed, lock, sock, proc, cmd, work, listed, incidents>>
drainVars == <<agent, mail, root, ran, published, failed, interrupted, stopped, starting, waiting,
               drain, request, over, accepted, acked, extras>>
fileVars == <<file, entry, tool, late, belief, hidden, slipped, replaced>>
childVars == <<parent, launcher, childOp, dying, news, lost, seen, spoke, ended, outcome, cascade,
               reached, gotOver, troubles>>
displayVars == <<inbox, about, phase, prompts, speech, uttered, mused, shell, kid, answered, doomed,
                 strays, aside, chore, dim, spool, detail, machine, screen>>

Hist == INSTANCE SessionHistory
Store == INSTANCE SessionStore
Attach == INSTANCE AttachReplay
Turn == INSTANCE TaskExecutor
Client == INSTANCE SocketClient
Server == INSTANCE ServerLifecycle
Drain == INSTANCE InteractiveDrain WITH events <- published, client <- request
Files == INSTANCE FileEdits
Kids == INSTANCE SubAgents
Disp == INSTANCE Display WITH reply <- speech, said <- uttered, MaxPieces <- MaxDeltas

(* Some process may serve, and none is called like the lack of one. *)
ASSUME ServerAssumption ==
  /\ Procs # {} /\ NoProc \notin Procs
  /\ MaxEvents \in Nat

(* The bound of what a session is appended. *)
ASSUME StoreAssumption == MaxBatches \in Nat

(* The lack of a tape is none. *)
ASSUME AttachAssumption == NoTape \notin Attach!Tapes

(* The bounds of a turn: of its retries and of what it may ask. *)
ASSUME TurnAssumption ==
  MaxFailed \in Nat /\ MaxEmpty \in Nat /\ Fallbacks \in Nat /\ MaxSteps \in Nat

(* The lack of a message or an operation is neither. *)
ASSUME DrainAssumption ==
  None \notin Msgs /\ None \notin Drain!Operations /\ MaxExtras \in Nat

(* No text is called like the lack of a file, or of a text. *)
ASSUME FileAssumption == Gone \notin Contents /\ NoText \notin Contents

(* The bound of what happens to the children. *)
ASSUME ChildAssumption == MaxTroubles \in Nat

Components == {"history", "store", "attach", "turn", "client", "server", "drain", "files", "children",
               "display"}

\* The variables of a component a behaviour is not about.
HistoryRests ==
  /\ raw = 0 /\ live = 0 /\ nextId = 0 /\ call = 0 /\ stepped = 0 /\ shifted = 0
StoreRests ==
  /\ own = 0 /\ disk = 0 /\ events = 0 /\ batches = 0 /\ step = 0 /\ done = 0
  /\ flush = 0 /\ cache = 0 /\ reader = 0 /\ queuedTurn = 0 /\ updates = 0 /\ faults = 0
AttachRests ==
  /\ items = 0 /\ tape = 0 /\ seqNo = 0 /\ said = 0 /\ turn = 0 /\ stream = 0
  /\ turnsRun = 0 /\ resets = 0 /\ resident = 0 /\ loads = 0 /\ client = 0
  /\ torn = 0 /\ spoilt = 0 /\ blind = 0
TurnRests ==
  /\ subAgent = 0 /\ at = 0 /\ fails = 0 /\ models = 0 /\ empties = 0 /\ skipCompact = 0 /\ steps = 0
  /\ asked = 0 /\ callAt = 0 /\ results = 0 /\ reply = 0 /\ wishes = 0 /\ cancelled = 0
  /\ wound = 0 /\ told = 0 /\ streak = 0
ClientRests ==
  /\ link = 0 /\ up = 0 /\ down = 0 /\ shown = 0 /\ mine = 0 /\ theirs = 0
  /\ swallows = 0 /\ expired = 0 /\ op = 0 /\ future = 0 /\ completed = 0 /\ server = 0
  /\ cut = 0
ServerRests ==
  /\ installed = 0 /\ lock = 0 /\ sock = 0 /\ proc = 0 /\ cmd = 0 /\ work = 0
  /\ listed = 0 /\ incidents = 0
DrainRests ==
  /\ agent = 0 /\ mail = 0 /\ root = 0 /\ ran = 0 /\ published = 0 /\ failed = 0
  /\ interrupted = 0 /\ stopped = 0 /\ starting = 0 /\ waiting = 0 /\ drain = 0
  /\ request = 0 /\ over = 0 /\ accepted = 0 /\ acked = 0 /\ extras = 0
FilesRests ==
  /\ file = 0 /\ entry = 0 /\ tool = 0 /\ late = 0 /\ belief = 0 /\ hidden = 0
  /\ slipped = 0 /\ replaced = 0
ChildrenRests ==
  /\ parent = 0 /\ launcher = 0 /\ childOp = 0 /\ dying = 0 /\ news = 0 /\ lost = 0
  /\ seen = 0 /\ spoke = 0 /\ ended = 0 /\ outcome = 0 /\ cascade = 0 /\ reached = 0
  /\ gotOver = 0 /\ troubles = 0
DisplayRests ==
  /\ inbox = 0 /\ about = 0 /\ phase = 0 /\ prompts = 0 /\ speech = 0 /\ uttered = 0
  /\ mused = 0 /\ shell = 0 /\ kid = 0 /\ answered = 0 /\ doomed = 0 /\ strays = 0
  /\ aside = 0 /\ chore = 0 /\ dim = 0 /\ spool = 0 /\ detail = 0 /\ machine = 0
  /\ screen = 0

Init ==
  /\ which \in Components
  /\ IF which = "history" THEN Hist!Init ELSE HistoryRests
  /\ IF which = "store" THEN Store!Init ELSE StoreRests
  /\ IF which = "attach" THEN Attach!Init ELSE AttachRests
  /\ IF which = "turn" THEN Turn!Init ELSE TurnRests
  /\ IF which = "client" THEN Client!Init ELSE ClientRests
  /\ IF which = "server" THEN Server!Init ELSE ServerRests
  /\ IF which = "drain" THEN Drain!Init ELSE DrainRests
  /\ IF which = "files" THEN Files!FileInit ELSE FilesRests
  /\ IF which = "children" THEN Kids!ChildInit ELSE ChildrenRests
  /\ IF which = "display" THEN Disp!DisplayInit ELSE DisplayRests

OthersRest ==
  /\ UNCHANGED which
  /\ IF which = "history" THEN TRUE ELSE UNCHANGED historyVars
  /\ IF which = "store" THEN TRUE ELSE UNCHANGED storeVars
  /\ IF which = "attach" THEN TRUE ELSE UNCHANGED attachVars
  /\ IF which = "turn" THEN TRUE ELSE UNCHANGED turnVars
  /\ IF which = "client" THEN TRUE ELSE UNCHANGED clientVars
  /\ IF which = "server" THEN TRUE ELSE UNCHANGED serverVars
  /\ IF which = "drain" THEN TRUE ELSE UNCHANGED drainVars
  /\ IF which = "files" THEN TRUE ELSE UNCHANGED fileVars
  /\ IF which = "children" THEN TRUE ELSE UNCHANGED childVars
  /\ IF which = "display" THEN TRUE ELSE UNCHANGED displayVars

AboutHistory == which = "history" /\ OthersRest /\ Hist!Next
AboutStore == which = "store" /\ OthersRest /\ Store!Next
\* The last piece, or the last load.
AboutAttach ==
  /\ which = "attach" /\ OthersRest /\ Attach!Next
  /\ said' < MaxPieces \/ loads' < MaxLoads
AboutTurn == which = "turn" /\ OthersRest /\ Turn!Next
AboutClient == which = "client" /\ OthersRest /\ Client!Next

\* Commands, and messages, are interchangeable: one of them comes first.
FirstCmd == CHOOSE c \in Cmds : TRUE
FirstMsg == CHOOSE m \in Msgs : TRUE

AboutServer ==
  /\ which = "server" /\ OthersRest /\ Server!Next
  /\ cmd'[FirstCmd].pc = "off" => cmd' = cmd
AboutDrain ==
  /\ which = "drain" /\ OthersRest /\ Drain!Next
  /\ request'[FirstMsg] = "new" => request' = request

\* A batch is looked at in full from the time the children are at work.
AboutDisplay ==
  /\ which = "display" /\ OthersRest /\ Disp!DisplayNext
  /\ about = "batch" /\ detail' # detail => phase = "agents" \/ detail = "full"
AboutFiles == which = "files" /\ OthersRest /\ Files!FileNext

\* Two children, or one with troubles.
AboutChildren ==
  /\ which = "children" /\ OthersRest /\ Kids!ChildNext
  /\ troubles' > 0 => Cardinality({c \in AgentCalls : launcher'[c] # "none"}) < 2

Next ==
  \/ AboutHistory
  \/ AboutStore
  \/ AboutAttach
  \/ AboutTurn
  \/ AboutClient
  \/ AboutServer
  \/ AboutDrain
  \/ AboutFiles
  \/ AboutChildren
  \/ AboutDisplay

vars == <<which, historyVars, storeVars, attachVars, turnVars, clientVars, serverVars, drainVars,
          fileVars, childVars, displayVars>>

Spec == Init /\ [][Next]_vars

-----------------------------------------------------------------------------
(* The types of the component's variables. *)
TypesHold ==
  /\ which = "history" => Hist!TypeOK
  /\ which = "store" => Store!TypeOK
  /\ which = "attach" => Attach!TypeOK
  /\ which = "turn" => Turn!TypeOK
  /\ which = "client" => Client!TypeOK
  /\ which = "server" => Server!TypeOK
  /\ which = "drain" => Drain!TypeOK
  /\ which = "files" => Files!FileTypeOK
  /\ which = "children" => Kids!ChildTypeOK
  /\ which = "display" => Disp!DisplayTypeOK

(* SessionHistory: a session loaded again sends the model what the running *)
(* one would have sent, and every call it is sent has exactly one result. *)
HistoryKept == which = "history" => Hist!ReloadKeepsView /\ Hist!WellPaired

(* SessionStore: a queued batch never undoes what update_meta wrote; what    *)
(* wait_for_flush waited for is in the file; a load returns at least what    *)
(* was there when it began. *)
FilesAgree ==
  which = "store" => Store!RuntimeKeysSurvive /\ Store!FlushMeansWritten /\ Store!LoadIsFresh

(* AttachReplay: history, tape and live stream show every piece once, and    *)
(* the client believes of the session what is true; the clients left out are *)
(* those a torn tape, a rewind under them or a reset before them reached.    *)
AttachWhole == which = "attach" => Attach!WholeUnlessTorn /\ Attach!MirrorAgrees

(* SocketClient: the terminal shows every message once, and a wait ends with *)
(* its own operation. *)
ClientInStep == which = "client" => Client!EchoOnce /\ Client!WaitIsSound

(* ServerLifecycle: one server owns the socket, only the holder of the lock  *)
(* works on requests, and a reload comes back. *)
OneServerAtATime ==
  which = "server" => Server!OneServer /\ Server!WorkUnderLock /\ Server!ReloadComesBack

(* InteractiveDrain: at rest nothing waits in the follow-up queue unseen, and *)
(* its messages leave it in order and once. *)
QueueDrains == which = "drain" => Drain!NothingStranded /\ Drain!InOrder

(* TaskExecutor: a turn that ends says how, by a finish or by an error and   *)
(* never by both, after bounded failures, and every tool call has one        *)
(* result, interrupted or not. *)
TurnWhole ==
  which = "turn" => Turn!SaysHowItEnded /\ Turn!FailuresBounded /\ Turn!OneResultPerCall

(* FileEdits: a tool replaces only what the model has seen, and what it is *)
(* told of a file is true. *)
FilesKnown == which = "files" => Files!SeenBeforeReplaced /\ Files!UnchangedIsTrue

(* SubAgents: an Agent call ends after its child with the child's result, and *)
(* an interrupt of the parent reaches the children at work. *)
ChildrenAnswer ==
  which = "children" => Kids!ResultIsTheChilds /\ Kids!InterruptReachesChildren

(* Display: the screen shows every reply once, a batch of children is        *)
(* summarised once, painting it all again changes nothing, and the spinner   *)
(* tells whether something is going on. *)
ScreenTrue ==
  which = "display" =>
    Disp!RepliesShown /\ Disp!RepaintAgrees /\ Disp!BatchSummarised /\ Disp!SpinnerTruth
===============================================================================
