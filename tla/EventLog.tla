------------------------------ MODULE EventLog ------------------------------
(***************************************************************************)
(* What the event bus promises a subscriber: it reads the publications of  *)
(* its scope made since it subscribed, in order and without a gap, until   *)
(* its stream ends; an ended stream never resumes.  Which entry is the     *)
(* last one is left open, because the bus cuts a subscriber that is slow.  *)
(***************************************************************************)
EXTENDS Naturals, Sequences

CONSTANTS Subscribers, Sessions, AnyScope

VARIABLES
  log,      \* every publication, oldest first
  opened,   \* per subscriber, its scope, or "no" while it has not subscribed
  start,    \* the length of the log when it subscribed
  read,     \* the entries it has read
  over      \* TRUE once its stream has ended

logVars == <<log, opened, start, read, over>>

Within(s, i) == opened[s] \in {AnyScope, log[i].session}

(* The position of the last entry the subscriber has read. *)
At(s) == IF read[s] = <<>> THEN start[s] ELSE read[s][Len(read[s])]

Init ==
  /\ log = <<>>
  /\ opened = [s \in Subscribers |-> "no"]
  /\ start = [s \in Subscribers |-> 0]
  /\ read = [s \in Subscribers |-> <<>>]
  /\ over = [s \in Subscribers |-> FALSE]

Append1 ==
  /\ log' # <<>> /\ log'[Len(log')].session \in Sessions
  /\ log' = Append(log, log'[Len(log')])
  /\ UNCHANGED <<opened, start, read, over>>

Open(s) ==
  /\ opened[s] = "no"
  /\ \E k \in Sessions \cup {AnyScope} : opened' = [opened EXCEPT ![s] = k]
  /\ start' = [start EXCEPT ![s] = Len(log)]
  /\ UNCHANGED <<log, read, over>>

(* The next entry of the scope, none skipped. *)
ReadNext(s) ==
  /\ opened[s] # "no" /\ ~over[s]
  /\ \E i \in At(s) + 1 .. Len(log) :
       /\ Within(s, i)
       /\ \A j \in At(s) + 1 .. i - 1 : ~Within(s, j)
       /\ read' = [read EXCEPT ![s] = Append(@, i)]
  /\ UNCHANGED <<log, opened, start, over>>

End(s) ==
  /\ opened[s] # "no"
  /\ over' = [over EXCEPT ![s] = TRUE]
  /\ UNCHANGED <<log, opened, start, read>>

Next == Append1 \/ \E s \in Subscribers : Open(s) \/ ReadNext(s) \/ End(s)

Spec == Init /\ [][Next]_logVars
=============================================================================
