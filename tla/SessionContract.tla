--------------------------- MODULE SessionContract ---------------------------
(***************************************************************************)
(* What a session promises its clients, whatever its workers, getters,     *)
(* prefetching and tasks do: operations wait in two first-in first-out     *)
(* lanes per actor, a root operation begins only when no other one of the  *)
(* actor is at work, it is turned away only while another one is           *)
(* unfinished or by an actor that was shut, a shut actor accepts nothing   *)
(* and may lose what waits in it, and every operation that is not lost     *)
(* gets one outcome, after it began or was turned away.                    *)
(***************************************************************************)
EXTENDS Naturals, Sequences

CONSTANTS
  Ops,        \* operations that clients may submit
  RootOps,    \* those that exclude one another at work; none of them is in ControlOps
  ControlOps, \* those of the control lane
  Preemptive, \* control operations that may skip their lane
  Actors      \* actor generations

VARIABLES
  lane,    \* [Actors -> [Lanes -> Seq(Ops)]]
  state,   \* [Ops -> States]
  home,    \* the actor an operation was submitted to, 0 before
  working, \* operations with a handler or a task at work
  outcome, \* [Ops -> Seq(Outcomes)], what clients were told
  shut     \* actors somebody closed

cvars == <<lane, state, home, working, outcome, shut>>

Lanes == {"control", "normal"}

States == {"new", "waiting", "active", "settled", "lost"}
Outcomes == {"completed", "failed", "rejected"}
LaneOf(o) == IF o \in ControlOps THEN "control" ELSE "normal"

Init ==
  /\ lane = [a \in Actors |-> [l \in Lanes |-> <<>>]]
  /\ state = [o \in Ops |-> "new"] /\ home = [o \in Ops |-> 0]
  /\ working = {}
  /\ outcome = [o \in Ops |-> <<>>] /\ shut = {}

Tell(o, s) == outcome' = [outcome EXCEPT ![o] = Append(@, s)]

Accept(o, a) ==
  /\ state[o] = "new" /\ a \notin shut
  /\ state' = [state EXCEPT ![o] = "waiting"]
  /\ home' = [home EXCEPT ![o] = a]
  /\ lane' = [lane EXCEPT ![a][LaneOf(o)] = Append(@, o)]
  /\ UNCHANGED <<working, outcome, shut>>

\* An interrupt or an answer may skip the lane: it starts, or is done, at once.
Preempt(o, a) ==
  /\ o \in Preemptive /\ state[o] = "new" /\ a \notin shut
  /\ home' = [home EXCEPT ![o] = a]
  /\ \/ /\ state' = [state EXCEPT ![o] = "active"]
        /\ working' = working \cup {o}
        /\ UNCHANGED outcome
     \/ /\ state' = [state EXCEPT ![o] = "settled"]
        /\ \E s \in {"completed", "failed"} : Tell(o, s)
        /\ UNCHANGED working
  /\ UNCHANGED <<lane, shut>>

\* The first operation of a lane begins.
Begin(o, a) ==
  /\ lane[a][LaneOf(o)] # <<>> /\ o = Head(lane[a][LaneOf(o)])
  /\ o \in RootOps => \A p \in working \cap RootOps : home[p] # a
  /\ lane' = [lane EXCEPT ![a][LaneOf(o)] = Tail(@)]
  /\ state' = [state EXCEPT ![o] = "active"]
  /\ working' = working \cup {o}
  /\ UNCHANGED <<home, outcome, shut>>

\* ... or is turned away, because another root operation is unfinished or the
\* actor is not the session's any more.
Reject(o, a) ==
  /\ o \in RootOps /\ lane[a][LaneOf(o)] # <<>> /\ o = Head(lane[a][LaneOf(o)])
  /\ a \in shut \/ \E p \in RootOps : state[p] = "active" /\ home[p] = a
  /\ lane' = [lane EXCEPT ![a][LaneOf(o)] = Tail(@)]
  /\ state' = [state EXCEPT ![o] = "settled"]
  /\ Tell(o, "rejected")
  /\ UNCHANGED <<home, working, shut>>

\* Its task is over; the clients are told later.
Rest(o) ==
  /\ o \in working
  /\ working' = working \ {o}
  /\ UNCHANGED <<lane, state, home, outcome, shut>>

Settle(o) ==
  /\ state[o] = "active"
  /\ state' = [state EXCEPT ![o] = "settled"]
  /\ \E s \in {"completed", "failed"} : Tell(o, s)
  /\ working' \in {working, working \ {o}}
  /\ UNCHANGED <<lane, home, shut>>

Shut(a) ==
  /\ shut' = shut \cup {a}
  /\ UNCHANGED <<lane, state, home, working, outcome>>

\* A shut actor loses what waits in its lanes, all of it.
Lose(a) ==
  /\ a \in shut
  /\ state' = [o \in Ops |-> IF home[o] = a /\ state[o] = "waiting" THEN "lost" ELSE state[o]]
  /\ lane' = [lane EXCEPT ![a] = [l \in Lanes |-> <<>>]]
  /\ UNCHANGED <<home, working, outcome, shut>>

Next ==
  \/ \E o \in Ops, a \in Actors :
       Accept(o, a) \/ Preempt(o, a) \/ Begin(o, a) \/ Reject(o, a)
  \/ \E o \in Ops : Rest(o) \/ Settle(o)
  \/ \E a \in Actors : Shut(a) \/ Lose(a)

Spec == Init /\ [][Next]_cvars
=============================================================================
