-------------------------- MODULE SessionRefinement --------------------------
(* SessionRuntime implements SessionContract.                               *)
EXTENDS SessionRuntime

One(x) == IF x \in Ops THEN <<x>> ELSE <<>>

\* A STOP is the last thing a control mailbox holds.
WithoutStop(q) ==
  IF q # <<>> /\ q[Len(q)] = Stop THEN SubSeq(q, 1, Len(q) - 1) ELSE q

\* A lane: the prefetched item, the one its getter task holds, the mailbox.
ControlLane(a) == One(pre[a].control) \o One(got[a].control) \o WithoutStop(control[a])
NormalLane(a) == One(pre[a].normal) \o One(got[a].normal) \o normal[a]

LaneView ==
  [a \in Actors |->
     [l \in {"control", "normal"} |-> IF l = "control" THEN ControlLane(a) ELSE NormalLane(a)]]

State(o) ==
  CASE stage[o] = "new" -> "new"
    [] stage[o] \in {"control", "normal", "held"} -> "waiting"
    [] stage[o] \in {"handling", "suspended", "background"} -> "active"
    [] stage[o] = "finished" -> "settled"
    [] stage[o] = "dropped" -> "lost"

StateView == [o \in Ops |-> State(o)]
WorkView == {o \in Ops : stage[o] \in {"handling", "suspended"} \/ task[o] \in LiveTask}
ShutView == {a \in Actors : closing[a] # "open"}

Contract == INSTANCE SessionContract WITH
  RootOps <- {o \in Ops : IsRoot(o)},
  ControlOps <- {o \in Ops : IsControl(o)},
  Preemptive <- {o \in Ops : Kind[o] \in {"interrupt", "respond"}},
  lane <- LaneView, state <- StateView, home <- owner,
  working <- WorkView, outcome <- finished, shut <- ShutView

\* Clients see the contract: lanes are first-in first-out across getters and
\* prefetching, the root slot guards the tasks that are really alive, an operation is
\* turned away only for one that is unfinished or by an actor somebody closed, only a
\* closed actor loses operations, and each other one is told its one outcome only
\* after it began or was turned away.
KeepsContract == Contract!Spec

=============================================================================
