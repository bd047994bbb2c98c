---------------------------- MODULE FollowUpQueue ----------------------------
(***************************************************************************)
(* The follow-up queue of an Agent: prompts in memory, at most one in      *)
(* flight, and the durable copy in the session's meta.  An operator takes  *)
(* the agent's record and returns the new one; every operation but Begin   *)
(* also writes Durable of the result to the meta.                          *)
(***************************************************************************)
EXTENDS Sequences

CONSTANT None

\* Variant: the durable copy loses the head as soon as its turn starts.
DurableRest(a) == a.mem

\* What _durable_follow_up_queue writes: the head in flight stays on disk.
Durable(a) == IF a.flight = None THEN a.mem ELSE <<a.flight>> \o a.mem

Peek(a) == IF a.mem = <<>> THEN None ELSE Head(a.mem)

FollowUp(a, p) == [a EXCEPT !.mem = Append(@, p)]

\* Variant: the head survives.
PopAllButHead(a) == [a EXCEPT !.mem = IF @ = <<>> THEN @ ELSE <<Head(@)>>]
PopAll(a) == [a EXCEPT !.mem = <<>>]

\* Two-phase pop, phase 1.
CanBegin(a, id) == a.flight = None /\ Peek(a) = id
Begin(a) == [a EXCEPT !.flight = Head(a.mem), !.mem = Tail(@)]

CanAbort(a, id) == a.flight = id
Abort(a) == [a EXCEPT !.mem = <<a.flight>> \o @, !.flight = None]

\* Phase 2, or the single-phase pop of a head that was never begun.
CanAcknowledge(a, id) == a.flight = id \/ Peek(a) = id
Acknowledge(a, id) ==
  IF a.flight = id THEN [a EXCEPT !.flight = None] ELSE [a EXCEPT !.mem = Tail(@)]

\* A new Agent starts from the durable queue.
Loaded(q) == [up |-> TRUE, mem |-> q, flight |-> None]
Absent == [up |-> FALSE, mem |-> <<>>, flight |-> None]
=============================================================================
