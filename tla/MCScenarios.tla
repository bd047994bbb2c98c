----------------------------- MODULE MCScenarios -----------------------------
(* The scenarios of the passing runs of SessionRuntime.                      *)
EXTENDS MCSession

\* One run checks several scenarios: which operations clients will submit, and
\* whether the facade may be stopped or the session opened again, is chosen at
\* the start and kept.
CONSTANT Plans
VARIABLE plan

PlanInit == Init /\ plan \in Plans
PlanNext ==
  /\ Next /\ UNCHANGED plan
  /\ \A o \in Ops \ plan.ops : stage'[o] = "new"
  /\ plan.stops \/ phase' = "up"
  /\ plan.reopens \/ made' < 2
PlanSpec == PlanInit /\ [][PlanNext]_<<vars, plan>>
PlanFairSpec == PlanInit /\ [][PlanNext]_<<vars, plan>> /\ Fairness

Scenario(ops) == [ops |-> ops, stops |-> FALSE, reopens |-> FALSE]
Reopened(ops) == [ops |-> ops, stops |-> FALSE, reopens |-> TRUE]

\* Dispatch: two turns, a config change and two queued messages on one actor.
\* Close and reclaim: the session is opened, closed by a route or the reaper next to
\* a turn, and opened again; or closed by an operation between two turns, so that the
\* worker of the closed actor goes on with what waits in it.
DispatchKind == (i0 :> "init") @@ (i1 :> "init") @@ (r1 :> "run") @@ (r2 :> "run")
                @@ (c1 :> "config") @@ (f1 :> "follow_up") @@ (f2 :> "follow_up")
                @@ (z1 :> "close")
DispatchOps == DOMAIN DispatchKind
DispatchNone == NoneOf(DispatchKind)
DispatchPlans == {Scenario({i0, r1, r2, c1, f1, f2}),
                  Reopened({i0, i1, r1}), Reopened({i0, r1, r2, z1})}

\* Interaction: two turns, or a turn and a summary, an interrupt that names the
\* first turn, and two clients answering its question; or a turn, a compaction
\* that cancels what runs, a stale answer and an interrupt of whatever is current.
InteractKind == (i0 :> "init") @@ (r1 :> "run") @@ (r2 :> "run") @@ (k1 :> "compact")
                @@ (s1 :> "summary") @@ (x1 :> "interrupt") @@ (x2 :> "interrupt")
                @@ (q1 :> "respond") @@ (q2 :> "respond")
InteractOps == DOMAIN InteractKind
InteractExpected == [NoneOf(InteractKind) EXCEPT ![x1] = r1]
InteractAsker == [NoneOf(InteractKind) EXCEPT ![q1] = r1, ![q2] = r1]
InteractPlans == {Scenario({i0, r1, r2, x1, q1, q2}),
                  Scenario({i0, r1, k1, s1, x2, q1})}

\* Liveness: a turn that may ask and never be answered, its answer, an
\* interrupt and a queued message; or a shutdown with a turn, a background
\* summary and an interrupt in flight.
LiveKind == (i0 :> "init") @@ (r1 :> "run") @@ (f1 :> "follow_up") @@ (x1 :> "interrupt")
            @@ (q1 :> "respond") @@ (s1 :> "summary")
LiveOps == DOMAIN LiveKind
LiveNone == NoneOf(LiveKind)
LiveAsker == [LiveNone EXCEPT ![q1] = r1]
LivePlans == {Scenario({i0, r1, x1, q1}), Scenario({i0, r1, f1}),
              [ops |-> {i0, r1, s1, x1}, stops |-> TRUE, reopens |-> FALSE]}
==============================================================================
