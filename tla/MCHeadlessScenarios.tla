------------------------ MODULE MCHeadlessScenarios ------------------------
(* The scenarios of the passing runs of HeadlessRuntime: which requests     *)
(* arrive, how many crashes and faults there are and whether an attached    *)
(* client runs turns of its own is chosen at the start and kept.            *)
EXTENDS HeadlessRuntime

CONSTANTS s1, s2, p1, p2, p3, p4, p5, k1, Plans

VARIABLE plan

PlanInit == Init /\ plan \in Plans
PlanNext ==
  /\ Next /\ UNCHANGED plan
  /\ \A r \in DOMAIN req : r \notin plan.reqs => req'[r] = "new"
  /\ crashes' <= plan.crashes /\ faults' <= plan.faults /\ foreign' \subseteq plan.foreign
PlanSpec == PlanInit /\ [][PlanNext]_<<vars, plan>>
PlanFairSpec == PlanSpec /\ Fair

Scenario(reqs, crashes_, faults_, foreign_) ==
  [reqs |-> reqs, crashes |-> crashes_, faults |-> faults_, foreign |-> foreign_]

PromptsVia == [p \in Prompts |-> CASE p = p1 -> "spawn" [] p = p3 -> "steer" [] p = p4 -> "follow"
                                   [] OTHER -> "send"]
PromptsDest == [p \in Prompts |-> IF p = p5 THEN s2 ELSE s1]
KillsTarget == [k \in Kills |-> s1]

\* A steer next to a spawn and a send, with one fault; a follow-up of an
\* attached client and a kill; two sessions and a kill with one slot; a crash at
\* any step, with one fault; and turns of an attached client in the way of the
\* launched ones, three of them with faults.
SafePlans == {Scenario({p1, p2, p3}, 0, 1, {}), Scenario({p1, p2, p4, k1}, 0, 0, {}),
              Scenario({p1, p3, p5, k1}, 0, 0, {}), Scenario({p1, p2}, 1, 1, {}),
              Scenario({p1, p2}, 0, 3, {s1})}
LivePlans == {Scenario({p1, p2, p3}, 0, 0, {}), Scenario({p1, p2}, 1, 0, {})}

\* An accepted prompt is on its way, on disk or settled, when no turn of an
\* attached client can have the launched one rejected.
NoPromptForgotten == plan.foreign = {} => NothingForgotten

\* No prompt and no scheduling lock waits for ever.
Served == Delivered /\ LocksFreed
=============================================================================
