------------------------------- MODULE MCEvents -------------------------------
(* The event bus and its awaiter.  A behaviour is about two subscribers of    *)
(* two sessions without operations, or about operations with the awaiter as   *)
(* the only subscriber: which of the two is chosen at the start and kept.     *)
EXTENDS OperationAwaiter

CONSTANTS
  Other,        \* the second subscriber
  Foreign,      \* the second session
  SmallLog      \* bound: publications of a behaviour with operations

VARIABLE plan

PlanInit == AwInit /\ plan \in {"fan out", "operations"}
PlanNext ==
  /\ AwNext /\ UNCHANGED plan
  /\ plan = "fan out" => \A i \in Ids : op'[i] = "new"
  /\ plan = "operations" =>
       opened'[Other] = "no" /\ next'[Foreign] = 0 /\ Len(log') <= SmallLog
PlanSpec == PlanInit /\ [][PlanNext]_<<busVars, awVars, plan>> /\ AwFair
===============================================================================
