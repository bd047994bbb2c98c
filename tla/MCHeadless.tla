----------------------------- MODULE MCHeadless -----------------------------
(* Instances of HeadlessRuntime for TLC.                                   *)
EXTENDS HeadlessRuntime

CONSTANTS s1, s2, p1, p2, p3, k1

OneSession == [k \in Kills |-> s1]
AllToOne == [p \in Prompts |-> s1]
TwoSessions == [p \in Prompts |-> IF p = p2 THEN s2 ELSE s1]
ThirdElsewhere == [p \in Prompts |-> IF p = p1 THEN s2 ELSE s1]

SpawnSendSteer == [p \in Prompts |-> CASE p = p1 -> "spawn" [] p = p2 -> "send" [] OTHER -> "steer"]
SpawnSend == [p \in Prompts |-> IF p = p1 THEN "spawn" ELSE "send"]
SpawnBoth == [p \in Prompts |-> "spawn"]
SpawnSendFollow == [p \in Prompts |-> CASE p = p1 -> "spawn" [] p = p2 -> "send" [] OTHER -> "follow"]
=============================================================================
