------------------------------ MODULE MCSession ------------------------------
(* Instances of SessionRuntime for TLC: small sets of named operations.      *)
EXTENDS SessionRefinement, TLC

CONSTANTS i0, i1, r1, r2, c1, f1, f2, s1, k1, x1, x2, q1, q2, z1

NoneOf(kind) == [o \in DOMAIN kind |-> NoOp]

\* A stale interrupt next to a slow summary and two turns.
StaleKind == (i0 :> "init") @@ (r1 :> "run") @@ (r2 :> "run") @@ (s1 :> "summary")
             @@ (x1 :> "interrupt")
StaleOps == DOMAIN StaleKind
StaleNone == NoneOf(StaleKind)
StaleExpected == [StaleNone EXCEPT ![x1] = r1]

\* The smallest instances of the remaining scenarios.
OneTurnKind == (i0 :> "init") @@ (r1 :> "run")
OneTurnOps == DOMAIN OneTurnKind
OneTurnNone == NoneOf(OneTurnKind)
EscKind == (i0 :> "init") @@ (r1 :> "run") @@ (x1 :> "interrupt")
EscOps == DOMAIN EscKind
EscNone == NoneOf(EscKind)
OneCloseKind == (i0 :> "init") @@ (z1 :> "close")
OneCloseOps == DOMAIN OneCloseKind
OneCloseNone == NoneOf(OneCloseKind)
=============================================================================
