--------------------------- MODULE MCHubOrchestration ---------------------------
(* TLC instances of HubOrchestration: names, the lists the brain returns, and  *)
(* the replicas that are interchangeable.                                      *)
EXTENDS HubOrchestration, TLC

CONSTANTS a, b, g

OneOrBoth == {<<a>>, <<a, b>>}
AOrGhost == {<<a>>, <<a, g>>}

Symmetry == Permutations(RespLoop)
=============================================================================
