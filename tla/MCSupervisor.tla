--------------------------- MODULE MCSupervisor ---------------------------
EXTENDS Supervisor

CONSTANTS baseline, cooler, inverted, idler

\* Readings: 1 cool, 2 between the thresholds, 3 hot, 4 critical.
MCActivation ==
  [p \in Program |-> CASE p = cooler -> {3, 4} [] p = inverted -> {1} [] OTHER -> {}]

MCRecovery ==
  [p \in Program |-> CASE p = cooler -> {1} [] p = inverted -> {3, 4} [] OTHER -> {}]

MCMinHold == [p \in Program |-> IF p \in Drives THEN 2 ELSE 0]

MCFallback ==
  [p \in Program |->
     CASE p = cooler -> "on" [] p = inverted -> "none" [] OTHER -> "idle"]
=============================================================================
