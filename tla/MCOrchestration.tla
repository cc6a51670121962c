--------------------------- MODULE MCOrchestration ---------------------------
(* An instance of Orchestration for TLC: every budget a caller can have      *)
(* consumed, to one beyond its limit.                                        *)
EXTENDS Orchestration

AllSteps       == 0 .. 5
AllInvocations == 0 .. 2
SomeIntents    == {"normalize", "classify", "translate", NoValue}
=============================================================================
