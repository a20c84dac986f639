-------------------------- MODULE MCEngineHistory ---------------------------
(* Constants for the runs of the engine with its history. *)
EXTENDS EngineHistory

\* The startup order puts networks before virtual machines.
MCTypeIndex == [n \in Names |-> IF n = "net" THEN 1 ELSE 2]

\* A node that reboots.
HistRebootEnv == {"reboot", "invalidContract"}
=============================================================================
