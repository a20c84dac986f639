----------------------------- MODULE MCCapacity -----------------------------
(* Constants for the run of the engine with the capacity setter. *)
EXTENDS Capacity

\* The startup order puts networks before virtual machines.
MCTypeIndex == [n \in Names |-> IF n = "net" THEN 1 ELSE 2]

\* Jobs of every kind on a node whose gateway answers, which may crash and
\* reboot.
SetterEnv == {"update", "pause", "deprovision", "crash", "reboot"}
=============================================================================
