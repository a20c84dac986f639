------------------------------ MODULE MCEngine ------------------------------
(* Constants for the runs of the provision engine alone. *)
EXTENDS Engine

\* The startup order puts networks before virtual machines.
MCTypeIndex == [n \in Names |-> IF n = "net" THEN 1 ELSE 2]

\* A process crash, with jobs of every kind and failing managers.
CrashEnv == {"update", "deprovision", "provisionError",
             "crash"}

\* Everything but a crash.
FullEnv == (Requests \cup Faults) \ {"crash"}

\* A reboot, and a crash before the node is back to where it was.
CrashRebootEnv == {"crash", "reboot"}
=============================================================================
