-------------------------- MODULE MCContractEvents --------------------------
(* Constants for the runs of the engine with the contract event handler. *)
EXTENDS ContractEvents

\* The startup order puts networks before virtual machines.
MCTypeIndex == [n \in Names |-> IF n = "net" THEN 1 ELSE 2]

\* Contracts are cancelled and locked, installs fail, provisiond crashes, its
\* queue cannot be opened and the node reboots.
NodeEnv == {"deprovision", "pause", "resume", "provisionError",
            "gatewayError", "queueError", "crash", "reboot"}

\* Contracts are cancelled and locked on a node that stays up.
UpEnv == {"deprovision", "pause", "resume", "provisionError", "gatewayError"}
=============================================================================
