----------------------------- MODULE MCUpgrader -----------------------------
(* Constants for the runs of hub and upgrader. *)
EXTENDS Upgrader

\* Release 2 changes base and zos and adds a package, release 3 changes base.
MCFlist == <<[base |-> 1, extra |-> 0, zos |-> 1],
             [base |-> 2, extra |-> 1, zos |-> 2],
             [base |-> 3, extra |-> 1, zos |-> 2]>>

\* A node of a network and one of its test farms, a devnet node, a node with
\* the debug flag and one that was not booted from the hub.
MCNodes == [method : {"hub"}, dev : {FALSE}, testFarm : BOOLEAN, noZos : {FALSE}]
      \cup [method : {"hub"}, dev : {TRUE}, testFarm : {FALSE}, noZos : {TRUE}]
      \cup [method : {"other"}, dev : {FALSE}, testFarm : {FALSE}, noZos : {TRUE}]
HubNode == [method : {"hub"}, dev : {FALSE}, testFarm : {FALSE}, noZos : {FALSE}]

FaultsEnv == {"fail", "crash", "reboot", "zinit"}
=============================================================================
