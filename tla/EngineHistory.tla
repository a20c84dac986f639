--------------------------- MODULE EngineHistory ----------------------------
(***************************************************************************)
(* The provision engine with a history variable, for what happened to a    *)
(* deployment since it was accepted.                                       *)
(***************************************************************************)
EXTENDS Engine

VARIABLE validated  \* deployments whose contract was checked in full

HistInit == Init /\ validated = {}

HistNext ==
    /\ Next
    /\ validated' = IF pc = "idle" /\ pc' = "next"
                       /\ head.op \in {"provision", "update"}
                    THEN validated \cup {head.c}
                    ELSE validated \ (deployments' \ deployments)

HistSpec == HistInit /\ [][HistNext]_<<vars, validated>>

-----------------------------------------------------------------------------
(* Properties *)

\* A workload is given to its manager only after the node and the hash in its
\* contract were checked (validate, and boot jobs that skip the check because
\* it "has already been done on first installation").
ValidatedFirst ==
    [][\A c \in Contracts :
        provisioned'[c] \ provisioned[c] # {} => c \in validated
      ]_<<vars, validated>>

=============================================================================
