---------------------------- MODULE UpdateWorker ----------------------------
(***************************************************************************)
(* The update worker of the hub (tools/zos-update-worker): it reads the    *)
(* release that the registrar names for a network and replaces the tag     *)
(* link of that network, in two steps, while nodes read it.                *)
(***************************************************************************)
EXTENDS Integers

CONSTANTS
    MaxRelease,  \* bound: releases
    UpdateEnv,   \* what may happen, see WorkerAssumption
    MaxFaults    \* bound: failed calls and killed processes

\* "fail": a call fails; "crash": a process is killed; "reboot": the node is;
\* "copyError": writing a file fails; "zinit": zinit does not stop or start a
\* service; "rollback": links and versions go back; "overlap": the
\* upgrader works while the node is still being bootstrapped.
ASSUME WorkerAssumption ==
    /\ MaxRelease \in Nat \ {0}
    /\ UpdateEnv \subseteq {"fail", "crash", "reboot", "copyError", "zinit",
                            "rollback", "overlap"}
    /\ MaxFaults \in Nat

Releases == 1 .. MaxRelease
NoLink == 0

VARIABLES
    registrar,   \* the release named by the registrar
    safe,        \* the registrar's flag SafeToUpgrade
    published,   \* releases that have a tag on the hub
    link,        \* the release that the network's tag link names
    workerPc, workerVersion,
    faults

workerVars == <<workerPc, workerVersion>>
hubVars == <<registrar, safe, published, link, workerVars>>

WorkerInit ==
    /\ registrar = 1 /\ safe = TRUE /\ published = {1} /\ link = 1
    /\ workerPc = "idle" /\ workerVersion = 1
    /\ faults = 0

\* One more call that fails, or one more killed process.
Fault(kind) == /\ kind \in UpdateEnv
               /\ faults < MaxFaults
               /\ faults' = faults + 1

-----------------------------------------------------------------------------
\* The release team: a tag is pushed to the hub, the registrar names a new
\* release (safe to upgrade or under test) or lifts the flag.
Publish(r) ==
    /\ r \notin published
    /\ published' = published \cup {r}
    /\ UNCHANGED <<registrar, safe, link, workerVars, faults>>

SetVersion(r, isSafe) ==
    /\ \/ r > registrar
       \/ r = registrar /\ isSafe /\ ~safe
       \/ r < registrar /\ "rollback" \in UpdateEnv
    /\ registrar' = r /\ safe' = isSafe
    /\ UNCHANGED <<published, link, workerVars, faults>>

-----------------------------------------------------------------------------
\* updateZosVersion reads the version ...
WorkerRead ==
    /\ workerPc = "idle"
    /\ workerVersion' = registrar /\ workerPc' = "check"
    /\ UNCHANGED <<registrar, safe, published, link, faults>>

\* Mutant: updateLink gives up when it cannot read the link.
WorkerCheckReadable ==
    /\ workerPc = "check"
    /\ workerPc' = IF workerVersion \notin published \/ link = workerVersion
                      \/ link = NoLink
                   THEN "idle" ELSE "remove"
    /\ UNCHANGED <<registrar, safe, published, link, workerVersion, faults>>

\* ... and updateLink checks the tag and the present link ...
WorkerCheck ==
    /\ workerPc = "check"
    /\ workerPc' = IF workerVersion \notin published \/ link = workerVersion
                   THEN "idle"
                   ELSE IF link = NoLink THEN "symlink" ELSE "remove"
    /\ UNCHANGED <<registrar, safe, published, link, workerVersion, faults>>

\* ... removes the link ...
WorkerRemove ==
    /\ workerPc = "remove"
    /\ link' = NoLink /\ workerPc' = "symlink"
    /\ UNCHANGED <<registrar, safe, published, workerVersion, faults>>

\* ... and makes the new one.
WorkerSymlink ==
    /\ workerPc = "symlink"
    /\ link' = workerVersion /\ workerPc' = "idle"
    /\ UNCHANGED <<registrar, safe, published, workerVersion, faults>>

\* A call fails and is retried from the start, or the worker is killed.
WorkerFail ==
    /\ workerPc # "idle"
    /\ \E kind \in {"fail", "crash"} : Fault(kind)
    /\ workerPc' = "idle"
    /\ UNCHANGED <<registrar, safe, published, link, workerVersion>>

WorkerStep == WorkerRead \/ WorkerCheck \/ WorkerRemove \/ WorkerSymlink

ReleaseStep == \E r \in Releases :
                  \/ Publish(r)
                  \/ \E isSafe \in BOOLEAN : SetVersion(r, isSafe)

=============================================================================
