------------------------------ MODULE Upgrader ------------------------------
(***************************************************************************)
(* The upgrader of a node (pkg/upgrade/upgrade.go, run by identityd)       *)
(* together with the hub and the bootstrap: it compares the release the    *)
(* node runs with the tag link, asks the registrar whether it may upgrade, *)
(* installs the packages that differ and restarts their services.          *)
(***************************************************************************)
EXTENDS Bootstrap

Partial == -1

VARIABLES
    upBooted,   \* the first-boot flag of the upgrader
    backup,     \* files that are being replaced
    pc, remote, todo, pkg    \* the upgrader

diskVars == <<file, backup, serviceVars>>
bootVars == <<node, current, upBooted, installVars>>
upgraderVars == <<upBooted, backup, pc, remote, todo, pkg>>
nodeVars == <<bootVars, diskVars, pc, remote, todo, pkg>>
upVars == <<hubVars, faults, nodeVars>>

UpInit ==
    /\ BootInit
    /\ upBooted = FALSE
    /\ backup = [p \in Packages |-> Missing]
    /\ pc = "start" /\ remote = 1 /\ todo = {} /\ pkg = Zos

-----------------------------------------------------------------------------
\* identityd is a service of zos; whether it may start an update while other
\* packages are still being bootstrapped depends on when the link moves.
Started == /\ identityd # Missing
           /\ bootPc \in {"done", "failed"} \/ "overlap" \in UpdateEnv

\* Run and update: the tag link is looked up; a node that did not boot from
\* the hub installs everything once.
ReadRemote ==
    /\ Started /\ pc = "start" /\ link # NoLink
    /\ \/ node.method = "hub"
          /\ pc' = IF link = current THEN "start" ELSE "rollout"
       \/ node.method = "other" /\ ~upBooted /\ pc' = "list"
    /\ remote' = link
    /\ UNCHANGED <<hubVars, faults, bootVars, diskVars, todo, pkg>>

Block ==
    /\ pc = "start" /\ node.method = "other" /\ upBooted
    /\ pc' = "blocked"
    /\ UNCHANGED <<hubVars, faults, bootVars, diskVars, remote, todo, pkg>>

\* getRolloutConfig: a network other than devnet follows the registrar.
Allowed(r) == node.dev \/ (r = registrar /\ (safe \/ node.testFarm))

CheckRollout ==
    /\ pc = "rollout"
    /\ pc' = IF Allowed(remote) THEN "list" ELSE "start"
    /\ UNCHANGED <<hubVars, faults, bootVars, diskVars, remote, todo, pkg>>

\* Mutant: packages that are on disk already are skipped.
NotOnDisk(p) == Flist[remote][p] # file[p]

\* The names of the packages of the present release are skipped.
Changed(p) == node.method = "other" \/ Flist[remote][p] # Flist[current][p]

\* updateTo: both releases are listed.
ListTag ==
    /\ pc = "list"
    /\ pc' = "packages"
    /\ todo' = {p \in Packages : /\ Flist[remote][p] # Missing /\ Changed(p)
                                 /\ p = Zos => ~node.noZos}
    /\ UNCHANGED <<hubVars, faults, bootVars, diskVars, remote, pkg>>

\* Mutant: packages are installed as they are listed.
InstallAny(p) ==
    /\ pc = "packages" /\ p \in todo
    /\ pkg' = p /\ pc' = "backup"
    /\ UNCHANGED <<hubVars, faults, bootVars, diskVars, remote, todo>>

\* install: the flist is downloaded; zos comes after all others.
Install(p) ==
    /\ pc = "packages" /\ p \in todo
    /\ p = Zos => todo = {Zos}
    /\ pkg' = p /\ pc' = "backup"
    /\ UNCHANGED <<hubVars, faults, bootVars, diskVars, remote, todo>>

\* copyFile: a file that exists is renamed first.
Backup ==
    /\ pc = "backup"
    /\ backup' = [backup EXCEPT ![pkg] = file[pkg]]
    /\ file' = [file EXCEPT ![pkg] = Missing]
    /\ pc' = "write"
    /\ UNCHANGED <<hubVars, faults, bootVars, serviceVars, remote, todo, pkg>>

\* What the deferred function of copyFile leaves behind: the backup is put
\* back, unless there is none.  The error of io.Copy is not the one that it
\* looks at, so that the backup is removed as after a success.
Restored(kind) == IF kind = "copyError" \/ backup[pkg] = Missing
                  THEN Partial ELSE backup[pkg]

\* The new file is opened, its content fetched and written.
WriteFile ==
    /\ pc = "write"
    /\ \/ /\ file' = [file EXCEPT ![pkg] = Flist[remote][pkg]]
          /\ pc' = "restart"
          /\ UNCHANGED faults
       \/ \E kind \in {"fail", "copyError"} :
            /\ Fault(kind)
            /\ file' = [file EXCEPT ![pkg] = Restored(kind)]
            /\ pc' = "start"
    /\ backup' = [backup EXCEPT ![pkg] = Missing]
    /\ UNCHANGED <<hubVars, bootVars, serviceVars, remote, todo, pkg>>

\* ensureRestarted: the services of the package are stopped and started,
\* except the protected ones, identityd and redis.  When zinit does not stop a
\* service the old one goes on, when it does not start one there is none; both
\* are only logged and the package counts as installed.
RestartServices ==
    /\ pc = "restart"
    /\ \/ /\ running' = [running EXCEPT ![pkg] = file[pkg]]
          /\ refused' = refused \ {pkg}
          /\ UNCHANGED faults
       \/ /\ Fault("zinit")
          /\ \E left \in {running[pkg], Missing} :
                 running' = [running EXCEPT ![pkg] = left]
          /\ refused' = refused \cup {pkg}
    /\ todo' = todo \ {pkg}
    /\ pc' = "packages"
    /\ UNCHANGED <<hubVars, bootVars, file, backup, identityd, remote, pkg>>

\* boot.Set, then identityd exits and zinit starts what is on disk; or
\* MarkBooted.
Finish ==
    /\ pc = "packages" /\ todo = {}
    /\ \/ /\ node.method = "hub"
          /\ current' = remote /\ identityd' = file[Zos]
          /\ UNCHANGED upBooted
       \/ /\ node.method = "other"
          /\ upBooted' = TRUE
          /\ UNCHANGED <<current, identityd>>
    /\ pc' = "start"
    /\ UNCHANGED <<hubVars, faults, node, installVars, file, backup, running,
                   refused, remote, todo, pkg>>

\* A call to the hub, the registrar or the disk fails (without boot.Current
\* the present release cannot be listed; after the copy, the services of the
\* flist cannot): Run starts over.
UpgradeFail ==
    /\ pc \in {"rollout", "list", "packages", "backup", "restart"}
    /\ Fault("fail")
    /\ pc' = "start"
    /\ UNCHANGED <<hubVars, bootVars, diskVars, remote, todo, pkg>>

\* Mutant: a signal stops the upgrader while it copies files.
AlwaysInterruptible == TRUE

\* safe holds the signals that can be caught back while files are copied.
Interruptible == pc \notin {"backup", "write"}

\* A signal ends identityd; zinit starts what is on disk.
Kill ==
    /\ Started /\ Interruptible
    /\ Fault("crash")
    /\ pc' = "start" /\ identityd' = file[Zos]
    /\ UNCHANGED <<hubVars, bootVars, file, backup, running, refused, remote, todo, pkg>>

\* The node loses power or is rebooted.
Reboot ==
    /\ Fault("reboot")
    /\ BootReset
    /\ upBooted' = FALSE /\ pc' = "start"
    /\ backup' = [p \in Packages |-> Missing]
    /\ UNCHANGED <<hubVars, remote, todo, pkg>>

-----------------------------------------------------------------------------
\* The link of devnet is moved by the release build.
DevLink(r) ==
    /\ node.dev /\ r \in published
    /\ r > link \/ "rollback" \in UpdateEnv
    /\ link' = r
    /\ UNCHANGED <<registrar, safe, published, workerVars, faults, nodeVars>>

UpgradeStep == \/ ReadRemote
               \/ Block
               \/ CheckRollout
               \/ ListTag
               \/ \E p \in todo : Install(p)
               \/ Backup
               \/ WriteFile
               \/ RestartServices
               \/ Finish

BootstrapStep == BootStep /\ UNCHANGED upgraderVars

HubStep == ~node.dev /\ WorkerStep /\ UNCHANGED nodeVars

UpNext ==
    \/ ReleaseStep /\ UNCHANGED nodeVars
    \/ HubStep
    \/ WorkerFail /\ UNCHANGED nodeVars
    \/ \E r \in Releases : DevLink(r)
    \/ BootstrapStep
    \/ BootFail /\ UNCHANGED upgraderVars
    \/ UpgradeStep
    \/ UpgradeFail
    \/ Kill
    \/ Reboot

UpSpec == UpInit /\ [][UpNext]_upVars

\* Worker and upgrader are loops that are restarted whenever they end; the
\* bootstrap goes on until it is done or fails.
UpFairSpec == /\ UpSpec
              /\ WF_upVars(HubStep) /\ WF_upVars(BootstrapStep)
              /\ WF_upVars(UpgradeStep)

-----------------------------------------------------------------------------
(* Properties *)

\* A hub node whose bootstrap ran to its end.
Bootstrapped == node.method = "hub" /\ bootPc = "done"

Managed(p, r) == Flist[r][p] # Missing /\ (p = Zos => ~node.noZos)

\* A bootstrapped node that has nothing to update runs the release it
\* recorded: every package has the file of the release, its services run it,
\* unless zinit did not stop or start them the last time, and so does the
\* upgrader that replaced them; after any failed or interrupted updates to this
\* release or to others and after reboots while the link moved (install,
\* ensureRestarted, update, updateTo; redis, which is never restarted, aside).
RunsRelease ==
    Bootstrapped /\ pc = "start" /\ current = link =>
        \A p \in Packages : Managed(p, current) =>
            /\ file[p] = Flist[current][p]
            /\ running[p] = Flist[current][p] \/ p \in refused
            /\ p = Zos => identityd \in {Missing, Flist[current][p]}

\* The zos package never is ahead of the packages it was released with
\* (updateTo: "make sure all dependencies are installed before updating zos").
ZosIsLast ==
    \A r \in Releases :
        /\ Bootstrapped /\ file[Zos] = Flist[r][Zos]
        /\ \A q \in Releases : Flist[q][Zos] = file[Zos] => r <= q
        => \A p \in Packages : Managed(p, r) =>
               \/ file[p] >= Flist[r][p]
               \/ backup[p] >= Flist[r][p]

\* Whatever call fails and whenever a signal that can be caught ends the
\* upgrader, the packages the node was bootstrapped with keep a whole file
\* (copyFile: backup and restore; safe).
FilesWhole ==
    Bootstrapped /\ pc # "write" =>
        \A p \in Packages :
            Flist[bootRelease][p] # Missing => file[p] \notin {Missing, Partial}

\* When the registrar settles on a published release, the nodes that may
\* upgrade end up with it, by an update or by a reboot, unless their bootstrap
\* failed or did not get the upgrader started (UpdateWithInterval, install, Upgrader.Run).
Settled(r) == /\ node.method = "hub" /\ ~node.dev
              /\ registrar = r /\ r \in published /\ (safe \/ node.testFarm)
NodesFollow == \A r \in Releases :
                   <>[](Settled(r) /\ bootPc # "failed" /\ identityd # Missing)
                   => <>[](current = r)

=============================================================================
