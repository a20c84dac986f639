--------------------------- MODULE UpgraderProofs ---------------------------
(***************************************************************************)
(* The files of a bootstrapped node stay whole, for any releases and       *)
(* packages, as long as no write of a new file fails and no update starts  *)
(* before the bootstrap has ended.                                         *)
(***************************************************************************)
EXTENDS Upgrader, TLAPS

PCs == {"start", "blocked", "rollout", "list", "packages", "backup", "write",
        "restart"}
Installing == pc \in {"backup", "write", "restart"}

\* Every release the upgrader can be given is one of the hub's.
HubType ==
    /\ registrar \in Releases /\ workerVersion \in Releases
    /\ published \subseteq Releases
    /\ link \in Releases \cup {NoLink}

UpType ==
    /\ node \in Nodes
    /\ file \in [Packages -> Int] /\ backup \in [Packages -> Int]
    /\ pc \in PCs
    /\ remote \in Releases
    /\ todo \subseteq Packages /\ pkg \in Packages

\* The bootstrap installs packages of a release while the upgrader waits.
BootType ==
    /\ bootPc \in {"tag", "install", "run", "done", "failed"}
    /\ bootRelease \in Releases
    /\ bootTodo \subseteq Packages /\ bootPkg \in Packages
    /\ bootPc \in {"install", "run"} => bootTodo \subseteq Content(bootRelease)
    /\ bootPc \in {"tag", "install", "run"} => pc = "start"
    /\ node.method = "other" => bootPc = "done"

\* What is being installed comes from the release.
Listed ==
    /\ Installing => pkg \in todo
    /\ Installing \/ pc = "packages" =>
           \A p \in todo : Flist[remote][p] # Missing

\* A package has its file or, while the file is written, a backup of it.
Broken == {Missing, Partial}
Kept ==
    Bootstrapped =>
        \A p \in Packages : Flist[bootRelease][p] # Missing =>
            /\ pc = "write" /\ p = pkg => backup[p] \notin Broken
            /\ ~(pc = "write" /\ p = pkg) => file[p] \notin Broken

\* What the bootstrap has installed has its file.
Copied ==
    /\ bootPc = "install" =>
           \A p \in Content(bootRelease) \ bootTodo : file[p] \notin Broken
    /\ bootPc = "run" =>
           \A p \in Content(bootRelease) \ (bootTodo \ {bootPkg}) :
               file[p] \notin Broken

UpTypeInv == HubType /\ UpType /\ BootType /\ Listed
FileInv == UpTypeInv /\ Kept /\ Copied

-----------------------------------------------------------------------------
\* The steps of the release team and of the worker name releases only.
LEMMA HubStepType ==
    ASSUME HubType, [UpNext]_upVars
    PROVE  HubType'
<1> USE WorkerAssumption DEF HubType, NoLink
<1>1. ASSUME NEW r \in Releases, Publish(r) PROVE HubType'
  BY <1>1 DEF Publish, workerVars
<1>2. ASSUME NEW r \in Releases, NEW b \in BOOLEAN, SetVersion(r, b)
      PROVE  HubType'
  BY <1>2 DEF SetVersion, workerVars
<1>3. CASE WorkerStep
  BY <1>3 DEF WorkerStep, WorkerRead, WorkerCheck, WorkerRemove, WorkerSymlink
<1>4. CASE WorkerFail
  BY <1>4 DEF WorkerFail
<1>5. ASSUME NEW r \in Releases, DevLink(r) PROVE HubType'
  BY <1>5 DEF DevLink, workerVars
<1>6. CASE UNCHANGED hubVars
  BY <1>6 DEF hubVars, workerVars
<1>7. UpgradeStep \/ UpgradeFail \/ Kill \/ Reboot => UNCHANGED hubVars
  BY DEF UpgradeStep, ReadRemote, Block, CheckRollout, ListTag, Install,
         Backup, WriteFile, RestartServices, Finish, UpgradeFail, Kill, Reboot
<1>8. BootStep \/ BootFail => UNCHANGED hubVars
  BY DEF BootStep, BootTag, BootInstall, BootRun, BootFail
<1> QED
  BY <1>1, <1>2, <1>3, <1>4, <1>5, <1>6, <1>7, <1>8
  DEF UpNext, ReleaseStep, HubStep, BootstrapStep, upVars

\* A step that leaves the disk alone and is not in the middle of a copy.
LEMMA DiskAlone ==
    ASSUME UpType, Kept, pc # "write", pc' # "write", node' = node,
           UNCHANGED <<file, backup>>, UNCHANGED installVars
    PROVE  Kept'
  BY DEF Kept, Bootstrapped, UpType, installVars

\* The upgrader works only when the bootstrap has ended, and leaves it alone.
LEMMA UpgradeAlone ==
    ASSUME BootType, "overlap" \notin UpdateEnv,
           UpgradeStep \/ UpgradeFail \/ Kill
    PROVE  /\ UNCHANGED installVars /\ bootPc \in {"done", "failed"}
           /\ BootType' /\ Copied'
<1>1. UNCHANGED installVars /\ node' = node
  BY DEF UpgradeStep, ReadRemote, Block, CheckRollout, ListTag, Install,
         Backup, WriteFile, RestartServices, Finish, UpgradeFail, Kill, bootVars
<1>2. pc # "start" => bootPc \in {"done", "failed"}
  BY DEF BootType
<1>3. pc = "start" => bootPc \in {"done", "failed"}
  <2> SUFFICES ASSUME pc = "start" PROVE bootPc \in {"done", "failed"}
    OBVIOUS
  <2>1. ReadRemote \/ Block \/ Kill
    BY DEF UpgradeStep, CheckRollout, ListTag, Install, Backup, WriteFile,
           RestartServices, Finish, UpgradeFail
  <2>2. CASE ReadRemote \/ Kill
    BY <2>2 DEF ReadRemote, Kill, Started
  <2>3. CASE Block
    BY <2>3 DEF Block, BootType
  <2> QED
    BY <2>1, <2>2, <2>3
<1>4. bootPc' \in {"done", "failed"} /\ bootPc' = bootPc
  BY <1>1, <1>2, <1>3 DEF installVars
<1>5. Copied'
  BY <1>4 DEF Copied
<1> QED
  BY <1>1, <1>4, <1>5 DEF BootType, installVars

\* The steps of the bootstrap: what it lists belongs to the release ...
LEMMA BootstrapType ==
    ASSUME HubType, UpType, BootType, BootStep \/ BootFail, UNCHANGED upgraderVars
    PROVE  /\ UpType' /\ BootType' /\ Listed'
           /\ pc = "start" /\ pc' = "start" /\ bootPc # "done"
           /\ node.method # "other" /\ node' = node
<1> USE BootstrapAssumption
<1>1. /\ pc = "start" /\ pc' = "start" /\ bootPc # "done"
      /\ node.method # "other" /\ node' = node
  BY DEF BootStep, BootTag, BootInstall, BootRun, BootFail, BootType, upgraderVars
<1>2. Listed'
  BY <1>1 DEF Listed, Installing
<1>3. CASE BootTag
  <2>1. UpType'
    BY <1>3 DEF BootTag, UpType, upgraderVars
  <2>2. CASE link # NoLink
    <3>1. /\ bootRelease' \in Releases /\ bootTodo' = Content(bootRelease')
          /\ bootPc' = After(bootTodo') /\ bootPkg' = bootPkg
      BY <1>3, <2>2 DEF BootTag, HubType
    <3>2. Content(bootRelease') \subseteq Packages
      BY DEF Content
    <3> QED
      BY <1>1, <1>2, <2>1, <3>1, <3>2 DEF BootType, After
  <2>3. CASE link = NoLink
    <3>1. bootPc' = "failed" /\ UNCHANGED <<bootRelease, bootTodo, bootPkg>>
      BY <1>3, <2>3 DEF BootTag
    <3> QED
      BY <1>1, <1>2, <2>1, <3>1 DEF BootType
  <2> QED
    BY <2>2, <2>3
<1>4. ASSUME NEW p \in bootTodo, BootInstall(p) PROVE UpType' /\ BootType'
  <2>1. p \in Packages /\ Flist[bootRelease][p] \in Nat
    BY DEF BootType
  <2>2. UpType'
    BY <1>4, <2>1 DEF BootInstall, UpType, upgraderVars
  <2>3. BootType'
    BY <1>1, <1>4, <2>1 DEF BootInstall, BootType
  <2> QED
    BY <2>2, <2>3
<1>5. CASE BootRun
  <2>1. /\ UNCHANGED <<file, bootRelease, bootPkg>> /\ bootPc = "run"
        /\ bootTodo' = bootTodo \ {bootPkg} /\ bootPc' = After(bootTodo')
    BY <1>5 DEF BootRun
  <2>2. UpType'
    BY <1>1, <2>1 DEF UpType, upgraderVars
  <2>3. BootType'
    BY <1>1, <2>1 DEF BootType, After
  <2> QED
    BY <1>1, <1>2, <2>2, <2>3
<1>6. CASE BootFail
  <2>1. UNCHANGED <<file, bootRelease, bootTodo, bootPkg>> /\ bootPc' = "failed"
    BY <1>6 DEF BootFail
  <2> QED
    BY <1>1, <1>2, <2>1 DEF UpType, BootType, upgraderVars
<1> QED
  BY <1>1, <1>2, <1>3, <1>4, <1>5, <1>6 DEF BootStep

\* ... and when it is done, all of it has its file.
LEMMA BootstrapKeeps ==
    ASSUME HubType, UpType, BootType, Copied,
           BootStep \/ BootFail, UNCHANGED upgraderVars
    PROVE  Kept' /\ Copied'
<1> USE BootstrapAssumption
<1>1. pc' = "start" /\ node' = node
  BY BootstrapType
<1>2. CASE BootTag
  <2>1. CASE link # NoLink
    <3>1. bootTodo' = Content(bootRelease') /\ bootPc' = After(bootTodo')
      BY <1>2, <2>1 DEF BootTag
    <3>2. Copied'
      BY <3>1 DEF Copied, After
    <3>3. Kept'
      BY <1>1, <3>1 DEF Kept, Bootstrapped, After, Content
    <3> QED
      BY <3>2, <3>3
  <2>2. CASE link = NoLink
    BY <1>2, <2>2 DEF BootTag, Copied, Kept, Bootstrapped
  <2> QED
    BY <2>1, <2>2
<1>3. ASSUME NEW p \in bootTodo, BootInstall(p) PROVE Kept' /\ Copied'
  <2>1. /\ p \in Packages /\ Flist[bootRelease][p] \in Nat
        /\ Flist[bootRelease][p] # Missing
    BY <1>3 DEF BootInstall, BootType, Content
  <2>2. Flist[bootRelease][p] \notin Broken
    BY <2>1 DEF Broken, Missing, Partial
  <2>3. /\ \A q \in Packages \ {p} : file'[q] = file[q]
        /\ file'[p] = Flist[bootRelease][p]
    BY <1>3, <2>1 DEF BootInstall, UpType
  <2>4. Copied'
    BY <1>3, <2>1, <2>2, <2>3 DEF BootInstall, Copied, Content
  <2>5. Kept'
    BY <1>3 DEF BootInstall, Kept, Bootstrapped
  <2> QED
    BY <2>4, <2>5
<1>4. CASE BootRun
  <2>1. /\ UNCHANGED <<file, bootRelease>> /\ bootPc = "run"
        /\ bootTodo' = bootTodo \ {bootPkg} /\ bootPc' = After(bootTodo')
    BY <1>4 DEF BootRun
  <2>2. Copied'
    BY <2>1 DEF Copied, After
  <2>3. Kept'
    BY <1>1, <2>1 DEF Kept, Copied, Bootstrapped, After, Content
  <2> QED
    BY <2>2, <2>3
<1>5. CASE BootFail
  BY <1>5 DEF BootFail, Copied, Kept, Bootstrapped
<1> QED
  BY <1>2, <1>3, <1>4, <1>5 DEF BootStep

\* A node that starts has nothing installed, or is not bootstrapped.
LEMMA ImageType ==
    ASSUME NEW n \in Nodes
    PROVE  /\ Image(n) \in [Packages -> Int]
           /\ BootPc(n) \in {"tag", "done"}
           /\ n.method = "hub" => BootPc(n) = "tag"
           /\ n.method = "other" => BootPc(n) = "done"
<1>1. 1 \in Releases
  BY WorkerAssumption DEF Releases
<1>2. \A p \in Packages : Flist[1][p] \in Int
  BY <1>1, BootstrapAssumption
<1> QED
  BY <1>2 DEF Image, BootPc, Missing

LEMMA RebootKeeps ==
    ASSUME UpType, BootType, Reboot
    PROVE  UpType' /\ BootType' /\ Listed' /\ Kept' /\ Copied'
<1>1. /\ node \in Nodes /\ node' = node /\ file' = Image(node)
      /\ bootPc' = BootPc(node) /\ pc' = "start"
      /\ UNCHANGED <<bootRelease, bootTodo, bootPkg, remote, todo, pkg>>
  BY DEF Reboot, BootReset, UpType
<1>2. backup' \in [Packages -> Int]
  BY DEF Reboot, Missing
<1>3. UpType'
  BY <1>1, <1>2, ImageType DEF UpType, PCs
<1>4. node.method \in {"hub", "other"}
  BY <1>1, BootstrapAssumption
<1>5. BootType' /\ Listed' /\ Kept' /\ Copied'
  BY <1>1, <1>4, ImageType
  DEF BootType, Listed, Installing, Kept, Copied, Bootstrapped
<1> QED
  BY <1>3, <1>5

\* The steps of the upgrader.
LEMMA UpgradeType ==
    ASSUME HubType, UpType, Listed, UpgradeStep \/ UpgradeFail \/ Kill
    PROVE  UpType' /\ Listed'
<1> USE BootstrapAssumption DEF UpType, Listed, Installing, PCs
<1>1. CASE ReadRemote
  BY <1>1 DEF ReadRemote, HubType, bootVars, diskVars
<1>2. CASE Block
  BY <1>2 DEF Block, bootVars, diskVars
<1>3. CASE CheckRollout
  BY <1>3 DEF CheckRollout, bootVars, diskVars
<1>4. CASE ListTag
  BY <1>4 DEF ListTag, bootVars, diskVars
<1>5. ASSUME NEW p \in todo, Install(p) PROVE UpType' /\ Listed'
  BY <1>5 DEF Install, bootVars, diskVars
<1>6. CASE Backup
  <2>1. file[pkg] \in Int /\ Missing \in Int
    BY DEF Missing
  <2> QED
    BY <1>6, <2>1 DEF Backup, bootVars
<1>7. CASE WriteFile
  <2>1. /\ Flist[remote][pkg] \in Int /\ Restored("fail") \in Int
        /\ Restored("copyError") \in Int /\ Missing \in Int
    BY DEF Missing, Partial, Restored
  <2>2. \E f \in Int, c \in {"restart", "start"} :
            file' = [file EXCEPT ![pkg] = f] /\ pc' = c
    BY <1>7, <2>1 DEF WriteFile, Fault
  <2> QED
    BY <1>7, <2>1, <2>2 DEF WriteFile, bootVars
<1>8. CASE RestartServices
  BY <1>8 DEF RestartServices, bootVars
<1>9. CASE Finish
  BY <1>9 DEF Finish, diskVars
<1>10. CASE UpgradeFail
  BY <1>10 DEF UpgradeFail, bootVars, diskVars
<1>11. CASE Kill
  BY <1>11 DEF Kill, bootVars, diskVars
<1> QED
  BY <1>1, <1>2, <1>3, <1>4, <1>5, <1>6, <1>7, <1>8, <1>9, <1>10, <1>11
  DEF UpgradeStep

\* A file that is replaced is kept until the new one is written.
LEMMA UpgradeKeeps ==
    ASSUME HubType, UpType, Listed, Kept, "copyError" \notin UpdateEnv,
           UNCHANGED installVars,
           UpgradeStep \/ UpgradeFail \/ Kill
    PROVE  Kept'
<1> USE BootstrapAssumption DEF UpType, Listed, Installing, PCs
<1>1. CASE ReadRemote \/ Block \/ CheckRollout \/ ListTag
  BY <1>1, DiskAlone DEF ReadRemote, Block, CheckRollout, ListTag, bootVars,
                          diskVars
<1>2. ASSUME NEW p \in todo, Install(p) PROVE Kept'
  BY <1>2, DiskAlone DEF Install, bootVars, diskVars
<1>3. CASE Backup
  <2>1. backup'[pkg] = file[pkg] /\ \A p \in Packages \ {pkg} : file'[p] = file[p]
    BY <1>3 DEF Backup
  <2> QED
    BY <1>3, <2>1 DEF Backup, bootVars, Kept, Bootstrapped, installVars
<1>4. CASE WriteFile
  <2>0. /\ Flist[remote][pkg] \in Nat /\ Flist[remote][pkg] # Missing
        /\ backup[pkg] \in Int /\ Missing \in Int /\ Partial \in Int
    BY <1>4 DEF WriteFile, Missing, Partial
  <2>1. \/ file' = [file EXCEPT ![pkg] = Flist[remote][pkg]] /\ pc' = "restart"
        \/ file' = [file EXCEPT ![pkg] = Restored("fail")] /\ pc' = "start"
    BY <1>4 DEF WriteFile, Fault
  <2>2. \A p \in Packages \ {pkg} : file'[p] = file[p]
    BY <2>1
  <2>3. file'[pkg] = Flist[remote][pkg] \/ file'[pkg] = Restored("fail")
    BY <2>1
  <2>4. Flist[remote][pkg] \notin Broken
    BY <2>0 DEF Broken, Missing, Partial
  <2>5. backup[pkg] \notin Broken => Restored("fail") \notin Broken
    BY DEF Restored, Broken
  <2>6. pc = "write" /\ pc' # "write" /\ node' = node
    BY <1>4, <2>1 DEF WriteFile, bootVars
  <2> QED
    BY <2>2, <2>3, <2>4, <2>5, <2>6 DEF Kept, Bootstrapped, installVars
<1>5. CASE RestartServices
  <2>1. pc # "write" /\ pc' # "write" /\ node' = node /\ file' = file
    BY <1>5 DEF RestartServices, bootVars
  <2> QED
    BY <2>1 DEF Kept, Bootstrapped, installVars
<1>6. CASE Finish
  BY <1>6, DiskAlone DEF Finish
<1>7. CASE UpgradeFail
  BY <1>7, DiskAlone DEF UpgradeFail, bootVars, diskVars
<1>8. CASE Kill
  BY <1>8, DiskAlone DEF Kill, Interruptible, bootVars
<1> QED
  BY <1>1, <1>2, <1>3, <1>4, <1>5, <1>6, <1>7, <1>8 DEF UpgradeStep

\* The types and what is listed, for every step.
LEMMA UpTypeStep ==
    ASSUME UpTypeInv, "overlap" \notin UpdateEnv, [UpNext]_upVars
    PROVE  UpTypeInv'
<1> USE DEF UpTypeInv
<1>1. HubType'
  BY HubStepType
<1>2. CASE UpgradeStep \/ UpgradeFail \/ Kill
  BY <1>1, <1>2, UpgradeAlone, UpgradeType
<1>3. CASE (BootStep \/ BootFail) /\ UNCHANGED upgraderVars
  BY <1>1, <1>3, BootstrapType
<1>4. CASE Reboot
  BY <1>1, <1>4, RebootKeeps
<1>5. CASE UNCHANGED nodeVars
  BY <1>1, <1>5
  DEF nodeVars, bootVars, installVars, diskVars, UpType, BootType, Listed, Installing
<1> QED
  BY <1>2, <1>3, <1>4, <1>5 DEF UpNext, HubStep, BootstrapStep, DevLink, upVars

LEMMA UpTypeInit == UpInit => UpTypeInv
<1> SUFFICES ASSUME UpInit PROVE UpTypeInv
  OBVIOUS
<1>1. 1 \in Releases
  BY WorkerAssumption DEF Releases
<1>2. HubType
  BY <1>1 DEF HubType, UpInit, BootInit, WorkerInit, NoLink
<1>3. /\ node \in Nodes /\ node.method \in {"hub", "other"}
      /\ file = Image(node) /\ bootPc = BootPc(node)
  BY BootstrapAssumption DEF UpInit, BootInit
<1>4. UpType
  BY <1>1, <1>3, ImageType, BootstrapAssumption
  DEF UpType, UpInit, BootInit, Missing, PCs
<1>5. BootType
  BY <1>1, <1>3, ImageType, BootstrapAssumption DEF BootType, UpInit, BootInit
<1>6. Listed
  BY DEF Listed, Installing, UpInit
<1> QED
  BY <1>2, <1>4, <1>5, <1>6 DEF UpTypeInv

\* Failed calls, signals and reboots never leave a package the node was
\* bootstrapped with without a whole file, provided that io.Copy does not fail
\* and that no update starts before the bootstrap has ended (copyFile, safe).
THEOREM FilesWholeHolds ==
    ASSUME "copyError" \notin UpdateEnv, "overlap" \notin UpdateEnv
    PROVE  UpSpec => []FilesWhole
<1>1. UpInit => FileInv
  <2> SUFFICES ASSUME UpInit PROVE FileInv
    OBVIOUS
  <2>1. node \in Nodes /\ bootPc = BootPc(node) /\ pc = "start"
    BY DEF UpInit, BootInit
  <2>2. Kept /\ Copied
    BY <2>1, ImageType DEF Kept, Copied, Bootstrapped
  <2> QED
    BY <2>2, UpTypeInit DEF FileInv
<1>2. FileInv /\ [UpNext]_upVars => FileInv'
  <2> SUFFICES ASSUME FileInv, [UpNext]_upVars PROVE FileInv'
    OBVIOUS
  <2>1. UpTypeInv'
    BY UpTypeStep DEF FileInv
  <2>2. CASE UpgradeStep \/ UpgradeFail \/ Kill
    BY <2>1, <2>2, UpgradeAlone, UpgradeKeeps DEF FileInv, UpTypeInv
  <2>3. CASE (BootStep \/ BootFail) /\ UNCHANGED upgraderVars
    BY <2>1, <2>3, BootstrapKeeps DEF FileInv, UpTypeInv
  <2>4. CASE Reboot
    BY <2>1, <2>4, RebootKeeps DEF FileInv, UpTypeInv
  <2>5. CASE UNCHANGED nodeVars
    BY <2>1, <2>5
    DEF FileInv, nodeVars, bootVars, installVars, diskVars, Kept, Copied, Bootstrapped
  <2> QED
    BY <2>2, <2>3, <2>4, <2>5 DEF UpNext, HubStep, BootstrapStep, DevLink, upVars
<1>3. FileInv => FilesWhole
  BY DEF FileInv, FilesWhole, Kept, Broken
<1> QED
  BY <1>1, <1>2, <1>3, PTL DEF UpSpec

=============================================================================
