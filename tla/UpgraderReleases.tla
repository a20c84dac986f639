-------------------------- MODULE UpgraderReleases --------------------------
(***************************************************************************)
(* A bootstrapped node runs the release it recorded and zos is the last    *)
(* package of it to be replaced, for any releases and packages, as long as *)
(* links and versions only go forward and no update starts before the      *)
(* bootstrap has ended.                                                    *)
(***************************************************************************)
EXTENDS UpgraderProofs

\* A package that is changed by a release does not change back later: an
\* update compares the names of the recorded and of the new release, and
\* cannot see what an abandoned update to a release in between has installed.
NeverReverts ==
    \A p \in Packages : \A r, x, q \in Releases :
        r <= x /\ x <= q /\ Flist[r][p] = Flist[q][p] /\ Flist[r][p] # Missing
        => Flist[x][p] \in {Missing, Flist[r][p]}

\* No release drops a package or goes back to an older flist of it.
FlistsGrow ==
    \A p \in Packages : \A r, q \in Releases :
        r <= q => Flist[r][p] <= Flist[q][p]

-----------------------------------------------------------------------------
\* What the node has read of the link is never newer than what it reads next.
Forward ==
    /\ current \in Releases \cup {NoLink}
    /\ workerVersion <= registrar
    /\ node.dev => link # NoLink /\ workerPc = "idle"
    /\ ~node.dev => \A r \in {link, remote, current} : r <= workerVersion
    /\ link # NoLink => remote <= link /\ current <= link

\* A package is at release r, on disk and, unless zinit did not stop or start
\* it, in its services.
Same(p, r) ==
    /\ file[p] = Flist[r][p]
    /\ running[p] = Flist[r][p] \/ p \in refused

\* The bootstrap installs the release it recorded.
Booting ==
    /\ bootPc \in {"install", "run"} =>
           /\ current = bootRelease
           /\ \A p \in Content(bootRelease) \ bootTodo : Same(p, bootRelease)
           /\ identityd \in {Missing, Flist[bootRelease][Zos]}
    /\ bootPc = "tag" => identityd = Missing
    /\ bootPc = "run" => /\ bootPkg \in bootTodo
                         /\ file[bootPkg] = Flist[bootRelease][bootPkg]
    /\ Bootstrapped => current \in Releases

\* Some release after the recorded one, up to the last one the upgrader has
\* read, changes the package.
Touched(p) ==
    \E x \in Releases :
        /\ current < x /\ x <= remote
        /\ Flist[x][p] \notin {Missing, Flist[current][p]}

\* What differs from the recorded release will be compared again ...
Traced ==
    Bootstrapped =>
        \A p \in Packages :
            Managed(p, current) => Same(p, current) \/ Touched(p)

\* ... and so will the zos that the upgrader itself runs.
SelfTraced ==
    Bootstrapped /\ Managed(Zos, current) =>
        identityd \in {Missing, Flist[current][Zos]} \/ Touched(Zos)

\* An update is to a newer release; what it has not to do, or has done, is at
\* that release.
Working == pc \in {"packages", "backup", "write", "restart"}
Updating ==
    Bootstrapped =>
        /\ pc # "start" => current < remote
        /\ Working =>
             /\ \A p \in todo : Flist[remote][p] \notin {Missing, Flist[current][p]}
             /\ \A p \in Packages \ todo : Managed(p, remote) => Same(p, remote)
        /\ pc = "restart" => file[pkg] = Flist[remote][pkg]

ReleaseInv == /\ UpTypeInv
              /\ running \in [Packages -> Int]
              /\ Forward /\ Booting /\ Traced /\ SelfTraced /\ Updating

-----------------------------------------------------------------------------
LEMMA ReleasesAreNat == Releases \subseteq Nat /\ NoLink \in Nat /\ 1 \in Releases
                        /\ NoLink \notin Releases
  BY WorkerAssumption DEF Releases, NoLink

\* Links, versions and what was read of them.
LEMMA ForwardStep ==
    ASSUME UpTypeInv, Forward, [UpNext]_upVars, "rollback" \notin UpdateEnv
    PROVE  Forward'
<1>0. /\ registrar \in Nat /\ workerVersion \in Nat /\ link \in Nat
      /\ remote \in Nat /\ current \in Nat /\ NoLink \in Nat
      /\ workerVersion \in Releases /\ link \in Releases \cup {NoLink}
      /\ remote \in Releases
      /\ \A r \in Releases : r \in Nat /\ r # NoLink
  BY ReleasesAreNat DEF UpTypeInv, HubType, UpType, Forward
<1>1. ASSUME NEW r \in Releases, Publish(r) \/ (\E b \in BOOLEAN : SetVersion(r, b)),
             UNCHANGED nodeVars
      PROVE  Forward'
  <2>1. /\ UNCHANGED <<node, current, remote, link, workerPc, workerVersion>>
        /\ registrar' \in Nat /\ registrar <= registrar'
    BY <1>0, <1>1 DEF Publish, SetVersion, workerVars, nodeVars, bootVars
  <2> QED
    BY <1>0, <2>1 DEF Forward
<1>2. CASE ~node.dev /\ WorkerStep /\ UNCHANGED nodeVars
  <2>1. UNCHANGED <<node, current, remote, registrar>> /\ ~node.dev /\ ~node'.dev
    BY <1>2 DEF WorkerStep, WorkerRead, WorkerCheck, WorkerRemove, WorkerSymlink,
                nodeVars, bootVars
  <2>2. CASE WorkerRead
    <3>1. workerVersion' = registrar /\ link' = link
      BY <2>2 DEF WorkerRead
    <3> QED
      BY <1>0, <2>1, <3>1 DEF Forward
  <2>3. CASE WorkerCheck
    BY <1>0, <2>1, <2>3 DEF WorkerCheck, Forward
  <2>4. CASE WorkerRemove
    BY <1>0, <2>1, <2>4 DEF WorkerRemove, Forward, NoLink
  <2>5. CASE WorkerSymlink
    <3>1. workerVersion' = workerVersion /\ link' = workerVersion
      BY <2>5 DEF WorkerSymlink
    <3> QED
      BY <1>0, <2>1, <3>1 DEF Forward
  <2> QED
    BY <1>2, <2>2, <2>3, <2>4, <2>5 DEF WorkerStep
<1>3. CASE WorkerFail /\ UNCHANGED nodeVars
  <2>1. /\ UNCHANGED <<node, current, remote, registrar, link, workerVersion>>
        /\ workerPc # "idle"
    BY <1>3 DEF WorkerFail, nodeVars, bootVars
  <2> QED
    BY <2>1 DEF Forward
<1>4. ASSUME NEW r \in Releases, DevLink(r) PROVE Forward'
  <2>1. /\ UNCHANGED <<node, current, remote, registrar, workerPc, workerVersion>>
        /\ link' = r /\ node.dev /\ r > link
    BY <1>4 DEF DevLink, workerVars, nodeVars, bootVars
  <2> QED
    BY <1>0, <2>1 DEF Forward
<1>5. CASE BootStep /\ UNCHANGED upgraderVars
  <2>1. /\ UNCHANGED <<node, remote, registrar, link, workerPc, workerVersion>>
        /\ current' \in {current, link}
    BY <1>5 DEF BootStep, BootTag, BootInstall, BootRun, upgraderVars, hubVars,
                workerVars
  <2> QED
    BY <1>0, <2>1 DEF Forward
<1>6. CASE ReadRemote
  <2>1. /\ UNCHANGED <<node, current, registrar, link, workerPc, workerVersion>>
        /\ remote' = link /\ link # NoLink
    BY <1>6 DEF ReadRemote, hubVars, workerVars, bootVars
  <2> QED
    BY <1>0, <2>1 DEF Forward
<1>7. CASE Finish
  <2>1. /\ UNCHANGED <<node, remote, registrar, link, workerPc, workerVersion>>
        /\ current' \in {current, remote}
    BY <1>7 DEF Finish, hubVars, workerVars
  <2> QED
    BY <1>0, <2>1 DEF Forward
<1>8. CASE Reboot
  <2>1. /\ UNCHANGED <<node, remote, registrar, link, workerPc, workerVersion>>
        /\ current' = Recorded(node)
    BY <1>8 DEF Reboot, BootReset, hubVars, workerVars
  <2>2. current' \in {1, NoLink}
    BY <2>1 DEF Recorded
  <2>3. /\ current' \in Releases \cup {NoLink}
        /\ \A r \in Releases : current' <= r
    BY <2>2, WorkerAssumption DEF Releases, NoLink
  <2> QED
    BY <1>0, <2>1, <2>3 DEF Forward
<1>9. CASE UNCHANGED <<node, current, remote, registrar, link, workerPc, workerVersion>>
  BY <1>9 DEF Forward
<1>10. ASSUME \/ Block \/ CheckRollout \/ ListTag \/ (\E p \in todo : Install(p))
              \/ Backup \/ WriteFile \/ RestartServices \/ UpgradeFail \/ Kill
       PROVE  UNCHANGED <<node, current, remote, registrar, link, workerPc, workerVersion>>
  BY <1>10 DEF Block, CheckRollout, ListTag, Install, Backup, WriteFile,
               RestartServices, UpgradeFail, Kill, bootVars, hubVars, workerVars
<1>11. BootFail /\ UNCHANGED upgraderVars
       => UNCHANGED <<node, current, remote, registrar, link, workerPc, workerVersion>>
  BY DEF BootFail, upgraderVars, hubVars, workerVars
<1>12. UNCHANGED upVars
       => UNCHANGED <<node, current, remote, registrar, link, workerPc, workerVersion>>
  BY DEF upVars, nodeVars, bootVars, hubVars, workerVars
<1> QED
  BY <1>1, <1>2, <1>3, <1>4, <1>5, <1>6, <1>7, <1>8, <1>9, <1>10, <1>11, <1>12
  DEF UpNext, ReleaseStep, HubStep, BootstrapStep, UpgradeStep

\* The bootstrap records the link and installs what it names.
LEMMA BootReaches ==
    ASSUME ReleaseInv, BootStep \/ BootFail, UNCHANGED upgraderVars
    PROVE  /\ running' \in [Packages -> Int] /\ Booting' /\ Traced' /\ SelfTraced'
           /\ Updating'
<1> USE BootstrapAssumption
<1>0. /\ pc' = "start" /\ bootPc # "done" /\ node' = node /\ remote' = remote
      /\ UpType /\ BootType /\ HubType /\ file \in [Packages -> Int]
  BY BootstrapType DEF ReleaseInv, UpTypeInv, UpType, upgraderVars
<1>1. Updating'
  BY <1>0 DEF Updating, Working
<1>2. CASE BootTag
  <2>1. UNCHANGED <<file, running, identityd>> /\ identityd = Missing
    BY <1>2 DEF BootTag, serviceVars, ReleaseInv, Booting
  <2>2. CASE link # NoLink
    <3>1. /\ current' = link /\ bootRelease' = link /\ bootTodo' = Content(link)
          /\ bootPc' = After(bootTodo') /\ link \in Releases
      BY <1>0, <1>2, <2>2 DEF BootTag, HubType
    <3>2. bootPc' # "run"
      BY <3>1 DEF After
    <3>3. Booting'
      BY <2>1, <3>1, <3>2 DEF Booting, After
    <3>4. Traced' /\ SelfTraced'
      BY <2>1, <3>1 DEF Traced, SelfTraced, Bootstrapped, Managed, Content, After
    <3> QED
      BY <1>1, <2>1, <3>3, <3>4 DEF ReleaseInv
  <2>3. CASE link = NoLink
    <3>1. bootPc' = "failed"
      BY <1>2, <2>3 DEF BootTag
    <3> QED
      BY <1>1, <2>1, <3>1 DEF Booting, Traced, SelfTraced, Bootstrapped, ReleaseInv
  <2> QED
    BY <2>2, <2>3
<1>3. ASSUME NEW p \in bootTodo, BootInstall(p)
      PROVE  running' \in [Packages -> Int] /\ Booting' /\ Traced' /\ SelfTraced'
  <2>1. /\ bootPc = "install" /\ bootPc' = "run" /\ bootPkg' = p
        /\ UNCHANGED <<current, running, refused, identityd, bootRelease, bootTodo>>
        /\ p \in Packages
    BY <1>0, <1>3 DEF BootInstall, BootType, serviceVars
  <2>2. /\ \A q \in Packages \ {p} : file'[q] = file[q]
        /\ file'[p] = Flist[bootRelease][p]
    BY <1>0, <1>3, <2>1 DEF BootInstall
  <2>3. \A q \in Content(bootRelease) \ bootTodo : file'[q] = file[q]
    BY <2>2 DEF Content
  <2>4. Booting'
    BY <2>1, <2>2, <2>3 DEF Booting, Same, Bootstrapped, ReleaseInv, Content
  <2> QED
    BY <2>1, <2>4 DEF Traced, SelfTraced, Bootstrapped, ReleaseInv
<1>4. CASE BootRun
  <2>1. /\ UNCHANGED <<current, file, bootRelease>> /\ bootPc = "run"
        /\ bootTodo' = bootTodo \ {bootPkg} /\ bootPc' = After(bootTodo')
        /\ bootPkg \in Packages /\ file[bootPkg] \in Int
    BY <1>0, <1>4 DEF BootRun, BootType
  <2>2. /\ current = bootRelease /\ bootPkg \in bootTodo /\ current \in Releases
        /\ file[bootPkg] = Flist[bootRelease][bootPkg]
        /\ \A p \in Content(bootRelease) \ bootTodo : Same(p, bootRelease)
        /\ identityd \in {Missing, Flist[bootRelease][Zos]}
    BY <1>0, <2>1 DEF ReleaseInv, Booting, BootType
  <2>3. PICK ok \in BOOLEAN, up \in BOOLEAN : Run(ok, up)
    BY <1>4 DEF BootRun
  <2>4. /\ running' \in [Packages -> Int]
        /\ \A p \in Packages \ {bootPkg} : running'[p] = running[p]
        /\ refused \subseteq refused'
        /\ running'[bootPkg] = file[bootPkg] \/ bootPkg \in refused'
        /\ identityd' \in {Missing, Flist[bootRelease][Zos]}
    BY <2>1, <2>2, <2>3 DEF ReleaseInv, Run
  <2>5. \A p \in Content(bootRelease) \ bootTodo' : p \in Packages /\ Same(p, bootRelease)'
    BY <2>1, <2>2, <2>4 DEF Same, Content
  <2>6. Booting'
    BY <2>1, <2>2, <2>4, <2>5 DEF Booting, After, Bootstrapped
  <2>7. Traced' /\ SelfTraced'
    BY <2>1, <2>2, <2>4, <2>5
    DEF Traced, SelfTraced, Bootstrapped, After, Managed, Content
  <2> QED
    BY <1>1, <2>4, <2>6, <2>7
<1>5. CASE BootFail
  BY <1>1, <1>5
  DEF BootFail, Booting, Traced, SelfTraced, Bootstrapped, ReleaseInv, serviceVars
<1> QED
  BY <1>1, <1>2, <1>3, <1>4, <1>5 DEF BootStep

\* A node that starts has recorded nothing.
LEMMA RebootReaches ==
    ASSUME ReleaseInv, Reboot
    PROVE  /\ running' \in [Packages -> Int] /\ Booting' /\ Traced' /\ SelfTraced'
           /\ Updating'
<1>1. /\ node \in Nodes /\ node' = node /\ bootPc' = BootPc(node)
      /\ running' = Image(node) /\ identityd' = Image(node)[Zos]
  BY DEF Reboot, BootReset, ReleaseInv, UpTypeInv, UpType
<1>2. node.method \in {"hub", "other"}
  BY <1>1, BootstrapAssumption
<1>3. ~Bootstrapped' /\ bootPc' \notin {"install", "run"}
  BY <1>1, <1>2, ImageType DEF Bootstrapped
<1>4. bootPc' = "tag" => identityd' = Missing
  BY <1>1, <1>2, BootstrapAssumption DEF BootPc, Image
<1> QED
  BY <1>1, <1>3, <1>4, ImageType DEF Booting, Traced, SelfTraced, Updating

\* A package that a newer release changes stays compared.
LEMMA TouchedStays ==
    ASSUME NEW p \in Packages, current' = current, remote \in Releases,
           remote' \in Releases, remote <= remote', Touched(p)
    PROVE  Touched(p)'
<1>1. PICK x \in Releases : current < x /\ x <= remote
                            /\ Flist[x][p] \notin {Missing, Flist[current][p]}
  BY DEF Touched
<1>2. x <= remote'
  BY <1>1, ReleasesAreNat
<1> QED
  BY <1>1, <1>2 DEF Touched

\* A step of the upgrader that leaves files and services alone.
LEMMA TracedAlone ==
    ASSUME Traced, remote \in Releases, remote' \in Releases, remote <= remote',
           UNCHANGED <<node, current, file, running, refused, bootPc>>
    PROVE  Traced'
<1> SUFFICES ASSUME Bootstrapped, NEW p \in Packages, Managed(p, current)
             PROVE  (Same(p, current) \/ Touched(p))'
  BY DEF Traced, Bootstrapped, Managed
<1>1. Same(p, current) \/ Touched(p)
  BY DEF Traced
<1> QED
  BY <1>1, TouchedStays DEF Same

\* An update that is about to change a package: the package is traced.
LEMMA TodoTouched ==
    ASSUME UpType, Updating, Bootstrapped, Working, pc # "start", NEW p \in todo
    PROVE  Touched(p)
<1>1. /\ remote \in Releases /\ current < remote /\ remote <= remote
      /\ Flist[remote][p] \notin {Missing, Flist[current][p]}
  BY ReleasesAreNat DEF Updating, UpType, Working
<1> QED
  BY <1>1 DEF Touched

\* The steps of the upgrader.
LEMMA UpgradeReaches ==
    ASSUME ReleaseInv, NeverReverts, UNCHANGED installVars,
           UpgradeStep \/ UpgradeFail \/ Kill
    PROVE  /\ running' \in [Packages -> Int]
           /\ Bootstrapped => Traced' /\ Updating' /\ current' \in Releases
<1>0. /\ UpType /\ HubType /\ Listed /\ Forward /\ Traced /\ Updating
      /\ file \in [Packages -> Int] /\ running \in [Packages -> Int]
      /\ Bootstrapped => current \in Releases
      /\ remote \in Releases /\ pkg \in Packages /\ todo \subseteq Packages
      /\ Releases \subseteq Nat
  BY ReleasesAreNat DEF ReleaseInv, UpTypeInv, UpType, Booting
<1>1. node' = node /\ bootPc' = bootPc
  BY DEF UpgradeStep, ReadRemote, Block, CheckRollout, ListTag, Install, Backup,
         WriteFile, RestartServices, Finish, UpgradeFail, Kill, bootVars, installVars
<1>2. running' \in [Packages -> Int]
  <2>1. CASE RestartServices
    <3>1. PICK v \in {file[pkg], running[pkg], Missing} :
              running' = [running EXCEPT ![pkg] = v]
      BY <2>1 DEF RestartServices
    <3>2. v \in Int
      BY <1>0, <3>1 DEF Missing
    <3> QED
      BY <1>0, <3>1, <3>2
  <2>2. ~RestartServices => running' = running
    BY DEF UpgradeStep, ReadRemote, Block, CheckRollout, ListTag, Install, Backup,
           WriteFile, Finish, UpgradeFail, Kill, diskVars, serviceVars
  <2> QED
    BY <1>0, <2>1, <2>2
<1> SUFFICES ASSUME Bootstrapped PROVE Traced' /\ Updating' /\ current' \in Releases
  BY <1>2
<1>3. node.method = "hub" /\ Bootstrapped' /\ current \in Releases
  BY <1>0, <1>1 DEF Bootstrapped
<1>4. \A p \in Packages : \A r : Managed(p, r)' <=> Managed(p, r)
  BY <1>1 DEF Managed
<1>5. CASE ReadRemote
  <2>1. /\ UNCHANGED <<current, file, running, refused, todo, pkg>>
        /\ remote' = link /\ link \in Releases /\ remote <= link /\ current <= link
        /\ pc' = IF link = current THEN "start" ELSE "rollout"
    BY <1>0, <1>3, <1>5 DEF ReadRemote, bootVars, diskVars, serviceVars, HubType, Forward
  <2>2. Traced'
    BY <1>0, <1>1, <2>1, TracedAlone
  <2>3. Updating'
    BY <1>0, <1>3, <2>1 DEF Updating, Working
  <2> QED
    BY <1>3, <2>1, <2>2, <2>3
<1>6. CASE Block \/ CheckRollout \/ UpgradeFail \/ Kill
  <2>1. /\ UNCHANGED <<current, file, running, refused, remote, todo, pkg>>
        /\ pc' \in {"start", "list"} /\ (pc' = "list" => pc = "rollout")
    BY <1>3, <1>6
    DEF Block, CheckRollout, UpgradeFail, Kill, bootVars, diskVars, serviceVars
  <2>2. Traced'
    BY <1>0, <1>1, <2>1, TracedAlone
  <2>3. Updating'
    BY <1>1, <1>0, <2>1 DEF Updating, Working, Bootstrapped
  <2> QED
    BY <1>3, <2>1, <2>2, <2>3
<1>7. CASE ListTag
  <2>1. /\ UNCHANGED <<current, file, running, refused, remote, pkg>>
        /\ pc = "list" /\ pc' = "packages" /\ current < remote
        /\ todo' = {p \in Packages : /\ Flist[remote][p] # Missing /\ Changed(p)
                                     /\ p = Zos => ~node.noZos}
    BY <1>0, <1>7 DEF ListTag, bootVars, diskVars, serviceVars, Updating
  <2>2. Traced'
    BY <1>0, <1>1, <2>1, TracedAlone
  <2>3. \A p \in todo' : Flist[remote][p] \notin {Missing, Flist[current][p]}
    BY <1>3, <2>1 DEF Changed
  <2>4. ASSUME NEW p \in Packages \ todo', Managed(p, remote) PROVE Same(p, remote)
    <3>1. Flist[remote][p] = Flist[current][p] /\ Managed(p, current)
      BY <1>3, <2>1, <2>4 DEF Managed, Changed
    <3>2. Same(p, current) \/ Touched(p)
      BY <1>0, <3>1 DEF Traced
    <3>3. ~Touched(p)
      <4> SUFFICES ASSUME NEW x \in Releases, current < x, x <= remote,
                          Flist[x][p] \notin {Missing, Flist[current][p]}
                   PROVE  FALSE
        BY DEF Touched
      <4>1. current <= x /\ Flist[current][p] # Missing
        BY <1>0, <1>3, <3>1 DEF Managed
      <4> QED
        BY <1>0, <1>3, <3>1, <4>1 DEF NeverReverts
    <3> QED
      BY <3>1, <3>2, <3>3 DEF Same
  <2>5. Updating'
    BY <1>4, <2>1, <2>3, <2>4 DEF Updating, Working, Same
  <2> QED
    BY <1>3, <2>1, <2>2, <2>5
<1>8. ASSUME NEW q \in todo, Install(q) PROVE Traced' /\ Updating' /\ current' \in Releases
  <2>1. /\ UNCHANGED <<current, file, running, refused, remote, todo>>
        /\ pc = "packages" /\ pc' = "backup"
    BY <1>8 DEF Install, bootVars, diskVars, serviceVars
  <2>2. Traced'
    BY <1>0, <1>1, <2>1, TracedAlone
  <2>3. Updating'
    BY <1>0, <1>4, <2>1 DEF Updating, Working, Same
  <2> QED
    BY <1>3, <2>1, <2>2, <2>3
<1>9. CASE Backup \/ WriteFile \/ RestartServices
  <2>1. /\ UNCHANGED <<current, remote, pkg>> /\ Working /\ pc # "start"
        /\ pkg \in todo /\ current < remote
    BY <1>0, <1>9 DEF Backup, WriteFile, RestartServices, bootVars, Working, Listed,
                      Installing, Updating
  <2>2. \A p \in Packages \ {pkg} :
            file'[p] = file[p] /\ running'[p] = running[p] /\ (p \in refused' <=> p \in refused)
    BY <1>0, <1>9 DEF Backup, WriteFile, RestartServices, serviceVars
  <2>3. ASSUME NEW p \in todo PROVE Touched(p)'
    <3>1. Touched(p)
      BY <1>0, <2>1, TodoTouched
    <3> QED
      BY <2>1, <3>1 DEF Touched
  <2>4. ASSUME NEW p \in Packages, Managed(p, current) PROVE (Same(p, current) \/ Touched(p))'
    <3>1. CASE p = pkg
      BY <2>1, <2>3, <3>1
    <3>2. CASE p # pkg
      <4>1. Same(p, current) \/ Touched(p)
        BY <1>0, <2>4 DEF Traced
      <4>2. Same(p, current) => Same(p, current)'
        BY <2>1, <2>2, <3>2 DEF Same
      <4>3. Touched(p) => Touched(p)'
        BY <2>1 DEF Touched
      <4> QED
        BY <4>1, <4>2, <4>3
    <3> QED
      BY <3>1, <3>2
  <2>5. Traced'
    BY <1>4, <2>1, <2>4 DEF Traced
  <2>6. /\ \A p \in todo : Flist[remote][p] \notin {Missing, Flist[current][p]}
        /\ \A p \in Packages \ todo : Managed(p, remote) => Same(p, remote)
    BY <1>0, <2>1 DEF Updating
  <2>7. \A p \in Packages \ todo : Managed(p, remote)' => Same(p, remote)'
    BY <1>4, <2>1, <2>2, <2>6 DEF Same
  <2>8. CASE Backup
    BY <2>1, <2>5, <2>6, <2>7, <2>8, <1>3 DEF Backup, Updating, Working
  <2>9. CASE WriteFile
    <3>1. \/ pc' = "start"
          \/ pc' = "restart" /\ file'[pkg] = Flist[remote][pkg]
      BY <1>0, <2>9 DEF WriteFile
    <3>2. todo' = todo
      BY <2>9 DEF WriteFile
    <3> QED
      BY <2>1, <2>5, <2>6, <2>7, <3>1, <3>2, <1>3 DEF Updating, Working
  <2>10. CASE RestartServices
    <3>1. /\ pc = "restart" /\ pc' = "packages" /\ file' = file
          /\ todo' = todo \ {pkg}
          /\ running'[pkg] = file[pkg] \/ pkg \in refused'
      BY <1>0, <2>10 DEF RestartServices
    <3>2. ASSUME NEW p \in Packages, p = pkg PROVE Same(p, remote)'
      BY <1>0, <2>1, <3>1, <3>2 DEF Updating, Same
    <3>3. \A p \in Packages \ todo' : Managed(p, remote)' => Same(p, remote)'
      BY <2>7, <3>1, <3>2
    <3> QED
      BY <2>1, <2>5, <2>6, <3>1, <3>3, <1>3 DEF Updating, Working
  <2> QED
    BY <1>9, <2>8, <2>9, <2>10
<1>10. CASE Finish
  <2>1. /\ UNCHANGED <<file, running, refused, remote, todo, pkg>> /\ current' = remote
        /\ pc = "packages" /\ pc' = "start" /\ todo = {}
    BY <1>3, <1>10 DEF Finish, diskVars
  <2>2. \A p \in Packages : Managed(p, remote) => Same(p, remote)
    BY <1>0, <2>1 DEF Updating, Working
  <2>3. Traced'
    BY <1>4, <2>1, <2>2 DEF Traced, Same
  <2> QED
    BY <1>0, <2>1, <2>3 DEF Updating, Working
<1> QED
  BY <1>5, <1>6, <1>7, <1>8, <1>9, <1>10 DEF UpgradeStep

\* The upgrader is replaced when it has recorded a release, or is killed.
LEMMA SelfReaches ==
    ASSUME ReleaseInv, UNCHANGED installVars, UpgradeStep \/ UpgradeFail \/ Kill
    PROVE  SelfTraced'
<1> USE BootstrapAssumption
<1>0. /\ UpType /\ HubType /\ Forward /\ Traced /\ SelfTraced /\ Updating
      /\ remote \in Releases /\ Releases \subseteq Nat
  BY ReleasesAreNat DEF ReleaseInv, UpTypeInv, UpType
<1>1. node' = node /\ bootPc' = bootPc
  BY DEF UpgradeStep, ReadRemote, Block, CheckRollout, ListTag, Install, Backup,
         WriteFile, RestartServices, Finish, UpgradeFail, Kill, bootVars, installVars
<1> SUFFICES ASSUME Bootstrapped, Managed(Zos, current')
             PROVE  (identityd \in {Missing, Flist[current][Zos]} \/ Touched(Zos))'
  BY <1>1 DEF SelfTraced, Bootstrapped, Managed
<1>2. CASE Finish
  <2>1. /\ current' = remote /\ identityd' = file[Zos]
        /\ pc = "packages" /\ todo = {}
    BY <1>2 DEF Finish, Bootstrapped
  <2> QED
    BY <1>0, <2>1 DEF Updating, Working, Same
<1>3. CASE Kill
  <2>1. UNCHANGED <<current, remote>> /\ identityd' = file[Zos]
    BY <1>3 DEF Kill, bootVars
  <2>2. Same(Zos, current) \/ Touched(Zos)
    BY <1>0, <2>1 DEF Traced
  <2> QED
    BY <2>1, <2>2 DEF Same, Touched
<1>4. CASE ReadRemote
  <2>1. /\ UNCHANGED <<current, identityd>> /\ remote' = link
        /\ link \in Releases /\ remote <= link
    BY <1>0, <1>4 DEF ReadRemote, bootVars, diskVars, serviceVars, HubType, Forward
  <2>2. identityd \in {Missing, Flist[current][Zos]} \/ Touched(Zos)
    BY <1>0, <2>1 DEF SelfTraced
  <2> QED
    BY <1>0, <2>1, <2>2, TouchedStays
<1>5. CASE UNCHANGED <<current, remote, identityd>>
  BY <1>0, <1>5 DEF SelfTraced, Touched
<1>6. ASSUME \/ Block \/ CheckRollout \/ ListTag \/ (\E p \in todo : Install(p))
             \/ Backup \/ WriteFile \/ RestartServices \/ UpgradeFail
      PROVE  UNCHANGED <<current, remote, identityd>>
  BY <1>6 DEF Block, CheckRollout, ListTag, Install, Backup, WriteFile,
              RestartServices, UpgradeFail, bootVars, diskVars, serviceVars
<1> QED
  BY <1>2, <1>3, <1>4, <1>5, <1>6 DEF UpgradeStep

LEMMA ReleaseInit == UpInit => ReleaseInv
<1> SUFFICES ASSUME UpInit PROVE ReleaseInv
  OBVIOUS
<1>1. UpTypeInv
  BY UpTypeInit
<1>2. /\ node \in Nodes /\ bootPc = BootPc(node) /\ running = Image(node)
      /\ identityd = Image(node)[Zos] /\ current = Recorded(node) /\ remote = 1 /\ link = 1 /\ workerVersion = 1
      /\ registrar = 1 /\ workerPc = "idle"
  BY DEF UpInit, BootInit, WorkerInit
<1>3. Forward
  BY <1>2, ReleasesAreNat DEF Forward, Recorded, NoLink
<1>4. node.method \in {"hub", "other"}
  BY <1>2, BootstrapAssumption
<1>5. ~Bootstrapped /\ bootPc \notin {"install", "run"}
  BY <1>2, <1>4, ImageType DEF Bootstrapped
<1>6. bootPc = "tag" => identityd = Missing
  BY <1>2, <1>4, BootstrapAssumption DEF BootPc, Image
<1> QED
  BY <1>1, <1>2, <1>3, <1>5, <1>6, ImageType
  DEF ReleaseInv, Booting, Traced, SelfTraced, Updating

LEMMA ReleaseStepKeeps ==
    ASSUME NeverReverts, "rollback" \notin UpdateEnv, "overlap" \notin UpdateEnv,
           ReleaseInv, [UpNext]_upVars
    PROVE  ReleaseInv'
<1>1. UpTypeInv' /\ Forward'
  BY UpTypeStep, ForwardStep DEF ReleaseInv
<1>2. CASE UpgradeStep \/ UpgradeFail \/ Kill
  <2>1. UNCHANGED installVars /\ bootPc \in {"done", "failed"}
    BY <1>2, UpgradeAlone DEF ReleaseInv, UpTypeInv, Copied
  <2>2. node' = node
    BY <1>2 DEF UpgradeStep, ReadRemote, Block, CheckRollout, ListTag, Install,
                Backup, WriteFile, RestartServices, Finish, UpgradeFail, Kill, bootVars
  <2>3. Bootstrapped' <=> Bootstrapped
    BY <2>1, <2>2 DEF Bootstrapped, installVars
  <2>4. /\ running' \in [Packages -> Int]
        /\ Bootstrapped => Traced' /\ Updating' /\ current' \in Releases
    BY <1>2, <2>1, UpgradeReaches
  <2>5. Booting' /\ SelfTraced'
    BY <1>2, <2>1, <2>3, <2>4, SelfReaches DEF Booting, installVars
  <2>6. ~Bootstrapped => Traced' /\ Updating'
    BY <2>3 DEF Traced, Updating
  <2> QED
    BY <1>1, <2>4, <2>5, <2>6 DEF ReleaseInv
<1>3. CASE (BootStep \/ BootFail) /\ UNCHANGED upgraderVars
  BY <1>1, <1>3, BootReaches DEF ReleaseInv
<1>4. CASE Reboot
  BY <1>1, <1>4, RebootReaches DEF ReleaseInv
<1>5. CASE UNCHANGED nodeVars
  <2>1. UNCHANGED <<node, current, file, running, identityd, refused, pc, remote, todo,
                    pkg, bootPc, bootRelease, bootTodo, bootPkg>>
    BY <1>5 DEF nodeVars, bootVars, installVars, diskVars, serviceVars
  <2>2. Booting'
    BY <2>1 DEF ReleaseInv, Booting, Bootstrapped, Same
  <2>3. Traced' /\ SelfTraced' /\ Updating'
    BY <2>1 DEF ReleaseInv, Traced, SelfTraced, Updating, Bootstrapped, Same, Touched, Working, Managed
  <2> QED
    BY <1>1, <2>1, <2>2, <2>3 DEF ReleaseInv
<1> QED
  BY <1>2, <1>3, <1>4, <1>5 DEF UpNext, HubStep, BootstrapStep, DevLink, upVars

\* A bootstrapped node with nothing to update runs the release it recorded:
\* the files of its packages, the upgrader and all services but those that
\* zinit last did not stop or start.  This holds whatever failed, was killed or
\* rebooted on the way, even when writing a file failed half way, and however
\* often zinit refused; provided that links and versions only go forward, that
\* no package changes back and that no update starts before the bootstrap has
\* ended (install, ensureRestarted, updateTo, update).
THEOREM RunsReleaseHolds ==
    ASSUME NeverReverts, "rollback" \notin UpdateEnv, "overlap" \notin UpdateEnv
    PROVE  UpSpec => []RunsRelease
<1>1. UpInit => ReleaseInv
  BY ReleaseInit
<1>2. ReleaseInv /\ [UpNext]_upVars => ReleaseInv'
  BY ReleaseStepKeeps
<1>3. ReleaseInv => RunsRelease
  <2> SUFFICES ASSUME ReleaseInv, Bootstrapped, pc = "start", current = link,
                      NEW p \in Packages, Managed(p, current)
               PROVE  /\ file[p] = Flist[current][p]
                      /\ running[p] = Flist[current][p] \/ p \in refused
                      /\ p = Zos => identityd \in {Missing, Flist[current][p]}
    BY DEF RunsRelease
  <2>1. Same(p, current) \/ Touched(p)
    BY DEF ReleaseInv, Traced
  <2>2. current \in Releases /\ remote \in Releases /\ remote <= current
    BY ReleasesAreNat DEF ReleaseInv, Booting, Forward, UpTypeInv, UpType
  <2>3. ~Touched(p)
    BY <2>2, ReleasesAreNat DEF Touched
  <2>4. p = Zos => identityd \in {Missing, Flist[current][p]}
    BY <2>3 DEF ReleaseInv, SelfTraced
  <2> QED
    BY <2>1, <2>3, <2>4 DEF Same
<1> QED
  BY <1>1, <1>2, <1>3, PTL DEF UpSpec

-----------------------------------------------------------------------------
(* zos comes last *)

\* The file of a package, or its backup while the file is being replaced.
Held(p) == IF pc = "write" /\ p = pkg THEN backup[p] ELSE file[p]

\* Zos is no newer than release y, and the other packages are no older.
Covered(y) ==
    /\ y <= current \/ y <= remote
    /\ Held(Zos) <= Flist[y][Zos]
    /\ \A p \in Packages \ {Zos} :
           Flist[y][p] # Missing => Held(p) >= Flist[y][p]

ZosBoot ==
    /\ bootPc = "tag" => file[Zos] = Missing
    /\ bootPc \in {"install", "run"} => file[Zos] <= Flist[bootRelease][Zos]

ZosWaits ==
    /\ pc = "write" => file[pkg] = Missing
    /\ pc \in {"backup", "write"} /\ pkg = Zos => todo = {Zos}

ZosInv == /\ ReleaseInv /\ ZosBoot /\ ZosWaits
          /\ Bootstrapped => \E y \in Releases : Covered(y)

LEMMA FlistsGrowNeverRevert == FlistsGrow => NeverReverts
<1> SUFFICES ASSUME FlistsGrow, NEW p \in Packages,
                    NEW r \in Releases, NEW x \in Releases, NEW q \in Releases,
                    r <= x, x <= q, Flist[r][p] = Flist[q][p]
             PROVE  Flist[x][p] = Flist[r][p]
  BY DEF NeverReverts
<1>1. Flist[r][p] <= Flist[x][p] /\ Flist[x][p] <= Flist[q][p]
  BY DEF FlistsGrow
<1>2. Flist[r][p] \in Nat /\ Flist[x][p] \in Nat /\ Flist[q][p] \in Nat
  BY BootstrapAssumption
<1> QED
  BY <1>1, <1>2

\* A step that leaves the files alone and is not in the middle of a copy.
LEMMA CoveredAlone ==
    ASSUME NEW y \in Releases, Covered(y), pc # "write", pc' # "write",
           file' = file, current \in Releases, remote \in Releases,
           \/ current' = current /\ remote' \in Releases /\ remote <= remote'
           \/ current' = remote /\ remote' = remote /\ current < remote
    PROVE  Covered(y)'
<1>1. /\ y <= current \/ y <= remote
      /\ y \in Nat /\ current \in Nat /\ remote \in Nat
  BY ReleasesAreNat DEF Covered
<1>2. CASE current' = current /\ remote' \in Releases /\ remote <= remote'
  <2>1. remote' \in Nat
    BY <1>2, ReleasesAreNat
  <2> QED
    BY <1>1, <1>2, <2>1 DEF Covered, Held
<1>3. CASE current' = remote /\ remote' = remote /\ current < remote
  BY <1>1, <1>3 DEF Covered, Held
<1> QED
  BY <1>2, <1>3

\* The bootstrap installs zos of the release it recorded.
LEMMA BootCovers ==
    ASSUME ZosInv, ReleaseInv', BootStep \/ BootFail, UNCHANGED upgraderVars
    PROVE  ZosBoot' /\ ZosWaits' /\ (Bootstrapped => \E y \in Releases : Covered(y))'
<1> USE BootstrapAssumption
<1>0. /\ pc = "start" /\ pc' = "start" /\ bootPc # "done" /\ node' = node
      /\ file \in [Packages -> Int] /\ BootType /\ HubType
      /\ bootPc \in {"tag", "install", "run"}
  BY BootstrapType
  DEF ZosInv, ReleaseInv, UpTypeInv, UpType, BootStep, BootTag, BootInstall,
      BootRun, BootFail
<1>1. ZosWaits'
  BY <1>0 DEF ZosWaits
<1>2. ZosBoot' /\ (bootPc' = "done" =>
                      bootRelease' \in Releases /\ file'[Zos] <= Flist[bootRelease'][Zos])
  <2>1. CASE BootTag
    <3>1. /\ file'[Zos] = Missing
          /\ \/ bootPc' = "failed"
             \/ bootPc' \in {"install", "done"} /\ bootRelease' = link /\ link \in Releases
      BY <1>0, <2>1 DEF BootTag, ZosInv, ZosBoot, After, HubType
    <3>2. \A r \in Releases : Missing <= Flist[r][Zos]
      BY DEF Missing
    <3> QED
      BY <3>1, <3>2 DEF ZosBoot
  <2>2. ASSUME NEW p \in bootTodo, BootInstall(p) PROVE ZosBoot' /\ bootPc' = "run"
    <3>1. /\ bootPc = "install" /\ bootPc' = "run" /\ bootRelease' = bootRelease
          /\ bootRelease \in Releases /\ p \in Packages
      BY <1>0, <2>2 DEF BootInstall, BootType
    <3>2. file'[Zos] \in {file[Zos], Flist[bootRelease][Zos]}
      BY <1>0, <2>2, <3>1 DEF BootInstall
    <3>3. Flist[bootRelease][Zos] \in Nat
      BY <3>1
    <3> QED
      BY <3>1, <3>2, <3>3 DEF ZosInv, ZosBoot
  <2>3. CASE BootRun
    <3>1. /\ file' = file /\ bootRelease' = bootRelease /\ bootPc = "run"
          /\ bootPc' \in {"install", "done"} /\ bootRelease \in Releases
      BY <1>0, <2>3 DEF BootRun, After, BootType
    <3> QED
      BY <3>1 DEF ZosInv, ZosBoot
  <2>4. CASE BootFail
    BY <2>4 DEF BootFail, ZosBoot
  <2> QED
    BY <2>1, <2>2, <2>3, <2>4 DEF BootStep
<1>3. ASSUME bootPc' = "done", node.method = "hub"
      PROVE  \E y \in Releases : Covered(y)'
  <2>1. /\ BootTag \/ BootRun
        /\ current' = bootRelease' /\ bootRelease' \in Releases
    <3>1. CASE BootTag
      BY <1>0, <1>2, <1>3, <3>1 DEF BootTag
    <3>2. CASE BootRun
      BY <1>0, <1>2, <1>3, <3>2 DEF BootRun, ZosInv, ReleaseInv, Booting
    <3> QED
      BY <1>3, <3>1, <3>2 DEF BootStep, BootInstall, BootFail
  <2>2. ASSUME NEW p \in Packages, Flist[bootRelease'][p] # Missing
        PROVE  file'[p] = Flist[bootRelease'][p]
    <3>1. CASE BootTag
      BY <1>3, <2>2, <3>1 DEF BootTag, After, Content
    <3>2. CASE BootRun
      <4>1. /\ file' = file /\ bootRelease' = bootRelease /\ bootPc = "run"
            /\ bootTodo \ {bootPkg} = {} /\ p \in Content(bootRelease)
        BY <1>3, <2>2, <3>2 DEF BootRun, After, Content
      <4> QED
        BY <4>1 DEF ZosInv, ReleaseInv, Booting, Same
    <3> QED
      BY <2>1, <3>1, <3>2
  <2>3. \A p \in Packages : Flist[bootRelease'][p] \in Nat
    BY <2>1
  <2>4. bootRelease' <= current'
    BY <2>1, ReleasesAreNat
  <2>5. ASSUME NEW y \in Releases, y = bootRelease' PROVE Covered(y)'
    BY <1>0, <1>2, <1>3, <2>2, <2>3, <2>4, <2>5 DEF Covered, Held
  <2> QED
    BY <2>1, <2>5
<1> QED
  BY <1>0, <1>1, <1>2, <1>3 DEF Bootstrapped

\* The steps of the upgrader: zos is written when all others have been.
LEMMA UpgradeCovers ==
    ASSUME FlistsGrow, ZosInv, "copyError" \notin UpdateEnv,
           UNCHANGED installVars, bootPc \in {"done", "failed"},
           UpgradeStep \/ UpgradeFail \/ Kill
    PROVE  ZosBoot' /\ ZosWaits' /\ (Bootstrapped => \E y \in Releases : Covered(y))'
<1> USE BootstrapAssumption
<1>0. /\ UpType /\ Listed /\ Forward /\ Updating
      /\ file \in [Packages -> Int] /\ backup \in [Packages -> Int]
      /\ Bootstrapped => current \in Releases
      /\ remote \in Releases /\ pkg \in Packages /\ todo \subseteq Packages
      /\ Releases \subseteq Nat /\ HubType
  BY ReleasesAreNat DEF ZosInv, ReleaseInv, UpTypeInv, UpType, Booting
<1>1. node' = node /\ bootPc' = bootPc
  BY DEF UpgradeStep, ReadRemote, Block, CheckRollout, ListTag, Install, Backup,
         WriteFile, RestartServices, Finish, UpgradeFail, Kill, bootVars, installVars
<1>2. ZosBoot'
  BY <1>1 DEF ZosBoot
<1>3. ASSUME pc # "write", pc' # "write", file' = file,
             \/ current' = current /\ remote' \in Releases /\ remote <= remote'
             \/ /\ node.method = "hub" => current' = remote /\ current < remote
                /\ remote' = remote
      PROVE  (Bootstrapped => \E y \in Releases : Covered(y))'
  <2> SUFFICES ASSUME Bootstrapped PROVE \E y \in Releases : Covered(y)'
    BY <1>1 DEF Bootstrapped
  <2>1. PICK y \in Releases : Covered(y)
    BY DEF ZosInv
  <2> QED
    BY <1>0, <1>3, <2>1, CoveredAlone DEF Bootstrapped
<1>4. CASE ReadRemote
  <2>1. /\ pc = "start" /\ pc' # "write" /\ pc' # "backup" /\ file' = file
        /\ current' = current
        /\ remote' = link /\ link \in Releases /\ remote <= link
    BY <1>0, <1>4 DEF ReadRemote, bootVars, diskVars, HubType, Forward
  <2>2. ZosWaits'
    BY <2>1 DEF ZosWaits
  <2> QED
    BY <1>2, <1>3, <2>1, <2>2
<1>5. CASE Block \/ CheckRollout \/ ListTag \/ UpgradeFail \/ Kill
  <2>1. /\ pc # "write" /\ pc' \notin {"write", "backup"} /\ file' = file
        /\ current' = current /\ remote' = remote
    BY <1>5 DEF Block, CheckRollout, ListTag, UpgradeFail, Kill, Interruptible,
                bootVars, diskVars
  <2>2. ZosWaits'
    BY <2>1 DEF ZosWaits
  <2> QED
    BY <1>0, <1>2, <1>3, <2>1, <2>2
<1>6. ASSUME NEW q \in todo, Install(q)
      PROVE  ZosWaits' /\ (Bootstrapped => \E y \in Releases : Covered(y))'
  <2>1. /\ pc = "packages" /\ pc' = "backup" /\ file' = file /\ pkg' = q
        /\ current' = current /\ remote' = remote /\ todo' = todo
        /\ q = Zos => todo = {Zos}
    BY <1>6 DEF Install, bootVars, diskVars
  <2>2. ZosWaits'
    BY <2>1 DEF ZosWaits
  <2> QED
    BY <1>0, <1>3, <2>1, <2>2
<1>7. CASE Backup
  <2>1. /\ pc = "backup" /\ pc' = "write"
        /\ UNCHANGED <<current, remote, todo, pkg>>
        /\ file'[pkg] = Missing /\ backup'[pkg] = file[pkg]
        /\ \A p \in Packages \ {pkg} : file'[p] = file[p]
    BY <1>0, <1>7 DEF Backup, bootVars
  <2>2. ZosWaits'
    BY <2>1 DEF ZosInv, ZosWaits
  <2>3. ASSUME NEW p \in Packages PROVE Held(p)' = Held(p)
    BY <2>1 DEF Held
  <2>4. ASSUME NEW y \in Releases, Covered(y) PROVE Covered(y)'
    BY <2>1, <2>3, <2>4 DEF Covered
  <2> QED
    BY <1>1, <1>2, <2>2, <2>4 DEF ZosInv, Bootstrapped
<1>8. CASE WriteFile
  <2>1. /\ pc = "write" /\ pc' \in {"start", "restart"}
        /\ UNCHANGED <<current, remote, todo, pkg>>
        /\ \/ file' = [file EXCEPT ![pkg] = Flist[remote][pkg]]
           \/ file' = [file EXCEPT ![pkg] = Restored("fail")]
    BY <1>8 DEF WriteFile, Fault, bootVars
  <2>2. ZosWaits'
    BY <2>1 DEF ZosWaits
  <2>3. /\ \A p \in Packages \ {pkg} : file'[p] = file[p]
        /\ file'[pkg] = Flist[remote][pkg] \/ file'[pkg] = Restored("fail")
    BY <1>0, <2>1
  <2>4. ASSUME Bootstrapped PROVE \E y \in Releases : Covered(y)'
    <3>0. current \in Releases /\ current < remote /\ pkg \in todo
      BY <1>0, <2>1, <2>4 DEF Updating, Listed, Installing
    <3>1. PICK y \in Releases : Covered(y)
      BY <2>4 DEF ZosInv
    <3>2. y <= remote
      BY <1>0, <3>0, <3>1 DEF Covered
    <3>3. Flist[y][pkg] <= Flist[remote][pkg]
      BY <1>0, <3>2 DEF FlistsGrow
    <3>4. /\ \A p \in Packages : Flist[y][p] \in Nat /\ Flist[remote][p] \in Nat
          /\ backup[pkg] \in Int /\ file[pkg] \in Int
      BY <1>0
    <3>5. CASE file'[pkg] = Restored("fail")
      <4>1. Held(pkg) = backup[pkg]
        BY <2>1 DEF Held
      <4>2. Restored("fail") <= backup[pkg]
            /\ (backup[pkg] # Missing => Restored("fail") = backup[pkg])
        BY <3>4 DEF Restored, Missing, Partial
      <4>3. pkg # Zos /\ Flist[y][pkg] # Missing => file'[pkg] >= Flist[y][pkg]
        BY <1>0, <3>1, <3>4, <3>5, <4>1, <4>2 DEF Covered, Missing
      <4>4. file'[Zos] <= Flist[y][Zos]
        <5>1. CASE pkg = Zos
          <6>1. backup[pkg] <= Flist[y][Zos] /\ Restored("fail") \in Int
            BY <3>1, <3>4, <4>1, <5>1 DEF Covered, Restored, Partial
          <6> QED
            BY <3>4, <3>5, <4>2, <5>1, <6>1
        <5>2. CASE pkg # Zos
          BY <2>1, <2>3, <3>1, <5>2 DEF Covered, Held
        <5> QED
          BY <5>1, <5>2
      <4>5. \A p \in Packages \ {Zos, pkg} :
                Flist[y][p] # Missing => file'[p] >= Flist[y][p]
        BY <2>1, <2>3, <3>1 DEF Covered, Held
      <4> QED
        BY <2>1, <3>2, <4>3, <4>4, <4>5 DEF Covered, Held
    <3>6. CASE file'[pkg] = Flist[remote][pkg] /\ pkg # Zos
      <4>1. \A p \in Packages \ {Zos} :
                Flist[y][p] # Missing => file'[p] >= Flist[y][p]
        BY <2>1, <2>3, <3>1, <3>3, <3>4, <3>6 DEF Covered, Held
      <4>2. file'[Zos] <= Flist[y][Zos]
        BY <2>1, <2>3, <3>1, <3>6 DEF Covered, Held
      <4> QED
        BY <2>1, <3>2, <4>1, <4>2 DEF Covered, Held
    <3>7. CASE file'[pkg] = Flist[remote][pkg] /\ pkg = Zos
      <4>1. todo = {Zos}
        BY <2>1, <3>7 DEF ZosInv, ZosWaits
      <4>2. ASSUME NEW p \in Packages \ {Zos}, Flist[remote][p] # Missing
            PROVE  file[p] = Flist[remote][p]
        BY <1>0, <2>1, <2>4, <4>1, <4>2 DEF Updating, Working, Managed, Same
      <4>3. \A p \in Packages \ {Zos} :
                Flist[remote][p] # Missing => file'[p] >= Flist[remote][p]
        BY <2>3, <3>4, <3>7, <4>2
      <4>4. file'[Zos] <= Flist[remote][Zos] /\ remote <= remote
        BY <1>0, <3>4, <3>7
      <4>5. ASSUME NEW z \in Releases, z = remote PROVE Covered(z)'
        BY <2>1, <4>3, <4>4, <4>5 DEF Covered, Held
      <4> QED
        BY <1>0, <4>5
    <3> QED
      BY <2>3, <3>5, <3>6, <3>7
  <2> QED
    BY <1>1, <1>2, <2>2, <2>4 DEF Bootstrapped
<1>9. CASE RestartServices
  <2>1. /\ pc = "restart" /\ pc' = "packages" /\ file' = file
        /\ current' = current /\ remote' = remote
    BY <1>9 DEF RestartServices, bootVars
  <2>2. ZosWaits'
    BY <2>1 DEF ZosWaits
  <2> QED
    BY <1>0, <1>2, <1>3, <2>1, <2>2
<1>10. CASE Finish
  <2>1. /\ pc = "packages" /\ pc' = "start" /\ file' = file /\ remote' = remote
        /\ node.method = "hub" => current' = remote
    BY <1>10 DEF Finish, diskVars
  <2>2. ZosWaits'
    BY <2>1 DEF ZosWaits
  <2>3. Bootstrapped => current < remote
    BY <1>0, <2>1 DEF Updating
  <2>4. ~Bootstrapped => (Bootstrapped => \E y \in Releases : Covered(y))'
    BY <1>1 DEF Bootstrapped
  <2> QED
    BY <1>2, <1>3, <2>1, <2>2, <2>3, <2>4 DEF Bootstrapped
<1> QED
  BY <1>2, <1>4, <1>5, <1>6, <1>7, <1>8, <1>9, <1>10 DEF UpgradeStep

\* Zos never is ahead of the packages it was released with, while an update is
\* interrupted at any point or a file is being replaced; provided that no
\* release drops a package or goes back to an older flist of it, that links
\* and versions only go forward, that no write of a file fails and that no
\* update starts before the bootstrap has ended (updateTo: zos comes last).
THEOREM ZosIsLastHolds ==
    ASSUME FlistsGrow, "rollback" \notin UpdateEnv, "overlap" \notin UpdateEnv,
           "copyError" \notin UpdateEnv
    PROVE  UpSpec => []ZosIsLast
<1>1. UpInit => ZosInv
  <2> SUFFICES ASSUME UpInit PROVE ZosInv
    OBVIOUS
  <2>1. ReleaseInv
    BY ReleaseInit
  <2>2. /\ node \in Nodes /\ bootPc = BootPc(node) /\ file = Image(node)
        /\ pc = "start"
    BY DEF UpInit, BootInit
  <2>3. node.method \in {"hub", "other"} /\ Zos \in Packages
    BY <2>2, BootstrapAssumption
  <2>4. ~Bootstrapped /\ ZosBoot
    BY <2>2, <2>3, ImageType DEF Bootstrapped, ZosBoot, Image, BootPc
  <2> QED
    BY <2>1, <2>2, <2>4 DEF ZosInv, ZosWaits
<1>2. ZosInv /\ [UpNext]_upVars => ZosInv'
  <2> SUFFICES ASSUME ZosInv, [UpNext]_upVars PROVE ZosInv'
    OBVIOUS
  <2>1. ReleaseInv'
    BY ReleaseStepKeeps, FlistsGrowNeverRevert DEF ZosInv
  <2>2. CASE UpgradeStep \/ UpgradeFail \/ Kill
    <3>1. UNCHANGED installVars /\ bootPc \in {"done", "failed"}
      BY <2>2, UpgradeAlone DEF ZosInv, ReleaseInv, UpTypeInv
    <3> QED
      BY <2>1, <2>2, <3>1, UpgradeCovers DEF ZosInv
  <2>3. CASE (BootStep \/ BootFail) /\ UNCHANGED upgraderVars
    BY <2>1, <2>3, BootCovers DEF ZosInv
  <2>4. CASE Reboot
    <3>1. /\ node \in Nodes /\ node' = node /\ bootPc' = BootPc(node)
          /\ file' = Image(node) /\ pc' = "start"
      BY <2>4 DEF Reboot, BootReset, ZosInv, ReleaseInv, UpTypeInv, UpType
    <3>2. node.method \in {"hub", "other"} /\ Zos \in Packages
      BY <3>1, BootstrapAssumption
    <3>3. ~Bootstrapped' /\ ZosBoot'
      BY <3>1, <3>2, ImageType DEF Bootstrapped, ZosBoot, Image, BootPc
    <3> QED
      BY <2>1, <3>1, <3>3 DEF ZosInv, ZosWaits
  <2>5. CASE UNCHANGED nodeVars
    <3>1. UNCHANGED <<node, current, file, backup, pc, remote, todo, pkg, bootPc,
                      bootRelease>>
      BY <2>5 DEF nodeVars, bootVars, installVars, diskVars
    <3>2. ASSUME NEW y \in Releases, Covered(y) PROVE Covered(y)'
      BY <3>1, <3>2 DEF Covered, Held
    <3> QED
      BY <2>1, <3>1, <3>2 DEF ZosInv, ZosBoot, ZosWaits, Bootstrapped
  <2> QED
    BY <2>2, <2>3, <2>4, <2>5 DEF UpNext, HubStep, BootstrapStep, DevLink, upVars
<1>3. ZosInv => ZosIsLast
  <2> SUFFICES ASSUME ZosInv, Bootstrapped, NEW r \in Releases,
                      file[Zos] = Flist[r][Zos],
                      \A q \in Releases : Flist[q][Zos] = file[Zos] => r <= q,
                      NEW p \in Packages, Managed(p, r)
               PROVE  file[p] >= Flist[r][p] \/ backup[p] >= Flist[r][p]
    BY DEF ZosIsLast
  <2>0. /\ Releases \subseteq Nat /\ Zos \in Packages
        /\ \A x \in Releases, q \in Packages : Flist[x][q] \in Nat
        /\ file \in [Packages -> Int] /\ backup \in [Packages -> Int]
    BY ReleasesAreNat, BootstrapAssumption DEF ZosInv, ReleaseInv, UpTypeInv, UpType
  <2>1. PICK y \in Releases : Covered(y)
    BY DEF ZosInv
  <2>2. file[Zos] <= Flist[y][Zos]
    <3>1. CASE pc = "write" /\ pkg = Zos
      <4>1. file[Zos] = 0
        BY <3>1 DEF ZosInv, ZosWaits, Missing
      <4> QED
        BY <2>0, <4>1
    <3>2. CASE ~(pc = "write" /\ pkg = Zos)
      BY <2>1, <3>2 DEF Covered, Held
    <3> QED
      BY <3>1, <3>2
  <2>3. r <= y
    <3> SUFFICES ASSUME y <= r PROVE r <= y
      BY <2>0, <2>1
    <3>1. Flist[y][Zos] <= Flist[r][Zos]
      BY <2>0 DEF FlistsGrow
    <3>2. Flist[y][Zos] = file[Zos]
      BY <2>0, <2>2, <3>1
    <3> QED
      BY <3>2
  <2>4. Flist[r][p] <= Flist[y][p] /\ Flist[r][p] # Missing
    BY <2>0, <2>3 DEF FlistsGrow, Managed
  <2>5. CASE p = Zos
    BY <2>0, <2>5
  <2>6. CASE p # Zos
    <3>1. Flist[y][p] # Missing
      BY <2>0, <2>4 DEF Missing
    <3>2. Held(p) >= Flist[y][p]
      BY <2>1, <2>6, <3>1 DEF Covered
    <3>3. Held(p) \in {file[p], backup[p]}
      BY DEF Held
    <3> QED
      BY <2>0, <2>4, <3>2, <3>3
  <2> QED
    BY <2>5, <2>6
<1> QED
  BY <1>1, <1>2, <1>3, PTL DEF UpSpec

=============================================================================
