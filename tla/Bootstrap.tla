------------------------------ MODULE Bootstrap ------------------------------
(***************************************************************************)
(* The bootstrap of a node (bootstrap/bootstrap): a process that is run    *)
(* once when the node starts.  It looks the tag link up, records it,       *)
(* installs every package of the release and starts its services, while    *)
(* the hub goes on.  The system lives in memory: a reboot starts over.     *)
(*                                                                         *)
(* A package stands for one file and for its services; identityd, which    *)
(* runs the upgrader, is a service of zos that is looked at by itself.     *)
(* Files and services are named after the flist they come from, a number   *)
(* that grows with every change of the package.                            *)
(***************************************************************************)
EXTENDS UpdateWorker

CONSTANTS
    Packages,
    Zos,       \* the package that holds the upgrader
    Flist,     \* the flist of a package in a release, 0 when it has none
    Nodes      \* the kinds of nodes: boot method, network, test farm, -d flag

Missing == 0

ASSUME BootstrapAssumption ==
    /\ Zos \in Packages
    /\ Flist \in [Releases -> [Packages -> Nat]]
    /\ Nodes \subseteq [method : {"hub", "other"}, dev : BOOLEAN,
                        testFarm : BOOLEAN, noZos : BOOLEAN]

VARIABLES
    node,            \* the kind of this node
    current,         \* the recorded release
    file, running,   \* what is on disk and what the services run
    identityd,       \* the zos that the upgrader itself runs
    refused,         \* packages whose services zinit last did not stop or start
    bootPc, bootRelease, bootTodo, bootPkg   \* the bootstrap process

serviceVars == <<running, identityd, refused>>
installVars == <<bootPc, bootRelease, bootTodo, bootPkg>>

\* The packages of a release.
Content(r) == {p \in Packages : Flist[r][p] # Missing}

\* A node that boots from the hub starts with nothing; an image of another
\* kind holds zos of release 1 and runs no bootstrap.
Image(n) == [p \in Packages |-> IF n.method = "other" /\ p = Zos
                                THEN Flist[1][p] ELSE Missing]
BootPc(n) == IF n.method = "other" THEN "done" ELSE "tag"
Recorded(n) == IF n.method = "other" THEN 1 ELSE NoLink

BootInit ==
    /\ WorkerInit
    /\ node \in Nodes
    /\ current = Recorded(node)
    /\ file = Image(node) /\ running = file
    /\ identityd = file[Zos] /\ refused = {}
    /\ bootPc = BootPc(node) /\ bootRelease = 1 /\ bootTodo = {} /\ bootPkg = Zos

\* Everything in memory is gone.
BootReset ==
    /\ current' = Recorded(node)
    /\ file' = Image(node) /\ running' = file'
    /\ identityd' = file'[Zos] /\ refused' = {}
    /\ bootPc' = BootPc(node)
    /\ UNCHANGED <<node, bootRelease, bootTodo, bootPkg>>

-----------------------------------------------------------------------------
\* install_packages: done after the last package.
After(rest) == IF rest = {} THEN "done" ELSE "install"

\* install: the tag link is read and recorded, then its packages are listed.
\* When there is no link the bootstrap gives up.
BootTag ==
    /\ bootPc = "tag"
    /\ \/ /\ link # NoLink
          /\ current' = link /\ bootRelease' = link /\ bootTodo' = Content(link)
          /\ bootPc' = After(bootTodo')
       \/ /\ link = NoLink
          /\ bootPc' = "failed"
          /\ UNCHANGED <<current, bootRelease, bootTodo>>
    /\ UNCHANGED <<hubVars, faults, node, file, serviceVars, bootPkg>>

\* install_package: the flist is downloaded and mounted, its files are copied
\* under another name and renamed, in the order of the list ...
BootInstall(p) ==
    /\ bootPc = "install" /\ p \in bootTodo
    /\ file' = [file EXCEPT ![p] = Flist[bootRelease][p]]
    /\ bootPkg' = p /\ bootPc' = "run"
    /\ UNCHANGED <<hubVars, faults, node, current, serviceVars, bootRelease, bootTodo>>

\* ... and run_all starts its services, with those of zos the upgrader; that
\* zinit refuses to start one of them is only logged.
Run(ok, up) ==
    /\ running' = [running EXCEPT ![bootPkg] = IF ok THEN file[bootPkg] ELSE @]
    /\ refused' = IF ok THEN refused ELSE refused \cup {bootPkg}
    /\ identityd' = IF bootPkg = Zos /\ up THEN file[Zos] ELSE identityd

BootRun ==
    /\ bootPc = "run"
    /\ \/ Run(TRUE, TRUE) /\ UNCHANGED faults
       \/ Fault("zinit") /\ \E ok, up \in BOOLEAN : Run(ok, up)
    /\ bootTodo' = bootTodo \ {bootPkg}
    /\ bootPc' = After(bootTodo')
    /\ UNCHANGED <<hubVars, node, current, file, bootRelease, bootPkg>>

\* A call to the hub or to the disk fails: the process ends, for good.
BootFail ==
    /\ bootPc \in {"tag", "install", "run"}
    /\ Fault("fail")
    /\ bootPc' = "failed"
    /\ UNCHANGED <<hubVars, node, current, file, serviceVars, bootRelease, bootTodo,
                   bootPkg>>

BootStep == \/ BootTag
            \/ \E p \in bootTodo : BootInstall(p)
            \/ BootRun

=============================================================================
