--------------------------- MODULE ContractEvents ---------------------------
(***************************************************************************)
(* The engine and provisiond's contract event handler                      *)
(* (cmds/modules/provisiond/events.go) with its hourly synchronisation.    *)
(* The contracts live on the chain, which the node sees through the        *)
(* registrar gateway and through streams of events.                        *)
(***************************************************************************)
EXTENDS Engine

CONSTANTS
    Gateway,   \* how the registrar gateway answers: "chain", "flaky", "stub"
    Lossy,     \* the kinds of events that can get lost: "cancel", "lock"
    MaxLocks   \* bound: times a contract enters or leaves its grace period

ASSUME HandlerAssumption ==
    /\ Gateway \in {"chain", "flaky", "stub"}
    /\ Lossy \subseteq {"cancel", "lock"}
    /\ MaxLocks \in Nat
    /\ Callers = {"handler", "sync"}

VARIABLES
    \* the chain, and the events on their way to the handler
    chain, locks, cancelEvents, lockEvents,
    \* ContractEventHandler: the run of sync under way
    handling, syncPc, syncGone, syncActive, syncLocked, syncAct

chainVars == <<chain, locks>>
eventVars == <<cancelEvents, lockEvents>>
syncVars == <<handling, syncPc, syncGone, syncActive, syncLocked, syncAct>>
handlerVars == <<chainVars, eventVars, syncVars>>
allVars == <<vars, handlerVars>>

Alive == {"created", "grace"}
OkaySet(c) == {n \in Names : workloads[c][n] \in Okay}

NodeInit ==
    /\ Init
    /\ chain = [c \in Contracts |-> "none"]
    /\ locks = [c \in Contracts |-> 0]
    /\ cancelEvents = {} /\ lockEvents = <<>>
    /\ handling = FALSE /\ syncPc = "idle"
    /\ syncGone = {} /\ syncActive = {} /\ syncLocked = {} /\ syncAct = {}

-----------------------------------------------------------------------------
(***************************************************************************)
(* The chain, and the events it sends to the node's consumers.             *)
(***************************************************************************)
CreateContract(c) ==
    /\ chain[c] = "none"
    /\ chain' = [chain EXCEPT ![c] = "created"]
    /\ UNCHANGED <<vars, locks, eventVars, syncVars>>

LockContract(c, lock) ==
    /\ chain[c] = IF lock THEN "created" ELSE "grace"
    /\ locks[c] < MaxLocks
    /\ chain' = [chain EXCEPT ![c] = IF lock THEN "grace" ELSE "created"]
    /\ locks' = [locks EXCEPT ![c] = @ + 1]
    /\ \/ lockEvents' = Append(lockEvents, [c |-> c, lock |-> lock])
       \/ "lock" \in Lossy /\ UNCHANGED lockEvents
    /\ UNCHANGED <<vars, cancelEvents, syncVars>>

CancelContract(c) ==
    /\ "deprovision" \in Env
    /\ chain[c] \in Alive
    /\ chain' = [chain EXCEPT ![c] = "deleted"]
    /\ \/ cancelEvents' = cancelEvents \cup {c}
       \/ "cancel" \in Lossy /\ UNCHANGED cancelEvents
    /\ UNCHANGED <<vars, locks, lockEvents, syncVars>>

\* The registrar gateway: GetContract, as validate sees the answer, and
\* GetNodeContracts.  The stub answers with a contract of no type, and with
\* no contracts.
GetContract(c) ==
    IF Gateway = "stub" \/ chain[c] \notin Alive THEN {"failed"}
    ELSE {"valid"} \cup {r \in {"failed"} : Gateway = "flaky"}

GetNodeContracts == IF Gateway = "stub" THEN {}
                    ELSE {c \in Contracts : chain[c] \in Alive}

-----------------------------------------------------------------------------
(***************************************************************************)
(* ContractEventHandler.Run.  A failed call of the engine is only logged.  *)
(* The hourly sync is a goroutine of its own: the handler and sync each    *)
(* may hold a copy of a deployment that is not enqueued yet.               *)
(***************************************************************************)
Request(g, op, c) == IF c \in deployments THEN Schedule(g, op, c)
                                          ELSE UNCHANGED vars

HandleCancel(c) ==
    /\ booted /\ handling /\ Free("handler")
    /\ c \in cancelEvents
    /\ cancelEvents' = cancelEvents \ {c}
    /\ Request("handler", "deprovision", c)
    /\ UNCHANGED <<chainVars, lockEvents, syncVars>>

HandleLock ==
    /\ booted /\ handling /\ Free("handler")
    /\ lockEvents # <<>>
    /\ lockEvents' = Tail(lockEvents)
    /\ LET e == Head(lockEvents)
       IN  Request("handler", IF e.lock THEN "pause" ELSE "resume", e.c)
    /\ UNCHANGED <<chainVars, cancelEvents, syncVars>>

\* provisiond starts again: a sync under way is lost.
Restart == /\ handling' = FALSE /\ syncPc' = "idle"
           /\ syncGone' = {} /\ syncActive' = {} /\ syncLocked' = {}
           /\ syncAct' = {}
           /\ UNCHANGED <<chainVars, eventVars>>

\* Mutant: a deployment is taken for locked when a workload is in use.
IsUnlocked(c) == \E n \in Names : workloads[c][n] = "ok"

\* isLocked: a workload of the deployment is paused.
IsLocked(c) == \E n \in Names : workloads[c][n] = "paused"

\* sync: the deployments with an okay workload, with their lock as stored ...
SyncStart ==
    /\ booted /\ syncPc = "idle"
    /\ syncActive' = {c \in deployments : OkaySet(c) # {}}
    /\ syncLocked' = {c \in deployments : IsLocked(c)}
    /\ syncPc' = "list"
    /\ UNCHANGED <<vars, chainVars, eventVars, handling, syncGone, syncAct>>

\* ... then the contracts of this node ...
SyncList ==
    /\ syncPc = "list"
    /\ syncPc' = "apply"
    /\ syncGone' = syncActive \ GetNodeContracts
    /\ syncActive' = syncActive \cap GetNodeContracts
    /\ UNCHANGED <<vars, chainVars, eventVars, handling, syncLocked, syncAct>>

\* (an error ends the sync; the first one ends provisiond, to be restarted)
SyncFail ==
    /\ Gateway = "flaky" /\ syncPc = "list"
    /\ \/ /\ handling
          /\ syncPc' = "idle" /\ syncActive' = {} /\ syncLocked' = {}
          /\ UNCHANGED <<vars, chainVars, eventVars, handling, syncGone, syncAct>>
       \/ ~handling /\ Crash /\ Restart

\* ... then what is not on the chain is deprovisioned ...
SyncGone(c) ==
    /\ syncPc = "apply" /\ Free("sync")
    /\ c \in syncGone
    /\ syncGone' = syncGone \ {c}
    /\ Request("sync", "deprovision", c)
    /\ UNCHANGED <<chainVars, eventVars, handling, syncPc, syncActive,
                   syncLocked, syncAct>>

\* ... and each contract that is there is looked up; its deployment is to be
\* paused or resumed when its lock differs; a failed call skips it ...
SyncLock(c) ==
    /\ syncPc = "apply" /\ Free("sync") /\ syncGone = {} /\ syncAct = {}
    /\ c \in syncActive
    /\ syncActive' = syncActive \ {c}
    /\ LET locked == chain[c] = "grace"
       IN  \E reply \in GetContract(c) :
             syncAct' = IF reply = "valid" /\ locked # (c \in syncLocked)
                        THEN {[c |-> c, op |-> IF locked THEN "pause" ELSE "resume"]}
                        ELSE {}
    /\ UNCHANGED <<vars, chainVars, eventVars, handling, syncPc, syncGone,
                   syncLocked>>

\* ... by a call of the engine.
SyncChange ==
    /\ syncPc = "apply"
    /\ \E a \in syncAct : Request("sync", a.op, a.c)
    /\ syncAct' = {}
    /\ UNCHANGED <<chainVars, eventVars, handling, syncPc, syncGone, syncActive,
                   syncLocked>>

\* The handler waits for events once the first sync is over.
SyncDone ==
    /\ syncPc = "apply" /\ Free("sync")
    /\ syncGone = {} /\ syncActive = {} /\ syncAct = {}
    /\ syncPc' = "idle" /\ handling' = TRUE
    /\ syncLocked' = {}
    /\ UNCHANGED <<vars, chainVars, eventVars, syncGone, syncActive, syncAct>>

SyncStep == \/ SyncList
            \/ SyncFail
            \/ \E c \in Contracts : SyncGone(c) \/ SyncLock(c)
            \/ SyncChange
            \/ SyncDone

HandlerStep == HandleLock \/ \E c \in cancelEvents : HandleCancel(c)

-----------------------------------------------------------------------------
\* A deployment names an existing contract.
UserStep == /\ Api
            /\ \A c \in deployments' : chain[c] # "none"
            /\ UNCHANGED handlerVars

BeginStep == /\ queue # <<>>
             /\ \E reply \in IF NeedsContract THEN GetContract(head.c)
                                              ELSE {"valid"} : Begin(reply)
             /\ UNCHANGED handlerVars

WorkerStep == ((Work \/ Callback) /\ UNCHANGED handlerVars) \/ BeginStep

ChainStep == \E c \in Contracts :
                \/ CreateContract(c)
                \/ \E lock \in BOOLEAN : LockContract(c, lock)
                \/ CancelContract(c)

NodeNext ==
    \/ ChainStep
    \/ UserStep
    \/ ApiStep /\ UNCHANGED handlerVars
    \/ EventStep /\ UNCHANGED handlerVars
    \/ WorkerStep
    \/ HandlerStep
    \/ SyncStart
    \/ SyncStep
    \/ MarkBooted /\ UNCHANGED handlerVars
    \/ Crash /\ Restart
    \/ Reboot /\ Restart

NodeSpec == NodeInit /\ [][NodeNext]_allVars

EnqueueBy(g) == /\ \E t \in scheduled : t.by = g /\ EnqueueScheduled(t)
                /\ UNCHANGED handlerVars

\* The goroutines of provisiond.
MainThread == (MarkBooted \/ ApiStep) /\ UNCHANGED handlerVars
HandlerThread == HandlerStep \/ EnqueueBy("handler")
SyncThread == SyncStart \/ SyncStep \/ EnqueueBy("sync")

\* Each of them keeps running and the ticker of the handler fires.
NodeFairSpec ==
    /\ NodeSpec
    /\ WF_allVars(WorkerStep) /\ WF_allVars(MainThread)
    /\ WF_allVars(HandlerThread) /\ WF_allVars(SyncThread)

-----------------------------------------------------------------------------
(* Properties *)

\* Every variable has its type.
HandlerTypeOK ==
    /\ chain \in [Contracts -> {"none", "created", "grace", "deleted"}]
    /\ locks \in [Contracts -> 0 .. MaxLocks]
    /\ cancelEvents \subseteq Contracts
    /\ lockEvents \in Seq([c : Contracts, lock : BOOLEAN])
    /\ handling \in BOOLEAN
    /\ syncPc \in {"idle", "list", "apply"}
    /\ syncGone \subseteq Contracts
    /\ syncActive \subseteq Contracts
    /\ syncLocked \subseteq Contracts
    /\ syncAct \subseteq [c : Contracts, op : {"pause", "resume"}]
NodeTypeOK == TypeOK /\ HandlerTypeOK

\* Once a deployment is deleted (uninstallDeployment), nothing of it is left
\* running on the node.
DeletedIsUninstalled ==
    \A c \in Contracts : c \notin deployments => provisioned[c] = {}

\* What a cancelled contract had on the node is uninstalled for good (Run and
\* sync of the event handler).
CancelledIsUninstalled ==
    \A c \in Contracts :
        chain[c] = "deleted" ~> [](provisioned[c] = {})

\* A contract that stays in its grace period ends with no workload in use,
\* and one that stays out of it with no workload paused (sync: deployments
\* have the same state as their contracts).
LockFollowsChain ==
    \A c \in Contracts :
        /\ <>[](chain[c] = "grace")
            => <>[](\A n \in Names : workloads[c][n] # "ok")
        /\ <>[](chain[c] = "created")
            => <>[](\A n \in Names : workloads[c][n] # "paused")

=============================================================================
