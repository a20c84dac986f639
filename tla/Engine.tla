------------------------------- MODULE Engine -------------------------------
(***************************************************************************)
(* The provision engine of a Zero-OS node (pkg/provision/engine.go): a     *)
(* persistent FIFO of jobs, a single worker that runs them against the     *)
(* workload managers and the deployment storage, the zbus API thread, and  *)
(* the goroutines that schedule jobs from contract events.                 *)
(*                                                                         *)
(* The storage (bolt), the queue (dque) and the managers live outside the  *)
(* repository; every call of the worker to one of them is a step of its    *)
(* own, so that the other threads, a process crash or a reboot can come    *)
(* between two calls.                                                      *)
(***************************************************************************)
EXTENDS Integers, Sequences, FiniteSets

CONSTANTS
    Contracts,   \* contract ids, one deployment each
    Names,       \* workload names
    TypeIndex,   \* position of a workload's type in the startup order
    Updatable,   \* workloads whose manager implements Updater
    Env,         \* the requests and the failures that may happen
    MaxVersion,  \* bound: accepted updates of one deployment
    MaxQueue,    \* bound: jobs in the queue when a request is enqueued
    Callers      \* goroutines that deprovision, pause and resume

\* Requests a user, the chain or the system may send, and faults.
Requests == {"update", "deprovision", "pause", "resume", "decommission"}
Faults == {"provisionError", "deprovisionError", "updateError", "lockError",
           "invalidContract", "gatewayError", "queueError", "crash", "reboot"}

ASSUME EngineAssumption ==
    /\ Names # {}
    /\ TypeIndex \in [Names -> Nat \ {0}]
    /\ Updatable \subseteq Names
    /\ Env \subseteq Requests \cup Faults
    /\ MaxVersion \in Nat
    /\ MaxQueue \in Nat \ {0}

VARIABLES
    \* bolt storage
    deployments,  \* contracts that have a deployment record
    version,      \* version of the stored deployment
    workloads,    \* last state of each workload, "absent" when there is none
    \* what the managers really run on the node
    provisioned,
    \* the "jobs" queue on disk
    queue,
    \* the engine goroutine (NativeEngine.Run)
    pc, toBoot, todo, cur, result, failed, done,
    \* the zbus worker: a job about to be enqueued, a decommission under way
    apiJobs, decom,
    \* jobs built by the goroutines of Callers and not enqueued yet
    scheduled,
    \* the first-boot flag, kept in the memory of the node until a reboot
    booted

storageVars == <<deployments, version, workloads>>
workerVars == <<pc, toBoot, todo, cur, result, failed, done>>
apiVars == <<apiJobs, decom>>
vars == <<storageVars, provisioned, queue, workerVars, apiVars, scheduled,
          booted>>

-----------------------------------------------------------------------------
States == {"absent", "init", "ok", "paused", "error", "deleted"}
\* gridtypes.ResultState.IsOkay
Okay == {"ok", "paused"}

Ops == {"provision", "provisionNoValidation", "deprovision", "pause",
        "resume", "update"}
\* What the worker does to one workload of a job.
Steps == {"none", "add", "update", "remove", "lock", "unlock"}

\* A job and what its copy of the deployment makes the worker do.
Job == [op : Ops, c : Contracts, plan : [Names -> Steps]]
\* A job in the hand of one of Callers.
Ticket == [by : Callers, job : Job]

Decommission == [c : Contracts, n : Names,
                 pc : {"call", "commit", "remove"},
                 state : {"deleted", "error"}]

Nothing == [n \in Names |-> "absent"]
NoName == CHOOSE n \in Names : TRUE
Stored(c) == {n \in Names : workloads[c][n] # "absent"}

\* Mutant: a deployment counts as active only once a workload was installed.
IsInstalled(snap) == \E n \in Names : snap[n] \in Okay

\* gridtypes.Deployment.IsActive
IsActive(snap) == \E n \in Names : snap[n] \notin {"absent", "error", "deleted"}

\* Mutant: a deprovision only visits the workloads that its copy shows in use.
StepForOkay(op, state) ==
    IF state = "absent" THEN "none"
    ELSE CASE op = "deprovision" -> IF state \in Okay THEN "remove" ELSE "none"
           [] op = "pause"       -> IF state = "ok" THEN "lock" ELSE "none"
           [] op = "resume"      -> IF state = "paused" THEN "unlock" ELSE "none"
           [] OTHER              -> "add"

\* The loops of installDeployment, uninstallDeployment, lockDeployment and
\* unlockDeployment visit every workload of the job's copy; mapProvisioner's
\* Pause and Resume refuse a copy in another state than ok, or paused.
StepFor(op, state) ==
    IF state = "absent" THEN "none"
    ELSE CASE op = "deprovision" -> "remove"
           [] op = "pause"       -> IF state = "ok" THEN "lock" ELSE "none"
           [] op = "resume"      -> IF state = "paused" THEN "unlock" ELSE "none"
           [] OTHER              -> "add"

JobOf(op, c, snap) ==
    [op |-> op, c |-> c, plan |-> [n \in Names |-> StepFor(op, snap[n])]]

\* gridtypes.Deployment.Upgrade: the operations from a snapshot to a target.
UpgradeStep(state, kept, changed) ==
    CASE kept /\ state = "absent"              -> "add"
      [] ~kept /\ state # "absent"             -> "remove"
      [] kept /\ changed /\ state # "absent"   -> "update"
      [] OTHER                                 -> "none"

Upgrade(snap, target, changed) ==
    [n \in Names |-> UpgradeStep(snap[n], n \in target, n \in changed)]

\* Position of a step in the job: installs, updates and unlocks in startup
\* order, removes and locks in reverse order and before them.
Rank(j, n) == IF j.plan[n] \in {"remove", "lock"} THEN -TypeIndex[n]
                                                  ELSE TypeIndex[n]

-----------------------------------------------------------------------------
\* A node that starts for the first time.
Init ==
    /\ deployments = {}
    /\ version = [c \in Contracts |-> 0]
    /\ workloads = [c \in Contracts |-> Nothing]
    /\ provisioned = [c \in Contracts |-> {}]
    /\ queue = <<>>
    /\ pc = "boot" /\ toBoot = {} /\ todo = {}
    /\ cur = NoName /\ result = "init" /\ failed = FALSE /\ done = {}
    /\ apiJobs = {} /\ decom = {} /\ scheduled = {}
    /\ booted = FALSE

-----------------------------------------------------------------------------
(***************************************************************************)
(* The zbus API.  The server runs one worker, started after MarkBooted.    *)
(***************************************************************************)
ApiIdle == booted /\ apiJobs = {} /\ decom = {}

\* CreateOrUpdate(update = false) up to storage.Create.
Provision(c, names) ==
    /\ ApiIdle
    /\ c \notin deployments
    /\ LET snap == [n \in Names |-> IF n \in names THEN "init" ELSE "absent"]
       IN  /\ workloads' = [workloads EXCEPT ![c] = snap]
           /\ apiJobs' = {JobOf("provision", c, snap)}
    /\ deployments' = deployments \cup {c}
    /\ version' = [version EXCEPT ![c] = 0]
    /\ UNCHANGED <<provisioned, queue, workerVars, decom, scheduled, booted>>

\* CreateOrUpdate(update = true) up to storage.Update: the job keeps the
\* operations computed from the deployment as it is stored now.
Update(c, target, changed) ==
    /\ "update" \in Env
    /\ ApiIdle
    /\ c \in deployments
    /\ version[c] < MaxVersion
    /\ changed \subseteq target
    /\ LET plan == Upgrade(workloads[c], target, changed)
       IN  /\ \A n \in Names : plan[n] = "update" => n \in Updatable
           /\ apiJobs' = {[op |-> "update", c |-> c, plan |-> plan]}
    /\ version' = [version EXCEPT ![c] = @ + 1]
    /\ UNCHANGED <<deployments, workloads, provisioned, queue, workerVars,
                   decom, scheduled, booted>>

\* The last line of Provision and of Update.
ApiEnqueue ==
    /\ Len(queue) < MaxQueue
    /\ \E j \in apiJobs : queue' = Append(queue, j)
    /\ apiJobs' = {}
    /\ UNCHANGED <<storageVars, provisioned, workerVars, decom, scheduled,
                   booted>>

\* DecommissionCached, first half: both reads of the workload's last state.
DecommissionStart(c, n) ==
    /\ "decommission" \in Env
    /\ ApiIdle
    /\ workloads[c][n] \notin {"absent", "deleted", "error"}
    /\ decom' = {[c |-> c, n |-> n, pc |-> "call", state |-> "deleted"]}
    /\ UNCHANGED <<storageVars, provisioned, queue, workerVars, apiJobs,
                   scheduled, booted>>

\* uninstallWorkload called from DecommissionCached: manager.Deprovision.
DecommissionCall(t) ==
    /\ t \in decom /\ t.pc = "call"
    /\ \/ /\ provisioned' = [provisioned EXCEPT ![t.c] = @ \ {t.n}]
          /\ decom' = {[t EXCEPT !.pc = "commit"]}
       \/ /\ "deprovisionError" \in Env
          /\ decom' = {[t EXCEPT !.pc = "commit", !.state = "error"]}
          /\ UNCHANGED provisioned
    /\ UNCHANGED <<storageVars, queue, workerVars, apiJobs, scheduled, booted>>

\* ... storage.Transaction, which fails when the workload is gone.
DecommissionCommit(t) ==
    /\ t \in decom /\ t.pc = "commit"
    /\ \/ /\ workloads[t.c][t.n] = "absent"
          /\ decom' = {}
          /\ UNCHANGED workloads
       \/ /\ workloads[t.c][t.n] # "absent"
          /\ workloads' = [workloads EXCEPT ![t.c][t.n] = t.state]
          /\ decom' = IF t.state = "deleted"
                      THEN {[t EXCEPT !.pc = "remove"]} ELSE {}
    /\ UNCHANGED <<deployments, version, provisioned, queue, workerVars,
                   apiJobs, scheduled, booted>>

\* ... storage.Remove
DecommissionRemove(t) ==
    /\ t \in decom /\ t.pc = "remove"
    /\ workloads' = [workloads EXCEPT ![t.c][t.n] = "absent"]
    /\ decom' = {}
    /\ UNCHANGED <<deployments, version, provisioned, queue, workerVars,
                   apiJobs, scheduled, booted>>

-----------------------------------------------------------------------------
(***************************************************************************)
(* Deprovision, Pause and Resume, called from the event handler and from   *)
(* the sync goroutine: storage.Get, then queue.Enqueue.  Each goroutine    *)
(* goes on once its job is enqueued; they do not wait for each other.      *)
(***************************************************************************)
Free(g) == \A t \in scheduled : t.by # g

Schedule(g, op, c) ==
    /\ op \in {"deprovision", "pause", "resume"} \cap Env
    /\ booted /\ Free(g)
    /\ c \in deployments
    /\ scheduled' = scheduled \cup {[by |-> g, job |-> JobOf(op, c, workloads[c])]}
    /\ UNCHANGED <<storageVars, provisioned, queue, workerVars, apiVars,
                   booted>>

EnqueueScheduled(t) ==
    /\ t \in scheduled
    /\ Len(queue) < MaxQueue
    /\ queue' = Append(queue, t.job)
    /\ scheduled' = scheduled \ {t}
    /\ UNCHANGED <<storageVars, provisioned, workerVars, apiVars, booted>>

-----------------------------------------------------------------------------
(***************************************************************************)
(* NativeEngine.Run                                                        *)
(***************************************************************************)
\* boot: the deployments to go over are listed first ...
BootList ==
    /\ pc = "boot"
    /\ toBoot' = deployments
    /\ pc' = "scan"
    /\ UNCHANGED <<storageVars, provisioned, queue, todo, cur, result, failed,
                   done, apiVars, scheduled, booted>>

\* ... then each one is read and, if active, queued without validation.
BootScan(c) ==
    /\ pc = "scan"
    /\ c \in toBoot
    /\ toBoot' = toBoot \ {c}
    /\ queue' = IF c \in deployments /\ IsActive(workloads[c])
                THEN Append(queue, JobOf("provisionNoValidation", c,
                                         workloads[c]))
                ELSE queue
    /\ UNCHANGED <<storageVars, provisioned, pc, todo, cur, result, failed,
                   done, apiVars, scheduled, booted>>

BootDone ==
    /\ pc = "scan" /\ toBoot = {}
    /\ pc' = "idle"
    /\ UNCHANGED <<storageVars, provisioned, queue, toBoot, todo, cur, result,
                   failed, done, apiVars, scheduled, booted>>

\* PeekBlock returned the head of the queue.
head == Head(queue)
NeedsContract == head.op \in {"provision", "provisionNoValidation", "update"}

\* validate: the contract comes back as "valid", with another node or another
\* hash ("mismatch"), or not at all ("failed").  A boot job skips the check
\* of the node and of the hash.
Replies == {"valid"} \cup (IF "invalidContract" \in Env THEN {"mismatch"} ELSE {})
                     \cup (IF "gatewayError" \in Env THEN {"failed"} ELSE {})
Accepted(reply) ==
    \/ ~NeedsContract
    \/ reply = "valid"
    \/ reply = "mismatch" /\ head.op = "provisionNoValidation"

StartJob(reply) ==
    /\ pc = "idle" /\ queue # <<>>
    /\ reply \in Replies
    /\ Accepted(reply)
    /\ pc' = "next"
    /\ todo' = {n \in Names : head.plan[n] # "none"}
    /\ UNCHANGED <<storageVars, provisioned, queue, toBoot, cur, result, failed,
                   done, apiVars, scheduled, booted>>

\* Mutant: storage.Error only marks the workloads that are not installed.
ErroredNew(snap) ==
    [n \in Names |-> IF snap[n] = "init" THEN "error" ELSE snap[n]]

\* storage.Error
Errored(snap) ==
    [n \in Names |-> IF snap[n] = "absent" THEN "absent" ELSE "error"]

\* A failed validation: storage.Error puts every workload in error, and the
\* job is dropped.
RejectJob(reply) ==
    /\ pc = "idle" /\ queue # <<>>
    /\ reply \in Replies
    /\ ~Accepted(reply)
    /\ workloads' = [workloads EXCEPT ![head.c] = Errored(@)]
    /\ pc' = "discard"
    /\ UNCHANGED <<deployments, version, provisioned, queue, toBoot, todo, cur,
                   result, failed, done, apiVars, scheduled, booted>>

Discard ==
    /\ pc = "discard"
    /\ queue' = Tail(queue)
    /\ pc' = "idle"
    /\ UNCHANGED <<storageVars, provisioned, toBoot, todo, cur, result, failed,
                   done, apiVars, scheduled, booted>>

\* The worker goes on to the next workload of the job.
Skip(n) == /\ todo' = todo \ {n}
           /\ pc' = "next" /\ cur' = NoName /\ result' = "init"

\* Mutant: a workload in error is installed again.
NotDeleted(state) == state # "deleted"

\* The state of a workload that installWorkload goes on with.
Retriable(state) == state \notin {"error", "deleted"}

\* storage.Current at the top of installWorkload, uninstallWorkload and
\* lockWorkload, and what follows from it; storage.Add for a workload that an
\* update brings in.  updateWorkload reads nothing.
Checked(step, c, n) ==
    LET state == workloads[c][n] IN
    CASE step = "add"    -> c \in deployments /\ Retriable(state)
      [] step = "remove" -> c \in deployments /\ state # "absent"
      [] step = "update" -> TRUE
      [] OTHER           -> c \in deployments /\ state \in Okay

Check(n) ==
    /\ pc = "next"
    /\ n \in todo
    /\ \A m \in todo : Rank(head, n) <= Rank(head, m)
    /\ LET c == head.c
           step == head.plan[n]
       IN  \/ /\ Checked(step, c, n)
              /\ pc' = "call" /\ cur' = n
              /\ workloads' = IF step = "add" /\ workloads[c][n] = "absent"
                              THEN [workloads EXCEPT ![c][n] = "init"]
                              ELSE workloads
              /\ UNCHANGED <<todo, failed, result>>
           \/ /\ ~Checked(step, c, n)
              /\ Skip(n)
              /\ failed' = (failed \/ c \notin deployments)
              /\ UNCHANGED workloads
    /\ UNCHANGED <<deployments, version, provisioned, queue, toBoot, done,
                   apiVars, scheduled, booted>>

\* The provisioner's answer becomes the workload's next result.
Answer(state) == /\ result' = state
                 /\ pc' = "commit"
                 /\ UNCHANGED <<todo, cur>>

\* provisioner.Provision; a manager that already runs the workload may answer
\* ErrNoActionNeeded, and nothing is recorded.
CallProvision ==
    LET c == head.c IN
    /\ pc = "call" /\ head.plan[cur] = "add"
    /\ \/ /\ provisioned' = [provisioned EXCEPT ![c] = @ \cup {cur}]
          /\ Answer("ok")
       \/ /\ cur \in provisioned[c]
          /\ Skip(cur)
          /\ UNCHANGED provisioned
       \/ /\ "provisionError" \in Env
          /\ Answer("error")
          /\ UNCHANGED provisioned
    /\ UNCHANGED <<storageVars, queue, toBoot, failed, done, apiVars,
                   scheduled, booted>>

\* provisioner.Deprovision
CallDeprovision ==
    LET c == head.c IN
    /\ pc = "call" /\ head.plan[cur] = "remove"
    /\ \/ /\ provisioned' = [provisioned EXCEPT ![c] = @ \ {cur}]
          /\ Answer("deleted")
       \/ /\ "deprovisionError" \in Env
          /\ Answer("error")
          /\ UNCHANGED provisioned
    /\ UNCHANGED <<storageVars, queue, toBoot, failed, done, apiVars,
                   scheduled, booted>>

\* provisioner.Update: a manager updates what it runs; it may fail, leave the
\* workload as it was (UnChanged), or need no action, in which case the last
\* recorded result is written again.
CallUpdate ==
    LET c == head.c IN
    /\ pc = "call" /\ head.plan[cur] = "update"
    /\ \/ cur \in provisioned[c] /\ Answer("ok")
       \/ "updateError" \in Env /\ Answer("error")
       \/ "updateError" \in Env /\ Answer("unchanged")
       \/ workloads[c][cur] # "absent" /\ Answer(workloads[c][cur])
       \/ workloads[c][cur] = "absent" /\ Skip(cur)
    /\ UNCHANGED <<storageVars, provisioned, queue, toBoot, failed, done,
                   apiVars, scheduled, booted>>

\* provisioner.Pause and provisioner.Resume
CallLock ==
    /\ pc = "call" /\ head.plan[cur] \in {"lock", "unlock"}
    /\ \/ Answer(IF head.plan[cur] = "lock" THEN "paused" ELSE "ok")
       \/ "lockError" \in Env /\ Answer("error")
    /\ UNCHANGED <<storageVars, provisioned, queue, toBoot, failed, done,
                   apiVars, scheduled, booted>>

\* Mutant: UnChanged is recorded like any other state.
NeverUnChanged(state) == FALSE

\* A result that storage.Transaction does not record as the workload's state.
IsUnChanged(state) == state = "unchanged"

\* storage.Transaction, which fails when the workload is gone.
Commit ==
    LET c == head.c IN
    /\ pc = "commit"
    /\ \/ /\ workloads[c][cur] = "absent"
          /\ failed' = TRUE
          /\ Skip(cur)
          /\ UNCHANGED workloads
       \/ /\ workloads[c][cur] # "absent"
          /\ workloads' = IF IsUnChanged(result) THEN workloads
                          ELSE [workloads EXCEPT ![c][cur] = result]
          /\ \/ head.plan[cur] = "remove" /\ result = "deleted"
                /\ pc' = "remove" /\ UNCHANGED <<todo, cur, result>>
             \/ ~(head.plan[cur] = "remove" /\ result = "deleted")
                /\ Skip(cur)
          /\ UNCHANGED failed
    /\ UNCHANGED <<deployments, version, provisioned, queue, toBoot, done,
                   apiVars, scheduled, booted>>

\* storage.Remove at the end of uninstallWorkload.
Remove ==
    /\ pc = "remove"
    /\ workloads' = [workloads EXCEPT ![head.c][cur] = "absent"]
    /\ Skip(cur)
    /\ UNCHANGED <<deployments, version, provisioned, queue, toBoot, failed,
                   done, apiVars, scheduled, booted>>

\* Every workload was visited: uninstallDeployment deletes the deployment
\* unless one of them returned an error.
FinishJob ==
    /\ pc = "next" /\ todo = {}
    /\ pc' = "dequeue"
    /\ IF head.op = "deprovision" /\ ~failed
       THEN /\ deployments' = deployments \ {head.c}
            /\ workloads' = [workloads EXCEPT ![head.c] = Nothing]
            /\ version' = [version EXCEPT ![head.c] = 0]
       ELSE UNCHANGED storageVars
    /\ UNCHANGED <<provisioned, queue, toBoot, todo, cur, result, failed, done,
                   apiVars, scheduled, booted>>

Dequeue ==
    /\ pc = "dequeue"
    /\ queue' = Tail(queue)
    /\ done' = {[c |-> head.c, delete |-> head.op = "deprovision"]}
    /\ pc' = "callback" /\ failed' = FALSE
    /\ UNCHANGED <<storageVars, provisioned, toBoot, todo, cur, result,
                   apiVars, scheduled, booted>>

Callback ==
    /\ pc = "callback"
    /\ done' = {}
    /\ pc' = "idle"
    /\ UNCHANGED <<storageVars, provisioned, queue, toBoot, todo, cur, result,
                   failed, apiVars, scheduled, booted>>

-----------------------------------------------------------------------------
(***************************************************************************)
(* The life of the process.                                                *)
(***************************************************************************)
\* provisiond marks itself booted right after the engine goroutine started,
\* and only then serves events and the API.
MarkBooted ==
    /\ ~booted
    /\ booted' = TRUE
    /\ UNCHANGED <<storageVars, provisioned, queue, workerVars, apiVars,
                   scheduled>>

\* Mutant: a restart always begins with an empty queue.
NoJobs(rerunAll) == {<<>>}

\* New removes the queue when all deployments have to run again, and when it
\* cannot be opened; then it fails, and the start after that goes on without.
KeptJobs(rerunAll) == {IF rerunAll THEN <<>> ELSE queue}
                      \cup {<<>> : broken \in {"queueError"} \cap Env}

\* storage.CleanDeleted drops the deployments without a workload, then the
\* engine is created and run.
Start(rerunAll) ==
    /\ deployments' = {c \in deployments : Stored(c) # {}}
    /\ queue' \in KeptJobs(rerunAll)
    /\ pc' = IF rerunAll THEN "boot" ELSE "idle"
    /\ toBoot' = {} /\ todo' = {} /\ cur' = NoName /\ result' = "init"
    /\ failed' = FALSE /\ done' = {}
    /\ apiJobs' = {} /\ decom' = {} /\ scheduled' = {}
    /\ UNCHANGED <<version, workloads>>

\* provisiond dies (a restart by the upgrader, a panic) and zinit starts it.
Crash ==
    /\ "crash" \in Env
    /\ Start(~booted)
    /\ UNCHANGED <<provisioned, booted>>

\* The node reboots: the first-boot flag and everything that ran are gone.
Reboot ==
    /\ "reboot" \in Env
    /\ Start(TRUE)
    /\ booted' = FALSE
    /\ provisioned' = [c \in Contracts |-> {}]

-----------------------------------------------------------------------------
Api ==
    \/ \E c \in Contracts, names \in SUBSET Names \ {{}} : Provision(c, names)
    \/ \E c \in Contracts, target, changed \in SUBSET Names :
            Update(c, target, changed)
    \/ \E c \in Contracts, n \in Names : DecommissionStart(c, n)

ApiStep ==
    \/ ApiEnqueue
    \/ \E t \in decom : \/ DecommissionCall(t)
                        \/ DecommissionCommit(t)
                        \/ DecommissionRemove(t)

Events == \E g \in Callers, op \in Ops, c \in Contracts : Schedule(g, op, c)
EventStep == \E t \in scheduled : EnqueueScheduled(t)

Call == CallProvision \/ CallDeprovision \/ CallUpdate \/ CallLock

Begin(reply) == StartJob(reply) \/ RejectJob(reply)

Work ==
    \/ BootList
    \/ \E c \in toBoot : BootScan(c)
    \/ BootDone
    \/ Discard
    \/ \E n \in todo : Check(n)
    \/ Call
    \/ Commit
    \/ Remove
    \/ FinishJob
    \/ Dequeue

Run == Work \/ (\E reply \in Replies : Begin(reply)) \/ Callback

Next ==
    \/ Api
    \/ ApiStep
    \/ Events
    \/ EventStep
    \/ Run
    \/ MarkBooted
    \/ Crash
    \/ Reboot

Spec == Init /\ [][Next]_vars

-----------------------------------------------------------------------------
(* Properties *)

PCs == {"boot", "scan", "idle", "next", "call", "commit", "remove", "dequeue",
        "discard", "callback"}

\* Every variable has its type.
TypeOK ==
    /\ deployments \subseteq Contracts
    /\ version \in [Contracts -> 0 .. MaxVersion]
    /\ workloads \in [Contracts -> [Names -> States]]
    /\ provisioned \in [Contracts -> SUBSET Names]
    /\ queue \in Seq(Job)
    /\ pc \in PCs
    /\ toBoot \subseteq Contracts
    /\ todo \subseteq Names
    /\ cur \in Names
    /\ result \in States \cup {"unchanged"}
    /\ failed \in BOOLEAN
    /\ done \subseteq [c : Contracts, delete : BOOLEAN]
    /\ apiJobs \subseteq Job
    /\ decom \subseteq Decommission
    /\ scheduled \subseteq Ticket
    /\ booted \in BOOLEAN

\* The worker is inside the job at the head of the queue.
Running == pc \in {"next", "call", "commit", "remove", "dequeue", "discard"}
Booting == pc \in {"boot", "scan"}

\* Job i of the queue will still install or uninstall workload n of c.
Handles(i, c, n) ==
    /\ i \in DOMAIN queue
    /\ queue[i].c = c
    /\ queue[i].plan[n] \in {"add", "remove"}
    /\ i = 1 /\ Running => n \in todo

\* The engine still knows that it has to look at workload n of c.
Excused(c, n) ==
    \/ pc = "boot" \/ c \in toBoot
    \/ \E i \in DOMAIN queue : Handles(i, c, n)
    \/ \E j \in apiJobs : j.c = c /\ j.plan[n] \in {"add", "remove"}
    \/ \E t \in decom : /\ t.c = c /\ t.n = n
                        /\ t.pc \in {"commit", "remove"} /\ t.state = "deleted"

\* A workload that the storage shows as ok or paused is really provisioned on
\* the node, unless a job, the boot scan or a decommission that will correct
\* one of the two is still under way (install, uninstall and update of
\* workloads in engine.go, interrupted at any call).
StoredIsProvisioned ==
    \A c \in Contracts, n \in Names :
        workloads[c][n] \in Okay => n \in provisioned[c] \/ Excused(c, n)

\* A workload in state init that is not installed is waiting for a job or for
\* the boot scan: no accepted deployment is forgotten (Provision, boot).
NoStrandedInit ==
    \A c \in Contracts, n \in Names :
        workloads[c][n] = "init" /\ n \notin provisioned[c] => Excused(c, n)

\* installWorkload never gives a workload to its manager once the last
\* recorded state is an error or deleted ("we don't try again").
NotRetried ==
    \A c \in Contracts, n \in Names :
        n \in provisioned'[c] \ provisioned[c] =>
            workloads[c][n] \notin {"absent", "error", "deleted"}
NeverRetried == [][NotRetried]_vars

=============================================================================
