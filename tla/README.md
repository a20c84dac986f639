# Zero-OS 4: verification of the node

TLA+ models of the parts of Zero-OS that decide what runs on a node, model
checked with TLC on small instances; the main safety properties are proved with
TLAPS for every value of the constants.

## The system

A Zero-OS node runs *deployments*. A user creates a contract on the chain and
sends the deployment, a set of workloads, to the node over zbus. The node
checks the deployment against the contract, hands each workload to the manager
of its type, records the results, reports consumption, and removes everything
when the contract is cancelled. The node registers itself, goes off and on as
its farmer asks, installs itself from the hub and keeps itself up to date.

| Component | Source | State | Operations | Talks to |
|---|---|---|---|---|
| provision engine | `pkg/provision/engine.go` | job queue on disk, deployment storage, the job being run | CreateOrUpdate, Deprovision, Pause, Resume, DecommissionCached, the worker's loop, boot | managers, storage, gateway, callback |
| map provisioner | `pkg/provision/provisiner.go` (a copy of the one in zosbase that provisiond uses) | none | Provision, Deprovision, Update, Pause, Resume of one workload | managers |
| contract event handler | `cmds/modules/provisiond/events.go` | a sync under way | cancel and lock events, first and hourly sync | engine, gateway, chain events |
| capacity setter | `cmds/modules/provisiond/cap.go` | channel of 215 entries | Callback, Run, Set | engine (callback), gateway |
| capacity reporter | `cmds/modules/provisiond/reporter.go` | report queue and metrics on disk, last report time | hourly report, pusher, metrics | gateway, vmd |
| provisiond main | `cmds/modules/provisiond/main.go` | first-boot flag | start-up order, restarts of the reporter | all of the above |
| registrar gateway | `pkg/registrar_gateway` | none | calls to the chain and the registrar | registrar |
| upgrader | `pkg/upgrade`, `cmds/identityd` | recorded release, files, services | periodic update, installation, restart of services | hub, registrar gateway, zinit |
| update worker | `tools/zos-update-worker` | tag links on the hub | replace a link when the registrar names another release | registrar, hub |
| registrar | `pkg/registrar_light`, `cmds/modules/noded` | registration state | register, re-register, NodeID, TwinID | registrar gateway, network daemon, powerd |
| power server, uptime | `pkg/power`, `cmds/modules/powerd` | power state, first report | bring the node to its target, power events, uptime reports, wake other nodes | registrar, gateway, chain events, zinit |
| bootstrap | `bootstrap/bootstrap` (Rust) | recorded release, files | first installation of all packages, start of services | hub, zinit |
| migrations, authentication, identity, other daemons, stubs, images | see `PROJECT.json` | | | |

The hard behaviours are these.

* *Crashes.* provisiond can die between any two calls of the worker. The queue
  and the storage survive; what the managers run survives a crash and not a
  reboot. The rerun of a job must settle what the first run left half done.
* *Copies.* A job carries the deployment as it was when the job was made. Jobs
  queued before it may change the deployment meanwhile.
* *Threads.* The zbus thread (decommission), the event goroutines and the sync
  work on the same storage as the worker, without a lock.
* *Failures.* Managers, gateway, hub and disk fail; contract events get lost.
* *Restarts.* The node reboots into an empty system and is installed anew while
  the hub changes; daemons are killed and ask each other for what is not ready.
* *Waiting.* The engine blocks on the setter's channel; a pusher blocks on an
  empty queue and does not see that its context was cancelled.

## Modules

| Module | Models | Builds on |
|---|---|---|
| `Engine` | the provision engine: storage, queue, worker, API, events, boot, crash, reboot | |
| `EngineHistory` | a history variable: deployments whose contract was checked in full | `Engine` |
| `ContractEvents` | chain, gateway, event handler and its sync, composed with the engine | `Engine` |
| `Capacity` | the capacity setter composed with the engine | `Engine` |
| `Reporter` | the consumption reporter, and its mapping to `Delivery` | `Delivery` (INSTANCE) |
| `UpdateWorker` | the registrar's release, the tag link on the hub, the update worker | |
| `Bootstrap` | the bootstrap of a node, composed with hub and worker | `UpdateWorker` |
| `Upgrader` | the upgrader of a node, from its bootstrap on | `Bootstrap` |
| `Registrar` | the registration goroutine of noded | |
| `Power` | powerd, noded and the other nodes of the farm, composed with the registration | `Registrar` |
| `Delivery` | what the reporter promises: at-least-once delivery | |
| `EngineProofs` | type correctness of the engine | `Engine` |
| `EngineSafety` | the inductive invariant and the safety theorems of the engine | `EngineProofs` |
| `ContractEventsProofs` | the node implements the engine; what is deleted or cancelled is uninstalled, and stays so | `ContractEvents`, `EngineSafety` |
| `CapacityProofs` | the engine with the setter implements the engine; the chain knows what is in use | `Capacity`, `EngineSafety` |
| `ReporterProofs` | no consumption is lost; the reporter implements `Delivery` | `Reporter` |
| `UpgraderProofs` | types, and files stay whole | `Upgrader` |
| `UpgraderReleases` | a node runs the release it recorded; zos comes last | `UpgraderProofs` |
| `PowerProofs` | an off node says so; a registered node is registered as it is | `Power` |
| `MCEngine`, `MCEngineHistory`, `MCContractEvents`, `MCCapacity`, `MCUpgrader` | constants for TLC | |

### Engine

State: `deployments`, `version` and `workloads` are the bolt storage (the last
state of each workload; `absent` when it has none); `provisioned` is what the
managers really run; `queue` is the job queue on disk; `booted` is the
first-boot flag, which lives in memory of the node until it reboots. A job is
an operation, a contract and a *plan*: what its copy of the deployment makes
the worker do with each workload. The plan stands for the copy itself because
the worker reads nothing else from it.

Each call of the worker to the storage, a manager or the queue is a step:
`StartJob` or `RejectJob` (validate), then for each workload `Check`
(`storage.Current` and the early returns), `CallProvision`, `CallDeprovision`,
`CallUpdate` or `CallLock` (the manager), `Commit` (`storage.Transaction`),
`Remove` (`storage.Remove`), then `FinishJob` (`storage.Delete`), `Dequeue` and
`Callback`. `Rank` is the startup order and its reverse. `BootList`,
`BootScan` and `BootDone` are `boot`. The API is one thread (`Provision`,
`Update`, `ApiEnqueue`, `Decommission*`); `Callers` are the other goroutines
that call the engine, each of which reads the deployment in `Schedule` and
enqueues in `EnqueueScheduled`. `Crash` loses everything in memory, `Reboot`
also what the managers run and the flag; both go through `Start`, which is
`CleanDeleted` and `New`. With `"queueError"` `New` cannot open the queue,
removes it and fails, so that the next start finds none (`KeptJobs`).

The results of a manager's call are those of `provisiner.go`. provisiond itself
is given the provisioner of zosbase (`provisiond/main.go:219`), which is not in
this repository and of which `mapProvisioner` is a copy.

`Env` names the requests and the faults a run allows. Managers are external:
each call may succeed or, when `Env` says so, fail; `ErrNoActionNeeded` is
possible whenever the workload already runs.

### ContractEvents

Adds the contracts on the chain, the events on their way, and a run of `sync`,
which reads deployments, then the list of contracts, then each contract, and
calls the engine, in steps of their own. The handler and the sync are two
goroutines, as after the first sync in the code: each may be between the
engine's `storage.Get` and `Enqueue` while the other is too, and the event of a
contract may come between any two steps of the sync. One sync runs at a time:
the ticker starts one an hour, and that an earlier one takes longer is left
out. `Gateway` is `"chain"` (the gateway answers what the chain
knows), `"flaky"` (it may fail) or `"stub"`. The gateway of this repository
*is* a stub: `GetContract` and `GetNodeContracts` return empty values without
an error. With the stub the engine rejects every deployment, since an empty
contract has no type, and the sync deprovisions whatever is in use. The runs
therefore take the gateway the code around the stub is written for.

### Capacity, Reporter, Delivery

`Capacity` makes the engine's callback a send on a bounded channel and adds the
setter's goroutine. `Reporter` counts time in hours; `owed` are the hours with
consumption, a report is a window of hours, and there is a pusher for each call
of `Run`. A crash may find the report queue unreadable; `NewReporter` then
removes it, and `removed` remembers what was in it.

`Delivery` says what the reporter is for: the consumption of an hour is pending
until it is delivered, and given up only after the reporter itself failed or
its queue was removed.
`Reporter` maps to it: delivered are the hours covered by a report on the chain;
pending are the others that are still after the last report time, in a queued
report or in the hands of a pusher.

### Bootstrap and Upgrader

A package is one file and its services, named after the flist they come from, a
number that grows with each change of the package. The services that
`ensureRestarted` never restarts are protected: `identityd`, which runs the
upgrader and is replaced when it exits after an update or is killed, is a
variable of its own; redis, whose program is not in this repository, is left
out. zinit may fail to stop or to start services (`"zinit"`): the old ones go
on, or there are none, the package still counts as installed, and `refused`
remembers it until its services are restarted. A node starts with
nothing; the bootstrap reads and records the link (`BootTag`), installs each
package (`BootInstall`) and starts its services (`BootRun`). It runs once: a
failure, or a link that is just being replaced, ends it (`"failed"`) until a
`Reboot`. The upgrader is a service of zos and runs from there on. A node that
did not boot from the hub has zos in its image and installs the rest once.

### Registrar and Power

The registration reads the node's address, looks the record up, creates, reads
or updates it, one call a step; each may fail, and creating and updating may be
served with the answer lost. Then it waits for changes of the address. powerd
asks for the identity in two reads, as the code does (`NodeID`,
`ReturnIfDone`), waits for the first uptime report, brings the node to its
target (`SyncSelf`, `SetNodePowerState`, `Shutdown`) and handles events.
`Shutdown` only tells zinit: the node is `going` and all daemons go on until
`PowerOff`. An off node is woken by `FarmEvent`, the same handler on another
node, which with `"wake"` may fail and drop the event (`unwoken`): that node
starts over with its own target and no one tries again. A packet that comes
while the node is still on has no effect.
`PowerCycle` loses all that is in memory. `NodeEnv` names what may happen.

Power target and power state are stubs in the gateway of this repository
(`GetPowerTarget` answers up, `SetNodePowerState` does nothing), as are
`Report` and `SetContractConsumption`. With `"stub"` the model does as they do,
and a node that gets an event down goes off without any record of it. The runs
take the gateway the power server is written for.

## Runs

| Run | Properties | Bounds | Distinct states |
|---|---|---|---|
| `engine_crash` | `StoredIsProvisioned`, `NeverRetried` | 1 deployment, network and machine, 2 updates, 2 jobs in the queue | 5.1M |
| `engine_full` | `TypeOK`, `StoredIsProvisioned`, `NoStrandedInit` | 1 workload, 3 jobs in the queue, every request and fault but a crash | 2.7M |
| `events_safety` | `DeletedIsUninstalled` | 2 workloads, flaky gateway, lost events, crash, reboot and unreadable queue, 2 jobs in the queue | 2.7M |
| `events_live` | `CancelledIsUninstalled`, `LockFollowsChain` | 1 workload, lost lock events, 2 changes of the lock, 2 jobs in the queue | 0.4M |
| `capacity` | `UsedIsCurrent`, `CallbackReturns` | channel of one entry, crash and reboot | 0.4M |
| `reporter` | `NothingLost`, `QueueDrains`, `AtLeastOnce` | 3 hours, 1 failure of Run, 1 fault | 0.4M |
| `upgrade` | `RunsRelease`, `ZosIsLast`, `FilesWhole`, `NodesFollow` | 3 releases, 3 packages, 4 kinds of nodes, 2 faults or reboots | 0.8M |
| `power` | `DoneIsCurrent`, `OffIsRecorded`, `AddressFollows`, `DownFollows`, `UpFollows`, `DisabledIsUp` | 2 addresses, any number of changes of address and target, 2 faults | 0.4M |

What they show:

* `StoredIsProvisioned`: what the storage shows as in use runs on the node, or
  a job, the boot scan or a decommission that will settle it is still known.
* `NeverRetried`: a workload that ended in error or was deleted is not
  installed again, however often its job is rerun.
* `NoStrandedInit`: an accepted workload that is not installed has a job.
* `DeletedIsUninstalled`: the records of a deployment are not deleted while a
  part of it runs.
* `CancelledIsUninstalled`, `LockFollowsChain`: the node ends up where the
  chain says, and stays there.
* `UsedIsCurrent`, `CallbackReturns`: the chain's view of what is in use is
  current when nobody works; the engine never hangs in its callback.
* `NothingLost`, `QueueDrains`, `AtLeastOnce`: no hour of consumption is
  forgotten but with a removed queue, reports do not pile up, and the reporter implements `Delivery`,
  liveness included.
* `RunsRelease`, `ZosIsLast`, `FilesWhole`, `NodesFollow`: no mix of releases
  on disk, nor in what runs but for services that zinit did not stop or start,
  no zos ahead of its dependencies, no broken file, and progress, from any
  bootstrap that did not fail.
* `DoneIsCurrent`, `AddressFollows`: who is given an identity is registered with
  its address or about to be, and the registrar follows the address.
* `OffIsRecorded`, `DownFollows`, `UpFollows`, `DisabledIsUp`: the chain knows of
  a node that is off or going off, nodes end up as their target says unless the
  others drop their wake-up, and one that could not be woken up never goes off.

Deployments share nothing but the queue and the worker, so one contract with
jobs behind each other shows the orders that matter; two workloads show the
order inside a job and partly finished jobs. Two or three queued jobs are
needed for a stale copy (the job that changes and the job that holds the copy)
and a third one to make use of it. Two updates put one behind the other, and with
handler and sync two copies may be taken before either is enqueued; two changes
of the lock make them contradict each other. The channel of one entry is full as soon as
one job waits. Three releases are needed for an update that is abandoned for
another, and a reboot in the middle of an update. Address and power target
change without a bound: an address changes, and changes back, while an attempt
that knows an earlier one is under way, and a node goes off and on again and
again. Two faults hit the registration, powerd or the other nodes in one
behaviour. The proofs remove these bounds for the invariants they are about.

Fairness: the worker, the setter, the reporter's `Run`, the pushers, the update
worker and the upgrader are loops that nothing stops, and zinit restarts their
process (weak fairness); so are noded, powerd and its uptime goroutine, and the
power servers of the other nodes of a farm, one of which handles each event or
drops it; zinit shuts a node down that it was told to. The bootstrap goes on
until it ends, and is not started again. In `ContractEvents` each goroutine,
worker, API, handler and sync, has weak fairness of its own, also where
`MaxQueue` holds an enqueue back, which nothing does in the code. Requests, chain
steps, faults and crashes have none, and in liveness runs faults are bounded in
number, or the node stays up. `reporter` does not check deadlock: at the bound
of the clock everyone waits for the next hour; nor does `upgrade`, where a failed
bootstrap ends everything.

### Disagreements between code and documentation

Each is a run with a counterexample.

* `boot_unvalidated`: a deployment accepted and not yet validated when the node
  reboots is installed by a boot job, which skips the check of node and hash.
* `crash_before_boot_scan`: `MarkBooted` is called before the boot scan is
  over; a crash in between makes the next start skip it, and workloads stay
  `ok` in storage without running.
* `partial_file`: a shadowed error makes `copyFile` remove the backup when
  writing the new file fails.
* `report_dropped`: after `Run` failed, two pushers drop an unsent report.

Seen while modelling, and the reason for restrictions of the runs above:

* A cancel handled while an update that adds a workload is queued works from a
  copy of the deployment without it: the deployment is deleted and the new
  workload keeps running. `DeletedIsUninstalled` is checked without updates.
* An update queued behind an update works from a stale copy: a workload removed
  by the first may be updated by the second; `updateWorkload` does not look.
* A decommission that runs while the worker is between `storage.Current` and
  the manager can be undone by the worker: `NeverRetried` is checked and proved
  without decommissions.
* A crash between `storage.Create` and `Enqueue` strands a deployment in `init`
  until the next reboot; a crash between the manager's call and the transaction
  leaves a running workload in `init`, because the rerun gets
  `ErrNoActionNeeded`. `NoStrandedInit` is checked without crashes.
* A deployment with two workloads that was paused while it was being installed
  has one workload paused and one in use; `isLocked` takes it for locked and
  sync does not repair it. `LockFollowsChain` is checked with one workload.
* A cancel event that is lost before the deployment has a workload in use is
  not repaired by sync, which only looks at those; `CancelledIsUninstalled` is
  checked with cancel events delivered.
* A queue that cannot be opened is removed and `New` fails; the start after that
  finds an empty queue and does not rerun the deployments (`engine.go:322`). What
  was queued or half done is forgotten: with `"queueError"` `StoredIsProvisioned`
  fails, `DeletedIsUninstalled` does not. `NewReporter` removes its queue in the
  same way and with it reports whose hours are not reported again.
* A rejected job puts workloads in error and does not call the callback, so the
  chain keeps the old consumption; `capacity` has a gateway that answers.
* When the tag link goes back after an update failed half way, packages of the
  abandoned release count as unchanged; `upgrade` moves links forward.
* identityd starts while the bootstrap still installs packages. When the link
  moves meanwhile, the bootstrap overwrites files of the newer release, and the
  node takes itself for up to date (`"overlap"` breaks `RunsRelease`).
* A bootstrap that fails after it recorded the release leaves a node that takes
  itself for up to date and is not; the properties speak of bootstrapped nodes.
  A node that boots while the update worker replaces the link finds none.
* When zinit does not stop or start a service the error is logged and the update
  goes on: the release is recorded while the node runs the old service, or none,
  until the package changes again or the node reboots (`upgrade.go:544`).
* Only signals that can be caught are held back while files are copied: a node
  whose identityd is ended by SIGKILL, the kernel or a panic between the rename
  and the write is left without the file. This is not modelled.
* A rebooting node installs what the link names, whether or not the registrar
  says that it is safe to upgrade.
* A target that changes while the last change is being handled can leave a node
  off for good: it acts on the event, or on the target it has read, after the
  other nodes handled the event that was to wake it (`"hasty"` breaks
  `UpFollows`, though "power target is the state the node has to be in",
  `pkg/power/power.go:105`). It also breaks `OffIsRecorded`: in the window of a
  shutdown a powerd that starts over reads the target up again and records it,
  and then the node goes off.
* The event that is to wake a node is lost when the node that handles it cannot
  look the other one up, finds no hardware address or fails to send the packet:
  it starts over with its own target, and the node stays off (`"wake"`).
  `UpFollows` speaks of nodes whose last wake-up was not dropped.
* A target that changes after `syncSelf` read it and before noded follows the
  chain's events is not heard of (`"early"` breaks `DownFollows`).
* An address that changes between the first registration and the opening of the
  stream is not registered (`"move"` breaks `DoneIsCurrent`). The registration
  of every 24 hours that would repair it never happens, because the timer of
  half an hour ends each round of the select.
* `NodeID` can answer zero without an error, as the state is read a second time
  without the lock. powerd then ignores its own events until it is restarted;
  `DownFollows` excludes it.
* The storage migration skips a twin whose deployments cannot be listed, and
  the old storage is removed with them (`migration.go:27`).

## Proofs

TLAPS checks, for every set of contracts and workloads, every startup order and
every bound:

* `TypeCorrect` (`EngineProofs`): `Spec => []TypeOK`. The invariant is
  `TypeInv`, `TypeOK` and `JobAtHead`: while the worker is inside a job the
  queue is not empty, so that `Head(queue)` is a job.
* `StoredIsProvisionedHolds` (`EngineSafety`): `Spec => []StoredIsProvisioned`,
  assuming `CrashAlone`: process crashes do not come together with reboots,
  decommissions or a queue that cannot be opened. Each of the pairs breaks the
  property (see above), so the assumption is what the code needs. The inductive invariant `SafeInv` has three parts.
  `Frame` says where the worker is: types, records exist only for deployments,
  the current workload is still to do, and without reboots nothing is in use
  before the boot scan is over. `Recorded` is the property itself, strengthened: each
  disagreement between storage and node has a job, in the queue or in the hand
  of the API, that still visits the workload. `InFlight` says what the worker
  and the decommission hold in their hands between a manager's call and the
  transaction: a result `ok` is that of a workload that runs, and so on. None
  of the three is inductive without the others.
* `NoStrandedInitHolds` (`EngineSafety`): `Spec => []NoStrandedInit`, assuming
  no crashes, from the same invariant. `Recorded` and `InFlight` speak of the
  states `Watched`, which are `ok` and `paused` and, without crashes, `init`:
  then a job in the hand of the API is sure to be enqueued and counts as well.
* `NeverRetriedHolds` (`EngineSafety`): `Spec => NeverRetried`, assuming no
  decommissions, from `Frame`: between `Check` and the manager's call only the
  worker writes the workload's state.
* `NodeImplementsEngine` (`ContractEventsProofs`): `NodeSpec => Spec`, the node
  with chain, gateway and handler implements the engine, step by step. Then
  `NodeTypeCorrect` and `NodeStoredIsProvisioned` follow for the node.
* `DeletedIsUninstalledHolds` (`ContractEventsProofs`): `NodeSpec =>
  []DeletedIsUninstalled`, assuming `Plain`: no updates, no decommissions, no
  failing uninstalls. TLC finds a counterexample with each of the three: an
  update brings in a workload that a deprovision scheduled before does not know
  of; a decommission removes the record of a workload that the worker is about
  to install, and the next start drops the deployment; a failed uninstall does
  not stop `uninstallDeployment`. The argument is about the copies that jobs
  carry. `Bound(c)` is what runs of a contract or may still be installed by the
  job under way. The invariant says that all of it is stored, and (`Fits`) that
  every deprovision, queued or not enqueued yet, removes all of it. A
  deprovision that outlives its deployment and meets a second deployment of the
  same contract would break that; it does not, because a contract is
  deprovisioned only when the node gave it up (`Dead`, kept by `ChainSeen`), and
  then `validate` accepts no job that installs.
* `CancelledStaysUninstalled` (`ContractEventsProofs`): with every request and
  failure there is, once a contract is cancelled and `Bound(c)` is empty nothing
  of it ever runs again. This is the safety half of `CancelledIsUninstalled`;
  that the point is reached is liveness and is left to the run.
* `SetterImplementsEngine` (`CapacityProofs`): `CapSpec => Spec`; a callback
  that blocks only delays the worker, and the engine's guarantee carries over.
* `UsedIsCurrentHolds` (`CapacityProofs`): `CapSpec => []UsedIsCurrent`, for
  every capacity of the channel, assuming `Reporting`: the gateway answers and
  nothing is decommissioned, since a report is given up after its retries and a
  decommission calls no callback. The invariant `Current` says that
  the last word of the setter on a contract, read or already reported, is what
  the contract uses, unless the contract is `Due`: to be booted, in the queue,
  done and not handed over, or in the channel. Two kinds of jobs end without a
  report, rejected ones and deprovisions; `Silent` says that they leave nothing
  in use, even a deprovision that fails to delete its deployment.
* `NothingLostHolds` (`ReporterProofs`): `RepSpec => []NothingLost`, for all
  reports but those in a queue that was removed. The
  invariant adds `Collected` (once the report is queued, everything before its
  time is accounted for, so that storing the time is safe) and `OnePusher` (the
  pusher holds the head of the queue and the chain has it before it is
  removed), both for a reporter whose `Run` has not failed. `OnePusher` is what
  the second pusher of `report_dropped` breaks.
* `ReporterDelivers` (`ReporterProofs`): `RepSpec => Promise!DeliverySafe`, the
  safety part of `AtLeastOnce`: every step of the reporter, the pushers and the
  faults is a step of `Delivery` or a stutter. Besides the invariant above the
  step needs `Windowed`: no report reaches past the present, so that an hour that
  passes is not covered yet.
* `FilesWholeHolds` (`UpgraderProofs`): `UpSpec => []FilesWhole`, assuming that
  no write fails, which is the case `partial_file` shows, and that no update
  starts before the bootstrap has ended. The invariant `Copied` says that what
  the bootstrap has visited has its file, `BootType` that the upgrader waits
  meanwhile, `Kept` that afterwards a package has its file or, while it is
  written, its backup; `Listed` that what is installed comes from a release.
* `RunsReleaseHolds` (`UpgraderReleases`): `UpSpec => []RunsRelease`, also when
  writes fail and whatever zinit does, assuming that versions and links only go
  forward, that no update starts before the bootstrap has ended, and
  `NeverReverts`: no package changes in one release and changes back in a
  later one. The code needs the last: an update compares the flist names of the
  recorded and the new release, so what an abandoned update in between has
  installed is seen only through a name that differs. The invariant says just
  that (`Traced`: what differs from the recorded release is changed by a later
  release that was read already; `SelfTraced`: so will be the zos that identityd
  itself runs), with `Forward` (what was read of the link is
  never newer than what is read next), `Booting` and `Updating` for the
  bootstrap and the update under way.
* `ZosIsLastHolds` (`UpgraderReleases`): `UpSpec => []ZosIsLast`, assuming that
  versions and links only go forward, no overlap with the bootstrap, no failing
  write, and `FlistsGrow`: no release drops a package or goes back to an older
  flist. `ZosInv` adds to the invariant above that at every moment there is a
  release that zos is not ahead of and all other packages have reached.
* `OffIsRecordedHolds` (`PowerProofs`): `PowerSpec => []OffIsRecorded`, assuming
  that the gateway is not the stub and that the farmer changes a target when the
  last change was handled. `OffInv` adds that what powerd is at, and an event that
  waits for it, are the present target, that this target stays down while the
  node goes off, so that a powerd that starts over does not undo the state, and
  that none runs on a node that is off.
* `DoneIsCurrentHolds` (`PowerProofs`): `PowerSpec => []DoneIsCurrent`, assuming
  that the address does not change before the stream is open. `RegInv` adds that
  an attempt works with the present address unless a change waits, and that the
  record it is about to read or update exists.

Every invariant that a run checks is stated by one of these theorems, and so is
`NeverRetried`. The inductive invariants were checked with TLC before they were
proved. Only model checked: the liveness properties (`CancelledIsUninstalled`,
`LockFollowsChain`, `CallbackReturns`, `NodesFollow`, `QueueDrains`, the
fairness part of `AtLeastOnce`, `AddressFollows`, `DownFollows`, `UpFollows`,
`DisabledIsUp`), since fairness and ENABLED are out of the prover's reach. The
violations are found by TLC.

## Not modelled

Read-only queries of the engine, twin verification and request authentication
change no state of the node. The managers, bolt, dque, the event streams, zinit
and the hub are external and modelled by how the code uses them. Build scripts,
images and generated stubs have no behaviour to check. The JavaScript below
`provisiond/swagger` is a third-party bundle that shows the API in a browser; it
is minified and no part of the node's logic. The storage migration is a single
loop between two storages that are not in this repository. The other daemons
start packages of zosbase, which is not in this repository either. noded's
monitors and performance tests, and uptime reports after the first, change no
state that another component reads.

## Plan

1. Done: engine, event handler, capacity setter, reporter and its abstract
   specification, bootstrap, upgrader and update worker, registration and power
   server; proofs for the engine, for the node that contains it, for the
   reporter and the specification it implements, for the files of the upgrader,
   for registration and power state.
2. Proofs: done for every invariant. Left are the safety halves of the liveness
   properties of powerd and the update worker (what may not be undone once it
   is reached), stated as for `CancelledStaysUninstalled`.
