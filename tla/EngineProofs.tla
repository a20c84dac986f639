---------------------------- MODULE EngineProofs ----------------------------
(***************************************************************************)
(* Proofs about the provision engine, for any contracts, workloads,        *)
(* startup order and bounds.                                               *)
(***************************************************************************)
EXTENDS Engine, TLAPS

-----------------------------------------------------------------------------
(* Type correctness *)

\* What a job of a snapshot does to a workload is a step.
LEMMA StepForType ==
    ASSUME NEW op \in Ops, NEW state \in States
    PROVE  StepFor(op, state) \in Steps
BY DEF StepFor, Steps

\* JobOf builds a job.
LEMMA JobOfType ==
    ASSUME NEW op \in Ops, NEW c \in Contracts, NEW snap \in [Names -> States]
    PROVE  JobOf(op, c, snap) \in Job
<1>1. ASSUME NEW n \in Names PROVE StepFor(op, snap[n]) \in Steps
  BY StepForType
<1>2. [n \in Names |-> StepFor(op, snap[n])] \in [Names -> Steps]
  BY <1>1
<1> QED
  BY <1>2 DEF JobOf, Job

\* Upgrade computes a plan.
LEMMA UpgradeType ==
    ASSUME NEW snap, NEW target, NEW changed
    PROVE  Upgrade(snap, target, changed) \in [Names -> Steps]
<1>1. ASSUME NEW state, NEW w, NEW ch PROVE UpgradeStep(state, w, ch) \in Steps
  BY DEF UpgradeStep, Steps
<1> QED
  BY <1>1 DEF Upgrade

\* The head of a queue that is not empty is a job.
LEMMA HeadType ==
    ASSUME queue \in Seq(Job), queue # <<>>
    PROVE  /\ head \in Job
           /\ head.op \in Ops /\ head.c \in Contracts
           /\ head.plan \in [Names -> Steps]
           /\ Tail(queue) \in Seq(Job)
           /\ 1 \in DOMAIN queue /\ head = queue[1]
<1>1. head \in Job /\ Tail(queue) \in Seq(Job) /\ 1 \in DOMAIN queue
      /\ head = queue[1]
  BY DEF head
<1> QED
  BY <1>1 DEF Job

\* Enqueue puts a job behind the ones that are there.
LEMMA AppendType ==
    ASSUME NEW q \in Seq(Job), NEW j \in Job
    PROVE  /\ Append(q, j) \in Seq(Job) /\ Append(q, j) # <<>>
           /\ DOMAIN q \subseteq DOMAIN Append(q, j)
           /\ \A i \in DOMAIN q : Append(q, j)[i] = q[i]
           /\ Len(q) + 1 \in DOMAIN Append(q, j)
           /\ Append(q, j)[Len(q) + 1] = j
OBVIOUS

\* The queue gains the jobs that are put on it, and loses its head.
LEMMA QueueMembers ==
    ASSUME NEW q \in Seq(Job)
    PROVE  /\ \A j \in Job : \A i \in DOMAIN Append(q, j) :
                 Append(q, j)[i] = j \/ \E k \in DOMAIN q : Append(q, j)[i] = q[k]
           /\ q # <<>> => \A i \in DOMAIN Tail(q) :
                 \E k \in DOMAIN q : Tail(q)[i] = q[k]
<1>1. ASSUME NEW j \in Job, NEW i \in DOMAIN Append(q, j)
      PROVE  Append(q, j)[i] = j \/ \E k \in DOMAIN q : Append(q, j)[i] = q[k]
  <2>1. CASE i = Len(q) + 1
    BY <2>1
  <2>2. CASE i # Len(q) + 1
    <3>1. i \in DOMAIN q /\ Append(q, j)[i] = q[i]
      BY <2>2
    <3> QED
      BY <3>1
  <2> QED
    BY <2>1, <2>2
<1>2. ASSUME q # <<>>, NEW i \in DOMAIN Tail(q)
      PROVE  \E k \in DOMAIN q : Tail(q)[i] = q[k]
  <2>1. i + 1 \in DOMAIN q /\ Tail(q)[i] = q[i + 1]
    BY <1>2
  <2> QED
    BY <2>1
<1> QED
  BY <1>1, <1>2

\* A goroutine holds a job; the one it is given when it asks is its own.
LEMMA TicketType ==
    /\ \A t \in Ticket : t.by \in Callers /\ t.job \in Job
    /\ \A g \in Callers, j \in Job :
          LET t == [by |-> g, job |-> j]
          IN  t \in Ticket /\ t.by = g /\ t.job = j
BY DEF Ticket

\* A start finds the queue as it was or finds none.
LEMMA KeptJobsAre ==
    ASSUME NEW r \in BOOLEAN, Start(r)
    PROVE  /\ queue' = <<>> \/ queue' = queue
           /\ r => queue' = <<>>
           /\ ~r /\ "queueError" \notin Env => queue' = queue
BY DEF Start, KeptJobs

\* The choice of a name is a name.
LEMMA NoNameType == NoName \in Names
BY EngineAssumption DEF NoName

\* The worker is inside a job only while the queue holds it.
JobAtHead == Running => queue # <<>>

\* TypeOK is inductive together with JobAtHead, which gives head its type.
TypeInv == TypeOK /\ JobAtHead

\* The jobs that the engine holds.
Pending == apiJobs \cup {t.job : t \in scheduled}
                   \cup {queue[i] : i \in DOMAIN queue}

\* A pending job is a job, and the one at the head is pending.
LEMMA PendingType ==
    ASSUME TypeInv
    PROVE  /\ \A j \in Pending : /\ j \in Job /\ j.op \in Ops
                                 /\ j.c \in Contracts
                                 /\ j.plan \in [Names -> Steps]
           /\ queue # <<>> => head \in Pending
<1> USE DEF TypeInv, TypeOK
<1>1. \A i \in DOMAIN queue : queue[i] \in Job
  OBVIOUS
<1>2. \A j \in Pending : j \in Job
  BY <1>1, TicketType DEF Pending
<1>3. queue # <<>> => head \in Pending
  BY HeadType DEF Pending
<1> QED
  BY <1>2, <1>3 DEF Job

LEMMA InitType == Init => TypeInv
<1> SUFFICES ASSUME Init PROVE TypeInv
  OBVIOUS
<1>1. workloads \in [Contracts -> [Names -> States]]
  BY DEF Init, Nothing, States
<1>2. version \in [Contracts -> 0 .. MaxVersion]
  BY EngineAssumption DEF Init
<1>3. queue \in Seq(Job)
  BY DEF Init
<1>4. cur \in Names
  BY NoNameType DEF Init
<1> QED
  BY <1>1, <1>2, <1>3, <1>4 DEF Init, TypeInv, TypeOK, JobAtHead, Running, PCs,
     States

\* Writing one workload's state keeps the type of the storage.
LEMMA SetState ==
    ASSUME NEW w \in [Contracts -> [Names -> States]], NEW c, NEW n,
           NEW s \in States
    PROVE  [w EXCEPT ![c][n] = s] \in [Contracts -> [Names -> States]]
<1>1. [w[c] EXCEPT ![n] = s] \in [Names -> States] \/ c \notin Contracts
  OBVIOUS
<1> QED
  BY <1>1

\* ... and changes nothing else.
LEMMA SetStateAt ==
    ASSUME NEW w \in [Contracts -> [Names -> States]], NEW c \in Contracts,
           NEW n \in Names, NEW s
    PROVE  \A d \in Contracts : \A m \in Names :
               [w EXCEPT ![c][n] = s][d][m] =
                   IF d = c /\ m = n THEN s ELSE w[d][m]
OBVIOUS

\* A decommission moves on to its next call.
LEMMA DecommissionMoves ==
    ASSUME NEW t \in Decommission
    PROVE  /\ t.c \in Contracts /\ t.n \in Names /\ t.state \in States
           /\ [t EXCEPT !.pc = "commit"] \in Decommission
           /\ [t EXCEPT !.pc = "commit", !.state = "error"] \in Decommission
           /\ [t EXCEPT !.pc = "remove"] \in Decommission
           /\ \A p \in {"commit", "remove"} :
                LET u == [t EXCEPT !.pc = p]
                IN  u.c = t.c /\ u.n = t.n /\ u.pc = p /\ u.state = t.state
           /\ [t EXCEPT !.pc = "commit", !.state = "error"].pc = "commit"
BY DEF Decommission, States

\* Requests and the goroutines that enqueue them keep the types.
LEMMA RequestType ==
    TypeInv /\ (Api \/ ApiStep \/ Events \/ EventStep) => TypeInv'
<1> SUFFICES ASSUME TypeInv, Api \/ ApiStep \/ Events \/ EventStep
             PROVE  TypeInv'
  OBVIOUS
<1> USE DEF TypeInv, TypeOK, JobAtHead, Running, vars, storageVars, workerVars,
            apiVars
<1>1. ASSUME NEW c \in Contracts, NEW names \in SUBSET Names, Provision(c, names)
      PROVE  TypeInv'
  <2> DEFINE snap == [n \in Names |-> IF n \in names THEN "init" ELSE "absent"]
  <2>1. snap \in [Names -> States]
    BY DEF States
  <2>2. JobOf("provision", c, snap) \in Job
    BY <2>1, JobOfType DEF Ops
  <2>3. workloads' \in [Contracts -> [Names -> States]]
    BY <1>1, <2>1 DEF Provision
  <2>4. version' \in [Contracts -> 0 .. MaxVersion]
    BY <1>1, EngineAssumption DEF Provision
  <2> QED
    BY <1>1, <2>2, <2>3, <2>4 DEF Provision
<1>2. ASSUME NEW c \in Contracts, NEW target \in SUBSET Names,
             NEW changed \in SUBSET Names, Update(c, target, changed)
      PROVE  TypeInv'
  <2> DEFINE plan == Upgrade(workloads[c], target, changed)
  <2>1. [op |-> "update", c |-> c, plan |-> plan] \in Job
    BY UpgradeType DEF Job, Ops
  <2>2. version' \in [Contracts -> 0 .. MaxVersion]
    BY <1>2, EngineAssumption DEF Update
  <2> QED
    BY <1>2, <2>1, <2>2 DEF Update
<1>3. ASSUME NEW c \in Contracts, NEW n \in Names, DecommissionStart(c, n)
      PROVE  TypeInv'
  BY <1>3 DEF DecommissionStart, Decommission
<1>4. CASE ApiEnqueue
  BY <1>4 DEF ApiEnqueue
<1>5. ASSUME NEW t \in decom, DecommissionCall(t) PROVE TypeInv'
  <2>1. /\ t.c \in Contracts /\ t.n \in Names /\ t.state \in States
        /\ [t EXCEPT !.pc = "commit"] \in Decommission
        /\ [t EXCEPT !.pc = "commit", !.state = "error"] \in Decommission
    BY DecommissionMoves
  <2>2. provisioned' \in [Contracts -> SUBSET Names]
    BY <1>5, <2>1 DEF DecommissionCall
  <2>3. decom' \subseteq Decommission
    BY <1>5, <2>1, Zenon DEF DecommissionCall
  <2> QED
    BY <1>5, <2>2, <2>3 DEF DecommissionCall
<1>6. ASSUME NEW t \in decom, DecommissionCommit(t) PROVE TypeInv'
  <2>1. /\ t.c \in Contracts /\ t.n \in Names /\ t.state \in States
        /\ [t EXCEPT !.pc = "remove"] \in Decommission
    BY DecommissionMoves
  <2>2. [workloads EXCEPT ![t.c][t.n] = t.state]
            \in [Contracts -> [Names -> States]]
    BY <2>1, SetState
  <2>3. workloads' \in [Contracts -> [Names -> States]]
    BY <1>6, <2>2, Zenon DEF DecommissionCommit
  <2>4. decom' \subseteq Decommission
    BY <1>6, <2>1, Zenon DEF DecommissionCommit
  <2> QED
    BY <1>6, <2>3, <2>4 DEF DecommissionCommit
<1>7. ASSUME NEW t \in decom, DecommissionRemove(t) PROVE TypeInv'
  <2>1. "absent" \in States
    BY DEF States
  <2>2. workloads' \in [Contracts -> [Names -> States]]
    BY <1>7, <2>1, SetState DEF DecommissionRemove
  <2> QED
    BY <1>7, <2>2 DEF DecommissionRemove
<1>8. ASSUME NEW g \in Callers, NEW op \in Ops, NEW c \in Contracts,
             Schedule(g, op, c)
      PROVE  TypeInv'
  <2>1. JobOf(op, c, workloads[c]) \in Job
    BY JobOfType
  <2>2. [by |-> g, job |-> JobOf(op, c, workloads[c])] \in Ticket
    BY <2>1, TicketType
  <2> QED
    BY <1>8, <2>2 DEF Schedule
<1>9. ASSUME NEW t \in scheduled, EnqueueScheduled(t) PROVE TypeInv'
  <2>0. t.job \in Job
    BY TicketType
  <2>1. queue' \in Seq(Job) /\ queue' # <<>>
    BY <1>9, <2>0, AppendType DEF EnqueueScheduled
  <2> QED
    BY <1>9, <2>1 DEF EnqueueScheduled
<1> HIDE DEF TypeInv
<1>10. CASE Api
  BY <1>1, <1>2, <1>3, <1>10 DEF Api
<1>11. CASE ApiStep
  BY <1>4, <1>5, <1>6, <1>7, <1>11 DEF ApiStep
<1>12. CASE Events \/ EventStep
  BY <1>8, <1>9, <1>12 DEF Events, EventStep
<1> QED
  BY <1>10, <1>11, <1>12

\* Every step of the worker keeps the types.
LEMMA RunType == TypeInv /\ Run => TypeInv'
<1> SUFFICES ASSUME TypeInv, Run PROVE TypeInv'
  OBVIOUS
<1> USE DEF TypeInv, TypeOK, JobAtHead, Running, storageVars, apiVars, PCs
<1>0. "init" \in States /\ "ok" \in States /\ "error" \in States
      /\ "deleted" \in States /\ "absent" \in States /\ "paused" \in States
  BY DEF States
<1>a. ASSUME Running PROVE head.c \in Contracts /\ head.plan \in [Names -> Steps]
                           /\ head.op \in Ops /\ Tail(queue) \in Seq(Job)
  BY <1>a, HeadType
<1>1. CASE BootList
  BY <1>1 DEF BootList
<1>2. ASSUME NEW c \in toBoot, BootScan(c) PROVE TypeInv'
  <2>1. JobOf("provisionNoValidation", c, workloads[c]) \in Job
    BY JobOfType DEF Ops
  <2>2. queue' \in Seq(Job)
    BY <1>2, <2>1, AppendType DEF BootScan
  <2> QED
    BY <1>2, <2>2 DEF BootScan
<1>3. CASE BootDone
  BY <1>3 DEF BootDone
<1>4. ASSUME NEW reply, StartJob(reply) PROVE TypeInv'
  BY <1>4 DEF StartJob
<1>5. ASSUME NEW reply, RejectJob(reply) PROVE TypeInv'
  <2>1. workloads' \in [Contracts -> [Names -> States]]
    BY <1>5, <1>0 DEF RejectJob, Errored
  <2> QED
    BY <1>5, <2>1 DEF RejectJob, Errored
<1>6. CASE Discard
  BY <1>6, <1>a DEF Discard
<1>7. ASSUME NEW n \in todo, Check(n) PROVE TypeInv'
  <2>0. [workloads EXCEPT ![head.c][n] = "init"]
            \in [Contracts -> [Names -> States]]
    BY <1>0, SetState
  <2>1. workloads' \in [Contracts -> [Names -> States]]
    BY <1>7, <2>0 DEF Check
  <2>2. cur' \in Names /\ result' \in States \cup {"unchanged"}
        /\ todo' \subseteq Names /\ pc' \in {"next", "call"}
        /\ failed' \in BOOLEAN
    BY <1>7, <1>0, NoNameType DEF Check, Skip
  <2> QED
    BY <1>7, <2>1, <2>2 DEF Check
<1>8. CASE CallProvision
  <2>1. provisioned' \in [Contracts -> SUBSET Names]
    <3>1. CASE provisioned' = [provisioned EXCEPT ![head.c] = @ \cup {cur}]
      <4>1. cur \in Names /\ provisioned \in [Contracts -> SUBSET Names]
        OBVIOUS
      <4> QED
        BY <3>1, <4>1
    <3>2. CASE provisioned' = provisioned
      BY <3>2
    <3> QED
      BY <1>8, <3>1, <3>2 DEF CallProvision
  <2> QED
    BY <1>8, <2>1, <1>0, NoNameType DEF CallProvision, Answer, Skip
<1>9. CASE CallDeprovision
  <2>1. provisioned' \in [Contracts -> SUBSET Names]
    <3>1. CASE provisioned' = [provisioned EXCEPT ![head.c] = @ \ {cur}]
      <4>1. cur \in Names /\ provisioned \in [Contracts -> SUBSET Names]
        OBVIOUS
      <4> QED
        BY <3>1, <4>1
    <3>2. CASE provisioned' = provisioned
      BY <3>2
    <3> QED
      BY <1>9, <3>1, <3>2 DEF CallDeprovision
  <2> QED
    BY <1>9, <2>1, <1>0 DEF CallDeprovision, Answer
<1>10. CASE CallUpdate
  <2>1. workloads[head.c][cur] \in States
    BY <1>10, <1>a DEF CallUpdate
  <2> QED
    BY <1>10, <2>1, <1>0, NoNameType DEF CallUpdate, Answer, Skip
<1>11. CASE CallLock
  BY <1>11, <1>0 DEF CallLock, Answer
<1>12. CASE Commit
  <2>1. result = "unchanged" \/
        [workloads EXCEPT ![head.c][cur] = result]
            \in [Contracts -> [Names -> States]]
    BY SetState
  <2>2. workloads' \in [Contracts -> [Names -> States]]
    BY <1>12, <2>1 DEF Commit, IsUnChanged
  <2> QED
    BY <1>12, <2>2, <1>0, NoNameType DEF Commit, IsUnChanged, Skip
<1>13. CASE Remove
  <2>1. workloads' \in [Contracts -> [Names -> States]]
    BY <1>13, <1>0, SetState DEF Remove
  <2> QED
    BY <1>13, <2>1, <1>0, NoNameType DEF Remove, Skip
<1>14. CASE FinishJob
  <2>0. Nothing \in [Names -> States]
    BY <1>0 DEF Nothing
  <2>1. workloads' \in [Contracts -> [Names -> States]]
    BY <1>14, <2>0 DEF FinishJob
  <2>2. version' \in [Contracts -> 0 .. MaxVersion]
    BY <1>14, EngineAssumption DEF FinishJob
  <2> QED
    BY <1>14, <2>1, <2>2 DEF FinishJob
<1>15. CASE Dequeue
  <2>1. head.c \in Contracts /\ Tail(queue) \in Seq(Job)
    BY <1>15, <1>a DEF Dequeue
  <2>2. ASSUME NEW c \in Contracts, NEW b \in BOOLEAN
        PROVE  [c |-> c, delete |-> b] \in [c : Contracts, delete : BOOLEAN]
    BY <2>2, Zenon
  <2>3. done' \subseteq [c : Contracts, delete : BOOLEAN]
    <3>1. (head.op = "deprovision") \in BOOLEAN
      OBVIOUS
    <3>2. [c |-> head.c, delete |-> head.op = "deprovision"]
            \in [c : Contracts, delete : BOOLEAN]
      BY <2>1, <2>2, <3>1
    <3>3. done' = {[c |-> head.c, delete |-> head.op = "deprovision"]}
      BY <1>15 DEF Dequeue
    <3> QED
      BY <3>2, <3>3, Zenon
  <2> QED
    BY <1>15, <2>1, <2>3 DEF Dequeue
<1>16. CASE Callback
  BY <1>16 DEF Callback
<1> HIDE DEF TypeInv
<1>17. CASE Work
  BY <1>17, <1>1, <1>2, <1>3, <1>6, <1>7, <1>8, <1>9, <1>10, <1>11, <1>12,
     <1>13, <1>14, <1>15 DEF Work, Call
<1> QED
  BY <1>4, <1>5, <1>16, <1>17 DEF Run, Begin

\* A restart keeps the types.
LEMMA RestartType == TypeInv /\ (MarkBooted \/ Crash \/ Reboot) => TypeInv'
<1> SUFFICES ASSUME TypeInv PROVE (MarkBooted \/ Crash \/ Reboot) => TypeInv'
  OBVIOUS
<1> USE DEF TypeInv, TypeOK, JobAtHead, Running
<1>1. ASSUME MarkBooted PROVE TypeInv'
  BY <1>1 DEF MarkBooted, storageVars, workerVars, apiVars
<1>2. ASSUME NEW r \in BOOLEAN, Start(r),
             provisioned' \in [Contracts -> SUBSET Names], booted' \in BOOLEAN
      PROVE  TypeInv'
  <2>0. queue' = <<>> \/ queue' = queue
    <3>1. Start(r)
      BY <1>2
    <3> HIDE DEF TypeInv
    <3> QED
      BY <3>1, KeptJobsAre
  <2>1. queue' \in Seq(Job)
    <3>1. queue \in Seq(Job) /\ <<>> \in Seq(Job)
      OBVIOUS
    <3> QED
      BY <2>0, <3>1, Zenon
  <2>3. pc' \in {"boot", "idle"}
    BY <1>2 DEF Start
  <2>2. cur' \in Names /\ result' \in States
    BY <1>2, NoNameType DEF Start, States
  <2> QED
    BY <1>2, <2>1, <2>2, <2>3 DEF Start, PCs
<1>3. ASSUME Crash PROVE TypeInv'
  BY <1>2, <1>3 DEF Crash
<1>4. ASSUME Reboot PROVE TypeInv'
  BY <1>2, <1>4 DEF Reboot
<1> QED
  BY <1>1, <1>3, <1>4

LEMMA NextType == TypeInv /\ [Next]_vars => TypeInv'
<1> SUFFICES ASSUME TypeInv, [Next]_vars PROVE TypeInv'
  OBVIOUS
<1>1. CASE Next
  BY <1>1, RequestType, RunType, RestartType DEF Next
<1>2. CASE UNCHANGED vars
  BY <1>2 DEF vars, storageVars, workerVars, apiVars, TypeInv, TypeOK,
     JobAtHead, Running
<1> QED
  BY <1>1, <1>2

\* A job is an update, or goes over the copy of a deployment.
Built(j) == \/ j.op = "update"
            \/ \E op \in Ops, c \in Contracts, snap \in [Names -> States] :
                  j = JobOf(op, c, snap)

LEMMA JobIsBuilt ==
    ASSUME NEW op \in Ops, NEW c \in Contracts, NEW snap \in [Names -> States]
    PROVE  Built(JobOf(op, c, snap))
BY DEF Built

\* Every job that a step adds to the ones held is built so.
LEMMA JobsBuilt ==
    ASSUME TypeInv, [Next]_vars
    PROVE  \A j \in Pending' : j \in Pending \/ Built(j)
<1> USE DEF storageVars, workerVars, apiVars
<1>0. queue \in Seq(Job) /\ apiJobs \subseteq Job /\ scheduled \subseteq Ticket
      /\ toBoot \subseteq Contracts /\ workloads \in [Contracts -> [Names -> States]]
      /\ (Running => queue # <<>>) /\ booted \in BOOLEAN
  BY DEF TypeInv, TypeOK, JobAtHead
<1>1. ASSUME NEW j \in Job, queue' = Append(queue, j),
             apiJobs' \subseteq apiJobs, scheduled' \subseteq scheduled,
             j \in Pending \/ Built(j)
      PROVE  \A k \in Pending' : k \in Pending \/ Built(k)
  <2>1. \A i \in DOMAIN queue' :
            queue'[i] = j \/ \E k \in DOMAIN queue : queue'[i] = queue[k]
    BY <1>0, <1>1, QueueMembers
  <2> QED
    BY <1>1, <2>1 DEF Pending
<1>2. ASSUME queue' = queue, apiJobs' \subseteq apiJobs,
             scheduled' \subseteq scheduled
      PROVE  \A k \in Pending' : k \in Pending \/ Built(k)
  BY <1>2 DEF Pending
<1>3. ASSUME Api PROVE \A k \in Pending' : k \in Pending \/ Built(k)
  <2>1. ASSUME NEW c \in Contracts, NEW names, Provision(c, names)
        PROVE  \A k \in apiJobs' : Built(k)
    <3>1. [n \in Names |-> IF n \in names THEN "init" ELSE "absent"]
              \in [Names -> States]
      BY DEF States
    <3> QED
      BY <2>1, <3>1, JobIsBuilt DEF Provision, Ops
  <2>2. ASSUME NEW c \in Contracts, NEW target, NEW changed,
               Update(c, target, changed)
        PROVE  \A k \in apiJobs' : Built(k)
    BY <2>2 DEF Update, Built
  <2>3. ASSUME NEW c \in Contracts, NEW n, DecommissionStart(c, n)
        PROVE  apiJobs' = apiJobs
    BY <2>3 DEF DecommissionStart
  <2>4. queue' = queue /\ scheduled' = scheduled
        /\ (apiJobs' = apiJobs \/ \A k \in apiJobs' : Built(k))
    BY <1>3, <2>1, <2>2, <2>3 DEF Api, Provision, Update, DecommissionStart
  <2> QED
    BY <2>4 DEF Pending
<1>4. ASSUME ApiStep \/ EventStep
      PROVE  \A k \in Pending' : k \in Pending \/ Built(k)
  <2>1. CASE ApiEnqueue
    <3>1. PICK j \in apiJobs : queue' = Append(queue, j)
      BY <2>1 DEF ApiEnqueue
    <3> QED
      BY <1>0, <1>1, <2>1, <3>1 DEF ApiEnqueue, Pending
  <2>2. CASE EventStep
    <3>1. PICK t \in scheduled : EnqueueScheduled(t)
      BY <2>2 DEF EventStep
    <3>2. t.job \in Job /\ t.job \in Pending
      BY <1>0, TicketType DEF Pending
    <3> QED
      BY <1>1, <3>1, <3>2 DEF EnqueueScheduled
  <2> QED
    BY <1>2, <1>4, <2>1, <2>2 DEF ApiStep, DecommissionCall, DecommissionCommit,
       DecommissionRemove
<1>5. ASSUME Events PROVE \A k \in Pending' : k \in Pending \/ Built(k)
  <2>1. PICK g \in Callers, op \in Ops, c \in Contracts : Schedule(g, op, c)
    BY <1>5 DEF Events
  <2> DEFINE j == JobOf(op, c, workloads[c])
             u == [by |-> g, job |-> j]
  <2>2. /\ queue' = queue /\ apiJobs' = apiJobs
        /\ scheduled' = scheduled \cup {u}
    BY <2>1 DEF Schedule
  <2>3. Built(j)
    BY <1>0, <2>1, JobIsBuilt
  <2>4. u.job = j
    OBVIOUS
  <2> HIDE DEF j, u
  <2>5. \A t \in scheduled' : t \in scheduled \/ t.job = j
    BY <2>2, <2>4
  <2> QED
    BY <2>2, <2>3, <2>5 DEF Pending
<1>6. ASSUME Run PROVE \A k \in Pending' : k \in Pending \/ Built(k)
  <2>0. apiJobs' = apiJobs /\ scheduled' = scheduled
    BY <1>6 DEF Run, Work, Begin, Callback, BootList, BootScan, BootDone, Discard,
       Check, Call, CallProvision, CallDeprovision, CallUpdate, CallLock, Commit,
       Remove, FinishJob, Dequeue, StartJob, RejectJob
  <2>1. CASE queue' = queue
    BY <1>2, <2>0, <2>1
  <2>2. CASE Running /\ queue' = Tail(queue)
    <3>1. \A i \in DOMAIN queue' : \E k \in DOMAIN queue : queue'[i] = queue[k]
      BY <1>0, <2>2, QueueMembers
    <3> QED
      BY <2>0, <3>1 DEF Pending
  <2>3. ASSUME NEW c \in toBoot, BootScan(c), queue' # queue
        PROVE  \A k \in Pending' : k \in Pending \/ Built(k)
    <3> DEFINE b == JobOf("provisionNoValidation", c, workloads[c])
    <3>1. b \in Job /\ queue' = Append(queue, b) /\ Built(b)
      BY <1>0, <2>3, JobOfType, JobIsBuilt DEF BootScan, Ops
    <3> QED
      BY <1>1, <2>0, <3>1
  <2> QED
    BY <1>6, <2>1, <2>2, <2>3 DEF Run, Work, Begin, Callback, BootList, BootScan,
       BootDone, Discard, Check, Call, CallProvision, CallDeprovision, CallUpdate,
       CallLock, Commit, Remove, FinishJob, Dequeue, StartJob, RejectJob, Running
<1>7. ASSUME MarkBooted \/ UNCHANGED vars
      PROVE  \A k \in Pending' : k \in Pending \/ Built(k)
  BY <1>2, <1>7 DEF MarkBooted, vars
<1>8. ASSUME Crash \/ Reboot PROVE \A k \in Pending' : k \in Pending \/ Built(k)
  <2>0. PICK r \in BOOLEAN : Start(r)
    BY <1>0, <1>8 DEF Crash, Reboot
  <2>1. (queue' = <<>> \/ queue' = queue) /\ apiJobs' = {} /\ scheduled' = {}
    BY <2>0, KeptJobsAre DEF Start
  <2> QED
    BY <2>1 DEF Pending
<1> QED
  BY <1>3, <1>4, <1>5, <1>6, <1>7, <1>8 DEF Next

\* Every variable of the engine has its type, whatever the contracts, the
\* workloads and the failures are.
THEOREM TypeCorrect == Spec => []TypeOK
<1>1. TypeInv => TypeOK
  BY DEF TypeInv
<1> QED
  BY <1>1, InitType, NextType, PTL DEF Spec
=============================================================================
