---------------------------- MODULE EngineSafety ----------------------------
(***************************************************************************)
(* What the storage of the engine shows as in use is provisioned: the      *)
(* inductive invariant behind StoredIsProvisioned, and its proof.          *)
(***************************************************************************)
EXTENDS EngineProofs

\* A crash of provisiond loses a decommission that is under way, a boot scan
\* that did not finish, and the jobs when the queue cannot be opened again; the
\* guarantee is proved for the systems in which it can do none of these.
CrashAlone == "crash" \in Env => /\ "reboot" \notin Env
                                 /\ "decommission" \notin Env
                                 /\ "queueError" \notin Env

-----------------------------------------------------------------------------
(* The inductive invariant *)

\* A workload has a state only in a stored deployment.
RecordsExist ==
    \A c \in Contracts : \A n \in Names :
        workloads[c][n] # "absent" => c \in deployments

\* The local variables of the worker at each of its steps.
Shape ==
    /\ pc \notin {"next", "call", "commit", "remove"} => todo = {}
    /\ pc \in {"call", "commit", "remove"} => cur \in todo
    /\ pc = "commit" /\ result = "unchanged" => head.plan[cur] = "update"
    /\ pc # "scan" => toBoot = {}
    /\ "decommission" \notin Env => decom = {}
    /\ \A j, k \in apiJobs : j = k
    /\ \A t, u \in decom : t = u
    /\ \A t \in decom : t.pc = "call" => t.state = "deleted"

\* Without reboots the boot scan runs before anything was ever installed.
BootFirst ==
    "reboot" \notin Env =>
        /\ Booting => \A c \in Contracts : \A n \in Names :
                            workloads[c][n] \notin Okay
        /\ ~booted => deployments = {}

Frame == TypeInv /\ RecordsExist /\ Shape /\ BootFirst

\* What has to be looked at: as long as provisiond does not crash, between
\* storage.Create and Enqueue for example, workloads in state init as well.
Steady == "crash" \notin Env
Watched == Okay \cup {s \in {"init"} : Steady}

Touches(j, c, n) == j.c = c /\ j.plan[n] \in {"add", "remove"}

\* The job at the head of the queue, or one behind it, will look at n of c.
HeadHandles(c, n) == /\ queue # <<>>
                     /\ Touches(head, c, n)
                     /\ Running => n \in todo
Queued(c, n) == \E i \in DOMAIN queue : i # 1 /\ Touches(queue[i], c, n)

\* A decommission will, or the API is about to enqueue a job that does.
Raced(c, n) ==
    \/ /\ Steady
       /\ \E j \in apiJobs : Touches(j, c, n)
    \/ \E t \in decom : /\ t.c = c /\ t.n = n
                        /\ t.pc \in {"commit", "remove"}
                        /\ t.state = "deleted"

\* StoredIsProvisioned and NoStrandedInit, with the excuses that survive every
\* step.
Recorded ==
    \A c \in Contracts : \A n \in Names :
        workloads[c][n] \in Watched =>
            \/ n \in provisioned[c]
            \/ pc = "boot" \/ c \in toBoot
            \/ HeadHandles(c, n) \/ Queued(c, n) \/ Raced(c, n)

\* The worker holds a result that it is going to record as in use.
Holding == \/ pc = "call" /\ head.plan[cur] \in {"lock", "unlock"}
           \/ pc = "commit" /\ result \in Watched

\* Such a result is true of the node, or something will look at it again, or
\* there is nothing to record it in.
InFlight ==
    Holding => \/ cur \in provisioned[head.c]
               \/ Queued(head.c, cur) \/ Raced(head.c, cur)
               \/ /\ Steady
                  /\ workloads[head.c][cur] = "absent"

SafeInv == Frame /\ Recorded /\ InFlight

-----------------------------------------------------------------------------
(* The frame: records, local variables and the boot phase *)

LEMMA InitSafe == Init => SafeInv
<1> SUFFICES ASSUME Init PROVE SafeInv
  OBVIOUS
<1>1. TypeInv
  BY InitType
<1>2. RecordsExist /\ BootFirst
  BY DEF Init, RecordsExist, BootFirst, Nothing, Okay
<1>3. Shape
  BY DEF Init, Shape
<1>4. Recorded /\ InFlight
  BY DEF Init, Recorded, InFlight, Holding
<1> QED
  BY <1>1, <1>2, <1>3, <1>4 DEF SafeInv, Frame

\* Steps outside of the worker keep the frame.
LEMMA RequestFrame ==
    Frame /\ (Api \/ ApiStep \/ Events \/ EventStep \/ MarkBooted) => Frame'
<1> SUFFICES ASSUME Frame, Api \/ ApiStep \/ Events \/ EventStep \/ MarkBooted
             PROVE  RecordsExist' /\ Shape' /\ BootFirst'
  BY RequestType, RestartType DEF Frame
<1> USE DEF Frame, TypeInv, TypeOK
<1>h. queue # <<>> => \A j : head = Head(Append(queue, j))
  BY DEF head
<1>w. ASSUME UNCHANGED workerVars,
             queue' = queue \/ \E j : queue' = Append(queue, j),
             "decommission" \notin Env => decom' = {},
             \A j, k \in apiJobs' : j = k, \A t, u \in decom' : t = u,
             \A t \in decom' : t.pc = "call" => t.state = "deleted"
      PROVE  Shape'
  <2>1. pc = "commit" => head' = head
    BY <1>w, <1>h DEF JobAtHead, Running, head
  <2> QED
    BY <1>w, <2>1 DEF Shape, workerVars
<1>r. ASSUME UNCHANGED workerVars, deployments' = deployments, booted' = booted,
             \A c \in Contracts : \A n \in Names :
                 \/ workloads'[c][n] = workloads[c][n]
                 \/ workloads'[c][n] \notin Okay
                    /\ (workloads'[c][n] = "absent" \/ workloads[c][n] # "absent")
      PROVE  RecordsExist' /\ BootFirst'
  BY <1>r DEF RecordsExist, BootFirst, Booting, workerVars
<1>1. ASSUME NEW c \in Contracts, NEW names \in SUBSET Names, Provision(c, names)
      PROVE  RecordsExist' /\ Shape' /\ BootFirst'
  <2>1. Shape'
    BY <1>1, <1>w DEF Provision, Shape
  <2>2. RecordsExist'
    BY <1>1 DEF Provision, RecordsExist
  <2>3. BootFirst'
    BY <1>1 DEF Provision, BootFirst, Booting, ApiIdle, workerVars, Okay
  <2> QED
    BY <2>1, <2>2, <2>3
<1>2. ASSUME NEW c \in Contracts, NEW target, NEW changed,
             Update(c, target, changed)
      PROVE  RecordsExist' /\ Shape' /\ BootFirst'
  BY <1>2, <1>w, <1>r DEF Update, Shape
<1>3. ASSUME NEW c \in Contracts, NEW n \in Names, DecommissionStart(c, n)
      PROVE  RecordsExist' /\ Shape' /\ BootFirst'
  <2>1. /\ decom' = {[c |-> c, n |-> n, pc |-> "call", state |-> "deleted"]}
        /\ apiJobs' = {} /\ "decommission" \in Env
    BY <1>3 DEF DecommissionStart, ApiIdle
  <2>2. Shape'
    BY <1>3, <2>1, <1>w DEF DecommissionStart
  <2> QED
    BY <1>3, <2>2, <1>r DEF DecommissionStart, storageVars
<1>4. ASSUME ApiEnqueue PROVE RecordsExist' /\ Shape' /\ BootFirst'
  BY <1>4, <1>w, <1>r DEF ApiEnqueue, Shape, storageVars
<1>5. ASSUME NEW t \in decom, DecommissionCall(t)
      PROVE  RecordsExist' /\ Shape' /\ BootFirst'
  <2>1. "decommission" \in Env /\ \A j, k \in apiJobs : j = k
    BY DEF Shape
  <2>2. \A u \in decom' : \A v \in decom' : u = v /\ u.pc = "commit"
    <3>1. /\ [t EXCEPT !.pc = "commit"].pc = "commit"
          /\ [t EXCEPT !.pc = "commit", !.state = "error"].pc = "commit"
      BY DecommissionMoves
    <3> QED
      BY <1>5, <3>1, Zenon DEF DecommissionCall
  <2>3. Shape'
    BY <1>5, <2>1, <2>2, <1>w DEF DecommissionCall
  <2> QED
    BY <1>5, <2>3, <1>r DEF DecommissionCall, storageVars
<1>6. ASSUME NEW t \in decom, DecommissionCommit(t)
      PROVE  RecordsExist' /\ Shape' /\ BootFirst'
  <2>1. "decommission" \in Env /\ \A j, k \in apiJobs : j = k
    BY DEF Shape
  <2>2. t.state \notin Okay /\ t.state # "absent"
    BY DEF Decommission, Okay
  <2>3. \A c \in Contracts : \A n \in Names :
            \/ workloads'[c][n] = workloads[c][n]
            \/ workloads'[c][n] = t.state /\ workloads[c][n] # "absent"
    <3>1. t.c \in Contracts /\ t.n \in Names
      BY DecommissionMoves
    <3>2. \A c \in Contracts : \A n \in Names :
             [workloads EXCEPT ![t.c][t.n] = t.state][c][n] =
                IF c = t.c /\ n = t.n THEN t.state ELSE workloads[c][n]
      BY <3>1, SetStateAt
    <3>3. CASE workloads' = workloads
      BY <3>3
    <3>4. CASE /\ workloads[t.c][t.n] # "absent"
               /\ workloads' = [workloads EXCEPT ![t.c][t.n] = t.state]
      BY <3>2, <3>4
    <3> QED
      BY <1>6, <3>3, <3>4, Zenon DEF DecommissionCommit
  <2> QED
    <3>1. \A u \in decom' : \A v \in decom' : u = v /\ u.pc = "remove"
      <4>1. [t EXCEPT !.pc = "remove"].pc = "remove"
        BY DecommissionMoves
      <4>2. decom' = {} \/ decom' = {[t EXCEPT !.pc = "remove"]}
        BY <1>6 DEF DecommissionCommit
      <4> QED
        BY <4>1, <4>2, Zenon
    <3>2. Shape'
      BY <1>6, <2>1, <3>1, <1>w DEF DecommissionCommit
    <3> QED
      BY <1>6, <2>2, <2>3, <3>2, <1>r DEF DecommissionCommit
<1>7. ASSUME NEW t \in decom, DecommissionRemove(t)
      PROVE  RecordsExist' /\ Shape' /\ BootFirst'
  <2>1. \A c \in Contracts : \A n \in Names :
            \/ workloads'[c][n] = workloads[c][n]
            \/ workloads'[c][n] = "absent"
    BY <1>7 DEF DecommissionRemove
  <2> QED
    BY <1>7, <2>1, <1>w, <1>r DEF DecommissionRemove, Okay, Shape
<1>8. ASSUME NEW g, NEW op, NEW c, Schedule(g, op, c)
      PROVE  RecordsExist' /\ Shape' /\ BootFirst'
  BY <1>8, <1>w, <1>r DEF Schedule, Shape, storageVars, apiVars
<1>9. ASSUME NEW j, EnqueueScheduled(j)
      PROVE  RecordsExist' /\ Shape' /\ BootFirst'
  BY <1>9, <1>w, <1>r DEF EnqueueScheduled, Shape, storageVars, apiVars
<1>10. ASSUME MarkBooted PROVE RecordsExist' /\ Shape' /\ BootFirst'
  BY <1>10, <1>w DEF MarkBooted, Shape, storageVars, apiVars, workerVars,
     RecordsExist, BootFirst, Booting
<1> HIDE DEF Frame
<1>11. CASE Api
  BY <1>1, <1>2, <1>3, <1>11 DEF Api
<1>12. CASE ApiStep
  BY <1>4, <1>5, <1>6, <1>7, <1>12 DEF ApiStep
<1>13. CASE Events \/ EventStep \/ MarkBooted
  BY <1>8, <1>9, <1>10, <1>13 DEF Events, EventStep
<1> QED
  BY <1>11, <1>12, <1>13

\* Steps of the worker keep the frame.
LEMMA RunFrame == Frame /\ Run => Frame'
<1> SUFFICES ASSUME Frame, Run PROVE RecordsExist' /\ Shape' /\ BootFirst'
  BY RunType DEF Frame
<1> USE DEF Frame, TypeInv, TypeOK
<1> DEFINE Keeps == RecordsExist' /\ Shape' /\ BootFirst'
<1>a. ASSUME Running PROVE head \in Job /\ head.c \in Contracts
  BY <1>a, HeadType DEF JobAtHead
<1>r. ASSUME deployments' = deployments, booted' = booted, ~Booting',
             \A c \in Contracts : \A n \in Names :
                 \/ workloads'[c][n] = workloads[c][n]
                 \/ workloads'[c][n] = "absent" \/ workloads[c][n] # "absent"
                 \/ c \in deployments
      PROVE  RecordsExist' /\ BootFirst'
  BY <1>r DEF RecordsExist, BootFirst
<1>1. ASSUME BootList PROVE Keeps
  BY <1>1 DEF BootList, RecordsExist, BootFirst, Booting, Shape, storageVars,
     apiVars
<1>2. ASSUME NEW c \in toBoot, BootScan(c) PROVE Keeps
  BY <1>2 DEF BootScan, RecordsExist, BootFirst, Booting, Shape, storageVars,
     apiVars
<1>3. ASSUME BootDone PROVE Keeps
  BY <1>3, <1>r DEF BootDone, Booting, Shape, storageVars, apiVars
<1>4. ASSUME NEW reply, StartJob(reply) PROVE Keeps
  BY <1>4, <1>r DEF StartJob, Booting, Shape, storageVars, apiVars
<1>5. ASSUME NEW reply, RejectJob(reply) PROVE Keeps
  <2>1. \A c \in Contracts : \A n \in Names :
            \/ workloads'[c][n] = workloads[c][n]
            \/ workloads'[c][n] = "absent" \/ workloads[c][n] # "absent"
    BY <1>5 DEF RejectJob, Errored
  <2>2. Shape'
    BY <1>5 DEF RejectJob, Errored, Shape, apiVars
  <2> QED
    BY <1>5, <2>1, <2>2, <1>r DEF RejectJob, Errored, Booting
<1>6. ASSUME Discard PROVE Keeps
  BY <1>6, <1>r DEF Discard, Booting, Shape, storageVars, apiVars
<1>7. ASSUME NEW n \in todo, Check(n) PROVE Keeps
  <2>1. pc = "next" /\ n \in Names /\ head.c \in Contracts
    BY <1>7, <1>a DEF Check, Running
  <2>2. \/ workloads' = workloads
        \/ /\ head.c \in deployments
           /\ workloads' = [workloads EXCEPT ![head.c][n] = "init"]
    BY <1>7 DEF Check, Checked, Retriable
  <2>3. \A c \in Contracts : \A m \in Names :
            workloads'[c][m] = workloads[c][m] \/ c \in deployments
    BY <2>1, <2>2
  <2>4. Shape'
    BY <1>7 DEF Check, Skip, Shape, apiVars
  <2> QED
    BY <1>7, <2>3, <2>4, <1>r DEF Check, Skip, Booting
<1>8. ASSUME CallProvision PROVE Keeps
  BY <1>8, <1>r DEF CallProvision, Answer, Skip, Booting, Shape, storageVars,
     apiVars
<1>9. ASSUME CallDeprovision PROVE Keeps
  BY <1>9, <1>r DEF CallDeprovision, Answer, Booting, Shape, storageVars, apiVars
<1>10. ASSUME CallUpdate PROVE Keeps
  <2>1. pc = "call" /\ head.plan[cur] = "update" /\ head' = head
    BY <1>10 DEF CallUpdate, head
  <2> QED
    BY <1>10, <2>1, <1>r DEF CallUpdate, Answer, Skip, Booting, Shape,
       storageVars, apiVars
<1>11. ASSUME CallLock PROVE Keeps
  BY <1>11, <1>r DEF CallLock, Answer, Booting, Shape, storageVars, apiVars
<1>12. ASSUME Commit PROVE Keeps
  <2>1. head.c \in Contracts
    BY <1>12, <1>a DEF Commit, IsUnChanged, Running
  <2>2. \A c \in Contracts : \A n \in Names :
            workloads'[c][n] = workloads[c][n] \/ workloads[c][n] # "absent"
    BY <1>12, <2>1 DEF Commit, IsUnChanged
  <2>3. Shape'
    BY <1>12 DEF Commit, IsUnChanged, Skip, Shape, apiVars
  <2> QED
    BY <1>12, <2>2, <2>3, <1>r DEF Commit, IsUnChanged, Skip, Booting
<1>13. ASSUME Remove PROVE Keeps
  <2>1. \A c \in Contracts : \A n \in Names :
            workloads'[c][n] = workloads[c][n] \/ workloads'[c][n] = "absent"
    BY <1>13, <1>a DEF Remove, Running
  <2> QED
    BY <1>13, <2>1, <1>r DEF Remove, Skip, Booting, Shape, apiVars
<1>14. ASSUME FinishJob PROVE Keeps
  <2>1. head.c \in Contracts
    BY <1>14, <1>a DEF FinishJob, Running
  <2>2. RecordsExist'
    <3>1. \A n \in Names : Nothing[n] = "absent"
      BY DEF Nothing
    <3>2. CASE UNCHANGED storageVars
      BY <3>2 DEF RecordsExist, storageVars
    <3>3. CASE /\ deployments' = deployments \ {head.c}
               /\ workloads' = [workloads EXCEPT ![head.c] = Nothing]
      BY <2>1, <3>1, <3>3 DEF RecordsExist
    <3> QED
      BY <1>14, <3>2, <3>3, Zenon DEF FinishJob
  <2>3. BootFirst'
    BY <1>14 DEF FinishJob, BootFirst, Booting, storageVars
  <2> QED
    BY <1>14, <2>2, <2>3 DEF FinishJob, Shape, apiVars
<1>15. ASSUME Dequeue PROVE Keeps
  BY <1>15, <1>r DEF Dequeue, Booting, Shape, storageVars, apiVars
<1>16. ASSUME Callback PROVE Keeps
  BY <1>16, <1>r DEF Callback, Booting, Shape, storageVars, apiVars
<1> HIDE DEF Frame, Keeps
<1>17. ASSUME Work PROVE Keeps
  BY <1>17, <1>1, <1>2, <1>3, <1>6, <1>7, <1>8, <1>9, <1>10, <1>11, <1>12,
     <1>13, <1>14, <1>15 DEF Work, Call
<1>18. Keeps
  BY <1>4, <1>5, <1>16, <1>17 DEF Run, Begin
<1> QED
  BY <1>18 DEF Keeps

\* A restart keeps the frame.
LEMMA RestartFrame == Frame /\ (Crash \/ Reboot) => Frame'
<1> SUFFICES ASSUME Frame PROVE
        (Crash \/ Reboot) => RecordsExist' /\ Shape' /\ BootFirst'
  BY RestartType DEF Frame
<1> USE DEF Frame, TypeInv, TypeOK
<1>1. ASSUME NEW r, Start(r) PROVE RecordsExist' /\ Shape'
  <2>1. RecordsExist'
    BY <1>1 DEF Start, RecordsExist, Stored
  <2> QED
    BY <1>1, <2>1 DEF Start, Shape
<1>2. ASSUME Crash PROVE BootFirst'
  <2>1. ~booted => \A c \in Contracts : \A n \in Names : workloads[c][n] = "absent"
        \/ "reboot" \in Env
    BY DEF BootFirst, RecordsExist
  <2> QED
    BY <1>2, <2>1 DEF Crash, Start, BootFirst, Booting, Okay
<1>3. ASSUME Reboot PROVE BootFirst'
  BY <1>3 DEF Reboot, BootFirst
<1> QED
  BY <1>1, <1>2, <1>3 DEF Crash, Reboot

LEMMA NextFrame == Frame /\ [Next]_vars => Frame'
<1> SUFFICES ASSUME Frame, [Next]_vars PROVE Frame'
  OBVIOUS
<1>1. CASE Next
  BY <1>1, RequestFrame, RunFrame, RestartFrame DEF Next
<1>2. CASE UNCHANGED vars
  <2>1. TypeInv'
    BY <1>2, NextType DEF Frame
  <2> QED
    BY <1>2, <2>1 DEF vars, storageVars, workerVars, apiVars, Frame,
       RecordsExist, Shape, BootFirst, Booting, head
<1> QED
  BY <1>1, <1>2

-----------------------------------------------------------------------------
(* The steps of the other threads *)

\* The queue grows at its end: what it holds stays there.
LEMMA QueueGrows ==
    ASSUME TypeInv, NEW j \in Job, queue' = Append(queue, j),
           pc' = pc, todo' = todo, NEW c, NEW n
    PROVE  /\ queue # <<>> => head' = head
           /\ HeadHandles(c, n) => HeadHandles(c, n)'
           /\ Queued(c, n) => Queued(c, n)'
           /\ Touches(j, c, n) =>
                 IF queue = <<>> THEN HeadHandles(c, n)' ELSE Queued(c, n)'
<1> USE DEF TypeInv, TypeOK
<1>1. /\ queue' # <<>>
      /\ DOMAIN queue \subseteq DOMAIN queue'
      /\ \A i \in DOMAIN queue : queue'[i] = queue[i]
      /\ Len(queue) + 1 \in DOMAIN queue' /\ queue'[Len(queue) + 1] = j
  BY AppendType
<1>2. queue # <<>> => head' = head
  BY DEF head
<1>3. queue = <<>> => head' = j /\ ~Running
  BY DEF head, JobAtHead
<1>4. HeadHandles(c, n) => HeadHandles(c, n)'
  BY <1>1, <1>2 DEF HeadHandles, Touches, Running
<1>5. Queued(c, n) => Queued(c, n)'
  BY <1>1 DEF Queued, Touches
<1>6. ASSUME Touches(j, c, n), queue = <<>> PROVE HeadHandles(c, n)'
  BY <1>1, <1>3, <1>6 DEF HeadHandles, Touches, Running
<1>7. ASSUME Touches(j, c, n), queue # <<>> PROVE Queued(c, n)'
  <2>1. Len(queue) + 1 # 1
    BY <1>7
  <2> QED
    BY <1>1, <1>7, <2>1 DEF Queued, Touches
<1> QED
  BY <1>2, <1>4, <1>5, <1>6, <1>7

\* What a step of another thread has to respect.
LEMMA OtherThreads ==
    ASSUME Frame, Recorded, InFlight,
           UNCHANGED workerVars,
           queue' = queue \/ \E j \in Job : queue' = Append(queue, j),
           ASSUME NEW c \in Contracts, NEW n \in Names
           PROVE  /\ workloads'[c][n] \in Watched =>
                        workloads[c][n] \in Watched \/ Raced(c, n)'
                  /\ n \in provisioned[c] =>
                        n \in provisioned'[c] \/ Raced(c, n)'
                  /\ Raced(c, n) =>
                        \/ Raced(c, n)'
                        \/ Steady /\ workloads'[c][n] = "absent"
                        \/ IF queue = <<>> THEN HeadHandles(c, n)'
                                           ELSE Queued(c, n)'
                  /\ Steady /\ workloads[c][n] = "absent" =>
                        workloads'[c][n] = "absent" \/ Raced(c, n)'
    PROVE  Recorded' /\ InFlight'
<1> USE DEF workerVars
<1>1. ASSUME NEW c \in Contracts, NEW n \in Names
      PROVE  /\ HeadHandles(c, n) => HeadHandles(c, n)'
             /\ Queued(c, n) => Queued(c, n)'
  <2>1. CASE queue' = queue
    BY <2>1 DEF HeadHandles, Queued, Touches, Running, head
  <2> QED
    BY <2>1, QueueGrows DEF Frame
<1>2. Recorded'
  <2> SUFFICES ASSUME NEW c \in Contracts, NEW n \in Names,
                      workloads'[c][n] \in Watched
               PROVE  \/ n \in provisioned'[c]
                      \/ pc' = "boot" \/ c \in toBoot'
                      \/ HeadHandles(c, n)' \/ Queued(c, n)' \/ Raced(c, n)'
    BY DEF Recorded
  <2>1. workloads'[c][n] # "absent"
    BY DEF Okay, Watched
  <2>2. \/ Raced(c, n)'
        \/ n \in provisioned[c]
        \/ pc = "boot" \/ c \in toBoot
        \/ HeadHandles(c, n) \/ Queued(c, n) \/ Raced(c, n)
    BY DEF Recorded
  <2> QED
    BY <1>1, <2>1, <2>2
<1>3. InFlight'
  <2> SUFFICES ASSUME Holding' PROVE InFlight'
    BY DEF InFlight
  <2>1. queue # <<>> /\ head.c \in Contracts /\ cur \in Names
    BY HeadType DEF Holding, Frame, TypeInv, TypeOK, JobAtHead, Running
  <2>2. head' = head
    BY <2>1, QueueGrows DEF Frame, head
  <2>3. Holding
    BY <2>2 DEF Holding
  <2>4. \/ cur \in provisioned[head.c]
        \/ Queued(head.c, cur) \/ Raced(head.c, cur)
        \/ Steady /\ workloads[head.c][cur] = "absent"
    BY <2>3 DEF InFlight
  <2>5. PICK c \in Contracts, n \in Names : c = head.c /\ n = cur
    BY <2>1
  <2>6. \/ n \in provisioned'[c]
        \/ Queued(c, n)' \/ Raced(c, n)'
        \/ Steady /\ workloads'[c][n] = "absent"
    BY <1>1, <2>1, <2>4, <2>5
  <2>7. c = head'.c /\ n = cur'
    BY <2>2, <2>5
  <2> QED
    BY <2>6, <2>7 DEF InFlight
<1> QED
  BY <1>2, <1>3

LEMMA RequestSafe ==
    ASSUME CrashAlone, SafeInv,
           Api \/ ApiStep \/ Events \/ EventStep \/ MarkBooted
    PROVE  Recorded' /\ InFlight'
<1> DEFINE Keeps == Recorded' /\ InFlight'
<1>0. Frame /\ Recorded /\ InFlight /\ Shape /\ TypeInv
  BY DEF SafeInv, Frame
<1>u. ASSUME UNCHANGED <<workerVars, provisioned, workloads>>,
             queue' = queue \/ \E j \in Job : queue' = Append(queue, j),
             decom' = decom,
             \/ apiJobs' = apiJobs
             \/ apiJobs = {}
             \/ \E j \in apiJobs : queue' = Append(queue, j) /\ j \in Job
                                   /\ \A k \in apiJobs : k = j
      PROVE  Keeps
  <2>1. ASSUME NEW c \in Contracts, NEW n \in Names
        PROVE  Raced(c, n) => \/ Raced(c, n)'
                              \/ IF queue = <<>> THEN HeadHandles(c, n)'
                                                 ELSE Queued(c, n)'
    <3>1. CASE apiJobs' = apiJobs \/ apiJobs = {}
      BY <1>u, <3>1 DEF Raced
    <3>2. ASSUME NEW j \in apiJobs, queue' = Append(queue, j), j \in Job,
                 \A k \in apiJobs : k = j, Touches(j, c, n)
          PROVE  IF queue = <<>> THEN HeadHandles(c, n)' ELSE Queued(c, n)'
      BY <1>u, <1>0, <3>2, QueueGrows DEF workerVars
    <3> QED
      BY <1>u, <3>1, <3>2 DEF Raced
  <2> QED
    BY <1>0, <1>u, <2>1, OtherThreads
<1>1. ASSUME NEW c \in Contracts, NEW names \in SUBSET Names, Provision(c, names)
      PROVE  Keeps
  <2> DEFINE snap == [n \in Names |-> IF n \in names THEN "init" ELSE "absent"]
             job == JobOf("provision", c, snap)
  <2>1. /\ apiJobs = {} /\ apiJobs' = {job} /\ decom' = decom
        /\ workloads' = [workloads EXCEPT ![c] = snap]
        /\ UNCHANGED <<workerVars, queue, provisioned>>
    BY <1>1 DEF Provision, ApiIdle
  <2>2. ASSUME NEW d \in Contracts, NEW n \in Names
        PROVE  /\ workloads'[d][n] = IF d = c THEN snap[n] ELSE workloads[d][n]
               /\ snap[n] \in {"init", "absent"}
    BY <1>0, <2>1 DEF TypeInv, TypeOK
  <2>3. ASSUME NEW d \in Contracts, NEW n \in Names
        PROVE  Raced(d, n) => Raced(d, n)'
    BY <2>1 DEF Raced
  <2>4. ASSUME NEW n \in names, Steady PROVE Raced(c, n)'
    <3>1. n \in Names /\ job.c = c
          /\ job.plan[n] = StepFor("provision", snap[n]) /\ snap[n] = "init"
      BY DEF JobOf
    <3>2. job.plan[n] = "add"
      BY <3>1 DEF StepFor
    <3> QED
      BY <2>1, <2>4, <3>1, <3>2 DEF Raced, Touches
  <2>5. ASSUME NEW d \in Contracts, NEW n \in Names
        PROVE  /\ workloads'[d][n] \in Watched =>
                      workloads[d][n] \in Watched \/ Raced(d, n)'
               /\ n \in provisioned[d] => n \in provisioned'[d]
               /\ Steady /\ workloads[d][n] = "absent" =>
                      workloads'[d][n] = "absent" \/ Raced(d, n)'
    <3>1. CASE d # c
      BY <2>1, <2>2, <3>1
    <3>2. CASE d = c /\ n \notin names
      <4>1. workloads'[d][n] = "absent"
        BY <2>2, <3>2
      <4> QED
        BY <2>1, <4>1 DEF Watched, Okay
    <3>3. CASE d = c /\ n \in names
      <4>1. workloads'[d][n] = "init"
        BY <2>2, <3>3
      <4>2. "init" \in Watched => Steady
        BY DEF Watched, Okay
      <4> QED
        BY <2>1, <2>4, <3>3, <4>1, <4>2
    <3> QED
      BY <3>1, <3>2, <3>3
  <2> HIDE DEF snap, job
  <2>6. UNCHANGED workerVars /\ queue' = queue
    BY <2>1
  <2> QED
    BY <1>0, <2>3, <2>5, <2>6, OtherThreads
<1>2. ASSUME NEW c \in Contracts, NEW target, NEW changed,
             Update(c, target, changed)
      PROVE  Keeps
  BY <1>2, <1>u DEF Update, ApiIdle
<1>3. ASSUME NEW c \in Contracts, NEW n \in Names, DecommissionStart(c, n)
      PROVE  Keeps
  <2>1. ASSUME NEW d \in Contracts, NEW m \in Names PROVE ~Raced(d, m)
    BY <1>3 DEF DecommissionStart, ApiIdle, Raced
  <2> QED
    BY <1>0, <1>3, <2>1, OtherThreads DEF DecommissionStart, storageVars
<1>4. ASSUME ApiEnqueue PROVE Keeps
  <2>1. PICK j \in apiJobs : queue' = Append(queue, j)
    BY <1>4 DEF ApiEnqueue
  <2>2. j \in Job
    BY <1>0 DEF TypeInv, TypeOK
  <2>3. \A k \in apiJobs : k = j
    BY <1>0 DEF Shape
  <2> QED
    BY <1>4, <2>1, <2>2, <2>3, <1>u DEF ApiEnqueue, storageVars
<1>d. ASSUME NEW t \in decom
      PROVE  /\ t \in Decommission /\ t.c \in Contracts /\ t.n \in Names
             /\ \A u \in decom : u = t
             /\ Steady
             /\ t.pc = "call" => t.state = "deleted"
  BY <1>0, DecommissionMoves DEF TypeInv, TypeOK, Shape, CrashAlone, Steady
<1>5. ASSUME NEW t \in decom, DecommissionCall(t) PROVE Keeps
  <2> DEFINE u == [t EXCEPT !.pc = "commit"]
  <2>1. u.c = t.c /\ u.n = t.n /\ u.pc = "commit" /\ u.state = t.state
    BY <1>d, DecommissionMoves
  <2>2. t.pc = "call" /\ t.state = "deleted"
    BY <1>5, <1>d DEF DecommissionCall
  <2>3. ASSUME NEW c \in Contracts, NEW n \in Names
        PROVE  n \in provisioned[c] => n \in provisioned'[c] \/ Raced(c, n)'
    <3>1. CASE provisioned' = provisioned
      BY <3>1
    <3>2. CASE /\ provisioned' = [provisioned EXCEPT ![t.c] = @ \ {t.n}]
               /\ decom' = {u}
      <4>1. c = t.c /\ n = t.n => Raced(c, n)'
        BY <2>1, <2>2, <3>2 DEF Raced
      <4> QED
        BY <1>0, <1>d, <3>2, <4>1 DEF TypeInv, TypeOK
    <3> QED
      BY <1>5, <3>1, <3>2, Zenon DEF DecommissionCall
  <2>4. ASSUME NEW c \in Contracts, NEW n \in Names
        PROVE  Raced(c, n) => Raced(c, n)'
    BY <1>5, <1>d, <2>2 DEF DecommissionCall, Raced
  <2> HIDE DEF u
  <2> QED
    BY <1>0, <1>5, <2>3, <2>4, OtherThreads DEF DecommissionCall, storageVars
<1>6. ASSUME NEW t \in decom, DecommissionCommit(t) PROVE Keeps
  <2> DEFINE u == [t EXCEPT !.pc = "remove"]
  <2>1. u.c = t.c /\ u.n = t.n /\ u.pc = "remove" /\ u.state = t.state
    BY <1>d, DecommissionMoves
  <2>2. t.state \notin Watched
    BY <1>d DEF Decommission, Okay, Watched
  <2>3. ASSUME NEW c \in Contracts, NEW n \in Names
        PROVE  /\ workloads'[c][n] \in Watched => workloads[c][n] \in Watched
               /\ workloads[c][n] = "absent" => workloads'[c][n] = "absent"
    <3>1. CASE workloads' = workloads
      BY <3>1
    <3>2. CASE /\ workloads[t.c][t.n] # "absent"
               /\ workloads' = [workloads EXCEPT ![t.c][t.n] = t.state]
      <4>1. workloads'[c][n] =
                IF c = t.c /\ n = t.n THEN t.state ELSE workloads[c][n]
        BY <1>0, <1>d, <3>2, SetStateAt DEF TypeInv, TypeOK
      <4> QED
        BY <2>2, <3>2, <4>1
    <3> QED
      BY <1>6, <3>1, <3>2, Zenon DEF DecommissionCommit
  <2>4. ASSUME NEW c \in Contracts, NEW n \in Names
        PROVE  Raced(c, n) => Raced(c, n)' \/ workloads'[c][n] = "absent"
    <3>1. CASE \E j \in apiJobs : Touches(j, c, n)
      BY <1>6, <1>d, <3>1 DEF DecommissionCommit, Raced
    <3>2. CASE t.c = c /\ t.n = n /\ t.state = "deleted"
      <4>1. CASE workloads[t.c][t.n] = "absent"
        BY <1>6, <3>2, <4>1 DEF DecommissionCommit
      <4>2. CASE workloads[t.c][t.n] # "absent"
        <5>1. decom' = {u}
          BY <1>6, <3>2, <4>2 DEF DecommissionCommit
        <5> QED
          BY <2>1, <3>2, <5>1 DEF Raced
      <4> QED
        BY <4>1, <4>2
    <3> QED
      BY <1>d, <3>1, <3>2 DEF Raced
  <2> HIDE DEF u
  <2> QED
    <3>1. /\ UNCHANGED workerVars /\ queue' = queue
          /\ provisioned' = provisioned /\ Steady
      BY <1>6, <1>d DEF DecommissionCommit
    <3> QED
      BY <1>0, <2>3, <2>4, <3>1, OtherThreads
<1>7. ASSUME NEW t \in decom, DecommissionRemove(t) PROVE Keeps
  <2>1. ASSUME NEW c \in Contracts, NEW n \in Names
        PROVE  workloads'[c][n] =
                   IF c = t.c /\ n = t.n THEN "absent" ELSE workloads[c][n]
    BY <1>0, <1>7, <1>d, SetStateAt DEF DecommissionRemove, TypeInv, TypeOK
  <2>2. ASSUME NEW c \in Contracts, NEW n \in Names
        PROVE  /\ workloads'[c][n] \in Watched => workloads[c][n] \in Watched
               /\ workloads[c][n] = "absent" => workloads'[c][n] = "absent"
    BY <2>1 DEF Okay, Watched
  <2>3. ASSUME NEW c \in Contracts, NEW n \in Names
        PROVE  Raced(c, n) => Raced(c, n)' \/ workloads'[c][n] = "absent"
    BY <1>7, <1>d, <2>1 DEF DecommissionRemove, Raced
  <2> QED
    <3>1. /\ UNCHANGED workerVars /\ queue' = queue
          /\ provisioned' = provisioned /\ Steady
      BY <1>7, <1>d DEF DecommissionRemove
    <3> QED
      BY <1>0, <2>2, <2>3, <3>1, OtherThreads
<1>8. ASSUME NEW g, NEW op, NEW c, Schedule(g, op, c) PROVE Keeps
  BY <1>8, <1>u DEF Schedule, storageVars, apiVars
<1>9. ASSUME NEW t \in scheduled, EnqueueScheduled(t) PROVE Keeps
  <2>1. t.job \in Job
    BY <1>0, TicketType DEF TypeInv, TypeOK
  <2> QED
    BY <1>9, <2>1, <1>u DEF EnqueueScheduled, storageVars, apiVars
<1>10. ASSUME MarkBooted PROVE Keeps
  BY <1>10, <1>u DEF MarkBooted, storageVars, apiVars
<1> HIDE DEF Keeps
<1>11. ASSUME Api PROVE Keeps
  BY <1>1, <1>2, <1>3, <1>11 DEF Api
<1>12. ASSUME ApiStep PROVE Keeps
  BY <1>4, <1>5, <1>6, <1>7, <1>12 DEF ApiStep
<1>13. ASSUME Events \/ EventStep \/ MarkBooted PROVE Keeps
  BY <1>8, <1>9, <1>10, <1>13 DEF Events, EventStep
<1>14. Keeps
  BY <1>11, <1>12, <1>13
<1> QED
  BY <1>14 DEF Keeps

-----------------------------------------------------------------------------
(* The steps of the worker *)

\* The job at the head leaves the queue: what is behind it moves up.
LEMMA QueueShrinks ==
    ASSUME TypeInv, queue # <<>>, queue' = Tail(queue), ~Running', NEW c, NEW n
    PROVE  Queued(c, n) => HeadHandles(c, n)' \/ Queued(c, n)'
<1> USE DEF TypeInv, TypeOK
<1> SUFFICES ASSUME NEW i \in DOMAIN queue, i # 1, Touches(queue[i], c, n)
             PROVE  HeadHandles(c, n)' \/ Queued(c, n)'
  BY DEF Queued
<1>1. i - 1 \in DOMAIN queue' /\ queue'[i - 1] = queue[i] /\ queue' # <<>>
  OBVIOUS
<1>2. CASE i - 1 = 1
  <2>1. head' = queue[i]
    BY <1>1, <1>2 DEF head
  <2> QED
    BY <1>1, <2>1 DEF HeadHandles, Touches
<1>3. CASE i - 1 # 1
  BY <1>1, <1>3 DEF Queued, Touches
<1> QED
  BY <1>2, <1>3

\* The boot scan and the steps between two jobs.
LEMMA BetweenJobs ==
    ASSUME SafeInv,
           \/ BootList \/ (\E c \in toBoot : BootScan(c)) \/ BootDone
           \/ (\E reply \in Replies : Begin(reply))
           \/ Discard \/ Dequeue \/ Callback
    PROVE  Recorded' /\ InFlight'
<1> DEFINE Keeps == Recorded' /\ InFlight'
<1>0. TypeInv /\ RecordsExist /\ Shape /\ Recorded
  BY DEF SafeInv, Frame
<1>f. ASSUME pc' \notin {"call", "commit"} PROVE InFlight'
  BY <1>f DEF InFlight, Holding
<1>u. ASSUME NEW c \in Contracts, NEW n \in Names, apiVars' = apiVars
      PROVE  Raced(c, n) => Raced(c, n)'
  BY <1>u DEF Raced, apiVars
<1>1. ASSUME BootList PROVE Keeps
  <2>1. Recorded'
    BY <1>0, <1>1, <1>u DEF BootList, Recorded, RecordsExist, Okay, Watched, storageVars
  <2> QED
    BY <1>1, <1>f, <2>1 DEF BootList
<1>2. ASSUME NEW c \in toBoot, BootScan(c) PROVE Keeps
  <2> DEFINE job == JobOf("provisionNoValidation", c, workloads[c])
  <2>1. c \in Contracts /\ pc = "scan" /\ pc' = "scan" /\ todo' = todo
        /\ workloads' = workloads /\ provisioned' = provisioned
        /\ apiVars' = apiVars /\ toBoot' = toBoot \ {c}
    BY <1>0, <1>2 DEF BootScan, TypeInv, TypeOK, storageVars
  <2>2. job \in Job
    BY <1>0, <2>1, JobOfType DEF TypeInv, TypeOK, Ops
  <2>3. ASSUME NEW d \in Contracts, NEW n \in Names
        PROVE  HeadHandles(d, n) \/ Queued(d, n)
                    => HeadHandles(d, n)' \/ Queued(d, n)'
    <3>1. CASE queue' = queue
      BY <2>1, <3>1 DEF HeadHandles, Queued, Touches, Running, head
    <3>2. CASE queue' = Append(queue, job)
      BY <1>0, <2>1, <2>2, <3>2, QueueGrows
    <3> QED
      BY <1>2, <3>1, <3>2 DEF BootScan
  <2>4. ASSUME NEW n \in Names, workloads[c][n] \in Watched
        PROVE  HeadHandles(c, n)' \/ Queued(c, n)'
    <3>1. workloads[c][n] \notin {"absent", "error", "deleted"}
      BY <2>4 DEF Okay, Watched
    <3>2. c \in deployments /\ IsActive(workloads[c])
      BY <1>0, <2>1, <3>1 DEF RecordsExist, IsActive
    <3>3. queue' = Append(queue, job)
      BY <1>2, <3>2 DEF BootScan
    <3>4. job.c = c /\ job.plan[n] = StepFor("provisionNoValidation", workloads[c][n])
      BY DEF JobOf
    <3>5. Touches(job, c, n)
      BY <3>1, <3>4 DEF Touches, StepFor
    <3> HIDE DEF job
    <3> QED
      BY <1>0, <2>1, <2>2, <3>3, <3>5, QueueGrows
  <2>5. Recorded'
    BY <1>0, <1>u, <2>1, <2>3, <2>4 DEF Recorded
  <2> QED
    BY <1>f, <2>1, <2>5
<1>3. ASSUME BootDone PROVE Keeps
  <2>1. ASSUME NEW c \in Contracts, NEW n \in Names
        PROVE  /\ HeadHandles(c, n) => HeadHandles(c, n)'
               /\ Queued(c, n) => Queued(c, n)'
    BY <1>3 DEF BootDone, HeadHandles, Queued, Touches, Running, head
  <2>2. Recorded'
    BY <1>0, <1>3, <1>u, <2>1 DEF BootDone, Recorded, storageVars
  <2> QED
    BY <1>3, <1>f, <2>2 DEF BootDone
<1>4. ASSUME NEW reply, StartJob(reply) PROVE Keeps
  <2>1. ASSUME NEW c \in Contracts, NEW n \in Names
        PROVE  /\ HeadHandles(c, n) => HeadHandles(c, n)'
               /\ Queued(c, n) => Queued(c, n)'
    BY <1>4 DEF StartJob, HeadHandles, Queued, Touches, Running, head
  <2>2. Recorded'
    BY <1>0, <1>4, <1>u, <2>1 DEF StartJob, Recorded, storageVars
  <2> QED
    BY <1>4, <1>f, <2>2 DEF StartJob
<1>5. ASSUME NEW reply, RejectJob(reply) PROVE Keeps
  <2>1. ASSUME NEW c \in Contracts, NEW n \in Names
        PROVE  /\ c # head.c /\ HeadHandles(c, n) => HeadHandles(c, n)'
               /\ Queued(c, n) => Queued(c, n)'
    BY <1>5 DEF RejectJob, Errored, HeadHandles, Queued, Touches, Running, head
  <2>2. ASSUME NEW c \in Contracts, NEW n \in Names, workloads'[c][n] \in Watched
        PROVE  c # head.c /\ workloads[c][n] \in Watched
    BY <1>0, <1>5, <2>2 DEF RejectJob, Errored, TypeInv, TypeOK, Okay, Watched
  <2>3. Recorded'
    BY <1>0, <1>5, <1>u, <2>1, <2>2 DEF RejectJob, Errored, Recorded
  <2> QED
    BY <1>5, <1>f, <2>3 DEF RejectJob, Errored
<1>6. ASSUME Discard \/ Dequeue PROVE Keeps
  <2>1. /\ queue # <<>> /\ queue' = Tail(queue) /\ Running /\ ~Running'
        /\ todo = {} /\ pc # "boot" /\ toBoot' = toBoot
        /\ workloads' = workloads /\ provisioned' = provisioned
        /\ apiVars' = apiVars
    BY <1>0, <1>6 DEF Discard, Dequeue, TypeInv, JobAtHead, Running, Shape,
       storageVars
  <2>2. ASSUME NEW c \in Contracts, NEW n \in Names
        PROVE  /\ ~HeadHandles(c, n)
               /\ Queued(c, n) => HeadHandles(c, n)' \/ Queued(c, n)'
    BY <1>0, <2>1, QueueShrinks DEF HeadHandles
  <2>3. Recorded'
    BY <1>0, <1>u, <2>1, <2>2 DEF Recorded
  <2> QED
    BY <1>6, <1>f, <2>3 DEF Discard, Dequeue
<1>7. ASSUME Callback PROVE Keeps
  <2>1. ASSUME NEW c \in Contracts, NEW n \in Names
        PROVE  /\ HeadHandles(c, n) => HeadHandles(c, n)'
               /\ Queued(c, n) => Queued(c, n)'
    BY <1>7 DEF Callback, HeadHandles, Queued, Touches, Running, head
  <2>2. Recorded'
    BY <1>0, <1>7, <1>u, <2>1 DEF Callback, Recorded, storageVars
  <2> QED
    BY <1>7, <1>f, <2>2 DEF Callback
<1> HIDE DEF Keeps
<1>8. Keeps
  BY <1>1, <1>2, <1>3, <1>4, <1>5, <1>6, <1>7 DEF Begin
<1> QED
  BY <1>8 DEF Keeps

\* The steps of a job.
LEMMA InsideJob ==
    ASSUME SafeInv,
           \/ (\E n \in todo : Check(n)) \/ Call \/ Commit \/ Remove \/ FinishJob
    PROVE  Recorded' /\ InFlight'
<1> DEFINE Keeps == Recorded' /\ InFlight'
           Excuse(c, n) == Queued(c, n) \/ Raced(c, n)
           Mine(c, n) == Touches(head, c, n) /\ n \in todo
<1>0. /\ TypeInv /\ RecordsExist /\ Shape /\ Recorded /\ InFlight
      /\ Running /\ queue # <<>> /\ toBoot = {} /\ pc # "boot"
      /\ head.c \in Contracts /\ cur \in Names /\ todo \subseteq Names
      /\ workloads \in [Contracts -> [Names -> States]]
      /\ provisioned \in [Contracts -> SUBSET Names]
  <2>1. /\ TypeInv /\ RecordsExist /\ Shape /\ Recorded /\ InFlight
    BY DEF SafeInv, Frame
  <2>2. pc \in {"next", "call", "commit", "remove"}
    BY DEF Check, Call, CallProvision, CallDeprovision, CallUpdate, CallLock,
       Commit, Remove, FinishJob
  <2>3. Running /\ toBoot = {} /\ pc # "boot" /\ queue # <<>>
    BY <2>1, <2>2 DEF Running, Shape, TypeInv, JobAtHead
  <2> QED
    BY <2>1, <2>3, HeadType DEF TypeInv, TypeOK
<1>j. ASSUME NEW c \in Contracts, NEW n \in Names, workloads[c][n] \in Watched
      PROVE  n \in provisioned[c] \/ Mine(c, n) \/ Excuse(c, n)
  BY <1>0, <1>j DEF Recorded, HeadHandles
<1>e. ASSUME NEW c \in Contracts, NEW n \in Names,
             queue' = queue, apiVars' = apiVars
      PROVE  Excuse(c, n) => Queued(c, n)' \/ Raced(c, n)'
  BY <1>e DEF Queued, Raced, Touches, apiVars
<1>r. ASSUME queue' = queue, apiVars' = apiVars,
             \A c \in Contracts : \A n \in Names :
                workloads'[c][n] \in Watched =>
                    \/ n \in provisioned'[c]
                    \/ Touches(head, c, n) /\ n \in todo'
                    \/ Excuse(c, n)
      PROVE  Recorded'
  <2>1. ASSUME NEW c \in Contracts, NEW n \in Names,
               Touches(head, c, n) /\ n \in todo'
        PROVE  HeadHandles(c, n)'
    BY <1>0, <1>r, <2>1 DEF HeadHandles, Touches, head
  <2> QED
    BY <1>r, <1>e, <2>1 DEF Recorded
<1>f. ASSUME queue' = queue, apiVars' = apiVars, cur' = cur,
             Holding' =>
                \/ cur \in provisioned'[head.c]
                \/ Excuse(head.c, cur)
                \/ Steady /\ workloads'[head.c][cur] = "absent"
      PROVE  InFlight'
  <2>1. PICK c \in Contracts, n \in Names : c = head.c /\ n = cur
    BY <1>0
  <2>2. c = head'.c /\ n = cur'
    BY <1>f, <2>1 DEF head
  <2>3. Holding' => \/ n \in provisioned'[c]
                    \/ Queued(c, n)' \/ Raced(c, n)'
                    \/ Steady /\ workloads'[c][n] = "absent"
    BY <1>f, <1>e, <2>1
  <2> QED
    BY <2>2, <2>3 DEF InFlight
<1>h. ASSUME pc' \in {"next", "remove", "dequeue"} PROVE InFlight'
  BY <1>h DEF InFlight, Holding
<1>1. ASSUME NEW n \in todo, Check(n) PROVE Keeps
  <2>1. /\ queue' = queue /\ apiVars' = apiVars /\ provisioned' = provisioned
        /\ pc = "next" /\ n \in Names
    BY <1>0, <1>1 DEF Check
  <2>2. CASE /\ Checked(head.plan[n], head.c, n) /\ pc' = "call" /\ cur' = n
             /\ todo' = todo
             /\ \/ workloads' = workloads
                \/ /\ workloads' = [workloads EXCEPT ![head.c][n] = "init"]
                   /\ head.plan[n] = "add"
    <3>1. ASSUME NEW c \in Contracts, NEW m \in Names, workloads'[c][m] \in Watched
          PROVE  workloads[c][m] \in Watched \/ Mine(c, m)
      <4>1. [workloads EXCEPT ![head.c][n] = "init"][c][m] =
                IF c = head.c /\ m = n THEN "init" ELSE workloads[c][m]
        BY <1>0, <2>1, SetStateAt
      <4>2. CASE workloads' = workloads
        BY <3>1, <4>2
      <4>3. CASE /\ workloads' = [workloads EXCEPT ![head.c][n] = "init"]
                 /\ head.plan[n] = "add"
        <5>1. workloads'[c][m] =
                IF c = head.c /\ m = n THEN "init" ELSE workloads[c][m]
          BY <4>1, <4>3, Zenon
        <5> QED
          BY <3>1, <4>3, <5>1 DEF Touches
      <4> QED
        BY <2>2, <4>2, <4>3
    <3>2. Recorded'
      BY <1>j, <1>r, <2>1, <2>2, <3>1
    <3>3. InFlight'
      <4> SUFFICES ASSUME Holding' PROVE InFlight'
        BY DEF InFlight
      <4>1. PICK c \in Contracts : c = head.c
        BY <1>0
      <4>2. head' = head /\ head.plan[n] \in {"lock", "unlock"}
        BY <2>1, <2>2 DEF Holding, head
      <4>3. workloads[c][n] \in Watched /\ ~Mine(c, n)
        BY <2>2, <4>1, <4>2 DEF Checked, Retriable, Touches, Watched
      <4>4. n \in provisioned'[c] \/ Queued(c, n)' \/ Raced(c, n)'
        BY <1>j, <1>e, <2>1, <4>3
      <4>5. c = head'.c /\ n = cur'
        BY <2>2, <4>1, <4>2
      <4> QED
        BY <4>4, <4>5 DEF InFlight
    <3> QED
      BY <3>2, <3>3
  <2>3. CASE /\ ~Checked(head.plan[n], head.c, n) /\ pc' = "next"
             /\ todo' = todo \ {n} /\ workloads' = workloads
    <3>1. ASSUME head.plan[n] \in {"add", "remove"}
          PROVE  workloads[head.c][n] \notin Watched
      BY <1>0, <2>1, <2>3, <3>1 DEF Checked, Retriable, RecordsExist, Okay, Watched
    <3>2. Recorded'
      BY <1>j, <1>r, <2>1, <2>3, <3>1 DEF Touches
    <3> QED
      BY <1>h, <2>3, <3>2
  <2> QED
    BY <1>1, <2>2, <2>3 DEF Check, Skip
<1>2. ASSUME CallProvision PROVE Keeps
  <2>1. /\ queue' = queue /\ apiVars' = apiVars /\ workloads' = workloads
        /\ pc = "call"
    BY <1>2 DEF CallProvision, storageVars
  <2>2. CASE /\ provisioned' = [provisioned EXCEPT ![head.c] = @ \cup {cur}]
             /\ Answer("ok")
    <3>1. Recorded'
      BY <1>0, <1>j, <1>r, <2>1, <2>2 DEF Answer
    <3>2. cur \in provisioned'[head.c]
      BY <1>0, <2>2
    <3> QED
      BY <1>f, <2>1, <2>2, <3>1, <3>2 DEF Answer
  <2>3. CASE cur \in provisioned[head.c] /\ Skip(cur) /\ UNCHANGED provisioned
    <3>1. Recorded'
      BY <1>0, <1>j, <1>r, <2>1, <2>3 DEF Skip, Touches
    <3> QED
      BY <1>h, <2>3, <3>1 DEF Skip
  <2>4. CASE Answer("error") /\ UNCHANGED provisioned
    <3>1. Recorded'
      BY <1>j, <1>r, <2>1, <2>4 DEF Answer
    <3>2. ~Holding'
      BY <2>4 DEF Answer, Holding, Okay, Watched
    <3> QED
      BY <3>1, <3>2 DEF InFlight
  <2> QED
    BY <1>2, <2>2, <2>3, <2>4 DEF CallProvision
<1>3. ASSUME CallDeprovision PROVE Keeps
  <2>1. /\ queue' = queue /\ apiVars' = apiVars /\ workloads' = workloads
        /\ pc = "call" /\ pc' = "commit" /\ todo' = todo /\ cur' = cur
        /\ head.plan[cur] = "remove" /\ result' \notin Watched
    BY <1>3 DEF CallDeprovision, Answer, storageVars, Okay, Watched
  <2>2. cur \in todo
    BY <1>0, <2>1 DEF Shape
  <2>3. ASSUME NEW c \in Contracts, NEW n \in Names, n \in provisioned[c]
        PROVE  n \in provisioned'[c] \/ Mine(c, n)
    BY <1>0, <1>3, <2>1, <2>2, <2>3 DEF CallDeprovision, Touches
  <2>4. Recorded'
    BY <1>j, <1>r, <2>1, <2>3
  <2>5. ~Holding'
    BY <2>1 DEF Holding
  <2> QED
    BY <2>4, <2>5 DEF InFlight
<1>4. ASSUME CallUpdate PROVE Keeps
  <2>1. /\ queue' = queue /\ apiVars' = apiVars /\ workloads' = workloads
        /\ provisioned' = provisioned
        /\ pc = "call" /\ head.plan[cur] = "update"
    BY <1>4 DEF CallUpdate, storageVars
  <2>2. ~Mine(head.c, cur)
    BY <2>1 DEF Touches
  <2>3. CASE todo' = todo /\ cur' = cur /\ pc' = "commit"
             /\ \/ cur \in provisioned[head.c]
                \/ result' \in {"error", "unchanged"}
                \/ result' = workloads[head.c][cur]
    <3>1. Recorded'
      BY <1>j, <1>r, <2>1, <2>3
    <3>2. Holding' => cur \in provisioned[head.c] \/ Excuse(head.c, cur)
      BY <1>0, <1>j, <2>2, <2>3 DEF Holding, Okay, Watched
    <3> QED
      BY <1>f, <2>1, <2>3, <3>1, <3>2
  <2>4. CASE workloads[head.c][cur] = "absent" /\ Skip(cur)
    <3>1. Recorded'
      BY <1>0, <1>j, <1>r, <2>1, <2>4 DEF Skip, Touches, Okay, Watched
    <3> QED
      BY <1>h, <2>4, <3>1 DEF Skip
  <2> QED
    BY <1>4, <2>3, <2>4 DEF CallUpdate, Answer
<1>5. ASSUME CallLock PROVE Keeps
  <2>1. /\ queue' = queue /\ apiVars' = apiVars /\ workloads' = workloads
        /\ provisioned' = provisioned /\ todo' = todo /\ cur' = cur
        /\ Holding
    BY <1>5 DEF CallLock, Answer, storageVars, Holding
  <2>2. Recorded'
    BY <1>j, <1>r, <2>1
  <2> QED
    BY <1>0, <1>f, <2>1, <2>2 DEF InFlight
<1>6. ASSUME Commit PROVE Keeps
  <2>1. /\ queue' = queue /\ apiVars' = apiVars /\ provisioned' = provisioned
        /\ pc = "commit" /\ pc' \in {"next", "remove"}
        /\ todo' = todo \/ todo' = todo \ {cur}
    BY <1>6 DEF Commit, IsUnChanged, Skip
  <2>2. ASSUME NEW n \in Names, n # cur PROVE n \in todo => n \in todo'
    BY <2>1, <2>2
  <2>3. CASE workloads[head.c][cur] = "absent" /\ workloads' = workloads
    <3>1. Recorded'
      BY <1>0, <1>j, <1>r, <2>1, <2>2, <2>3 DEF Touches, Okay, Watched
    <3> QED
      BY <1>h, <2>1, <3>1
  <2>4. CASE result = "unchanged" /\ workloads' = workloads
    <3>1. ~Mine(head.c, cur)
      BY <1>0, <2>1, <2>4 DEF Shape, Touches
    <3>2. Recorded'
      BY <1>0, <1>j, <1>r, <2>1, <2>2, <2>4, <3>1 DEF Touches
    <3> QED
      BY <1>h, <2>1, <3>2
  <2>5. CASE /\ workloads[head.c][cur] # "absent"
             /\ workloads' = [workloads EXCEPT ![head.c][cur] = result]
    <3>1. ASSUME NEW c \in Contracts, NEW n \in Names
          PROVE  workloads'[c][n] =
                     IF c = head.c /\ n = cur THEN result ELSE workloads[c][n]
      BY <1>0, <2>5, SetStateAt
    <3>2. result \in Watched => cur \in provisioned[head.c] \/ Excuse(head.c, cur)
      BY <1>0, <2>1, <2>5 DEF InFlight, Holding
    <3>3. Recorded'
      BY <1>0, <1>j, <1>r, <2>1, <2>2, <3>1, <3>2 DEF Touches
    <3> QED
      BY <1>h, <2>1, <3>3
  <2> QED
    BY <1>6, <2>3, <2>4, <2>5 DEF Commit, IsUnChanged
<1>7. ASSUME Remove PROVE Keeps
  <2>1. /\ queue' = queue /\ apiVars' = apiVars /\ provisioned' = provisioned
        /\ pc' = "next" /\ todo' = todo \ {cur}
    BY <1>7 DEF Remove, Skip
  <2>2. ASSUME NEW c \in Contracts, NEW n \in Names
        PROVE  workloads'[c][n] =
                   IF c = head.c /\ n = cur THEN "absent" ELSE workloads[c][n]
    BY <1>0, <1>7, SetStateAt DEF Remove
  <2>3. Recorded'
    BY <1>0, <1>j, <1>r, <2>1, <2>2 DEF Touches, Okay, Watched
  <2> QED
    BY <1>h, <2>1, <2>3
<1>8. ASSUME FinishJob PROVE Keeps
  <2>1. /\ queue' = queue /\ apiVars' = apiVars /\ provisioned' = provisioned
        /\ pc' = "dequeue" /\ todo' = todo
    BY <1>8 DEF FinishJob
  <2>2. ASSUME NEW c \in Contracts, NEW n \in Names, workloads'[c][n] \in Watched
        PROVE  workloads[c][n] \in Watched
    <3>1. CASE workloads' = workloads
      BY <2>2, <3>1
    <3>2. CASE workloads' = [workloads EXCEPT ![head.c] = Nothing]
      BY <1>0, <2>2, <3>2 DEF Nothing, Okay, Watched
    <3> QED
      BY <1>8, <3>1, <3>2 DEF FinishJob, storageVars
  <2>3. Recorded'
    BY <1>j, <1>r, <2>1, <2>2
  <2> QED
    BY <1>h, <2>1, <2>3
<1> HIDE DEF Keeps
<1>9. Keeps
  BY <1>1, <1>2, <1>3, <1>4, <1>5, <1>6, <1>7, <1>8 DEF Call
<1> QED
  BY <1>9 DEF Keeps

-----------------------------------------------------------------------------
(* Restarts, and the theorem *)

LEMMA RestartSafe ==
    ASSUME CrashAlone, SafeInv, Crash \/ Reboot
    PROVE  Recorded' /\ InFlight'
<1>0. TypeInv /\ RecordsExist /\ Shape /\ BootFirst /\ Recorded
  BY DEF SafeInv, Frame
<1>1. CASE Reboot
  BY <1>1 DEF Reboot, Start, Recorded, InFlight, Holding
<1>2. CASE Crash
  <2>1. "reboot" \notin Env /\ "decommission" \notin Env /\ ~Steady
    BY <1>2 DEF CrashAlone, Crash, Steady
  <2>2. /\ workloads' = workloads /\ provisioned' = provisioned
        /\ pc' \in {"boot", "idle"} /\ booted \in BOOLEAN
        /\ booted => queue' = queue /\ pc' = "idle"
    <3>1. booted \in BOOLEAN /\ Start(~booted) /\ "queueError" \notin Env
      BY <1>0, <1>2 DEF Crash, CrashAlone, TypeInv, TypeOK
    <3>2. booted => queue' = queue
      BY <3>1, KeptJobsAre
    <3> QED
      BY <1>2, <3>1, <3>2 DEF Crash, Start
  <2>3. InFlight'
    BY <2>2 DEF InFlight, Holding
  <2>4. ASSUME NEW c \in Contracts, NEW n \in Names, workloads'[c][n] \in Watched
        PROVE  n \in provisioned'[c] \/ HeadHandles(c, n)' \/ Queued(c, n)'
    <3>1. booted /\ pc \notin {"boot", "scan"}
      BY <1>0, <2>1, <2>2, <2>4 DEF BootFirst, RecordsExist, Booting, Okay, Watched
    <3>2. ~Raced(c, n) /\ c \notin toBoot
      BY <1>0, <2>1, <3>1 DEF Raced, Shape
    <3>3. n \in provisioned[c] \/ HeadHandles(c, n) \/ Queued(c, n)
      BY <1>0, <2>2, <2>4, <3>1, <3>2 DEF Recorded
    <3>4. /\ HeadHandles(c, n) => HeadHandles(c, n)'
          /\ Queued(c, n) => Queued(c, n)'
      BY <2>2, <3>1 DEF HeadHandles, Queued, Touches, Running, head
    <3> QED
      BY <2>2, <3>3, <3>4
  <2>5. Recorded'
    BY <2>4 DEF Recorded
  <2> QED
    BY <2>3, <2>5
<1> QED
  BY <1>1, <1>2

LEMMA NextSafe == CrashAlone /\ SafeInv /\ [Next]_vars => SafeInv'
<1> SUFFICES ASSUME CrashAlone, SafeInv, [Next]_vars PROVE SafeInv'
  OBVIOUS
<1>1. Frame'
  BY NextFrame DEF SafeInv
<1>2. CASE Api \/ ApiStep \/ Events \/ EventStep \/ MarkBooted
  BY <1>1, <1>2, RequestSafe DEF SafeInv
<1>3. CASE Run
  <2>1. \/ BootList \/ (\E c \in toBoot : BootScan(c)) \/ BootDone
        \/ (\E reply \in Replies : Begin(reply))
        \/ Discard \/ Dequeue \/ Callback
        \/ (\E n \in todo : Check(n)) \/ Call \/ Commit \/ Remove \/ FinishJob
    BY <1>3 DEF Run, Work
  <2> QED
    BY <1>1, <2>1, BetweenJobs, InsideJob DEF SafeInv
<1>4. CASE Crash \/ Reboot
  BY <1>1, <1>4, RestartSafe DEF SafeInv
<1>5. CASE UNCHANGED vars
  <2>1. Recorded'
    BY <1>5 DEF vars, storageVars, workerVars, apiVars, SafeInv, Recorded,
       HeadHandles, Queued, Raced, Touches, Running, head
  <2>2. InFlight'
    BY <1>5 DEF vars, storageVars, workerVars, apiVars, SafeInv, InFlight,
       Holding, Queued, Raced, Touches, head
  <2> QED
    BY <1>1, <2>1, <2>2 DEF SafeInv
<1> QED
  BY <1>2, <1>3, <1>4, <1>5 DEF Next

\* The invariant says more than StoredIsProvisioned and NoStrandedInit.
LEMMA SafeIsEnough ==
    /\ SafeInv => StoredIsProvisioned
    /\ SafeInv /\ Steady => NoStrandedInit
<1>1. ASSUME SafeInv, NEW c \in Contracts, NEW n \in Names,
             workloads[c][n] \in Watched
      PROVE  n \in provisioned[c] \/ Excused(c, n)
  <2>1. Recorded /\ queue \in Seq(Job)
    BY <1>1 DEF SafeInv, Frame, TypeInv, TypeOK
  <2>2. HeadHandles(c, n) => Handles(1, c, n) /\ 1 \in DOMAIN queue
    BY <2>1 DEF HeadHandles, Handles, Touches, head
  <2>3. Queued(c, n) => \E i \in DOMAIN queue : Handles(i, c, n)
    BY DEF Queued, Handles, Touches
  <2>4. Raced(c, n) => Excused(c, n)
    BY DEF Raced, Excused, Touches
  <2> QED
    BY <1>1, <2>1, <2>2, <2>3, <2>4 DEF Recorded, Excused
<1>2. /\ \A s : s \in Okay => s \in Watched
      /\ Steady => "init" \in Watched
  BY DEF Watched
<1> QED
  BY <1>1, <1>2 DEF StoredIsProvisioned, NoStrandedInit

\* On a node where provisiond may crash, or where the node may reboot and
\* workloads may be decommissioned, but not both, what the storage shows as ok
\* or paused is provisioned, or a job, the boot scan or a decommission that
\* settles it is under way: for any number of deployments and workloads, any
\* startup order, and any failure of the managers and of the gateway.
THEOREM StoredIsProvisionedHolds ==
    ASSUME CrashAlone PROVE Spec => []StoredIsProvisioned
<1>1. SafeInv /\ [Next]_vars => SafeInv'
  BY NextSafe
<1> QED
  BY <1>1, InitSafe, SafeIsEnough, PTL DEF Spec

\* On a node where provisiond does not crash, a workload in state init that is
\* not installed waits for a job, the boot scan or a decommission that is under
\* way: accepting, updating, rejecting and rebooting, in any order and with
\* any failure of the managers and of the gateway, forget none (Provision,
\* boot, updateWorkload).
THEOREM NoStrandedInitHolds ==
    ASSUME "crash" \notin Env PROVE Spec => []NoStrandedInit
<1>1. SafeInv /\ [Next]_vars => SafeInv'
  BY NextSafe DEF CrashAlone
<1>2. SafeInv => NoStrandedInit
  BY SafeIsEnough DEF Steady
<1> QED
  BY <1>1, <1>2, InitSafe, PTL DEF Spec

-----------------------------------------------------------------------------
(* No second try *)

\* What installWorkload read before it calls the manager is still so.
StillWanted ==
    pc = "call" /\ head.plan[cur] = "add" =>
        /\ head.c \in deployments
        /\ workloads[head.c][cur] \notin {"absent", "error", "deleted"}

\* Without decommissions only the worker writes states of stored deployments.
LEMMA StillWantedNext ==
    ASSUME "decommission" \notin Env, Frame, StillWanted, [Next]_vars
    PROVE  StillWanted'
<1> USE DEF StillWanted
<1>0. /\ TypeInv /\ decom = {} /\ JobAtHead
      /\ workloads \in [Contracts -> [Names -> States]]
  BY DEF Frame, Shape, TypeInv, TypeOK
<1>c. ASSUME pc = "call"
      PROVE  queue # <<>> /\ head.c \in Contracts /\ cur \in Names
  BY <1>0, <1>c, HeadType DEF TypeInv, TypeOK, JobAtHead, Running
<1>q. ASSUME pc' = pc, cur' = cur,
             queue' = queue \/ \E j \in Job : queue' = Append(queue, j),
             deployments \subseteq deployments',
             \A c \in deployments : workloads'[c] = workloads[c]
      PROVE  StillWanted'
  <2>1. pc = "call" => head' = head
    BY <1>0, <1>c, <1>q, HeadType DEF head, TypeInv, TypeOK
  <2> QED
    BY <1>q, <2>1
<1>1. CASE Api
  <2>1. ASSUME NEW c \in Contracts, NEW names, Provision(c, names)
        PROVE  StillWanted'
    BY <1>0, <1>q, <2>1 DEF Provision, workerVars, TypeInv, TypeOK
  <2>2. ASSUME NEW c \in Contracts, NEW target, NEW changed,
               Update(c, target, changed)
        PROVE  StillWanted'
    BY <1>q, <2>2 DEF Update, workerVars
  <2>3. ASSUME NEW c, NEW n, DecommissionStart(c, n) PROVE FALSE
    BY <2>3 DEF DecommissionStart
  <2> QED
    BY <1>1, <2>1, <2>2, <2>3 DEF Api
<1>2. CASE ApiStep \/ Events \/ EventStep \/ MarkBooted \/ UNCHANGED vars
  <2>1. CASE ApiEnqueue
    BY <1>0, <1>q, <2>1 DEF ApiEnqueue, storageVars, workerVars, TypeInv, TypeOK
  <2>2. ASSUME NEW t \in scheduled, EnqueueScheduled(t) PROVE StillWanted'
    <3>1. t.job \in Job
      BY <1>0, TicketType DEF TypeInv, TypeOK
    <3> QED
      BY <1>q, <2>2, <3>1 DEF EnqueueScheduled, storageVars, workerVars
  <2>3. ASSUME NEW g, NEW op, NEW c, Schedule(g, op, c) PROVE StillWanted'
    BY <1>q, <2>3 DEF Schedule, storageVars, workerVars
  <2>4. CASE MarkBooted \/ UNCHANGED vars
    BY <1>q, <2>4 DEF MarkBooted, vars, storageVars, workerVars
  <2> QED
    BY <1>0, <1>2, <2>1, <2>2, <2>3, <2>4 DEF ApiStep, Events, EventStep
<1>3. ASSUME NEW n \in todo, Check(n) PROVE StillWanted'
  <2> SUFFICES ASSUME pc' = "call", head'.plan[cur'] = "add" PROVE StillWanted'
    OBVIOUS
  <2>1. /\ pc = "next" /\ queue' = queue /\ head' = head /\ cur' = n
        /\ Checked("add", head.c, n) /\ deployments' = deployments
        /\ workloads' = IF workloads[head.c][n] = "absent"
                        THEN [workloads EXCEPT ![head.c][n] = "init"]
                        ELSE workloads
    BY <1>3 DEF Check, Skip, head
  <2>2. head.c \in Contracts /\ n \in Names
    BY <1>0, <2>1, HeadType DEF TypeInv, TypeOK, JobAtHead, Running
  <2>3. workloads'[head.c][n] \notin {"absent", "error", "deleted"}
    BY <1>0, <2>1, <2>2, SetStateAt DEF Checked, Retriable
  <2> QED
    BY <2>1, <2>3 DEF Checked, Retriable
<1>4. CASE \/ BootList \/ (\E c \in toBoot : BootScan(c)) \/ BootDone
           \/ (\E reply \in Replies : Begin(reply))
           \/ Discard \/ Call \/ Commit \/ Remove \/ FinishJob \/ Dequeue
           \/ Callback \/ Crash \/ Reboot
  <2>1. pc' # "call"
    BY <1>4 DEF BootList, BootScan, BootDone, Begin, StartJob, RejectJob,
       Discard, Call, CallProvision, CallDeprovision, CallUpdate, CallLock,
       Commit, Remove, FinishJob, Dequeue, Callback, Crash, Reboot, Start, Answer,
       Skip
  <2> QED
    BY <2>1
<1> QED
  BY <1>1, <1>2, <1>3, <1>4 DEF Next, Run, Work

\* A step gives to a manager only what the worker still wants.
LEMMA OnlyWantedInstalled ==
    ASSUME Frame, StillWanted, [Next]_vars
    PROVE  NotRetried
<1> SUFFICES ASSUME NEW c \in Contracts, NEW n \in Names,
                    n \in provisioned'[c], n \notin provisioned[c]
             PROVE  workloads[c][n] \notin {"absent", "error", "deleted"}
  BY DEF NotRetried
<1>0. provisioned \in [Contracts -> SUBSET Names]
  BY DEF Frame, TypeInv, TypeOK
<1>1. CASE provisioned' = provisioned
  BY <1>1
<1>2. CASE CallProvision
  BY <1>0, <1>2 DEF CallProvision, StillWanted
<1>3. CASE CallDeprovision
  BY <1>0, <1>3 DEF CallDeprovision
<1>4. ASSUME NEW t \in decom, DecommissionCall(t) PROVE FALSE
  BY <1>0, <1>4 DEF DecommissionCall
<1>5. CASE Reboot
  BY <1>5 DEF Reboot
<1>6. CASE \/ Api \/ ApiEnqueue \/ Events \/ EventStep \/ MarkBooted \/ Crash
           \/ UNCHANGED vars
           \/ \E t \in decom : DecommissionCommit(t) \/ DecommissionRemove(t)
  <2>1. provisioned' = provisioned
    BY <1>6 DEF Api, Provision, Update, DecommissionStart, ApiEnqueue, Events,
       Schedule, EventStep, EnqueueScheduled, MarkBooted, Crash, vars,
       DecommissionCommit, DecommissionRemove
  <2> QED
    BY <1>1, <2>1
<1>7. CASE \/ BootList \/ (\E d \in toBoot : BootScan(d)) \/ BootDone
           \/ (\E reply \in Replies : Begin(reply)) \/ Discard
           \/ (\E m \in todo : Check(m)) \/ CallUpdate \/ CallLock
           \/ Commit \/ Remove \/ FinishJob \/ Dequeue \/ Callback
  <2>1. provisioned' = provisioned
    BY <1>7 DEF BootList, BootScan, BootDone, Begin, StartJob, RejectJob,
       Discard, Check, CallUpdate, CallLock, Commit, Remove, FinishJob,
       Dequeue, Callback
  <2> QED
    BY <1>1, <2>1
<1> QED
  BY <1>2, <1>3, <1>4, <1>5, <1>6, <1>7 DEF Next, ApiStep, Run, Work, Call

\* On a node where nothing is decommissioned, no workload is installed once
\* its last recorded state is an error or deleted, however requests, crashes
\* and reboots come between the steps of installWorkload.
THEOREM NeverRetriedHolds ==
    ASSUME "decommission" \notin Env PROVE Spec => NeverRetried
<1>1. Init => Frame /\ StillWanted
  BY InitSafe DEF SafeInv, Init, StillWanted
<1>2. Frame /\ StillWanted /\ [Next]_vars => (Frame /\ StillWanted)'
  BY NextFrame, StillWantedNext
<1>3. Frame /\ StillWanted /\ [Next]_vars => [NotRetried]_vars
  BY OnlyWantedInstalled
<1> QED
  BY <1>1, <1>2, <1>3, PTL DEF Spec, NeverRetried
=============================================================================
