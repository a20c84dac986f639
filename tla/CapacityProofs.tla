--------------------------- MODULE CapacityProofs ---------------------------
(***************************************************************************)
(* The engine with the capacity setter implements the engine: a callback   *)
(* that blocks delays the worker and changes nothing else.                 *)
(***************************************************************************)
EXTENDS Capacity, EngineSafety

\* A step of the engine with the setter is a step of the engine, or none.
LEMMA SetterRefines == [CapNext]_capVars => [Next]_vars
<1> SUFFICES ASSUME [CapNext]_capVars PROVE [Next]_vars
  OBVIOUS
<1>1. CASE Api \/ ApiStep \/ Events \/ EventStep \/ EngineStep \/ MarkBooted
  BY <1>1 DEF EngineStep, Run, Next
<1>2. CASE SetterCallback
  BY <1>2 DEF SetterCallback, Run, Next
<1>3. CASE SetterGet \/ SetterSet
  BY <1>3 DEF SetterGet, SetterSet
<1>4. CASE Crash \/ Reboot
  BY <1>4 DEF Next
<1>5. CASE UNCHANGED capVars
  BY <1>5 DEF capVars
<1> QED
  BY <1>1, <1>2, <1>3, <1>4, <1>5 DEF CapNext

\* The engine with the capacity setter behind its callback, however small the
\* channel and whatever the setter does, takes only steps of the engine
\* (Callback, Run and Set of the setter).
THEOREM SetterImplementsEngine == CapSpec => Spec
<1>1. CapInit => Init
  BY DEF CapInit
<1> QED
  BY <1>1, SetterRefines, PTL DEF CapSpec, Spec

\* What the setter reads from the storage as in use is provisioned.
THEOREM SetterStoredIsProvisioned ==
    ASSUME CrashAlone PROVE CapSpec => []StoredIsProvisioned
BY SetterImplementsEngine, StoredIsProvisionedHolds, PTL

-----------------------------------------------------------------------------
(* The consumption the chain knows is current *)

\* The guarantee is for nodes whose gateway answers and that decommission
\* nothing: a report that cannot be sent is given up, and a decommission
\* changes a deployment without a callback.
Reporting == {"gatewayError", "decommission"} \cap Env = {}

\* Something will make the setter read the deployment of c.
Due(c) == \/ pc = "boot" \/ c \in toBoot
          \/ \E i \in DOMAIN queue : queue[i].c = c
          \/ \E d \in done : d.c = c /\ ~d.delete
          \/ \E i \in DOMAIN ch : ch[i] = c

\* The last word of the setter on c, what it is about to report or reported, is
\* the consumption of c.
Told(c) ==
    /\ \A s \in setting : s.c = c => s.okay = OkaySet(c)
    /\ (\A s \in setting : s.c # c) => used[c] = OkaySet(c)

\* ... unless c is due, or uses nothing.
Current == \A c \in Contracts : OkaySet(c) # {} => Due(c) \/ Told(c)

SetterType == /\ ch \in Seq(Contracts)
              /\ setting \subseteq [c : Contracts, okay : SUBSET Names]
              /\ \A s, t \in setting : s = t
              /\ used \in [Contracts -> SUBSET Names]

\* A deprovision only removes.
Removes(j) == j.op = "deprovision" =>
                  \A n \in Names : j.plan[n] \in {"none", "remove"}
OnlyRemoves == \A j \in Pending : Removes(j)

\* A job that ends without a report leaves nothing in use: a rejected one, and
\* a deprovision, which fails to delete the deployment only if it found none.
Silent ==
    /\ pc \notin {"next", "call", "commit", "remove", "dequeue"} => ~failed
    /\ pc = "discard" => OkaySet(head.c) = {}
    /\ /\ pc \in {"next", "call", "commit", "remove", "dequeue"}
       /\ head.op = "deprovision"
       => /\ failed \/ pc = "dequeue" => OkaySet(head.c) = {}
          /\ pc \in {"call", "commit", "remove"} =>
                workloads[head.c][cur] # "absent"
          /\ pc = "commit" => result \in {"deleted", "error"}
    /\ pc # "callback" => done = {}
    /\ \A d, e \in done : d = e

UsedInv == Frame /\ SetterType /\ OnlyRemoves /\ Silent /\ Current

LEMMA UsedInit == CapInit => UsedInv
<1> SUFFICES ASSUME CapInit PROVE UsedInv
  OBVIOUS
<1>1. Frame
  BY InitSafe DEF CapInit, SafeInv
<1>2. SetterType
  BY DEF CapInit, SetterType
<1>3. OnlyRemoves
  BY DEF CapInit, Init, OnlyRemoves, Pending
<1>4. Silent /\ Current
  BY DEF CapInit, Init, Silent, Current, Due
<1> QED
  BY <1>1, <1>2, <1>3, <1>4 DEF UsedInv

\* Every job that is built only removes, or does not deprovision.
LEMMA JobRemoves ==
    ASSUME NEW j, Built(j)
    PROVE  Removes(j)
<1> SUFFICES ASSUME NEW op, NEW c, NEW snap, j = JobOf(op, c, snap)
             PROVE  Removes(j)
  BY DEF Built, Removes
<1>1. j.op = op /\ \A n \in Names : j.plan[n] = StepFor(op, snap[n])
  BY DEF JobOf
<1>2. op = "deprovision" => \A n \in Names : j.plan[n] \in {"none", "remove"}
  BY <1>1 DEF StepFor
<1> QED
  BY <1>1, <1>2 DEF Removes

LEMMA OnlyRemovesNext ==
    ASSUME TypeInv, OnlyRemoves, [Next]_vars PROVE OnlyRemoves'
<1>1. \A j \in Pending' : Removes(j)
  BY JobsBuilt, JobRemoves DEF OnlyRemoves
<1> QED
  BY <1>1 DEF OnlyRemoves, Removes

\* Every step keeps what is known of the jobs that end without a report.
LEMMA SilentNext ==
    ASSUME Reporting, Frame, OnlyRemoves, Silent, [Next]_vars
    PROVE  Silent'
<1> USE DEF storageVars, workerVars, apiVars
<1>0. /\ workloads \in [Contracts -> [Names -> States]] /\ queue \in Seq(Job)
      /\ todo \subseteq Names /\ cur \in Names /\ RecordsExist
      /\ pc \in {"call", "commit", "remove"} => cur \in todo
      /\ Running => queue # <<>>
      /\ decom = {}
  BY DEF Frame, TypeInv, TypeOK, Shape, JobAtHead, Reporting
<1>1. ASSUME Running PROVE head.c \in Contracts /\ head.plan \in [Names -> Steps]
                           /\ Removes(head) /\ queue # <<>>
  BY <1>0, <1>1, PendingType DEF Frame, OnlyRemoves
<1>2. ASSUME UNCHANGED workerVars, queue # <<>> => head' = head,
             \A c \in Contracts : OkaySet(c) = {} => OkaySet(c)' = {},
             \A c \in Contracts : \A n \in Names :
                workloads[c][n] # "absent" => workloads'[c][n] # "absent"
      PROVE  Silent'
  <2>1. CASE Running
    <3>1. head' = head /\ head.c \in Contracts
      BY <1>1, <1>2, <2>1
    <3>2. \A c \in Contracts : c = head.c =>
              /\ OkaySet(c) = {} => OkaySet(head.c)' = {}
              /\ workloads[c][cur] # "absent" => workloads'[c][cur] # "absent"
      <4>1. ASSUME NEW c \in Contracts, c = head.c, OkaySet(c) = {}
            PROVE  OkaySet(head.c)' = {}
        BY <1>2, <3>1, <4>1 DEF OkaySet
      <4> QED
        BY <1>0, <1>2, <4>1
    <3> QED
      BY <1>2, <3>1, <3>2 DEF Silent
  <2>2. CASE ~Running
    BY <1>2, <2>2 DEF Silent, Running
  <2> QED
    BY <2>1, <2>2
<1>3. ASSUME Api PROVE Silent'
  <2>1. PICK c \in Contracts : \E names \in SUBSET Names :
            Provision(c, names) \/ workloads' = workloads
    <3>1. ~\E c \in Contracts, n \in Names : DecommissionStart(c, n)
      BY DEF DecommissionStart, Reporting
    <3> QED
      BY <1>3, <3>1 DEF Api, Update
  <2>2. UNCHANGED workerVars /\ queue' = queue
    BY <1>3 DEF Api, Provision, Update, DecommissionStart
  <2>3. CASE workloads' = workloads
    BY <1>2, <2>2, <2>3 DEF OkaySet, head
  <2>4. ASSUME NEW names \in SUBSET Names, Provision(c, names) PROVE Silent'
    <3>1. /\ c \notin deployments
          /\ workloads' = [workloads EXCEPT ![c] =
                [n \in Names |-> IF n \in names THEN "init" ELSE "absent"]]
      BY <2>4 DEF Provision
    <3>2. \A d \in Contracts : d # c => workloads'[d] = workloads[d]
      BY <1>0, <3>1
    <3>3. \A n \in Names : /\ workloads'[c][n] \in {"init", "absent"}
                           /\ workloads[c][n] = "absent"
      BY <1>0, <3>1 DEF RecordsExist
    <3>4. \A d \in Contracts : OkaySet(d) = {} => OkaySet(d)' = {}
      BY <3>2, <3>3 DEF OkaySet, Okay
    <3> QED
      BY <1>2, <2>2, <3>2, <3>3, <3>4 DEF head
  <2> QED
    BY <2>1, <2>3, <2>4
<1>4. ASSUME ApiStep \/ Events \/ EventStep \/ MarkBooted PROVE Silent'
  <2>1. /\ UNCHANGED workerVars /\ workloads' = workloads
        /\ queue' = queue \/ \E j : queue' = Append(queue, j)
    BY <1>0, <1>4 DEF ApiStep, ApiEnqueue, Events, Schedule, EventStep,
       EnqueueScheduled, MarkBooted
  <2>2. queue # <<>> => head' = head
    BY <1>0, <2>1 DEF head
  <2> QED
    BY <1>2, <2>1, <2>2 DEF OkaySet
<1>5. ASSUME \/ BootList \/ (\E c \in toBoot : BootScan(c)) \/ BootDone
             \/ Discard \/ Callback
      PROVE  Silent'
  <2>1. /\ pc' \in {"scan", "idle"} /\ failed' = failed
        /\ done' = done \/ done' = {}
        /\ pc \notin {"next", "call", "commit", "remove", "dequeue"}
        /\ pc = "callback" => done' = {}
    BY <1>5 DEF BootList, BootScan, BootDone, Discard, Callback
  <2> QED
    BY <2>1 DEF Silent
<1>6. ASSUME NEW reply, StartJob(reply) PROVE Silent'
  <2>1. /\ pc = "idle" /\ pc' = "next" /\ failed' = failed /\ done' = done
    BY <1>6 DEF StartJob
  <2> QED
    BY <2>1 DEF Silent
<1>7. ASSUME NEW reply, RejectJob(reply) PROVE Silent'
  <2>1. /\ pc = "idle" /\ pc' = "discard" /\ failed' = failed /\ done' = done
        /\ queue' = queue /\ queue # <<>>
        /\ workloads' = [workloads EXCEPT ![head.c] = Errored(workloads[head.c])]
    BY <1>7 DEF RejectJob
  <2>2. head' = head /\ head.c \in Contracts
    BY <1>0, <2>1, HeadType DEF head
  <2>3. \A n \in Names : workloads'[head.c][n] \notin Okay
    BY <1>0, <2>1, <2>2 DEF Errored, Okay
  <2> QED
    BY <2>1, <2>2, <2>3 DEF Silent, OkaySet
<1>8. ASSUME Dequeue PROVE Silent'
  <2>1. /\ pc' = "callback" /\ failed' = FALSE
        /\ done' = {[c |-> head.c, delete |-> head.op = "deprovision"]}
    BY <1>8 DEF Dequeue
  <2>2. \A d, e \in done' : d = e
    BY <2>1
  <2> QED
    BY <2>1, <2>2 DEF Silent
<1>9. ASSUME (\E n \in todo : Check(n)) \/ Call \/ Commit \/ Remove \/ FinishJob
      PROVE  Silent'
  <2>1. /\ queue' = queue /\ done' = done
        /\ pc \in {"next", "call", "commit", "remove"}
        /\ pc' \in {"next", "call", "commit", "remove", "dequeue"}
    BY <1>9 DEF Check, Call, CallProvision, CallDeprovision, CallUpdate, CallLock,
       Commit, Remove, FinishJob, Skip, Answer
  <2>2. /\ head' = head /\ head.c \in Contracts /\ Removes(head)
        /\ done = {}
    BY <2>1, <1>1 DEF head, Running, Silent
  <2> SUFFICES ASSUME head.op = "deprovision"
               PROVE  /\ failed' \/ pc' = "dequeue" =>
                            \A n \in Names : workloads'[head.c][n] \notin Okay
                      /\ pc' \in {"call", "commit", "remove"} =>
                            workloads'[head.c][cur'] # "absent"
                      /\ pc' = "commit" => result' \in {"deleted", "error"}
    BY <2>1, <2>2 DEF Silent, OkaySet
  <2>3. \A n \in Names : head.plan[n] \in {"none", "remove"}
    BY <2>2 DEF Removes
  <2>4. /\ failed => \A n \in Names : workloads[head.c][n] \notin Okay
        /\ pc \in {"call", "commit", "remove"} => workloads[head.c][cur] # "absent"
        /\ pc = "commit" => result \in {"deleted", "error"}
    BY <2>1 DEF Silent, OkaySet
  <2>5. ASSUME NEW n \in todo, Check(n)
        PROVE  /\ pc' \in {"next", "call"} /\ workloads' = workloads
               /\ failed' => \A m \in Names : workloads[head.c][m] \notin Okay
               /\ pc' = "call" => workloads[head.c][cur'] # "absent"
    <3>1. n \in Names /\ head.plan[n] \in {"none", "remove"}
      BY <1>0, <2>3
    <3>2. workloads' = workloads /\ pc' \in {"next", "call"}
      BY <2>5, <3>1 DEF Check, Skip
    <3>3. failed' => failed \/ head.c \notin deployments
      BY <2>5 DEF Check
    <3>4. pc' = "call" => cur' = n /\ Checked(head.plan[n], head.c, n)
      BY <2>5 DEF Check, Skip
    <3>5. Checked(head.plan[n], head.c, n) => workloads[head.c][n] # "absent"
      BY <3>1 DEF Checked, Okay
    <3>6. head.c \notin deployments =>
              \A m \in Names : workloads[head.c][m] \notin Okay
      BY <1>0, <2>2 DEF RecordsExist, Okay
    <3> QED
      BY <2>4, <3>2, <3>3, <3>4, <3>5, <3>6
  <2>6. CASE \E n \in todo : Check(n)
    BY <2>5, <2>6
  <2>7. CASE Call
    <3>1. CallDeprovision
      BY <1>0, <2>3, <2>7 DEF Call, CallProvision, CallUpdate, CallLock
    <3> QED
      BY <2>4, <3>1 DEF CallDeprovision, Answer
  <2>8. CASE Commit
    <3>1. /\ pc = "commit" /\ failed' = failed
          /\ workloads' = [workloads EXCEPT ![head.c][cur] = result]
          /\ pc' = "next" \/ (pc' = "remove" /\ cur' = cur)
      <4>1. pc = "commit" /\ result # "unchanged"
            /\ workloads[head.c][cur] # "absent"
        BY <2>4, <2>8 DEF Commit
      <4> QED
        BY <2>8, <4>1 DEF Commit, Skip, IsUnChanged
    <3>2. \A n \in Names : workloads'[head.c][n] =
              IF n = cur THEN result ELSE workloads[head.c][n]
      BY <1>0, <2>2, <3>1, SetStateAt
    <3> QED
      BY <1>0, <2>4, <3>1, <3>2 DEF Okay
  <2>9. CASE Remove
    <3>1. /\ pc' = "next" /\ failed' = failed
          /\ workloads' = [workloads EXCEPT ![head.c][cur] = "absent"]
      BY <2>9 DEF Remove, Skip
    <3>2. \A n \in Names : workloads'[head.c][n] =
              IF n = cur THEN "absent" ELSE workloads[head.c][n]
      BY <1>0, <2>2, <3>1, SetStateAt
    <3> QED
      BY <2>4, <3>1, <3>2 DEF Okay
  <2>10. CASE FinishJob
    <3>1. pc' = "dequeue" /\ failed' = failed
      BY <2>10 DEF FinishJob
    <3>2. CASE failed
      BY <2>4, <2>10, <3>1, <3>2 DEF FinishJob
    <3>3. CASE ~failed
      <4>1. workloads' = [workloads EXCEPT ![head.c] = Nothing]
        BY <2>10, <3>3 DEF FinishJob
      <4>2. \A n \in Names : workloads'[head.c][n] = "absent"
        BY <1>0, <2>2, <4>1 DEF Nothing
      <4> QED
        BY <3>1, <4>2 DEF Okay
    <3> QED
      BY <3>2, <3>3
  <2> QED
    BY <1>9, <2>6, <2>7, <2>8, <2>9, <2>10
<1>10. ASSUME Crash \/ Reboot PROVE Silent'
  <2>1. pc' \in {"boot", "idle"} /\ failed' = FALSE /\ done' = {}
    BY <1>10 DEF Crash, Reboot, Start
  <2> QED
    BY <2>1 DEF Silent
<1>11. ASSUME UNCHANGED vars PROVE Silent'
  BY <1>2, <1>11 DEF vars, OkaySet, head
<1> QED
  BY <1>3, <1>4, <1>5, <1>6, <1>7, <1>8, <1>9, <1>10, <1>11 DEF Next, Run, Work,
     Begin

\* A step that leaves the setter alone has to make due what it changes.
LEMMA CurrentKept ==
    ASSUME Current, setting' = setting, used' = used,
           \A c \in Contracts : \/ OkaySet(c)' = {} \/ Due(c)'
                                \/ OkaySet(c)' = OkaySet(c) /\ ~Due(c)
    PROVE  Current'
<1> SUFFICES ASSUME NEW c \in Contracts, OkaySet(c)' # {}, ~Due(c)'
             PROVE  Told(c)'
  BY DEF Current
<1>1. OkaySet(c)' = OkaySet(c) /\ ~Due(c)
  OBVIOUS
<1>2. Told(c)
  BY <1>1 DEF Current
<1> QED
  BY <1>1, <1>2 DEF Told

\* Every step of the engine does.
LEMMA EngineCurrent ==
    ASSUME Reporting, UsedInv, UNCHANGED setterVars,
           Api \/ ApiStep \/ Events \/ EventStep \/ EngineStep \/ MarkBooted
    PROVE  Current'
<1> USE DEF storageVars, workerVars, apiVars, setterVars
<1>0. /\ workloads \in [Contracts -> [Names -> States]] /\ queue \in Seq(Job)
      /\ RecordsExist /\ decom = {}
      /\ toBoot \subseteq Contracts /\ apiJobs \subseteq Job
      /\ \A t \in scheduled : t.job \in Job
      /\ Running => queue # <<>>
  BY TicketType DEF UsedInv, Frame, TypeInv, TypeOK, JobAtHead, Shape, Reporting
<1>1. ASSUME Running PROVE /\ queue # <<>> /\ head.c \in Contracts
                           /\ 1 \in DOMAIN queue /\ head = queue[1]
                           /\ Due(head.c)
  <2>1. /\ queue # <<>> /\ head.c \in Contracts
        /\ 1 \in DOMAIN queue /\ head = queue[1]
    BY <1>0, <1>1, HeadType
  <2> QED
    BY <2>1 DEF Due
<1>2. SUFFICES \A c \in Contracts : \/ OkaySet(c)' = {} \/ Due(c)'
                                    \/ OkaySet(c)' = OkaySet(c) /\ ~Due(c)
  BY CurrentKept DEF UsedInv
<1> DEFINE Goal == \A c \in Contracts : \/ OkaySet(c)' = {} \/ Due(c)'
                                        \/ OkaySet(c)' = OkaySet(c) /\ ~Due(c)
<1>3. ASSUME Api \/ ApiStep \/ Events \/ EventStep \/ MarkBooted PROVE Goal
  <2>1. /\ UNCHANGED workerVars
        /\ queue' = queue \/ \E j \in Job : queue' = Append(queue, j)
    BY <1>0, <1>3 DEF Api, Provision, Update, DecommissionStart, ApiStep,
       ApiEnqueue, Events, Schedule, EventStep, EnqueueScheduled, MarkBooted
  <2>2. \A i \in DOMAIN queue : i \in DOMAIN queue' /\ queue'[i] = queue[i]
    BY <1>0, <2>1, AppendType
  <2>3. \A c \in Contracts : Due(c) => Due(c)'
    BY <2>1, <2>2 DEF Due
  <2>4. CASE workloads' = workloads
    BY <2>3, <2>4 DEF OkaySet
  <2>5. ASSUME NEW c \in Contracts, NEW names, Provision(c, names) PROVE Goal
    <3>1. workloads' = [workloads EXCEPT ![c] =
              [n \in Names |-> IF n \in names THEN "init" ELSE "absent"]]
      BY <2>5 DEF Provision
    <3>2. \A d \in Contracts : d # c => workloads'[d] = workloads[d]
      BY <1>0, <3>1
    <3>3. \A n \in Names : workloads'[c][n] \in {"init", "absent"}
      BY <1>0, <3>1
    <3> QED
      BY <2>3, <3>2, <3>3 DEF OkaySet, Okay
  <2> QED
    BY <1>0, <1>3, <2>4, <2>5 DEF Api, Update, DecommissionStart, ApiStep,
       ApiEnqueue, Events, Schedule, EventStep, EnqueueScheduled, MarkBooted
<1>4. ASSUME \/ (\E n \in todo : Check(n)) \/ Call \/ Commit \/ Remove
             \/ FinishJob \/ \E reply : Begin(reply)
      PROVE  Goal
  <2>1. /\ queue' = queue /\ done' = done /\ toBoot' = toBoot
        /\ queue # <<>> /\ pc # "boot"
    <3>1. pc \in {"next", "call", "commit", "remove"} \/ queue # <<>>
      BY <1>4 DEF Check, Call, CallProvision, CallDeprovision, CallUpdate,
         CallLock, Commit, Remove, FinishJob, Begin, StartJob, RejectJob
    <3> QED
      BY <1>0, <1>4, <3>1 DEF Check, Call, CallProvision, CallDeprovision,
         CallUpdate, CallLock, Commit, Remove, FinishJob, Begin, StartJob,
         RejectJob, Running
  <2>2. \A c \in Contracts : Due(c) => Due(c)'
    BY <2>1 DEF Due
  <2>3. /\ head.c \in Contracts /\ 1 \in DOMAIN queue /\ head = queue[1]
    BY <1>0, <2>1, HeadType
  <2>4. \A c \in Contracts : c = head.c => Due(c)'
    BY <2>1, <2>3 DEF Due
  <2>5. \A c \in Contracts : c # head.c => workloads'[c] = workloads[c]
    <3>1. \/ workloads' = workloads
          \/ \E w : workloads' = [workloads EXCEPT ![head.c] = w]
      <4>1. ASSUME NEW n, NEW s, workloads' = [workloads EXCEPT ![head.c][n] = s]
            PROVE  \E w : workloads' = [workloads EXCEPT ![head.c] = w]
        BY <4>1
      <4>2. CASE \E n \in todo : Check(n)
        BY <4>1, <4>2 DEF Check
      <4>3. CASE Call
        BY <4>3 DEF Call, CallProvision, CallDeprovision, CallUpdate, CallLock
      <4>4. CASE Commit \/ Remove
        BY <4>1, <4>4 DEF Commit, Remove
      <4>5. CASE FinishJob \/ \E reply : Begin(reply)
        BY <4>5 DEF FinishJob, Begin, StartJob, RejectJob
      <4> QED
        BY <1>4, <4>2, <4>3, <4>4, <4>5
    <3> QED
      BY <1>0, <3>1
  <2> QED
    BY <2>2, <2>4, <2>5 DEF OkaySet
<1>5. ASSUME BootList PROVE Goal
  <2>1. toBoot' = deployments /\ workloads' = workloads
    BY <1>5 DEF BootList
  <2>2. \A c \in Contracts : OkaySet(c) # {} => c \in deployments
    BY <1>0 DEF OkaySet, Okay, RecordsExist
  <2> QED
    BY <2>1, <2>2 DEF OkaySet, Due
<1>6. ASSUME NEW b \in toBoot, BootScan(b) PROVE Goal
  <2> DEFINE j == JobOf("provisionNoValidation", b, workloads[b])
  <2>1. /\ workloads' = workloads /\ done' = done /\ pc' = pc /\ pc = "scan"
        /\ toBoot' = toBoot \ {b}
        /\ queue' = queue \/ queue' = Append(queue, j)
        /\ b \in deployments /\ IsActive(workloads[b]) => queue' = Append(queue, j)
    BY <1>6 DEF BootScan
  <2>2. j \in Job /\ j.c = b
    BY <1>0, JobOfType DEF Ops, JobOf
  <2>3. \A i \in DOMAIN queue : i \in DOMAIN queue' /\ queue'[i] = queue[i]
    BY <1>0, <2>1, <2>2, AppendType
  <2>4. \A c \in Contracts : c # b /\ Due(c) => Due(c)'
    BY <2>1, <2>3 DEF Due
  <2>5. OkaySet(b) # {} => b \in deployments /\ IsActive(workloads[b])
    BY <1>0 DEF OkaySet, Okay, RecordsExist, IsActive
  <2>6. ASSUME OkaySet(b) # {} PROVE Due(b)'
    <3>1. Len(queue) + 1 \in DOMAIN queue' /\ queue'[Len(queue) + 1] = j
      BY <1>0, <2>1, <2>2, <2>5, <2>6, AppendType
    <3> QED
      BY <2>2, <3>1 DEF Due
  <2>7. \A c \in Contracts : OkaySet(c)' = OkaySet(c)
    BY <2>1 DEF OkaySet
  <2> QED
    BY <2>4, <2>6, <2>7
<1>7. ASSUME BootDone PROVE Goal
  BY <1>7 DEF BootDone, Due, OkaySet
<1>8. ASSUME Discard \/ Dequeue PROVE Goal
  <2>1. /\ workloads' = workloads /\ queue' = Tail(queue) /\ toBoot' = toBoot
        /\ pc \in {"discard", "dequeue"} /\ Running
    BY <1>8 DEF Discard, Dequeue, Running
  <2>2. /\ queue # <<>> /\ head.c \in Contracts /\ head = queue[1]
        /\ done = {}
    BY <1>1, <2>1 DEF UsedInv, Silent
  <2>3. \A i \in DOMAIN queue : i # 1 =>
            i - 1 \in DOMAIN queue' /\ queue'[i - 1] = queue[i]
    BY <1>0, <2>1, <2>2
  <2>4. \A c \in Contracts : c # head.c /\ Due(c) => Due(c)'
    <3> SUFFICES ASSUME NEW c \in Contracts, c # head.c, Due(c) PROVE Due(c)'
      OBVIOUS
    <3>1. CASE \E i \in DOMAIN queue : queue[i].c = c
      BY <2>2, <2>3, <3>1 DEF Due
    <3> QED
      BY <2>1, <2>2, <3>1 DEF Due
  <2>5. ASSUME NEW c \in Contracts, c = head.c, OkaySet(c) # {} PROVE Due(c)'
    <3>1. Dequeue /\ head.op # "deprovision"
      BY <1>8, <2>5 DEF UsedInv, Silent, Discard, Dequeue
    <3>2. done' = {[c |-> c, delete |-> FALSE]}
      <4>1. (head.op = "deprovision") = FALSE
        BY <3>1
      <4> QED
        BY <2>5, <3>1, <4>1 DEF Dequeue
    <3>3. \E d \in done' : d.c = c /\ ~d.delete
      BY <3>2, Zenon
    <3> QED
      BY <3>3 DEF Due
  <2>6. \A c \in Contracts : OkaySet(c)' = OkaySet(c)
    BY <2>1 DEF OkaySet
  <2> QED
    BY <2>4, <2>5, <2>6
<1> QED
  BY <1>3, <1>4, <1>5, <1>6, <1>7, <1>8 DEF EngineStep, Work

\* A job that is done is in the channel before the worker goes on.
LEMMA CallbackCurrent ==
    ASSUME UsedInv, SetterCallback PROVE SetterType' /\ Current'
<1>1. PICK d \in done : \/ d.delete /\ UNCHANGED ch
                        \/ ~d.delete /\ ch' = Append(ch, d.c)
  BY DEF SetterCallback
<1>2. /\ workloads' = workloads /\ queue' = queue /\ toBoot' = toBoot
      /\ pc = "callback" /\ setting' = setting /\ used' = used
  BY DEF SetterCallback, Callback, storageVars
<1>3. d.c \in Contracts /\ ch \in Seq(Contracts) /\ \A e \in done : e = d
  BY DEF UsedInv, Frame, TypeInv, TypeOK, SetterType, Silent
<1>4. ASSUME NEW S, NEW s \in Seq(S), NEW e \in S
      PROVE  /\ Append(s, e) \in Seq(S)
             /\ \A i \in DOMAIN s :
                   i \in DOMAIN Append(s, e) /\ Append(s, e)[i] = s[i]
             /\ Len(s) + 1 \in DOMAIN Append(s, e)
             /\ Append(s, e)[Len(s) + 1] = e
  OBVIOUS
<1>5. /\ ch' \in Seq(Contracts)
      /\ \A i \in DOMAIN ch : i \in DOMAIN ch' /\ ch'[i] = ch[i]
      /\ ~d.delete => \E i \in DOMAIN ch' : ch'[i] = d.c
  BY <1>1, <1>3, <1>4
<1>6. SetterType'
  BY <1>2, <1>5 DEF UsedInv, SetterType
<1>7. \A c \in Contracts : Due(c) => Due(c)'
  <2> SUFFICES ASSUME NEW c \in Contracts, Due(c) PROVE Due(c)'
    OBVIOUS
  <2>1. CASE \E e \in done : e.c = c /\ ~e.delete
    <3>1. d.c = c /\ ~d.delete
      BY <1>3, <2>1
    <3> QED
      BY <1>5, <3>1 DEF Due
  <2> QED
    BY <1>2, <1>5, <2>1 DEF Due
<1>8. \A c \in Contracts : OkaySet(c)' = OkaySet(c)
  BY <1>2 DEF OkaySet
<1>9. Current'
  BY <1>2, <1>7, <1>8, CurrentKept DEF UsedInv
<1> QED
  BY <1>6, <1>9

\* The setter takes the head of the channel and reads the deployment.
LEMMA GetCurrent ==
    ASSUME UsedInv, SetterGet PROVE SetterType' /\ Current'
<1> DEFINE h == Head(ch)
<1>1. /\ setting = {} /\ ch # <<>> /\ ch' = Tail(ch) /\ used' = used
      /\ setting' = IF h \in deployments
                    THEN {[c |-> h, okay |-> OkaySet(h)]} ELSE {}
      /\ UNCHANGED vars
  BY DEF SetterGet
<1>2. UNCHANGED <<workloads, queue, toBoot, pc, done, deployments>>
  BY <1>1 DEF vars, storageVars, workerVars
<1>3. /\ ch \in Seq(Contracts) /\ h \in Contracts /\ ch' \in Seq(Contracts)
      /\ h = ch[1]
      /\ \A i \in DOMAIN ch : i # 1 => i - 1 \in DOMAIN ch' /\ ch'[i - 1] = ch[i]
  <2>1. ch \in Seq(Contracts)
    BY DEF UsedInv, SetterType
  <2> QED
    BY <1>1, <2>1
<1>4. \A c \in Contracts : OkaySet(c)' = OkaySet(c) /\ OkaySet(c) \in SUBSET Names
  BY <1>2 DEF OkaySet
<1>5. SetterType'
  <2>1. [c |-> h, okay |-> OkaySet(h)] \in [c : Contracts, okay : SUBSET Names]
    BY <1>3, <1>4
  <2>2. /\ setting' \subseteq [c : Contracts, okay : SUBSET Names]
        /\ \A s, t \in setting' : s = t
    BY <1>1, <2>1
  <2> QED
    BY <1>1, <1>3, <2>2 DEF UsedInv, SetterType
<1>6. ASSUME NEW c \in Contracts, OkaySet(c) # {} PROVE Due(c)' \/ Told(c)'
  <2>1. CASE c = h
    <3>1. h \in deployments
      BY <1>6, <2>1 DEF UsedInv, Frame, RecordsExist, OkaySet, Okay
    <3>2. setting' = {[c |-> h, okay |-> OkaySet(h)]}
      BY <1>1, <3>1
    <3>3. \A s \in setting' : s.c = c /\ s.okay = OkaySet(c)
      BY <2>1, <3>2
    <3>4. \E s \in setting' : s.c = c
      BY <3>2, <3>3
    <3> QED
      BY <1>4, <3>3, <3>4 DEF Told
  <2>2. CASE c # h
    <3>1. \A s \in setting' : s.c # c
      BY <1>1, <2>2
    <3>2. Due(c) => Due(c)'
      <4> SUFFICES ASSUME Due(c) PROVE Due(c)'
        OBVIOUS
      <4>1. CASE \E i \in DOMAIN ch : ch[i] = c
        BY <1>3, <2>2, <4>1 DEF Due
      <4> QED
        BY <1>2, <4>1 DEF Due
    <3>3. Due(c) \/ used[c] = OkaySet(c)
      BY <1>1, <1>6 DEF UsedInv, Current, Told
    <3> QED
      BY <1>1, <1>4, <3>1, <3>2, <3>3 DEF Told
  <2> QED
    BY <2>1, <2>2
<1> QED
  BY <1>4, <1>5, <1>6 DEF Current

\* The setter reports what it read.
LEMMA SetCurrent ==
    ASSUME Reporting, UsedInv, SetterSet PROVE SetterType' /\ Current'
<1>1. PICK s \in setting : used' = [used EXCEPT ![s.c] = s.okay]
  BY DEF SetterSet, Reporting
<1>2. setting' = {} /\ ch' = ch /\ UNCHANGED vars
  BY DEF SetterSet
<1>3. UNCHANGED <<workloads, queue, toBoot, pc, done>>
  BY <1>2 DEF vars, storageVars, workerVars
<1>4. /\ s.c \in Contracts /\ s.okay \in SUBSET Names
      /\ \A t \in setting : t = s
      /\ used \in [Contracts -> SUBSET Names] /\ ch \in Seq(Contracts)
  BY DEF UsedInv, SetterType
<1>5. SetterType'
  BY <1>1, <1>2, <1>4 DEF SetterType
<1>6. ASSUME NEW c \in Contracts, OkaySet(c)' # {} PROVE Due(c)' \/ Told(c)'
  <2>1. OkaySet(c)' = OkaySet(c) /\ (Due(c) => Due(c)')
    BY <1>2, <1>3 DEF OkaySet, Due
  <2>2. Due(c) \/ Told(c)
    BY <1>6, <2>1 DEF UsedInv, Current
  <2>3. Told(c) => used'[c] = OkaySet(c)
    BY <1>1, <1>4 DEF Told
  <2> QED
    BY <1>2, <2>1, <2>2, <2>3 DEF Told
<1> QED
  BY <1>5, <1>6 DEF Current

\* A restart sets what is in use, or the boot scan will.
LEMMA RestartCurrent ==
    ASSUME Reporting, UsedInv, \/ Crash /\ SetterRestart(booted)
                               \/ Reboot /\ SetterRestart(FALSE)
    PROVE  SetterType' /\ Current'
<1>0. "gatewayError" \notin Env
  BY DEF Reporting
<1>1. /\ workloads' = workloads /\ setting' = {} /\ ch' = <<>>
      /\ pc' = "boot" \/ (Crash /\ SetterRestart(TRUE))
      /\ \E a : used' = [c \in Contracts |-> IF a /\ OkaySet(c) # {}
                                             THEN OkaySet(c) ELSE used[c]]
  BY <1>0 DEF Crash, Reboot, Start, SetterRestart, UsedInv, Frame, TypeInv, TypeOK
<1>2. \A c \in Contracts : OkaySet(c)' = OkaySet(c) /\ OkaySet(c) \in SUBSET Names
  BY <1>1 DEF OkaySet
<1>3. SetterType'
  BY <1>1, <1>2 DEF UsedInv, SetterType
<1>4. ASSUME NEW c \in Contracts, OkaySet(c)' # {} PROVE Due(c)' \/ Told(c)'
  <2>1. CASE pc' = "boot"
    BY <2>1 DEF Due
  <2>2. CASE SetterRestart(TRUE)
    <3>1. used'[c] = OkaySet(c)
      BY <1>0, <1>2, <1>4, <2>2 DEF SetterRestart
    <3> QED
      BY <1>1, <1>2, <3>1 DEF Told
  <2> QED
    BY <1>1, <2>1, <2>2
<1> QED
  BY <1>3, <1>4 DEF Current

\* Every step keeps the invariant.
LEMMA UsedNext == ASSUME Reporting PROVE UsedInv /\ [CapNext]_capVars => UsedInv'
<1> SUFFICES ASSUME UsedInv, [CapNext]_capVars PROVE UsedInv'
  OBVIOUS
<1>1. [Next]_vars
  BY SetterRefines
<1>2. Frame' /\ OnlyRemoves' /\ Silent'
  BY <1>1, NextFrame, OnlyRemovesNext, SilentNext DEF UsedInv, Frame
<1>3. ASSUME UNCHANGED setterVars PROVE SetterType'
  BY <1>3 DEF setterVars, UsedInv, SetterType
<1>4. CASE /\ Api \/ ApiStep \/ Events \/ EventStep \/ EngineStep \/ MarkBooted
           /\ UNCHANGED setterVars
  BY <1>2, <1>3, <1>4, EngineCurrent DEF UsedInv
<1>5. CASE SetterCallback \/ SetterGet \/ SetterSet
  BY <1>2, <1>5, CallbackCurrent, GetCurrent, SetCurrent DEF UsedInv
<1>6. CASE (Crash /\ SetterRestart(booted)) \/ (Reboot /\ SetterRestart(FALSE))
  BY <1>2, <1>6, RestartCurrent DEF UsedInv
<1>7. CASE UNCHANGED capVars
  <2>1. Current'
    BY <1>7 DEF capVars, setterVars, vars, storageVars, workerVars, UsedInv,
       Current, Due, Told, OkaySet
  <2> QED
    BY <1>2, <1>3, <1>7, <2>1 DEF UsedInv, capVars
<1> QED
  BY <1>4, <1>5, <1>6, <1>7 DEF CapNext

\* When the engine and the setter have nothing to do, the chain knows the
\* consumption of every deployment in use, however small the channel is and
\* whatever callbacks a crash or a reboot lost.
THEOREM UsedIsCurrentHolds ==
    ASSUME Reporting PROVE CapSpec => []UsedIsCurrent
<1>1. UsedInv => UsedIsCurrent
  <2> SUFFICES ASSUME UsedInv, NEW c \in deployments, OkaySet(c) # {},
                      pc = "idle", queue = <<>>, ch = <<>>, setting = {}
               PROVE  used[c] = OkaySet(c)
    BY DEF UsedIsCurrent
  <2>1. c \in Contracts /\ toBoot = {} /\ done = {}
    BY DEF UsedInv, Frame, TypeInv, TypeOK, Shape, Silent
  <2>2. ~Due(c)
    BY <2>1 DEF Due
  <2> QED
    BY <2>1, <2>2 DEF UsedInv, Current, Told
<1> QED
  BY <1>1, UsedInit, UsedNext, PTL DEF CapSpec

=============================================================================
