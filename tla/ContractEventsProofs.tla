------------------------ MODULE ContractEventsProofs ------------------------
(***************************************************************************)
(* The node with its contract event handler implements the engine: what is *)
(* proved of the engine alone holds of the node.                           *)
(***************************************************************************)
EXTENDS ContractEvents, EngineSafety

\* The handler only asks for what the event goroutines of the engine may do.
LEMMA RequestIsEvent ==
    ASSUME NEW g \in {"handler", "sync"}, NEW c \in Contracts,
           NEW op \in {"deprovision", "pause", "resume"}, Request(g, op, c)
    PROVE  Events \/ UNCHANGED vars
BY HandlerAssumption DEF Request, Events, Ops

\* An event on the stream names a contract.
LEMMA LockEventType ==
    ASSUME HandlerTypeOK, lockEvents # <<>>
    PROVE  /\ Head(lockEvents).c \in Contracts
           /\ Tail(lockEvents) \in Seq([c : Contracts, lock : BOOLEAN])
<1> DEFINE E == [c : Contracts, lock : BOOLEAN]
<1>1. lockEvents \in Seq(E)
  BY DEF HandlerTypeOK
<1>2. ASSUME NEW S, NEW s \in Seq(S), s # <<>>
      PROVE  Head(s) \in S /\ Tail(s) \in Seq(S)
  BY <1>2
<1>3. Head(lockEvents) \in E /\ Tail(lockEvents) \in Seq(E)
  BY <1>1, <1>2
<1> QED
  BY <1>3

\* A step of the handler is a step of the engine, or none.
LEMMA HandlerRefines ==
    ASSUME HandlerTypeOK, HandlerStep \/ SyncStart \/ SyncStep
    PROVE  [Next]_vars
<1>1. ASSUME NEW c \in cancelEvents, HandleCancel(c) PROVE [Next]_vars
  BY <1>1, RequestIsEvent DEF HandleCancel, Next, HandlerTypeOK
<1>2. CASE HandleLock
  <2>1. Head(lockEvents).c \in Contracts
    BY <1>2, LockEventType DEF HandleLock
  <2>2. \E op \in {"pause", "resume"} :
            Request("handler", op, Head(lockEvents).c)
    BY <1>2 DEF HandleLock
  <2> QED
    BY <2>1, <2>2, RequestIsEvent DEF Next
<1>3. CASE SyncStart \/ SyncList \/ SyncDone \/ \E c \in Contracts : SyncLock(c)
  BY <1>3 DEF SyncStart, SyncList, SyncDone, SyncLock
<1>4. CASE SyncFail
  BY <1>4 DEF SyncFail, Next
<1>5. ASSUME NEW c \in Contracts, SyncGone(c) PROVE [Next]_vars
  BY <1>5, RequestIsEvent DEF SyncGone, Next
<1>6. CASE SyncChange
  <2>1. \E op \in {"pause", "resume"}, c \in Contracts : Request("sync", op, c)
    BY <1>6 DEF SyncChange, HandlerTypeOK
  <2> QED
    BY <2>1, RequestIsEvent DEF Next
<1> QED
  BY <1>1, <1>2, <1>3, <1>4, <1>5, <1>6 DEF HandlerStep, SyncStep

\* So is every other step of the node.
LEMMA NodeRefines ==
    ASSUME HandlerTypeOK, [NodeNext]_allVars
    PROVE  [Next]_vars
<1>1. CASE ChainStep
  BY <1>1 DEF ChainStep, CreateContract, LockContract, CancelContract
<1>2. CASE UserStep \/ (ApiStep /\ UNCHANGED handlerVars)
           \/ (EventStep /\ UNCHANGED handlerVars)
           \/ (MarkBooted /\ UNCHANGED handlerVars)
           \/ (Crash /\ Restart) \/ (Reboot /\ Restart)
  BY <1>2 DEF UserStep, Next
<1>3. CASE WorkerStep
  <2>1. ASSUME NEW reply, Begin(reply) PROVE reply \in Replies
    BY <2>1 DEF Begin, StartJob, RejectJob
  <2> QED
    BY <1>3, <2>1 DEF WorkerStep, BeginStep, Next, Run
<1>4. CASE HandlerStep \/ SyncStart \/ SyncStep
  BY <1>4, HandlerRefines
<1>5. CASE UNCHANGED allVars
  BY <1>5 DEF allVars
<1> QED
  BY <1>1, <1>2, <1>3, <1>4, <1>5 DEF NodeNext

\* Every step keeps the types of the chain, the events and the handler.
LEMMA HandlerTypeNext ==
    ASSUME TypeOK, HandlerTypeOK, [NodeNext]_allVars
    PROVE  HandlerTypeOK'
<1> USE DEF HandlerTypeOK, chainVars, eventVars, syncVars, handlerVars
<1>s. ASSUME NEW c \in Contracts, NEW lock \in BOOLEAN
      PROVE  Append(lockEvents, [c |-> c, lock |-> lock])
                \in Seq([c : Contracts, lock : BOOLEAN])
  <2>1. [c |-> c, lock |-> lock] \in [c : Contracts, lock : BOOLEAN]
    BY Zenon
  <2>2. ASSUME NEW S, NEW s \in Seq(S), NEW e \in S PROVE Append(s, e) \in Seq(S)
    OBVIOUS
  <2> QED
    BY <2>1, <2>2
<1>1. ASSUME NEW c \in Contracts, CreateContract(c) PROVE HandlerTypeOK'
  BY <1>1 DEF CreateContract
<1>2. ASSUME NEW c \in Contracts, NEW lock \in BOOLEAN, LockContract(c, lock)
      PROVE  HandlerTypeOK'
  <2>1. lockEvents' \in Seq([c : Contracts, lock : BOOLEAN])
    BY <1>2, <1>s DEF LockContract
  <2>2. locks' \in [Contracts -> 0 .. MaxLocks]
    BY <1>2, HandlerAssumption DEF LockContract
  <2> QED
    BY <1>2, <2>1, <2>2 DEF LockContract
<1>3. ASSUME NEW c \in Contracts, CancelContract(c) PROVE HandlerTypeOK'
  BY <1>3 DEF CancelContract
<1>4. ASSUME NEW c \in cancelEvents, HandleCancel(c) PROVE HandlerTypeOK'
  BY <1>4 DEF HandleCancel
<1>5. CASE HandleLock
  BY <1>5, LockEventType DEF HandleLock
<1>6. CASE SyncStart
  BY <1>6 DEF SyncStart, TypeOK
<1>7. CASE SyncList \/ SyncChange \/ SyncDone
  BY <1>7 DEF SyncList, SyncChange, SyncDone
<1>8. CASE SyncFail
  BY <1>8 DEF SyncFail, Restart
<1>9. ASSUME NEW c \in Contracts, SyncGone(c) \/ SyncLock(c)
      PROVE  HandlerTypeOK'
  <2>1. CASE SyncGone(c)
    BY <2>1 DEF SyncGone
  <2>2. CASE SyncLock(c)
    <3>1. ASSUME NEW op \in {"pause", "resume"}
          PROVE  [c |-> c, op |-> op] \in [c : Contracts, op : {"pause", "resume"}]
      BY Zenon
    <3>2. syncAct' \subseteq [c : Contracts, op : {"pause", "resume"}]
      BY <2>2, <3>1 DEF SyncLock
    <3> QED
      BY <2>2, <3>2 DEF SyncLock
  <2> QED
    BY <1>9, <2>1, <2>2
<1>10. CASE UNCHANGED handlerVars
  BY <1>10
<1>11. CASE Restart
  BY <1>11 DEF Restart
<1>12. CASE UserStep \/ WorkerStep \/ UNCHANGED allVars
  BY <1>10, <1>12 DEF UserStep, WorkerStep, BeginStep, allVars
<1> HIDE DEF HandlerTypeOK
<1> QED
  BY <1>1, <1>2, <1>3, <1>4, <1>5, <1>6, <1>7, <1>8, <1>9, <1>10, <1>11, <1>12
     DEF NodeNext, ChainStep, HandlerStep, SyncStep

LEMMA HandlerTypeInit == NodeInit => HandlerTypeOK
<1> SUFFICES ASSUME NodeInit PROVE HandlerTypeOK
  OBVIOUS
<1>1. locks \in [Contracts -> 0 .. MaxLocks]
  BY HandlerAssumption DEF NodeInit
<1>2. lockEvents \in Seq([c : Contracts, lock : BOOLEAN])
  <2>1. ASSUME NEW S PROVE <<>> \in Seq(S)
    OBVIOUS
  <2> QED
    BY <2>1 DEF NodeInit
<1> QED
  BY <1>1, <1>2 DEF NodeInit, HandlerTypeOK

\* The node with its event handler, its chain and its gateway implements the
\* engine with its requests and failures: every step of it is a step of the
\* engine, or leaves the engine alone.
THEOREM NodeImplementsEngine == NodeSpec => Spec
<1> DEFINE Inv == TypeInv /\ HandlerTypeOK
<1>1. NodeInit => Init /\ Inv
  BY InitType, HandlerTypeInit DEF NodeInit
<1>2. Inv /\ [NodeNext]_allVars => [Next]_vars
  BY NodeRefines
<1>3. Inv /\ [NodeNext]_allVars => Inv'
  BY <1>2, NextType, HandlerTypeNext DEF TypeInv
<1> QED
  BY <1>1, <1>2, <1>3, PTL DEF NodeSpec, Spec

\* Every variable of the node has its type.
THEOREM NodeTypeCorrect == NodeSpec => []NodeTypeOK
<1> DEFINE Inv == TypeInv /\ HandlerTypeOK
<1>1. NodeInit => Inv
  BY InitType, HandlerTypeInit DEF NodeInit
<1>2. Inv /\ [NodeNext]_allVars => Inv'
  BY NodeRefines, NextType, HandlerTypeNext DEF TypeInv
<1>3. Inv => NodeTypeOK
  BY DEF TypeInv, NodeTypeOK
<1> QED
  BY <1>1, <1>2, <1>3, PTL DEF NodeSpec

\* What the storage of such a node shows as in use is provisioned.
THEOREM NodeStoredIsProvisioned ==
    ASSUME CrashAlone PROVE NodeSpec => []StoredIsProvisioned
BY NodeImplementsEngine, StoredIsProvisionedHolds, PTL

-----------------------------------------------------------------------------
(* Nothing of a deleted deployment is left running *)

\* The guarantee is for deployments that are not updated nor decommissioned and
\* for uninstalls that do not fail: an update brings in workloads that a
\* deprovision scheduled before does not know of, a decommission removes the
\* record of a workload that a job under way installs again, and a failed
\* uninstall does not stop uninstallDeployment.
Plain == {"update", "decommission", "deprovisionError"} \cap Env = {}

\* The node gave the contract up: it deprovisions it, and validates no job
\* of it.
Dead(c) == chain[c] = "deleted" \/ Gateway = "stub"

\* What runs of a deployment, and what the job under way may still install.
Bound(c) ==
    provisioned[c] \cup {n \in todo : head.c = c /\ head.plan[n] = "add"}

\* A deprovision goes over everything that may run by the time it starts; what
\* another job installs is stored, unless the job will not be validated.
Fits(j) ==
    /\ j.op = "deprovision" =>
          Dead(j.c) /\ \A n \in Bound(j.c) : j.plan[n] = "remove"
    /\ \A n \in Names :
          /\ j.plan[n] = "add" =>
                /\ j.op \in {"provision", "provisionNoValidation"}
                /\ Dead(j.c) \/ n \in Stored(j.c)
          /\ j.plan[n] = "remove" => j.op = "deprovision"
          /\ j.plan[n] # "update"

\* A job of the handler's own making is about a contract it saw disappear.
ChainSeen ==
    /\ \A c \in deployments \cup syncActive : chain[c] # "none"
    /\ \A c \in cancelEvents : chain[c] = "deleted"
    /\ \A c \in syncGone : Dead(c)

\* What a deprovision under way did not visit yet is all that still runs.
Uninstalling ==
    /\ pc \in {"next", "call", "commit", "remove"} /\ head.op = "deprovision" =>
          provisioned[head.c] \subseteq todo
    /\ pc \in {"commit", "remove"} /\ head.plan[cur] = "remove" =>
          cur \notin provisioned[head.c]
    /\ pc = "remove" => head.plan[cur] = "remove"
    /\ pc = "commit" => result # "absent"

UninstallInv ==
    /\ Frame /\ HandlerTypeOK /\ ChainSeen /\ Uninstalling
    /\ \A c \in Contracts : Bound(c) \subseteq Stored(c)
    /\ \A j \in Pending : Fits(j)

\* A job that fits goes on fitting while less and less may run, and what is no
\* longer stored belongs to a contract given up.
LEMMA FitsStays ==
    ASSUME NEW j, Fits(j),
           Dead(j.c) => Dead(j.c)',
           Bound(j.c)' \subseteq Bound(j.c),
           \A n \in Names : n \in Stored(j.c) => n \in Stored(j.c)' \/ Dead(j.c)'
    PROVE  Fits(j)'
BY DEF Fits

\* What every step has to respect.
LEMMA UninstallKept ==
    ASSUME UninstallInv,
           \A c \in Contracts : Dead(c) => Dead(c)',
           \A c \in Contracts : Bound(c)' \subseteq Bound(c),
           \A c \in Contracts : \A n \in Names :
                n \in Stored(c) =>
                    n \in Stored(c)' \/ (Dead(c)' /\ n \notin Bound(c)'),
           \A j \in Pending' : j \in Pending \/ Fits(j)'
    PROVE  /\ (\A c \in Contracts : Bound(c) \subseteq Stored(c))'
           /\ (\A j \in Pending : Fits(j))'
<1>1. ASSUME NEW c \in Contracts PROVE Bound(c)' \subseteq Stored(c)'
  <2>1. Bound(c) \subseteq Stored(c) /\ Stored(c) \subseteq Names
    BY DEF UninstallInv, Stored
  <2> QED
    BY <2>1
<1>2. ASSUME NEW j \in Pending' PROVE Fits(j)'
  <2> SUFFICES ASSUME j \in Pending PROVE Fits(j)'
    OBVIOUS
  <2>1. j.c \in Contracts /\ Fits(j)
    BY PendingType DEF UninstallInv, Frame
  <2> QED
    BY <2>1, FitsStays
<1> QED
  BY <1>1, <1>2

\* The steps of the worker inside a job.
LEMMA JobKept ==
    ASSUME Plain, UninstallInv, chain' = chain,
           (\E n \in todo : Check(n)) \/ Call \/ Commit \/ Remove \/ FinishJob
    PROVE  /\ Uninstalling'
           /\ (\A c \in Contracts : Bound(c) \subseteq Stored(c))'
           /\ (\A j \in Pending : Fits(j))'
<1> USE DEF apiVars, storageVars
<1>1. /\ queue' = queue /\ apiJobs' = apiJobs /\ scheduled' = scheduled
      /\ pc \in {"next", "call", "commit", "remove"}
  BY DEF Check, Call, CallProvision, CallDeprovision, CallUpdate, CallLock,
     Commit, Remove, FinishJob
<1>2. /\ head' = head /\ Pending' = Pending
      /\ head.c \in Contracts /\ head.plan \in [Names -> Steps]
      /\ head.op \in Ops /\ Fits(head)
  <2>1. queue # <<>>
    BY <1>1 DEF UninstallInv, Frame, TypeInv, JobAtHead, Running
  <2> QED
    BY <1>1, <2>1, PendingType DEF UninstallInv, Frame, head, Pending
<1>3. \A c \in Contracts : Dead(c)' <=> Dead(c)
  BY DEF Dead
<1>4. /\ workloads \in [Contracts -> [Names -> States]]
      /\ provisioned \in [Contracts -> SUBSET Names]
      /\ todo \subseteq Names /\ cur \in Names
      /\ pc \in {"call", "commit", "remove"} => cur \in todo
      /\ RecordsExist
  BY DEF UninstallInv, Frame, TypeInv, TypeOK, Shape
<1>5. Bound(head.c) \subseteq Stored(head.c)
  BY <1>2 DEF UninstallInv
<1>6. /\ head.op = "deprovision" => provisioned[head.c] \subseteq todo
      /\ pc \in {"commit", "remove"} /\ head.plan[cur] = "remove" =>
            cur \notin provisioned[head.c]
      /\ pc = "remove" => head.plan[cur] = "remove"
      /\ pc = "commit" => result # "absent"
  BY <1>1 DEF UninstallInv, Uninstalling
<1>7. \A n \in Names : /\ head.plan[n] = "remove" =>
                              head.op = "deprovision" /\ Dead(head.c)
                       /\ head.plan[n] # "update"
                       /\ n \in provisioned[head.c] /\ head.op = "deprovision" =>
                              head.plan[n] = "remove"
  BY <1>2 DEF Fits, Bound
<1>8. ASSUME \A c \in Contracts : Bound(c)' \subseteq Bound(c),
             \A c \in Contracts : \A n \in Names :
                n \in Stored(c) =>
                    n \in Stored(c)' \/ (Dead(c)' /\ n \notin Bound(c)')
      PROVE  /\ (\A c \in Contracts : Bound(c) \subseteq Stored(c))'
             /\ (\A j \in Pending : Fits(j))'
  BY <1>2, <1>3, <1>8, UninstallKept
<1>9. ASSUME provisioned' = provisioned, todo' \subseteq todo
      PROVE  \A c \in Contracts : Bound(c)' \subseteq Bound(c)
  BY <1>2, <1>9 DEF Bound
<1>10. ASSUME workloads' = workloads
       PROVE  \A c \in Contracts : Stored(c)' = Stored(c)
  BY <1>10 DEF Stored
<1> DEFINE Goal ==
        /\ Uninstalling'
        /\ \A c \in Contracts : Bound(c)' \subseteq Bound(c)
        /\ \A c \in Contracts : \A n \in Names :
              n \in Stored(c) =>
                  n \in Stored(c)' \/ (Dead(c)' /\ n \notin Bound(c)')
<1>11. ASSUME NEW n \in todo, Check(n) PROVE Goal
  <2>1. provisioned' = provisioned /\ todo' \subseteq todo
    BY <1>11 DEF Check, Skip
  <2>2. ASSUME NEW c \in Contracts, NEW m \in Names, workloads[c][m] # "absent"
        PROVE  workloads'[c][m] # "absent"
    <3>1. n \in Names
      BY <1>4
    <3>2. CASE workloads' = [workloads EXCEPT ![head.c][n] = "init"]
      BY <1>2, <1>4, <2>2, <3>1, <3>2, SetStateAt
    <3> QED
      BY <1>11, <2>2, <3>2 DEF Check
  <2>3. head.op = "deprovision" => provisioned[head.c] \subseteq todo'
    <3> SUFFICES ASSUME head.op = "deprovision", n \in provisioned[head.c],
                        todo' = todo \ {n}, ~Checked(head.plan[n], head.c, n)
                 PROVE  FALSE
      BY <1>6, <1>11 DEF Check, Skip
    <3>1. n \in Names /\ head.plan[n] = "remove"
      BY <1>4, <1>7
    <3>2. workloads[head.c][n] # "absent"
      BY <1>5, <3>1 DEF Bound, Stored
    <3> QED
      BY <1>2, <1>4, <3>1, <3>2 DEF Checked, RecordsExist
  <2>4. pc' \in {"next", "call"}
    BY <1>11 DEF Check, Skip
  <2> QED
    BY <1>2, <1>9, <2>1, <2>2, <2>3, <2>4 DEF Uninstalling, Stored
<1>12. ASSUME CallProvision PROVE Goal
  <2>1. pc = "call" /\ head.plan[cur] = "add" /\ workloads' = workloads
    BY <1>12 DEF CallProvision
  <2>2. head.op # "deprovision"
    BY <1>2, <1>4, <2>1 DEF Fits
  <2>3. \A c \in Contracts : Bound(c)' \subseteq Bound(c)
    <3>1. CASE /\ provisioned' = [provisioned EXCEPT ![head.c] = @ \cup {cur}]
               /\ todo' = todo
      <4>1. \A c \in Contracts : provisioned'[c] =
                IF c = head.c THEN provisioned[c] \cup {cur} ELSE provisioned[c]
        BY <1>4, <3>1
      <4>2. cur \in todo
        BY <1>4, <2>1
      <4> QED
        BY <1>2, <2>1, <3>1, <4>1, <4>2 DEF Bound
    <3>2. CASE provisioned' = provisioned /\ todo' \subseteq todo
      BY <1>9, <3>2
    <3> QED
      BY <1>12, <3>1, <3>2 DEF CallProvision, Answer, Skip
  <2>4. Uninstalling'
    <3>1. pc' \in {"commit", "next"} /\ (pc' = "commit" => cur' = cur /\ result' # "absent")
      BY <1>12 DEF CallProvision, Answer, Skip
    <3> QED
      BY <1>2, <2>1, <2>2, <3>1 DEF Uninstalling
  <2> QED
    BY <1>10, <2>1, <2>3, <2>4
<1>13. ASSUME CallDeprovision PROVE Goal
  <2>1. /\ pc = "call" /\ head.plan[cur] = "remove" /\ workloads' = workloads
        /\ provisioned' = [provisioned EXCEPT ![head.c] = @ \ {cur}]
        /\ pc' = "commit" /\ result' = "deleted" /\ todo' = todo /\ cur' = cur
    BY <1>13 DEF CallDeprovision, Answer, Plain
  <2>2. \A c \in Contracts : provisioned'[c] =
            IF c = head.c THEN provisioned[c] \ {cur} ELSE provisioned[c]
    BY <1>4, <2>1
  <2>3. \A c \in Contracts : Bound(c)' \subseteq Bound(c)
    BY <1>2, <2>1, <2>2 DEF Bound
  <2>4. Uninstalling'
    BY <1>2, <1>6, <2>1, <2>2 DEF Uninstalling
  <2> QED
    BY <1>10, <2>1, <2>3, <2>4
<1>14. ASSUME CallUpdate PROVE Goal
  BY <1>4, <1>7, <1>14 DEF CallUpdate
<1>15. ASSUME CallLock PROVE Goal
  <2>1. /\ head.plan[cur] \in {"lock", "unlock"}
        /\ workloads' = workloads /\ provisioned' = provisioned
        /\ pc' = "commit" /\ result' # "absent" /\ todo' = todo /\ cur' = cur
    BY <1>15 DEF CallLock, Answer
  <2>2. Uninstalling'
    BY <1>2, <1>6, <2>1 DEF Uninstalling
  <2> QED
    BY <1>9, <1>10, <2>1, <2>2
<1>16. ASSUME Commit PROVE Goal
  <2>1. /\ pc = "commit" /\ provisioned' = provisioned
        /\ \/ pc' = "next" /\ todo' = todo \ {cur}
           \/ pc' = "remove" /\ todo' = todo /\ cur' = cur
              /\ head.plan[cur] = "remove"
        /\ \/ workloads' = workloads
           \/ workloads' = [workloads EXCEPT ![head.c][cur] = result]
    BY <1>16 DEF Commit, Skip
  <2>2. \A c \in Contracts : \A n \in Names :
            workloads[c][n] # "absent" => workloads'[c][n] # "absent"
    <3>1. CASE workloads' = [workloads EXCEPT ![head.c][cur] = result]
      BY <1>2, <1>4, <1>6, <2>1, <3>1, SetStateAt
    <3> QED
      BY <2>1, <3>1
  <2>3. cur \in provisioned[head.c] => head.op # "deprovision"
    BY <1>4, <1>6, <1>7, <2>1
  <2>4. Uninstalling'
    BY <1>2, <1>6, <2>1, <2>3 DEF Uninstalling
  <2> QED
    BY <1>9, <2>1, <2>2, <2>4 DEF Stored
<1>17. ASSUME Remove PROVE Goal
  <2>1. /\ pc = "remove" /\ provisioned' = provisioned
        /\ pc' = "next" /\ todo' = todo \ {cur}
        /\ workloads' = [workloads EXCEPT ![head.c][cur] = "absent"]
    BY <1>17 DEF Remove, Skip
  <2>2. /\ head.plan[cur] = "remove" /\ cur \notin provisioned[head.c]
        /\ Dead(head.c)
    BY <1>4, <1>6, <1>7, <2>1
  <2>3. \A c \in Contracts : Bound(c)' \subseteq Bound(c)
    BY <1>9, <2>1
  <2>4. \A c \in Contracts : c = head.c => cur \notin Bound(c)'
    BY <1>2, <2>1, <2>2 DEF Bound
  <2>5. \A c \in Contracts : \A n \in Names : workloads'[c][n] =
            IF c = head.c /\ n = cur THEN "absent" ELSE workloads[c][n]
    BY <1>2, <1>4, <2>1, SetStateAt
  <2>6. Uninstalling'
    BY <1>2, <1>6, <2>1, <2>2 DEF Uninstalling
  <2> QED
    BY <1>3, <2>2, <2>3, <2>4, <2>5, <2>6 DEF Stored
<1>18. ASSUME FinishJob PROVE Goal
  <2>1. /\ todo = {} /\ todo' = {} /\ provisioned' = provisioned
        /\ pc' = "dequeue"
    BY <1>18 DEF FinishJob
  <2>2. \A c \in Contracts : Bound(c)' \subseteq Bound(c)
    BY <1>9, <2>1
  <2>3. Uninstalling'
    BY <2>1 DEF Uninstalling
  <2>4. CASE workloads' = workloads
    BY <1>10, <2>2, <2>3, <2>4
  <2>5. CASE /\ head.op = "deprovision"
             /\ workloads' = [workloads EXCEPT ![head.c] = Nothing]
    <3>1. Dead(head.c)
      BY <1>2, <2>5 DEF Fits
    <3>2. \A c \in Contracts : c = head.c => Bound(c)' = {}
      BY <1>2, <1>6, <2>1, <2>5 DEF Bound
    <3>3. \A c \in Contracts : c # head.c => workloads'[c] = workloads[c]
      BY <1>4, <2>5
    <3> QED
      BY <1>3, <2>2, <2>3, <3>1, <3>2, <3>3 DEF Stored
  <2> QED
    BY <1>18, <2>4, <2>5 DEF FinishJob
<1>19. Goal
  BY <1>11, <1>12, <1>13, <1>14, <1>15, <1>16, <1>17, <1>18 DEF Call
<1> QED
  BY <1>8, <1>19

\* The boot scan and the steps between two jobs, which start none.
LEMMA BoundaryKept ==
    ASSUME UninstallInv, chain' = chain,
           \/ BootList \/ (\E c \in toBoot : BootScan(c)) \/ BootDone
           \/ Discard \/ Dequeue \/ Callback \/ \E reply : RejectJob(reply)
    PROVE  /\ Uninstalling'
           /\ (\A c \in Contracts : Bound(c) \subseteq Stored(c))'
           /\ (\A j \in Pending : Fits(j))'
<1> USE DEF apiVars, storageVars
<1>1. /\ todo' = todo /\ provisioned' = provisioned
      /\ apiJobs' = apiJobs /\ scheduled' = scheduled
      /\ pc \notin {"next", "call", "commit", "remove"}
      /\ pc' \notin {"next", "call", "commit", "remove"}
  BY DEF BootList, BootScan, BootDone, Discard, Dequeue, Callback, RejectJob
<1>2. todo = {} /\ todo' = {}
  BY <1>1 DEF UninstallInv, Frame, Shape
<1>3. Uninstalling'
  BY <1>1 DEF Uninstalling
<1>4. \A c \in Contracts : Bound(c)' = Bound(c) /\ (Dead(c)' <=> Dead(c))
  BY <1>1, <1>2 DEF Bound, Dead
<1>5. /\ queue \in Seq(Job) /\ toBoot \subseteq Contracts
      /\ workloads \in [Contracts -> [Names -> States]]
      /\ Running => queue # <<>>
  BY DEF UninstallInv, Frame, TypeInv, TypeOK, JobAtHead
<1>6. \A c \in Contracts : Stored(c)' = Stored(c)
  <2>1. CASE \E reply : RejectJob(reply)
    <3>1. /\ workloads' = [workloads EXCEPT ![head.c] = Errored(workloads[head.c])]
          /\ head.c \in Contracts
      BY <1>5, <2>1, HeadType DEF RejectJob
    <3>2. \A c \in Contracts : \A n \in Names :
              workloads'[c][n] = "absent" <=> workloads[c][n] = "absent"
      BY <1>5, <3>1 DEF Errored
    <3> QED
      BY <3>2 DEF Stored
  <2>2. CASE ~\E reply : RejectJob(reply)
    <3>1. workloads' = workloads
      BY <2>2 DEF BootList, BootScan, BootDone, Discard, Dequeue, Callback
    <3> QED
      BY <3>1 DEF Stored
  <2> QED
    BY <2>1, <2>2
<1>7. ASSUME NEW j \in Pending' PROVE j \in Pending \/ Fits(j)'
  <2>1. CASE queue' = queue
    BY <1>1, <1>7, <2>1 DEF Pending
  <2>2. CASE queue' = Tail(queue) /\ Running
    <3>1. \A i \in DOMAIN queue' : \E k \in DOMAIN queue : queue'[i] = queue[k]
      BY <1>5, <2>2, QueueMembers
    <3> QED
      BY <1>1, <1>7, <3>1 DEF Pending
  <2>3. ASSUME NEW c \in toBoot, BootScan(c), queue' # queue
        PROVE  j \in Pending \/ Fits(j)'
    <3> DEFINE b == JobOf("provisionNoValidation", c, workloads[c])
    <3>1. c \in Contracts /\ b \in Job
      BY <1>5, JobOfType DEF Ops
    <3>2. queue' = Append(queue, b)
      BY <2>3 DEF BootScan
    <3>3. \A i \in DOMAIN queue' :
              queue'[i] = b \/ \E k \in DOMAIN queue : queue'[i] = queue[k]
      BY <1>5, <3>1, <3>2, QueueMembers
    <3>4. j \in Pending \/ j = b
      BY <1>1, <1>7, <3>3 DEF Pending
    <3>5. /\ b.op = "provisionNoValidation" /\ b.c = c
          /\ \A n \in Names : b.plan[n] =
                IF workloads[c][n] = "absent" THEN "none" ELSE "add"
      BY DEF JobOf, StepFor
    <3>6. \A n \in Names : b.plan[n] = "add" => n \in Stored(c)'
      BY <1>6, <3>1, <3>5 DEF Stored
    <3>7. ASSUME j = b PROVE Fits(j)'
      <4>1. /\ j.op = "provisionNoValidation" /\ j.c = c
            /\ \A n \in Names : j.plan[n] \in {"none", "add"}
            /\ \A n \in Names : j.plan[n] = "add" => n \in Stored(c)'
        BY <3>5, <3>6, <3>7
      <4> QED
        BY <4>1 DEF Fits
    <3> QED
      BY <3>4, <3>7
  <2> QED
    BY <2>1, <2>2, <2>3 DEF BootList, BootDone, Discard, Dequeue, Callback,
       RejectJob, BootScan, Running
<1> QED
  BY <1>3, <1>4, <1>6, <1>7, UninstallKept

\* The start of a job: one that installs is validated, so the contract is not
\* given up and no deprovision of it is pending.
LEMMA StartKept ==
    ASSUME UninstallInv, chain' = chain, BeginStep
    PROVE  /\ Uninstalling'
           /\ (\A c \in Contracts : Bound(c) \subseteq Stored(c))'
           /\ (\A j \in Pending : Fits(j))'
<1>1. CASE \E reply : RejectJob(reply)
  BY <1>1, BoundaryKept
<1>2. ASSUME NEW reply, StartJob(reply),
             reply \in IF NeedsContract THEN GetContract(head.c) ELSE {"valid"}
      PROVE  /\ Uninstalling'
             /\ (\A c \in Contracts : Bound(c) \subseteq Stored(c))'
             /\ (\A j \in Pending : Fits(j))'
  <2>1. /\ pc = "idle" /\ pc' = "next" /\ queue # <<>> /\ queue' = queue
        /\ todo' = {n \in Names : head.plan[n] # "none"}
        /\ provisioned' = provisioned /\ workloads' = workloads
        /\ apiJobs' = apiJobs /\ scheduled' = scheduled
    BY <1>2 DEF StartJob, storageVars, apiVars
  <2>2. /\ todo = {} /\ head' = head /\ Pending' = Pending
        /\ head.c \in Contracts /\ Fits(head) /\ head \in Pending
    BY <2>1, PendingType DEF UninstallInv, Frame, Shape, head, Pending
  <2>3. ASSUME NEW n \in Names, head.plan[n] = "add"
        PROVE  ~Dead(head.c) /\ n \in Stored(head.c)
    <3>1. NeedsContract
      BY <2>2, <2>3 DEF Fits, NeedsContract
    <3>2. ~Dead(head.c)
      <4>1. reply \in GetContract(head.c) /\ reply # "failed"
        BY <1>2, <3>1 DEF StartJob, Accepted
      <4>2. Gateway = "stub" => GetContract(head.c) = {"failed"}
        BY DEF GetContract
      <4>3. chain[head.c] = "deleted" => GetContract(head.c) = {"failed"}
        BY DEF GetContract, Alive
      <4> QED
        BY <4>1, <4>2, <4>3 DEF Dead
    <3> QED
      BY <2>2, <2>3, <3>2 DEF Fits
  <2>4. \A c \in Contracts :
            /\ Bound(c)' = provisioned[c] \cup
                  {n \in Names : head.c = c /\ head.plan[n] = "add"}
            /\ Bound(c) = provisioned[c]
            /\ Stored(c)' = Stored(c) /\ (Dead(c)' <=> Dead(c))
    BY <2>1, <2>2 DEF Bound, Stored, Dead
  <2>5. ASSUME NEW c \in Contracts PROVE Bound(c)' \subseteq Stored(c)'
    BY <2>3, <2>4 DEF UninstallInv
  <2>6. ASSUME NEW j \in Pending PROVE Fits(j)'
    <3>1. Fits(j) /\ j.c \in Contracts
      BY PendingType DEF UninstallInv, Frame
    <3>2. CASE j.op = "deprovision"
      <4>1. Dead(j.c)
        BY <3>1, <3>2 DEF Fits
      <4>2. Bound(j.c)' = Bound(j.c)
        BY <2>3, <2>4, <3>1, <4>1
      <4> QED
        BY <2>4, <3>1, <4>2, FitsStays
    <3>3. CASE j.op # "deprovision"
      BY <2>4, <3>1, <3>3 DEF Fits
    <3> QED
      BY <3>2, <3>3
  <2>7. Uninstalling'
    <3>1. head.op = "deprovision" => provisioned[head.c] \subseteq todo'
      <4> SUFFICES ASSUME head.op = "deprovision", NEW n \in provisioned[head.c]
                   PROVE  n \in todo'
        OBVIOUS
      <4>1. n \in Names /\ n \in Bound(head.c)
        BY <2>2 DEF Bound, UninstallInv, Frame, TypeInv, TypeOK
      <4>2. head.plan[n] = "remove"
        BY <2>2, <4>1 DEF Fits
      <4> QED
        BY <2>1, <4>1, <4>2
    <3> QED
      BY <2>1, <2>2, <3>1 DEF Uninstalling
  <2> QED
    BY <2>2, <2>5, <2>6, <2>7
<1> QED
  BY <1>1, <1>2 DEF BeginStep, Begin

\* Requests, events, and the goroutines that enqueue their jobs.  The handler
\* schedules a deprovision for a contract given up, with a copy that holds
\* everything that may run of it.
LEMMA RequestKept ==
    ASSUME Plain, UninstallInv, chain' = chain,
           \/ Api \/ ApiStep \/ EventStep \/ MarkBooted
           \/ \E g \in Callers, op \in Ops, c \in Contracts :
                 Schedule(g, op, c) /\ (op = "deprovision" => Dead(c))
    PROVE  /\ Uninstalling'
           /\ (\A c \in Contracts : Bound(c) \subseteq Stored(c))'
           /\ (\A j \in Pending : Fits(j))'
<1> USE DEF apiVars, storageVars, workerVars
<1>1. \/ \E c \in Contracts, names \in SUBSET Names : Provision(c, names)
      \/ ApiEnqueue \/ EventStep \/ MarkBooted
      \/ \E g \in Callers, op \in Ops, c \in Contracts :
            Schedule(g, op, c) /\ (op = "deprovision" => Dead(c))
  <2>1. decom = {}
    BY DEF UninstallInv, Frame, Shape, Plain
  <2>2. ~\E c \in Contracts, target, changed \in SUBSET Names :
            Update(c, target, changed)
    BY DEF Update, Plain
  <2>3. ~\E c \in Contracts, n \in Names : DecommissionStart(c, n)
    BY DEF DecommissionStart, Plain
  <2> QED
    BY <2>1, <2>2, <2>3 DEF Api, ApiStep
<1>2. /\ UNCHANGED workerVars /\ provisioned' = provisioned
  BY <1>1 DEF Provision, ApiEnqueue, EventStep, EnqueueScheduled, MarkBooted,
     Schedule
<1>3. /\ queue \in Seq(Job) /\ apiJobs \subseteq Job
      /\ \A t \in scheduled : t.job \in Job
      /\ workloads \in [Contracts -> [Names -> States]]
      /\ RecordsExist
      /\ queue = <<>> => todo = {} /\ pc \notin {"next", "call", "commit", "remove"}
  BY TicketType DEF UninstallInv, Frame, TypeInv, TypeOK, JobAtHead, Running,
     Shape
<1>4. queue' = queue \/ \E j \in Job : queue' = Append(queue, j)
  BY <1>1, <1>3 DEF Provision, ApiEnqueue, EventStep, EnqueueScheduled,
     MarkBooted, Schedule
<1>5. queue # <<>> => head' = head
  BY <1>3, <1>4 DEF head
<1>6. \A c \in Contracts : Bound(c)' = Bound(c) /\ (Dead(c)' <=> Dead(c))
  BY <1>2, <1>3, <1>5 DEF Bound, Dead
<1>7. Uninstalling'
  BY <1>2, <1>3, <1>5 DEF Uninstalling, UninstallInv
<1> DEFINE Goal == /\ (\A c \in Contracts : Bound(c) \subseteq Stored(c))'
                   /\ (\A j \in Pending : Fits(j))'
<1>8. ASSUME \A c \in Contracts : \A n \in Names :
                n \in Stored(c) => n \in Stored(c)',
             \A j \in Pending' : j \in Pending \/ Fits(j)'
      PROVE  Goal
  BY <1>6, <1>8, UninstallKept
<1>9. ASSUME NEW c \in Contracts, NEW names \in SUBSET Names, Provision(c, names)
      PROVE  Goal
  <2> DEFINE snap == [n \in Names |-> IF n \in names THEN "init" ELSE "absent"]
             b == JobOf("provision", c, snap)
  <2>1. /\ c \notin deployments /\ queue' = queue /\ scheduled' = scheduled
        /\ workloads' = [workloads EXCEPT ![c] = snap]
        /\ apiJobs' = {b}
    BY <1>9 DEF Provision
  <2>2. \A d \in Contracts : \A n \in Names : workloads'[d][n] =
            IF d = c THEN snap[n] ELSE workloads[d][n]
    BY <1>3, <2>1
  <2>3. \A n \in Names : n \notin Stored(c)
    BY <1>3, <2>1 DEF Stored, RecordsExist
  <2>4. \A d \in Contracts : \A n \in Names : n \in Stored(d) => n \in Stored(d)'
    BY <2>2, <2>3 DEF Stored
  <2>5. /\ b.op = "provision" /\ b.c = c
        /\ \A n \in Names : b.plan[n] = IF n \in names THEN "add" ELSE "none"
    BY DEF JobOf, StepFor
  <2>6. \A n \in Names : n \in names => n \in Stored(c)'
    BY <2>2 DEF Stored
  <2>7. ASSUME NEW j, j = b PROVE Fits(j)'
    <3>1. /\ j.op = "provision" /\ j.c = c
          /\ \A n \in Names : j.plan[n] \in {"none", "add"}
          /\ \A n \in Names : j.plan[n] = "add" => n \in Stored(c)'
      BY <2>5, <2>6, <2>7
    <3> QED
      BY <3>1 DEF Fits
  <2>8. \A j \in Pending' : j \in Pending \/ j = b
    BY <2>1 DEF Pending
  <2> QED
    BY <1>8, <2>4, <2>7, <2>8
<1>10. ASSUME ApiEnqueue \/ EventStep \/ MarkBooted PROVE Goal
  <2>1. workloads' = workloads /\ apiJobs' \subseteq apiJobs
        /\ scheduled' \subseteq scheduled
    BY <1>10 DEF ApiEnqueue, EventStep, EnqueueScheduled, MarkBooted
  <2>2. queue' = queue \/ \E j \in Pending \cap Job : queue' = Append(queue, j)
    BY <1>3, <1>10 DEF ApiEnqueue, EventStep, EnqueueScheduled, MarkBooted, Pending
  <2>3. \A i \in DOMAIN queue' : queue'[i] \in Pending
    <3>1. CASE queue' = queue
      BY <3>1 DEF Pending
    <3>2. ASSUME NEW j \in Pending \cap Job, queue' = Append(queue, j)
          PROVE  \A i \in DOMAIN queue' : queue'[i] \in Pending
      <4>1. \A i \in DOMAIN queue' :
                queue'[i] = j \/ \E k \in DOMAIN queue : queue'[i] = queue[k]
        BY <1>3, <3>2, QueueMembers
      <4> QED
        BY <4>1 DEF Pending
    <3> QED
      BY <2>2, <3>1, <3>2
  <2>4. \A j \in Pending' : j \in Pending
    BY <2>1, <2>3 DEF Pending
  <2> QED
    BY <1>8, <2>1, <2>4 DEF Stored
<1>11. ASSUME NEW g, NEW op \in Ops, NEW c \in Contracts, Schedule(g, op, c),
              op = "deprovision" => Dead(c)
       PROVE  Goal
  <2> DEFINE b == JobOf(op, c, workloads[c])
             u == [by |-> g, job |-> b]
  <2>1. /\ op \in {"deprovision", "pause", "resume"}
        /\ workloads' = workloads /\ queue' = queue /\ apiJobs' = apiJobs
        /\ scheduled' = scheduled \cup {u}
    BY <1>11 DEF Schedule
  <2>2. /\ b.op = op /\ b.c = c
        /\ \A n \in Names :
              /\ b.plan[n] \notin {"add", "update"}
              /\ b.plan[n] = "remove" => op = "deprovision"
              /\ op = "deprovision" /\ workloads[c][n] # "absent" =>
                    b.plan[n] = "remove"
    BY <2>1 DEF JobOf, StepFor
  <2>3. \A n \in Bound(c) : n \in Names /\ workloads[c][n] # "absent"
    BY DEF UninstallInv, Stored
  <2>4. ASSUME NEW j, j = b PROVE Fits(j)'
    <3>1. /\ j.op = op /\ j.c = c
          /\ \A n \in Names : /\ j.plan[n] \notin {"add", "update"}
                              /\ j.plan[n] = "remove" => op = "deprovision"
          /\ op = "deprovision" =>
                Dead(c)' /\ \A n \in Bound(c)' : j.plan[n] = "remove"
      BY <1>6, <1>11, <2>2, <2>3, <2>4
    <3> QED
      BY <3>1 DEF Fits
  <2>5. \A j \in Pending' : j \in Pending \/ j = b
    <3>1. \A t \in scheduled' : t \in scheduled \/ t.job = b
      BY <2>1
    <3> HIDE DEF b, u
    <3> QED
      BY <2>1, <3>1 DEF Pending
  <2> QED
    BY <1>8, <2>1, <2>4, <2>5 DEF Stored
<1> QED
  BY <1>1, <1>7, <1>9, <1>10, <1>11

\* A restart ends the job under way and keeps or drops the whole queue.
LEMMA RestartKept ==
    ASSUME UninstallInv, chain' = chain, Crash \/ Reboot
    PROVE  /\ Uninstalling'
           /\ (\A c \in Contracts : Bound(c) \subseteq Stored(c))'
           /\ (\A j \in Pending : Fits(j))'
<1>1. /\ pc' \in {"boot", "idle"} /\ todo' = {} /\ workloads' = workloads
      /\ queue' \in {queue, <<>>} /\ apiJobs' = {} /\ scheduled' = {}
      /\ \A c \in Contracts : provisioned'[c] \subseteq provisioned[c]
  <2>1. PICK r \in BOOLEAN : Start(r)
    BY DEF Crash, Reboot, UninstallInv, Frame, TypeInv, TypeOK
  <2>2. queue' \in {queue, <<>>}
    BY <2>1, KeptJobsAre
  <2> QED
    BY <2>1, <2>2 DEF Crash, Reboot, Start
<1>2. Uninstalling'
  BY <1>1 DEF Uninstalling
<1>3. \A c \in Contracts : /\ Bound(c)' \subseteq Bound(c)
                           /\ Stored(c)' = Stored(c) /\ (Dead(c)' <=> Dead(c))
  BY <1>1 DEF Bound, Stored, Dead
<1>4. Pending' \subseteq Pending
  BY <1>1 DEF Pending
<1> QED
  BY <1>2, <1>3, <1>4, UninstallKept

\* Only a request of a user brings in a deployment.
LEMMA NoNewDeployment ==
    ASSUME ApiStep \/ Events \/ EventStep \/ Run \/ MarkBooted \/ Crash \/ Reboot
    PROVE  deployments' \subseteq deployments
<1> USE DEF storageVars
<1>1. CASE ApiStep \/ Events \/ EventStep \/ MarkBooted
  BY <1>1 DEF ApiStep, ApiEnqueue, DecommissionCall, DecommissionCommit,
     DecommissionRemove, Events, Schedule, EventStep, EnqueueScheduled, MarkBooted
<1>2. CASE Run
  BY <1>2 DEF Run, Work, Begin, Callback, BootList, BootScan, BootDone, Discard,
     Check, Call, CallProvision, CallDeprovision, CallUpdate, CallLock, Commit,
     Remove, FinishJob, Dequeue, StartJob, RejectJob
<1>3. CASE Crash \/ Reboot
  BY <1>3 DEF Crash, Reboot, Start
<1> QED
  BY <1>1, <1>2, <1>3

\* What the handler saw of the chain stays true of it.
LEMMA ChainSeenNext ==
    ASSUME HandlerTypeOK, TypeOK, ChainSeen, [NodeNext]_allVars
    PROVE  ChainSeen'
<1> USE DEF ChainSeen, chainVars, eventVars, syncVars, handlerVars
<1>1. ASSUME UNCHANGED handlerVars, deployments' \subseteq deployments
      PROVE  ChainSeen'
  BY <1>1 DEF Dead
<1>2. CASE ChainStep
  <2>1. ASSUME NEW c \in Contracts, CreateContract(c) PROVE ChainSeen'
    BY <2>1 DEF CreateContract, vars, storageVars, Dead, HandlerTypeOK, TypeOK
  <2>2. ASSUME NEW c \in Contracts, NEW lock \in BOOLEAN, LockContract(c, lock)
        PROVE  ChainSeen'
    BY <2>2 DEF LockContract, vars, storageVars, Dead, HandlerTypeOK, TypeOK
  <2>3. ASSUME NEW c \in Contracts, CancelContract(c) PROVE ChainSeen'
    BY <2>3 DEF CancelContract, vars, storageVars, Dead, HandlerTypeOK, TypeOK
  <2> QED
    BY <1>2, <2>1, <2>2, <2>3 DEF ChainStep
<1>3. CASE UserStep
  BY <1>3 DEF UserStep, Dead
<1>4. CASE \/ ApiStep /\ UNCHANGED handlerVars
           \/ EventStep /\ UNCHANGED handlerVars
           \/ MarkBooted /\ UNCHANGED handlerVars
  BY <1>1, <1>4, NoNewDeployment
<1>5. CASE WorkerStep
  <2>1. ASSUME NEW reply, Begin(reply) PROVE reply \in Replies
    BY <2>1 DEF Begin, StartJob, RejectJob
  <2> QED
    BY <1>1, <1>5, <2>1, NoNewDeployment DEF WorkerStep, BeginStep, Run
<1>6. CASE (Crash \/ Reboot) /\ Restart
  BY <1>6, NoNewDeployment DEF Restart, Dead
<1>7. ASSUME NEW g, NEW op, NEW c, Request(g, op, c)
      PROVE  deployments' = deployments
  BY <1>7 DEF Request, Schedule, storageVars, vars
<1>8. CASE HandlerStep
  BY <1>7, <1>8 DEF HandlerStep, HandleLock, HandleCancel, Dead
<1>9. CASE SyncStart
  BY <1>9 DEF SyncStart, vars, storageVars, Dead
<1>10. CASE SyncList
  <2>1. \A c \in syncGone' : chain[c] # "none" /\ c \in Contracts
                             /\ c \notin GetNodeContracts
    BY <1>10 DEF SyncList, HandlerTypeOK
  <2>2. \A c \in syncGone' : Dead(c)
    BY <2>1 DEF GetNodeContracts, Alive, Dead, HandlerTypeOK
  <2> QED
    BY <1>10, <2>2 DEF SyncList, vars, storageVars, Dead
<1>11. CASE SyncFail
  BY <1>11, <1>6 DEF SyncFail, vars, storageVars, Dead
<1>12. ASSUME SyncChange \/ \E c \in Contracts : SyncGone(c) \/ SyncLock(c)
       PROVE  ChainSeen'
  <2>1. deployments' = deployments
    BY <1>7, <1>12 DEF SyncGone, SyncLock, SyncChange, vars, storageVars
  <2> QED
    BY <1>12, <2>1 DEF SyncGone, SyncLock, SyncChange, Dead
<1>13. CASE SyncDone
  BY <1>13 DEF SyncDone, vars, storageVars, Dead
<1>14. CASE UNCHANGED allVars
  BY <1>14 DEF allVars, vars, storageVars, Dead
<1> QED
  BY <1>2, <1>3, <1>4, <1>5, <1>6, <1>8, <1>9, <1>10, <1>11, <1>12, <1>13, <1>14
     DEF NodeNext, SyncStep

LEMMA UninstallInit == NodeInit => UninstallInv
<1> SUFFICES ASSUME NodeInit PROVE UninstallInv
  OBVIOUS
<1>1. Frame /\ HandlerTypeOK
  BY InitSafe, HandlerTypeInit DEF NodeInit, SafeInv
<1>2. ChainSeen /\ Uninstalling
  BY DEF NodeInit, Init, ChainSeen, Uninstalling
<1>3. \A c \in Contracts : Bound(c) = {}
  BY DEF NodeInit, Init, Bound
<1>4. Pending = {}
  BY DEF NodeInit, Init, Pending
<1> QED
  BY <1>1, <1>2, <1>3, <1>4 DEF UninstallInv

\* Every step of the node keeps the invariant.
LEMMA UninstallNext ==
    ASSUME Plain PROVE UninstallInv /\ [NodeNext]_allVars => UninstallInv'
<1> SUFFICES ASSUME UninstallInv, [NodeNext]_allVars PROVE UninstallInv'
  OBVIOUS
<1> USE DEF chainVars, handlerVars
<1>1. Frame' /\ HandlerTypeOK' /\ ChainSeen'
  BY NodeRefines, NextFrame, HandlerTypeNext, ChainSeenNext
     DEF UninstallInv, Frame, TypeInv
<1> DEFINE Goal == /\ Uninstalling'
                   /\ (\A c \in Contracts : Bound(c) \subseteq Stored(c))'
                   /\ (\A j \in Pending : Fits(j))'
<1>2. ASSUME UNCHANGED vars, \A c \in Contracts : Dead(c) => Dead(c)' PROVE Goal
  <2>1. /\ Uninstalling' /\ Pending' = Pending
        /\ \A c \in Contracts : Bound(c)' = Bound(c) /\ Stored(c)' = Stored(c)
    BY <1>2 DEF vars, storageVars, workerVars, apiVars, Uninstalling, UninstallInv,
       Pending, Bound, Stored, head
  <2> QED
    BY <1>2, <2>1, UninstallKept
<1>3. ASSUME NEW g \in {"handler", "sync"}, NEW c \in Contracts,
             NEW op \in {"deprovision", "pause", "resume"},
             Request(g, op, c), chain' = chain, op = "deprovision" => Dead(c)
      PROVE  Goal
  <2>1. CASE Schedule(g, op, c)
    BY <1>3, <2>1, RequestKept, HandlerAssumption DEF Ops
  <2>2. CASE UNCHANGED vars
    BY <1>2, <1>3, <2>2 DEF Dead
  <2> QED
    BY <1>3, <2>1, <2>2 DEF Request
<1>4. ASSUME ChainStep PROVE Goal
  <2>1. UNCHANGED vars /\ \A c \in Contracts : Dead(c) => Dead(c)'
    BY <1>4 DEF ChainStep, CreateContract, LockContract, CancelContract, Dead,
       UninstallInv, HandlerTypeOK
  <2> QED
    BY <1>2, <2>1
<1>5. ASSUME \/ UserStep
             \/ ApiStep /\ UNCHANGED handlerVars
             \/ EventStep /\ UNCHANGED handlerVars
             \/ MarkBooted /\ UNCHANGED handlerVars
      PROVE  Goal
  BY <1>5, RequestKept DEF UserStep
<1>6. ASSUME WorkerStep PROVE Goal
  <2>1. CASE BeginStep
    BY <2>1, StartKept DEF BeginStep
  <2>2. CASE Work /\ UNCHANGED handlerVars
    BY <2>2, JobKept, BoundaryKept DEF Work
  <2>3. CASE Callback /\ UNCHANGED handlerVars
    BY <2>3, BoundaryKept
  <2> QED
    BY <1>6, <2>1, <2>2, <2>3 DEF WorkerStep
<1>7. ASSUME (Crash \/ Reboot) /\ Restart PROVE Goal
  BY <1>7, RestartKept DEF Restart
<1>8. ASSUME HandlerStep PROVE Goal
  <2>1. ASSUME NEW c \in cancelEvents, HandleCancel(c) PROVE Goal
    BY <1>3, <2>1 DEF HandleCancel, UninstallInv, ChainSeen, HandlerTypeOK, Dead
  <2>2. ASSUME HandleLock PROVE Goal
    <3>1. Head(lockEvents).c \in Contracts /\ chain' = chain
      BY <2>2, LockEventType DEF HandleLock, UninstallInv
    <3>2. \E op \in {"pause", "resume"} :
              Request("handler", op, Head(lockEvents).c)
      BY <2>2 DEF HandleLock
    <3> QED
      BY <1>3, <3>1, <3>2
  <2> QED
    BY <1>8, <2>1, <2>2 DEF HandlerStep
<1>9. ASSUME SyncStart \/ SyncList \/ SyncDone \/ \E c \in Contracts : SyncLock(c)
      PROVE  Goal
  BY <1>2, <1>9 DEF SyncStart, SyncList, SyncDone, SyncLock, Dead
<1>10. ASSUME SyncFail PROVE Goal
  BY <1>2, <1>7, <1>10 DEF SyncFail, Dead
<1>11. ASSUME NEW c \in Contracts, SyncGone(c) PROVE Goal
  <2>1. Dead(c) /\ chain' = chain /\ Request("sync", "deprovision", c)
    BY <1>11 DEF SyncGone, UninstallInv, ChainSeen
  <2> QED
    BY <1>3, <2>1
<1>12. ASSUME SyncChange PROVE Goal
  <2>1. /\ \E op \in {"pause", "resume"}, c \in Contracts : Request("sync", op, c)
        /\ chain' = chain
    BY <1>12 DEF SyncChange, UninstallInv, HandlerTypeOK
  <2> QED
    BY <1>3, <2>1
<1>13. ASSUME UNCHANGED allVars PROVE Goal
  BY <1>2, <1>13 DEF allVars, Dead
<1>14. Goal
  BY <1>4, <1>5, <1>6, <1>7, <1>8, <1>9, <1>10, <1>11, <1>12, <1>13
     DEF NodeNext, SyncStep
<1> QED
  BY <1>1, <1>14 DEF UninstallInv

\* Once a deployment is deleted, nothing of it is left running on the node,
\* whatever the chain, the gateway, a lost event, a crash or a reboot does, and
\* however the handler, the sync, the API and the worker interleave.
THEOREM DeletedIsUninstalledHolds ==
    ASSUME Plain PROVE NodeSpec => []DeletedIsUninstalled
<1>1. UninstallInv => DeletedIsUninstalled
  <2> SUFFICES ASSUME UninstallInv, NEW c \in Contracts, NEW n \in provisioned[c]
               PROVE  c \in deployments
    BY DEF DeletedIsUninstalled, UninstallInv, Frame, TypeInv, TypeOK
  <2>1. n \in Bound(c)
    BY DEF Bound
  <2>2. n \in Names /\ workloads[c][n] # "absent"
    BY <2>1 DEF UninstallInv, Stored
  <2> QED
    BY <2>2 DEF UninstallInv, Frame, RecordsExist
<1> QED
  BY <1>1, UninstallInit, UninstallNext, PTL DEF NodeSpec

-----------------------------------------------------------------------------
(* A contract that was given up gets nothing installed any more *)

\* Only jobs that validate their contract install.
Validated(j) == \A n \in Names : j.plan[n] = "add" =>
                    j.op \in {"provision", "provisionNoValidation", "update"}

LEMMA BuiltValidated ==
    ASSUME NEW j, Built(j) PROVE Validated(j)
<1> SUFFICES ASSUME NEW op, NEW c, NEW snap, op \in Ops, j = JobOf(op, c, snap)
             PROVE  Validated(j)
  BY DEF Built, Validated
<1>1. j.op = op /\ \A n \in Names : j.plan[n] = StepFor(op, snap[n])
  BY DEF JobOf
<1>2. \A n \in Names : StepFor(op, snap[n]) = "add" =>
          op \in {"provision", "provisionNoValidation", "update"}
  BY DEF StepFor, Ops
<1> QED
  BY <1>1, <1>2 DEF Validated

GoneInv == Frame /\ HandlerTypeOK /\ \A j \in Pending : Validated(j)

LEMMA GoneInvNext == GoneInv /\ [NodeNext]_allVars => GoneInv'
<1> SUFFICES ASSUME GoneInv, [NodeNext]_allVars PROVE GoneInv'
  OBVIOUS
<1>1. [Next]_vars
  BY NodeRefines DEF GoneInv
<1>2. Frame' /\ HandlerTypeOK'
  BY <1>1, NextFrame, HandlerTypeNext DEF GoneInv, Frame, TypeInv
<1>3. \A j \in Pending' : Validated(j)
  BY <1>1, JobsBuilt, BuiltValidated DEF GoneInv, Frame
<1> QED
  BY <1>2, <1>3 DEF GoneInv, Validated

\* What runs of a deployment, or may be installed by the job under way, gains
\* something only when a job starts.
LEMMA BoundShrinks ==
    ASSUME Frame, NEW c \in Contracts, [Next]_vars,
           ~\E reply : StartJob(reply)
    PROVE  Bound(c)' \subseteq Bound(c)
<1> USE DEF storageVars, workerVars, apiVars
<1>0. /\ queue \in Seq(Job) /\ provisioned \in [Contracts -> SUBSET Names]
      /\ cur \in Names /\ decom \subseteq Decommission
      /\ pc \in {"call", "commit", "remove"} => cur \in todo
      /\ pc \notin {"next", "call", "commit", "remove"} => todo = {}
      /\ Running => queue # <<>>
  BY DEF Frame, TypeInv, TypeOK, Shape, JobAtHead
<1>1. queue = <<>> => todo = {}
  BY <1>0 DEF Running
<1>2. ASSUME provisioned' = provisioned, todo' \subseteq todo,
             queue' = queue \/ \E j : queue' = Append(queue, j)
      PROVE  Bound(c)' \subseteq Bound(c)
  <2>1. queue # <<>> => head' = head
    BY <1>0, <1>2 DEF head
  <2> QED
    BY <1>1, <1>2, <2>1 DEF Bound
<1>3. CASE Api \/ Events \/ EventStep \/ MarkBooted \/ ApiEnqueue
  <2>1. /\ provisioned' = provisioned /\ todo' = todo
        /\ queue' = queue \/ \E j : queue' = Append(queue, j)
    BY <1>3 DEF Api, Provision, Update, DecommissionStart, Events, Schedule,
       EventStep, EnqueueScheduled, MarkBooted, ApiEnqueue
  <2> QED
    BY <1>2, <2>1
<1>4. ASSUME NEW t \in decom, DecommissionCall(t) PROVE Bound(c)' \subseteq Bound(c)
  <2>1. queue' = queue /\ todo' = todo /\ provisioned'[c] \subseteq provisioned[c]
    BY <1>0, <1>4 DEF DecommissionCall
  <2> QED
    BY <2>1 DEF Bound, head
<1>5. ASSUME NEW t \in decom, DecommissionCommit(t) \/ DecommissionRemove(t)
      PROVE  Bound(c)' \subseteq Bound(c)
  BY <1>2, <1>5 DEF DecommissionCommit, DecommissionRemove
<1>6. CASE \/ (\E n \in todo : Check(n)) \/ CallUpdate \/ CallLock \/ Commit
           \/ Remove \/ FinishJob
  <2>1. provisioned' = provisioned /\ todo' \subseteq todo /\ queue' = queue
    BY <1>6 DEF Check, CallUpdate, CallLock, Commit, Remove, FinishJob, Skip,
       Answer
  <2> QED
    BY <1>2, <2>1
<1>7. CASE CallProvision
  <2>1. /\ queue' = queue /\ todo' \subseteq todo
        /\ cur \in todo /\ head.plan[cur] = "add"
        /\ \/ provisioned' = [provisioned EXCEPT ![head.c] = @ \cup {cur}]
           \/ provisioned' = provisioned
    BY <1>0, <1>7 DEF CallProvision, Answer, Skip
  <2>2. \A n : n \in provisioned'[c] =>
            n \in provisioned[c] \/ (n = cur /\ c = head.c)
    BY <1>0, <2>1
  <2> QED
    BY <2>1, <2>2 DEF Bound, head
<1>8. CASE CallDeprovision
  <2>1. queue' = queue /\ todo' = todo /\ provisioned'[c] \subseteq provisioned[c]
    BY <1>0, <1>8 DEF CallDeprovision, Answer
  <2> QED
    BY <2>1 DEF Bound, head
<1>9. CASE \/ BootList \/ (\E b \in toBoot : BootScan(b)) \/ BootDone \/ Discard
           \/ Dequeue \/ Callback \/ \E reply : RejectJob(reply)
  <2>1. provisioned' = provisioned /\ todo' = {}
    BY <1>0, <1>9 DEF BootList, BootScan, BootDone, Discard, Dequeue, Callback,
       RejectJob
  <2> QED
    BY <2>1 DEF Bound
<1>10. CASE Crash \/ Reboot
  <2>1. todo' = {} /\ provisioned'[c] \subseteq provisioned[c]
    BY <1>10 DEF Crash, Reboot, Start
  <2> QED
    BY <2>1 DEF Bound
<1>11. CASE UNCHANGED vars
  BY <1>2, <1>11 DEF vars
<1> QED
  BY <1>3, <1>4, <1>5, <1>6, <1>7, <1>8, <1>9, <1>10, <1>11
     DEF Next, ApiStep, Run, Work, Call, Begin

\* A job of a contract given up is not validated.
LEMMA DeadInstallsNothing ==
    ASSUME GoneInv, BeginStep, NEW reply, StartJob(reply), NEW c \in Contracts,
           Dead(c)
    PROVE  Bound(c)' \subseteq Bound(c)
<1>1. /\ queue # <<>> /\ queue' = queue /\ provisioned' = provisioned
      /\ todo' = {n \in Names : head.plan[n] # "none"}
  BY DEF StartJob, storageVars
<1>2. head' = head /\ Validated(head)
  BY <1>1, PendingType DEF head, GoneInv, Frame
<1>3. ASSUME NEW n \in Names, head.c = c, head.plan[n] = "add" PROVE FALSE
  <2>1. NeedsContract
    BY <1>2, <1>3 DEF Validated, NeedsContract
  <2>2. GetContract(c) = {"failed"}
    BY DEF Dead, GetContract, Alive
  <2>3. PICK r \in GetContract(c) : Begin(r)
    BY <1>3, <2>1 DEF BeginStep
  <2>4. RejectJob(r)
    BY <2>1, <2>2, <2>3 DEF Begin, StartJob, Accepted
  <2>5. pc' = "discard" /\ pc' = "next"
    BY <2>4 DEF RejectJob, StartJob
  <2> QED
    BY <2>5
<1> QED
  BY <1>1, <1>2, <1>3 DEF Bound

\* Once nothing of a contract that was cancelled on the chain runs or is being
\* installed, nothing of it ever runs again: the other half of what makes it
\* uninstalled for good, whatever requests and failures there are.
THEOREM CancelledStaysUninstalled ==
    ASSUME NEW c \in Contracts
    PROVE  NodeSpec => [](chain[c] = "deleted" /\ Bound(c) = {} =>
                            [](provisioned[c] = {}))
<1> DEFINE Gone == chain[c] = "deleted" /\ Bound(c) = {}
<1>1. NodeInit => GoneInv
  <2> SUFFICES ASSUME NodeInit PROVE GoneInv
    OBVIOUS
  <2>1. Frame /\ HandlerTypeOK
    BY InitSafe, HandlerTypeInit DEF NodeInit, SafeInv
  <2>2. Pending = {}
    BY DEF NodeInit, Init, Pending
  <2> QED
    BY <2>1, <2>2 DEF GoneInv
<1>2. GoneInv /\ Gone /\ [NodeNext]_allVars => Gone'
  <2> SUFFICES ASSUME GoneInv, Gone, [NodeNext]_allVars
               PROVE  chain'[c] = "deleted" /\ Bound(c)' \subseteq Bound(c)
    OBVIOUS
  <2>1. chain'[c] = "deleted"
    BY DEF GoneInv, HandlerTypeOK, NodeNext, ChainStep, CreateContract,
       LockContract, CancelContract, Alive, UserStep, WorkerStep, BeginStep,
       HandlerStep, HandleLock, HandleCancel, SyncStart, SyncStep, SyncList,
       SyncFail, SyncGone, SyncLock, SyncChange, SyncDone, Restart, allVars,
       handlerVars, chainVars
  <2>2. [Next]_vars
    BY NodeRefines DEF GoneInv
  <2>3. CASE BeginStep
    BY <2>1, <2>2, <2>3, BoundShrinks, DeadInstallsNothing DEF GoneInv, Dead
  <2>4. CASE ~BeginStep /\ NodeNext
    <3>1. ASSUME pc = "idle", pc' = "next" PROVE FALSE
      <4> USE DEF vars, storageVars, workerVars, apiVars
      <4>1. CASE ChainStep \/ UserStep
        BY <3>1, <4>1 DEF ChainStep, CreateContract, LockContract, CancelContract,
           UserStep, Api, Provision, Update, DecommissionStart
      <4>2. CASE ApiStep \/ EventStep \/ MarkBooted
        BY <3>1, <4>2 DEF ApiStep, ApiEnqueue, DecommissionCall,
           DecommissionCommit, DecommissionRemove, EventStep, EnqueueScheduled,
           MarkBooted
      <4>3. CASE Work \/ Callback
        BY <3>1, <4>3 DEF Work, Callback, BootList, BootScan, BootDone, Discard,
           Check, Call, CallProvision, CallDeprovision, CallUpdate, CallLock,
           Commit, Remove, FinishJob, Dequeue
      <4>4. CASE Crash \/ Reboot
        BY <3>1, <4>4 DEF Crash, Reboot, Start
      <4>5. ASSUME NEW g, NEW op, NEW d, Request(g, op, d) PROVE pc' = pc
        BY <4>5 DEF Request, Schedule
      <4>6. CASE HandlerStep \/ SyncStart \/ SyncStep
        BY <3>1, <4>4, <4>5, <4>6 DEF HandlerStep, HandleLock, HandleCancel,
           SyncStart, SyncStep, SyncList, SyncFail, SyncGone, SyncLock, SyncChange,
           SyncDone
      <4> QED
        BY <2>4, <4>1, <4>2, <4>3, <4>4, <4>6 DEF NodeNext, WorkerStep
    <3>2. ~\E reply : StartJob(reply)
      BY <3>1 DEF StartJob
    <3> QED
      BY <2>1, <2>2, <3>2, BoundShrinks DEF GoneInv
  <2>5. CASE UNCHANGED allVars
    BY <2>1, <2>5 DEF allVars, vars, storageVars, workerVars, Bound, head
  <2> QED
    BY <2>1, <2>3, <2>4, <2>5
<1>3. Gone => provisioned[c] = {}
  BY DEF Bound
<1> QED
  BY <1>1, <1>2, <1>3, GoneInvNext, PTL DEF NodeSpec

=============================================================================
