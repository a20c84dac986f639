--------------------------- MODULE ReporterProofs ---------------------------
(***************************************************************************)
(* No consumption is lost while Run does not fail and the queue can be     *)
(* opened, for any clock and any number of crashes and failed calls.       *)
(***************************************************************************)
EXTENDS Reporter, TLAPS

PushPcs == {"off", "top", "peek", "report", "dequeue"}

RepType ==
    /\ clock \in Nat
    /\ owed \subseteq Nat
    /\ lastReport \in Int /\ since \in Int /\ ts \in Int
    /\ reports \in Seq(Windows)
    /\ chain \subseteq Windows /\ removed \subseteq Windows
    /\ pc \in {"last", "wait", "set"}
    /\ pushPc \in [Pushers -> PushPcs]
    /\ item \in [Pushers -> Windows]
    /\ restarts \in Nat

\* The reporter itself or its disk failed.
Broken == restarts > 0 \/ removed # {}

\* The consumption of hour t is accounted for, or went with a removed queue.
Settled(t) == Reported(t) \/ Removed(t)
AllSettled == \A t \in owed : t < lastReport => Settled(t)

\* Report times do not lie ahead, and consumption counts from the first on.
Times ==
    /\ lastReport <= clock /\ ts <= clock
    /\ lastReport = NoTime => owed = {}
    /\ pc = "set" => ts # NoTime

\* Run holds the last report time while it waits and, once it has queued the
\* report, everything before the report's time is accounted for.
Collected ==
    /\ pc \in {"wait", "set"} => since = lastReport
    /\ pc = "set" => \A t \in owed : t < ts => Settled(t)

\* The only pusher holds the head of the queue, and removes it once it is sent.
OnePusher ==
    \A i \in Pushers :
        /\ i # 1 => pushPc[i] = "off"
        /\ pushPc[i] \in {"report", "dequeue"} =>
               reports # <<>> /\ item[i] = Head(reports)
        /\ pushPc[i] = "dequeue" => item[i] \in chain

RepSafe == restarts = 0 => AllSettled /\ Collected /\ OnePusher

RepInv == RepType /\ Times /\ RepSafe

-----------------------------------------------------------------------------
\* A report at the end of the queue leaves the others where they are.
LEMMA AppendKeeps ==
    ASSUME NEW s \in Seq(Windows), NEW w \in Windows, NEW t
    PROVE  /\ (\E i \in DOMAIN s : Covers(s[i], t)) =>
                  \E i \in DOMAIN Append(s, w) : Covers(Append(s, w)[i], t)
           /\ Covers(w, t) =>
                  \E i \in DOMAIN Append(s, w) : Covers(Append(s, w)[i], t)
<1>1. /\ DOMAIN Append(s, w) = 1 .. Len(s) + 1
      /\ \A i \in 1 .. Len(s) : Append(s, w)[i] = s[i]
      /\ Append(s, w)[Len(s) + 1] = w
      /\ DOMAIN s = 1 .. Len(s) /\ Len(s) \in Nat
  OBVIOUS
<1>2. Len(s) + 1 \in DOMAIN Append(s, w)
  BY <1>1
<1>3. \A i \in DOMAIN s : i \in DOMAIN Append(s, w)
  BY <1>1
<1> QED
  BY <1>1, <1>2, <1>3

\* Removing the head of the queue leaves the others.
LEMMA TailKeeps ==
    ASSUME NEW s \in Seq(Windows), s # <<>>, NEW t,
           \E i \in DOMAIN s : Covers(s[i], t)
    PROVE  Covers(Head(s), t) \/ \E i \in DOMAIN Tail(s) : Covers(Tail(s)[i], t)
<1>1. PICK i \in DOMAIN s : Covers(s[i], t)
  OBVIOUS
<1>2. CASE i = 1
  BY <1>1, <1>2
<1>3. CASE i # 1
  <2>1. i - 1 \in DOMAIN Tail(s) /\ Tail(s)[i - 1] = s[i]
    BY <1>3
  <2> QED
    BY <1>1, <2>1
<1> QED
  BY <1>2, <1>3

\* The types and the report times are kept by every step.
LEMMA RepTypeStep == RepType /\ Times /\ [RepNext]_repVars => RepType' /\ Times'
<1> SUFFICES ASSUME RepType, Times, [RepNext]_repVars PROVE RepType' /\ Times'
  OBVIOUS
<1> USE ReporterAssumption DEF RepType, Times, NoTime, PushPcs
<1>1. CASE Tick
  <2>1. clock' \in Nat /\ clock <= clock'
    BY <1>1 DEF Tick
  <2>2. owed' \subseteq Nat /\ (lastReport = NoTime => owed' = owed)
    BY <1>1 DEF Tick
  <2> QED
    BY <1>1, <2>1, <2>2 DEF Tick, diskVars, runVars, pushVars, boundVars
<1>2. CASE ReadLast
  BY <1>2 DEF ReadLast, timeVars, pushVars, boundVars
<1>3. CASE Collect
  <2>1. [from |-> since, to |-> clock] \in Windows
    BY DEF Windows
  <2>2. reports' \in Seq(Windows)
    BY <1>3, <2>1 DEF Collect
  <2> QED
    BY <1>3, <2>2 DEF Collect, timeVars, pushVars, boundVars
<1>4. CASE SetLast
  BY <1>4 DEF SetLast, timeVars, pushVars, boundVars
<1>5. CASE RunFail
  <2>1. restarts' \in Nat /\ pc' = "last" /\ since' \in Int /\ ts' = NoTime
    BY <1>5 DEF RunFail
  <2>2. pushPc' \in [Pushers -> PushPcs]
    BY <1>5 DEF RunFail
  <2> QED
    BY <1>5, <2>1, <2>2 DEF RunFail, timeVars, diskVars
<1>6. ASSUME NEW i \in Pushers, PusherLoop(i) PROVE RepType' /\ Times'
  BY <1>6 DEF PusherLoop, timeVars, diskVars, runVars, boundVars
<1>7. ASSUME NEW i \in Pushers, Peek(i) PROVE RepType' /\ Times'
  <2>1. Head(reports) \in Windows
    BY <1>7 DEF Peek
  <2> QED
    BY <1>7, <2>1 DEF Peek, timeVars, diskVars, runVars, boundVars
<1>8. ASSUME NEW i \in Pushers, Send(i) PROVE RepType' /\ Times'
  BY <1>8 DEF Send, Retry, timeVars, diskVars, runVars, boundVars
<1>9. ASSUME NEW i \in Pushers, RemoveHead(i) PROVE RepType' /\ Times'
  <2>1. reports' \in Seq(Windows)
    BY <1>9 DEF RemoveHead
  <2> QED
    BY <1>9, <2>1 DEF RemoveHead, timeVars, runVars, boundVars
<1>10. CASE RepCrash
  <2>1. reports' \in Seq(Windows) /\ removed' \subseteq Windows
    <3>1. \A k \in DOMAIN reports : reports[k] \in Windows
      OBVIOUS
    <3>2. <<>> \in Seq(Windows)
      OBVIOUS
    <3> QED
      BY <1>10, <3>1, <3>2 DEF RepCrash
  <2> QED
    BY <1>10, <2>1 DEF RepCrash, timeVars
<1>11. CASE UNCHANGED repVars
  BY <1>11 DEF repVars, timeVars, diskVars, runVars, pushVars, boundVars
<1> QED
  BY <1>1, <1>2, <1>3, <1>4, <1>5, <1>6, <1>7, <1>8, <1>9, <1>10, <1>11
  DEF RepNext, RunStep, PushStep

\* What is accounted for stays so while Run does not fail.
LEMMA RepSafeStep == RepInv /\ [RepNext]_repVars => RepSafe'
<1> SUFFICES ASSUME RepInv, [RepNext]_repVars, restarts' = 0
             PROVE  (AllSettled /\ Collected /\ OnePusher)'
  BY DEF RepSafe
<1>0. RepType /\ Times
  BY DEF RepInv
<1>a. RepType' /\ Times'
  BY <1>0, RepTypeStep
<1>b. ASSUME restarts = 0 PROVE AllSettled /\ Collected /\ OnePusher
  BY <1>b DEF RepInv, RepSafe
<1>c. ASSUME reports' = reports, chain \subseteq chain', removed' = removed
      PROVE  \A t \in owed : Settled(t) => Settled(t)'
  BY <1>c DEF Settled, Reported, Removed
<1>1. CASE Tick
  <2>0. restarts = 0
    BY <1>1 DEF Tick, boundVars
  <2>1. \A t \in owed' : t \in owed \/ t = clock
    BY <1>1 DEF Tick
  <2>2. \A t \in owed : Settled(t) => Settled(t)'
    BY <1>1, <1>c DEF Tick, diskVars, boundVars
  <2>3. ~(clock < lastReport) /\ ~(clock < ts)
        /\ lastReport' = lastReport /\ UNCHANGED runVars
    BY <1>0, <1>1 DEF Tick, diskVars, Times, RepType
  <2>4. AllSettled'
    <3> SUFFICES ASSUME NEW t \in owed', t < lastReport PROVE Settled(t)'
      BY <2>3 DEF AllSettled
    <3> QED
      BY <1>b, <2>0, <2>1, <2>2, <2>3 DEF AllSettled
  <2>6. Collected'
    <3>1. ASSUME NEW t \in owed', pc = "set", t < ts PROVE Settled(t)'
      BY <1>b, <2>0, <2>1, <2>2, <2>3, <3>1 DEF Collected
    <3> QED
      BY <1>b, <2>0, <2>3, <3>1 DEF Collected, runVars
  <2>5. OnePusher'
    BY <1>1, <1>b, <2>0 DEF Tick, diskVars, pushVars, OnePusher
  <2> QED
    BY <2>4, <2>5, <2>6
<1>2. CASE ReadLast
  <2>0. restarts = 0
    BY <1>2 DEF ReadLast, boundVars
  <2>1. \A t \in owed : Settled(t) => Settled(t)'
    BY <1>2, <1>c DEF ReadLast, boundVars
  <2>2. AllSettled'
    BY <1>0, <1>2, <1>b, <2>0, <2>1 DEF ReadLast, timeVars, AllSettled, Times
  <2>3. Collected' /\ OnePusher'
    BY <1>2, <1>b, <2>0 DEF ReadLast, pushVars, Collected, OnePusher
  <2> QED
    BY <2>2, <2>3
<1>3. CASE Collect
  <2> DEFINE w == [from |-> since, to |-> clock]
  <2>0. restarts = 0 /\ since = lastReport /\ w \in Windows
    BY <1>0, <1>3, <1>b DEF Collect, boundVars, Collected, RepType, Windows
  <2>1. \A t \in owed : Settled(t) => Settled(t)'
    <3>1. CASE reports' = reports
      BY <1>3, <3>1, <1>c DEF Collect, boundVars
    <3>2. CASE reports' = Append(reports, w)
      BY <1>0, <1>3, <2>0, <3>2, AppendKeeps
      DEF Collect, boundVars, Settled, Reported, Removed, RepType
    <3> QED
      BY <1>3, <3>1, <3>2 DEF Collect
  <2>2. ASSUME NEW t \in owed, t >= since, t < clock PROVE Settled(t)'
    <3>1. reports' = Append(reports, w)
      BY <1>3, <2>2 DEF Collect
    <3>2. Covers(w, t)
      BY <1>0, <2>2 DEF Covers, RepType
    <3> QED
      BY <1>0, <2>0, <3>1, <3>2, AppendKeeps DEF Settled, Reported, RepType
  <2>3. AllSettled'
    BY <1>3, <1>b, <2>0, <2>1 DEF Collect, timeVars, AllSettled
  <2>4. Collected'
    BY <1>0, <1>3, <1>b, <2>0, <2>1, <2>2
    DEF Collect, timeVars, Collected, AllSettled, RepType
  <2>5. OnePusher'
    <3>1. reports # <<>> => reports' # <<>> /\ Head(reports') = Head(reports)
      BY <1>0, <1>3, <2>0 DEF Collect, RepType
    <3> QED
      BY <1>3, <1>b, <2>0, <3>1 DEF Collect, pushVars, OnePusher
  <2> QED
    BY <2>3, <2>4, <2>5
<1>4. CASE SetLast
  <2>0. restarts = 0
    BY <1>4 DEF SetLast, boundVars
  <2>1. \A t \in owed : Settled(t) => Settled(t)'
    BY <1>4, <1>c DEF SetLast, boundVars
  <2> QED
    BY <1>4, <1>b, <2>0, <2>1
    DEF SetLast, timeVars, pushVars, AllSettled, Collected, OnePusher
<1>5. CASE RunFail
  BY <1>0, <1>5 DEF RunFail, RepType
<1>6. ASSUME NEW i \in Pushers, PusherLoop(i)
      PROVE  (AllSettled /\ Collected /\ OnePusher)'
  <2>0. restarts = 0
    BY <1>6 DEF PusherLoop, boundVars
  <2>1. \A t \in owed : Settled(t) => Settled(t)'
    BY <1>6, <1>c DEF PusherLoop, diskVars, boundVars
  <2>2. OnePusher'
    BY <1>0, <1>6, <1>b, <2>0 DEF PusherLoop, diskVars, OnePusher, RepType
  <2> QED
    BY <1>6, <1>b, <2>0, <2>1, <2>2
    DEF PusherLoop, timeVars, diskVars, runVars, AllSettled, Collected
<1>7. ASSUME NEW i \in Pushers, Peek(i)
      PROVE  (AllSettled /\ Collected /\ OnePusher)'
  <2>0. restarts = 0
    BY <1>7 DEF Peek, boundVars
  <2>1. \A t \in owed : Settled(t) => Settled(t)'
    BY <1>7, <1>c DEF Peek, diskVars, boundVars
  <2>2. OnePusher'
    BY <1>0, <1>7, <1>b, <2>0 DEF Peek, diskVars, OnePusher, RepType
  <2> QED
    BY <1>7, <1>b, <2>0, <2>1, <2>2
    DEF Peek, timeVars, diskVars, runVars, AllSettled, Collected
<1>8. ASSUME NEW i \in Pushers, Send(i)
      PROVE  (AllSettled /\ Collected /\ OnePusher)'
  <2>0. restarts = 0
    BY <1>8 DEF Send
  <2>1. \A t \in owed : Settled(t) => Settled(t)'
    BY <1>8, <1>c DEF Send, diskVars
  <2>2. OnePusher'
    BY <1>0, <1>8, <1>b, <2>0 DEF Send, Retry, diskVars, OnePusher, RepType
  <2> QED
    BY <1>8, <1>b, <2>0, <2>1, <2>2
    DEF Send, timeVars, diskVars, runVars, AllSettled, Collected
<1>9. ASSUME NEW i \in Pushers, RemoveHead(i)
      PROVE  (AllSettled /\ Collected /\ OnePusher)'
  <2>0. restarts = 0
    BY <1>9 DEF RemoveHead, boundVars
  <2>1. i = 1 /\ reports # <<>> /\ Head(reports) \in chain
    BY <1>9, <1>b, <2>0 DEF RemoveHead, OnePusher
  <2>2. reports' = Tail(reports) /\ chain' = chain /\ removed' = removed
    BY <1>9, <2>1 DEF RemoveHead, boundVars
  <2>3. ASSUME NEW t \in owed, Settled(t) PROVE Settled(t)'
    BY <1>0, <2>1, <2>2, <2>3, TailKeeps
    DEF Settled, Reported, Removed, RepType
  <2>4. OnePusher'
    BY <1>0, <1>9, <1>b, <2>0, <2>1 DEF RemoveHead, OnePusher, RepType
  <2> QED
    BY <1>9, <1>b, <2>0, <2>3, <2>4
    DEF RemoveHead, timeVars, runVars, AllSettled, Collected
<1>10. CASE RepCrash
  <2>0. restarts = 0
    BY <1>10 DEF RepCrash
  <2>1. \A t \in owed : Settled(t) => Settled(t)'
    <3>1. CASE UNCHANGED <<reports, removed>>
      BY <1>10, <1>c, <3>1 DEF RepCrash
    <3>2. CASE removed' = removed \cup {reports[k] : k \in DOMAIN reports}
      BY <1>10, <3>2 DEF RepCrash, Settled, Reported, Removed
    <3> QED
      BY <1>10, <3>1, <3>2 DEF RepCrash
  <2>2. OnePusher'
    BY <1>10, <2>0 DEF RepCrash, OnePusher
  <2> QED
    BY <1>10, <1>b, <2>0, <2>1, <2>2
    DEF RepCrash, timeVars, AllSettled, Collected
<1>11. CASE UNCHANGED repVars
  <2>1. \A t \in owed : Settled(t) => Settled(t)'
    BY <1>11, <1>c DEF repVars, diskVars, boundVars
  <2> QED
    BY <1>11, <1>b, <2>1
    DEF repVars, timeVars, diskVars, runVars, pushVars, boundVars, AllSettled,
        Collected, OnePusher
<1> QED
  BY <1>1, <1>2, <1>3, <1>4, <1>5, <1>6, <1>7, <1>8, <1>9, <1>10, <1>11
  DEF RepNext, RunStep, PushStep

\* Neither crashes of provisiond nor failed calls of the gateway lose
\* consumption, for any number of them, as long as Run does not fail: what is
\* not accounted for went with a queue that could not be opened (Run, report,
\* pushOne, NewReporter).
THEOREM NothingLostHolds == RepSpec => []NothingLost
<1>1. RepInit => RepInv
  <2> SUFFICES ASSUME RepInit PROVE RepInv
    OBVIOUS
  <2>1. RepType
    BY ReporterAssumption DEF RepInit, RepType, NoTime, Windows, PushPcs, Pushers
  <2> QED
    BY <2>1 DEF RepInit, RepInv, Times, RepSafe, AllSettled, Collected,
                OnePusher, NoTime
<1>2. RepInv /\ [RepNext]_repVars => RepInv'
  BY RepTypeStep, RepSafeStep DEF RepInv
<1>3. RepInv => NothingLost
  BY DEF RepInv, RepSafe, NothingLost, AllSettled, Settled
<1> QED
  BY <1>1, <1>2, <1>3, PTL DEF RepSpec

-----------------------------------------------------------------------------
\* No report reaches beyond the present hour, and Run's time is the stored one.
Windowed ==
    /\ \A t \in owed : t < clock
    /\ \A k \in DOMAIN reports : reports[k].to <= clock
    /\ \A w \in chain : w.to <= clock
    /\ \A i \in Pushers : item[i].to <= clock
    /\ pc \in {"wait", "set"} => since = lastReport
    /\ pc = "set" => lastReport <= ts

LEMMA WindowedStep == RepType /\ Times /\ Windowed /\ [RepNext]_repVars => Windowed'
<1> SUFFICES ASSUME RepType, Times, Windowed, [RepNext]_repVars PROVE Windowed'
  OBVIOUS
<1>a. RepType'
  BY RepTypeStep
<1>1. CASE Tick
  <2>1. clock' = clock + 1 /\ owed' \subseteq owed \cup {clock}
    BY <1>1 DEF Tick
  <2>2. \A t \in owed' : t < clock'
    BY <2>1 DEF Windowed, RepType
  <2>3. /\ \A k \in DOMAIN reports : reports[k].to \in Int
        /\ \A w \in chain : w.to \in Int
        /\ \A i \in Pushers : item[i].to \in Int
    <3>1. /\ \A k \in DOMAIN reports : reports[k] \in Windows
          /\ \A i \in Pushers : item[i] \in Windows
      BY DEF RepType
    <3> QED
      BY <3>1 DEF RepType, Windows
  <2> QED
    BY <1>1, <2>1, <2>2, <2>3
    DEF Tick, diskVars, runVars, pushVars, Windowed, RepType
<1>2. CASE ReadLast
  BY <1>2 DEF ReadLast, timeVars, pushVars, Windowed
<1>3. CASE Collect
  <2>1. \A k \in DOMAIN reports' : reports'[k].to <= clock
    <3>1. CASE reports' = reports
      BY <3>1 DEF Windowed
    <3>2. CASE reports' = Append(reports, [from |-> since, to |-> clock])
      <4>1. [from |-> since, to |-> clock] \in Windows
        BY DEF RepType, Windows
      <4>2. \A k \in DOMAIN reports' : \/ k \in DOMAIN reports /\ reports'[k] = reports[k]
                                       \/ reports'[k] = [from |-> since, to |-> clock]
        BY <3>2, <4>1 DEF RepType
      <4> QED
        BY <4>2 DEF Windowed, RepType
    <3> QED
      BY <1>3, <3>1, <3>2 DEF Collect
  <2> QED
    BY <1>3, <2>1 DEF Collect, timeVars, pushVars, Windowed, RepType
<1>4. CASE SetLast
  BY <1>4 DEF SetLast, timeVars, pushVars, Windowed
<1>5. CASE RunFail
  BY <1>5 DEF RunFail, timeVars, diskVars, Windowed
<1>6. ASSUME NEW i \in Pushers, PusherLoop(i) PROVE Windowed'
  BY <1>6 DEF PusherLoop, timeVars, diskVars, runVars, Windowed
<1>7. ASSUME NEW i \in Pushers, Peek(i) PROVE Windowed'
  <2>1. 1 \in DOMAIN reports /\ Head(reports) = reports[1]
    BY <1>7 DEF Peek, RepType
  <2>2. \A j \in Pushers : item'[j].to <= clock
    BY <1>7, <2>1 DEF Peek, Windowed, RepType
  <2> QED
    BY <1>7, <2>2 DEF Peek, timeVars, diskVars, runVars, Windowed
<1>8. ASSUME NEW i \in Pushers, Send(i) PROVE Windowed'
  BY <1>8 DEF Send, timeVars, diskVars, runVars, Windowed
<1>9. ASSUME NEW i \in Pushers, RemoveHead(i) PROVE Windowed'
  <2>1. \A k \in DOMAIN reports' : \E m \in DOMAIN reports : reports'[k] = reports[m]
    <3>1. CASE reports = <<>>
      BY <1>9, <3>1 DEF RemoveHead
    <3>2. CASE reports # <<>>
      <4>1. reports' = Tail(reports)
        BY <1>9, <3>2 DEF RemoveHead
      <4>2. \A k \in DOMAIN reports' : k + 1 \in DOMAIN reports /\ reports'[k] = reports[k + 1]
        BY <3>2, <4>1 DEF RepType
      <4> QED
        BY <4>2
    <3> QED
      BY <3>1, <3>2
  <2> QED
    BY <1>9, <2>1 DEF RemoveHead, timeVars, runVars, Windowed
<1>10. CASE RepCrash
  BY <1>10 DEF RepCrash, timeVars, Windowed
<1>11. CASE UNCHANGED repVars
  BY <1>11 DEF repVars, timeVars, diskVars, runVars, pushVars, Windowed
<1> QED
  BY <1>1, <1>2, <1>3, <1>4, <1>5, <1>6, <1>7, <1>8, <1>9, <1>10, <1>11
  DEF RepNext, RunStep, PushStep

\* Steps that leave the hours and the chain alone are stutters of Delivery, or
\* drop something after a failure.
LEMMA QuietStep ==
    ASSUME owed' = owed, chain' = chain, restarts' = restarts,
           removed' = removed, restarts \in Nat,
           \A t \in owed : Held(t)' => Held(t),
           ~Broken => \A t \in owed \ Arrived : Held(t) => Held(t)'
    PROVE  [Promise!DeliveryNext]_(Promise!deliveryVars)
<1>1. Arrived' = Arrived
  BY DEF Arrived
<1>2. Pending' \subseteq Pending
  BY <1>1 DEF Pending
<1>3. CASE ~Broken
  <2>1. Pending' = Pending
    BY <1>1, <1>2, <1>3 DEF Pending
  <2> QED
    BY <1>1, <2>1 DEF Promise!deliveryVars
<1>4. CASE Broken
  <2>1. Promise!Drop
    BY <1>1, <1>2, <1>4 DEF Promise!Drop, Broken
  <2> QED
    BY <2>1 DEF Promise!DeliveryNext
<1> QED
  BY <1>3, <1>4

LEMMA DeliveryStep ==
    RepInv /\ Windowed /\ [RepNext]_repVars
        => [Promise!DeliveryNext]_(Promise!deliveryVars)
<1> SUFFICES ASSUME RepInv, Windowed, [RepNext]_repVars
             PROVE  [Promise!DeliveryNext]_(Promise!deliveryVars)
  OBVIOUS
<1>0. RepType /\ Times /\ restarts \in Nat
  BY DEF RepInv, RepType
<1>b. ASSUME ~Broken
      PROVE  AllSettled /\ Collected /\ OnePusher /\ \A t : Settled(t) => Reported(t)
  <2>1. restarts = 0 /\ removed = {}
    BY <1>0, <1>b DEF Broken
  <2> QED
    BY <2>1 DEF RepInv, RepSafe, Settled, Removed
<1>w. /\ \A k \in DOMAIN reports : reports[k] \in Windows
      /\ \A i \in Pushers : item[i] \in Windows
  BY <1>0 DEF RepType
<1>1. CASE Tick
  <2>1. /\ clock \in 0 .. MaxTime /\ clock \notin owed /\ lastReport <= clock
        /\ owed' = owed \/ owed' = owed \cup {clock}
    BY <1>0, <1>1, ReporterAssumption DEF Tick, RepType, Times, Windowed
  <2>2. /\ chain' = chain /\ restarts' = restarts /\ reports' = reports
        /\ item' = item /\ pushPc' = pushPc /\ lastReport' = lastReport
        /\ removed' = removed
    BY <1>1 DEF Tick, diskVars, pushVars, boundVars
  <2>3. \A t : Held(t)' <=> Held(t)
    BY <2>2 DEF Held
  <2>4. CASE owed' = owed
    BY <1>0, <2>2, <2>3, <2>4, QuietStep
  <2>5. CASE owed' = owed \cup {clock}
    <3>1. \A w \in chain : ~Covers(w, clock)
      BY <1>0 DEF Covers, Windowed, RepType, Windows
    <3>2. Arrived' = Arrived
      BY <2>2, <2>5, <3>1 DEF Arrived
    <3>3. Held(clock)
      BY <2>1 DEF Held
    <3>4. Pending' = Pending \cup {clock}
      BY <2>1, <2>3, <2>5, <3>1, <3>2, <3>3 DEF Pending, Arrived
    <3>5. clock \notin Pending \cup Arrived
      BY <2>1 DEF Pending, Arrived
    <3>6. Promise!Consume(clock)
      BY <2>2, <3>2, <3>4, <3>5 DEF Promise!Consume
    <3> QED
      BY <2>1, <3>6 DEF Promise!DeliveryNext
  <2> QED
    BY <2>1, <2>4, <2>5
<1>2. CASE ReadLast
  <2>1. /\ owed' = owed /\ chain' = chain /\ restarts' = restarts
        /\ removed' = removed
        /\ reports' = reports /\ item' = item /\ pushPc' = pushPc
        /\ lastReport = NoTime \/ lastReport' = lastReport
    BY <1>2 DEF ReadLast, timeVars, pushVars, boundVars
  <2>2. \A t \in owed : Held(t)' <=> Held(t)
    BY <1>0, <2>1 DEF Held, Times
  <2> QED
    BY <1>0, <2>1, <2>2, QuietStep
<1>3. CASE Collect
  <2> DEFINE w == [from |-> since, to |-> clock]
  <2>1. /\ owed' = owed /\ chain' = chain /\ restarts' = restarts
        /\ removed' = removed
        /\ item' = item /\ pushPc' = pushPc /\ lastReport' = lastReport
        /\ reports' = reports \/ reports' = Append(reports, w)
    BY <1>3 DEF Collect, timeVars, pushVars, boundVars
  <2>2. w \in Windows
    BY <1>0 DEF RepType, Windows
  <2>3. \A t \in owed : Covers(w, t) => t >= lastReport
    BY <1>0, <1>3 DEF Collect, Covers, Windowed, RepType
  <2>4. ASSUME NEW t \in owed PROVE Held(t) => Held(t)'
    BY <1>0, <2>1, <2>2, AppendKeeps DEF Held, RepType
  <2>5. \A k \in DOMAIN reports' : \/ k \in DOMAIN reports /\ reports'[k] = reports[k]
                                   \/ reports'[k] = w
    BY <1>0, <2>1, <2>2 DEF RepType
  <2>6. ASSUME NEW t \in owed PROVE Held(t)' => Held(t)
    BY <2>1, <2>3, <2>5 DEF Held
  <2> QED
    BY <1>0, <2>1, <2>4, <2>6, QuietStep
<1>4. CASE SetLast
  <2>1. /\ owed' = owed /\ chain' = chain /\ restarts' = restarts
        /\ removed' = removed
        /\ reports' = reports /\ item' = item /\ pushPc' = pushPc
        /\ lastReport' = ts /\ lastReport <= ts
    BY <1>4 DEF SetLast, timeVars, pushVars, boundVars, Windowed
  <2>2. \A t \in owed : t \in Int
    BY <1>0 DEF RepType
  <2>3. \A t \in owed : Held(t)' => Held(t)
    BY <1>0, <2>1, <2>2 DEF Held, RepType
  <2>4. ASSUME ~Broken, NEW t \in owed \ Arrived, Held(t) PROVE Held(t)'
    <3>1. t < ts => Reported(t)
      BY <1>4, <1>b, <2>4 DEF SetLast, Collected
    <3>2. t < ts => \E k \in DOMAIN reports : Covers(reports[k], t)
      BY <2>4, <3>1 DEF Reported, Arrived
    <3> QED
      BY <1>0, <2>1, <2>2, <2>4, <3>2 DEF Held, RepType
  <2> QED
    BY <1>0, <2>1, <2>3, <2>4, QuietStep
<1>5. CASE RunFail
  <2>1. /\ owed' = owed /\ chain' = chain /\ restarts' = restarts + 1
        /\ removed' = removed
        /\ reports' = reports /\ item' = item /\ lastReport' = lastReport
        /\ pushPc' = [pushPc EXCEPT ![restarts + 2] = "top"]
    BY <1>0, <1>5 DEF RunFail, timeVars, diskVars
  <2>2. Arrived' = Arrived
    BY <2>1 DEF Arrived
  <2>3. \A t : Held(t)' => Held(t)
    BY <1>0, <2>1 DEF Held, RepType
  <2>4. Pending' \subseteq Pending
    BY <2>1, <2>2, <2>3 DEF Pending
  <2>5. restarts' > 0
    BY <1>0, <2>1
  <2>6. Promise!Drop
    BY <2>2, <2>4, <2>5 DEF Promise!Drop
  <2> QED
    BY <2>6 DEF Promise!DeliveryNext
<1>6. ASSUME NEW i \in Pushers, PusherLoop(i)
      PROVE  [Promise!DeliveryNext]_(Promise!deliveryVars)
  <2>1. /\ owed' = owed /\ chain' = chain /\ restarts' = restarts
        /\ removed' = removed
        /\ reports' = reports /\ item' = item /\ lastReport' = lastReport
    BY <1>6 DEF PusherLoop, timeVars, diskVars, boundVars
  <2>2. \A j \in Pushers : pushPc'[j] = "report" <=> pushPc[j] = "report"
    BY <1>0, <1>6 DEF PusherLoop, RepType
  <2>3. \A t : Held(t)' <=> Held(t)
    BY <2>1, <2>2 DEF Held
  <2> QED
    BY <1>0, <2>1, <2>3, QuietStep
<1>7. ASSUME NEW i \in Pushers, Peek(i)
      PROVE  [Promise!DeliveryNext]_(Promise!deliveryVars)
  <2>1. /\ owed' = owed /\ chain' = chain /\ restarts' = restarts
        /\ removed' = removed
        /\ reports' = reports /\ lastReport' = lastReport
    BY <1>7 DEF Peek, timeVars, diskVars, boundVars
  <2>2. 1 \in DOMAIN reports /\ Head(reports) = reports[1]
    BY <1>0, <1>7 DEF Peek, RepType
  <2>3. \A j \in Pushers :
           IF j = i THEN pushPc'[j] = "report" /\ item'[j] = reports[1] /\ pushPc[j] = "peek"
                    ELSE pushPc'[j] = pushPc[j] /\ item'[j] = item[j]
    BY <1>0, <1>7, <2>2 DEF Peek, RepType
  <2>4. \A t : Held(t)' <=> Held(t)
    BY <2>1, <2>2, <2>3 DEF Held
  <2> QED
    BY <1>0, <2>1, <2>4, QuietStep
<1>8. ASSUME NEW i \in Pushers, Send(i)
      PROVE  [Promise!DeliveryNext]_(Promise!deliveryVars)
  <2>1. /\ owed' = owed /\ restarts' = restarts /\ item' = item
        /\ removed' = removed
        /\ reports' = reports /\ lastReport' = lastReport
        /\ pushPc[i] = "report"
        /\ \A j \in Pushers : j # i => pushPc'[j] = pushPc[j]
    BY <1>0, <1>8 DEF Send, timeVars, diskVars, RepType
  <2>2. pushPc'[i] # "report"
    BY <1>0, <1>8 DEF Send, Retry, RepType
  <2>3. \A t : /\ Held(t)' => Held(t)
               /\ Held(t) => Held(t)' \/ Covers(item[i], t)
    BY <2>1, <2>2 DEF Held
  <2>4. CASE chain' = chain
    <3>1. ASSUME ~Broken, NEW t, Covers(item[i], t) PROVE Held(t)'
      <4>1. reports # <<>> /\ item[i] = Head(reports)
        BY <1>b, <2>1, <3>1 DEF OnePusher
      <4>2. 1 \in DOMAIN reports /\ item[i] = reports[1]
        BY <1>0, <4>1 DEF RepType
      <4> QED
        BY <2>1, <3>1, <4>2 DEF Held
    <3> QED
      BY <1>0, <2>1, <2>3, <2>4, <3>1, QuietStep
  <2>5. CASE chain' = chain \cup {item[i]}
    <3>1. Arrived' = Arrived \cup {t \in owed : Covers(item[i], t)}
      BY <2>1, <2>5 DEF Arrived
    <3>2. \A t \in owed : Covers(item[i], t) => Held(t)
      BY <2>1 DEF Held
    <3>3. Arrived \subseteq Arrived' /\ Arrived' \subseteq Arrived \cup Pending
      BY <3>1, <3>2 DEF Pending, Arrived
    <3>4. Pending' = Pending \ Arrived'
      BY <2>1, <2>3, <3>1 DEF Pending
    <3>5. Promise!Deliver
      BY <2>1, <3>3, <3>4 DEF Promise!Deliver
    <3> QED
      BY <3>5 DEF Promise!DeliveryNext
  <2> QED
    BY <1>8, <2>4, <2>5 DEF Send
<1>9. ASSUME NEW i \in Pushers, RemoveHead(i)
      PROVE  [Promise!DeliveryNext]_(Promise!deliveryVars)
  <2>1. /\ owed' = owed /\ chain' = chain /\ restarts' = restarts
        /\ removed' = removed
        /\ item' = item /\ lastReport' = lastReport
        /\ reports' = IF reports = <<>> THEN <<>> ELSE Tail(reports)
    BY <1>9 DEF RemoveHead, timeVars, boundVars
  <2>2. \A j \in Pushers : pushPc'[j] = "report" <=> pushPc[j] = "report"
    BY <1>0, <1>9 DEF RemoveHead, RepType
  <2>3. \A k \in DOMAIN reports' : k + 1 \in DOMAIN reports /\ reports'[k] = reports[k + 1]
    BY <1>0, <2>1 DEF RepType
  <2>4. \A t : Held(t)' => Held(t)
    BY <2>1, <2>2, <2>3 DEF Held
  <2>5. ASSUME ~Broken, NEW t \in owed \ Arrived, Held(t) PROVE Held(t)'
    <3>1. reports # <<>> /\ Head(reports) \in chain
      BY <1>9, <1>b, <2>5 DEF RemoveHead, OnePusher
    <3>2. ~Covers(Head(reports), t)
      BY <2>5, <3>1 DEF Arrived
    <3>3. (\E k \in DOMAIN reports : Covers(reports[k], t)) =>
              \E k \in DOMAIN Tail(reports) : Covers(Tail(reports)[k], t)
      BY <1>0, <3>1, <3>2, TailKeeps DEF RepType
    <3> QED
      BY <2>1, <2>2, <2>5, <3>1, <3>3 DEF Held
  <2> QED
    BY <1>0, <2>1, <2>4, <2>5, QuietStep
<1>10. CASE RepCrash
  <2>1. /\ owed' = owed /\ chain' = chain /\ restarts' = restarts
        /\ item' = item /\ lastReport' = lastReport
        /\ \A j \in Pushers : pushPc'[j] # "report"
    BY <1>10 DEF RepCrash, timeVars
  <2>2. CASE UNCHANGED <<reports, removed>> \/ reports = <<>>
    <3>0. reports' = reports /\ removed' = removed
      <4>1. reports = <<>> => {reports[k] : k \in DOMAIN reports} = {}
        OBVIOUS
      <4>2. removed \cup {} = removed
        OBVIOUS
      <4> QED
        BY <1>10, <2>2, <4>1, <4>2 DEF RepCrash
    <3>1. \A t : Held(t)' => Held(t)
      BY <2>1, <3>0 DEF Held
    <3>2. ASSUME ~Broken, NEW t, Held(t) PROVE Held(t)'
      <4>1. \A j \in Pushers : pushPc[j] = "report" =>
                1 \in DOMAIN reports /\ item[j] = reports[1]
        BY <1>0, <1>b, <3>2 DEF OnePusher, RepType
      <4> QED
        BY <2>1, <3>0, <3>2, <4>1 DEF Held
    <3> QED
      BY <1>0, <2>1, <3>0, <3>1, <3>2, QuietStep
  <2>3. CASE ~(UNCHANGED <<reports, removed>>) /\ reports # <<>>
    <3>1. /\ reports' = <<>>
          /\ removed' = removed \cup {reports[k] : k \in DOMAIN reports}
      BY <1>10, <2>3 DEF RepCrash
    <3>2. 1 \in DOMAIN reports
      BY <1>0, <2>3 DEF RepType
    <3>3. removed' # {}
      BY <3>1, <3>2
    <3>4. Arrived' = Arrived
      BY <2>1 DEF Arrived
    <3>5. \A t : Held(t)' => Held(t)
      BY <2>1, <3>1 DEF Held
    <3>6. Pending' \subseteq Pending
      BY <2>1, <3>4, <3>5 DEF Pending
    <3>7. Promise!Drop
      BY <3>3, <3>4, <3>6 DEF Promise!Drop
    <3> QED
      BY <3>7 DEF Promise!DeliveryNext
  <2> QED
    BY <2>2, <2>3
<1>11. CASE UNCHANGED repVars
  <2>1. UNCHANGED <<owed, chain, restarts, removed, reports, item, lastReport,
                   pushPc>>
    BY <1>11 DEF repVars, timeVars, diskVars, pushVars, boundVars
  <2>2. \A t : Held(t)' <=> Held(t)
    BY <2>1 DEF Held
  <2> QED
    BY <1>0, <2>1, <2>2, QuietStep
<1> QED
  BY <1>1, <1>2, <1>3, <1>4, <1>5, <1>6, <1>7, <1>8, <1>9, <1>10, <1>11
  DEF RepNext, RunStep, PushStep

\* The reporter implements the safety part of Delivery for any clock, any
\* number of crashes, failed calls and failures of Run: an hour stops being
\* pending only when it is delivered, when the queue that holds it cannot be
\* opened, or after one of these failures (Run, pushOne, NewReporter).
THEOREM ReporterDelivers == RepSpec => Promise!DeliverySafe
<1>1. RepInit => RepInv /\ Windowed
  <2> SUFFICES ASSUME RepInit PROVE RepInv /\ Windowed
    OBVIOUS
  <2>1. RepType
    BY ReporterAssumption DEF RepInit, RepType, NoTime, Windows, PushPcs, Pushers
  <2>2. Windowed
    BY DEF RepInit, Windowed
  <2> QED
    BY <2>1, <2>2 DEF RepInit, RepInv, Times, RepSafe, AllSettled, Collected,
                      OnePusher, NoTime
<1>2. RepInv /\ Windowed /\ [RepNext]_repVars => (RepInv /\ Windowed)'
  BY RepTypeStep, RepSafeStep, WindowedStep DEF RepInv
<1>3. RepInit => Promise!DeliveryInit
  BY DEF RepInit, Promise!DeliveryInit, Pending, Arrived
<1> QED
  BY <1>1, <1>2, <1>3, DeliveryStep, PTL DEF RepSpec, Promise!DeliverySafe

=============================================================================
