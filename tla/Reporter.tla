------------------------------ MODULE Reporter ------------------------------
(***************************************************************************)
(* provisiond's consumption reporter (cmds/modules/provisiond/reporter.go).*)
(* Every hour Run makes a report of the consumption since the last one and *)
(* puts it in a queue on disk, from which a pusher goroutine sends it to   *)
(* the chain.  When Run fails it is called again, with a new pusher, while *)
(* the old one may still be blocked on the queue.                          *)
(***************************************************************************)
EXTENDS Integers, Sequences

CONSTANTS
    MaxTime,      \* bound: hours of the clock
    MaxRestarts,  \* bound: runs of Run that end with an error
    MaxFaults     \* bound: failed calls of the gateway and crashes

ASSUME ReporterAssumption ==
    MaxTime \in Nat /\ MaxRestarts \in Nat /\ MaxFaults \in Nat

NoTime == -1
Windows == [from : Int, to : Int]
Pushers == 1 .. MaxRestarts + 1

VARIABLES
    clock,
    owed,        \* hours with consumption since the first report time
    lastReport,  \* the time of the last report, in the metrics database
    reports,     \* the "consumption" queue on disk
    chain,       \* the reports that the chain received
    pc, since, ts,   \* Run
    pushPc, item,    \* the pushers, one for each call of Run
    restarts, faults,
    removed      \* reports that went with a queue that could not be opened

diskVars == <<lastReport, reports>>
runVars == <<pc, since, ts>>
pushVars == <<pushPc, item>>
timeVars == <<clock, owed>>
boundVars == <<restarts, faults, removed>>
repVars == <<timeVars, diskVars, chain, runVars, pushVars, boundVars>>

RepInit ==
    /\ clock = 0 /\ owed = {}
    /\ lastReport = NoTime /\ reports = <<>> /\ chain = {}
    /\ pc = "last" /\ since = NoTime /\ ts = NoTime
    /\ pushPc = [i \in Pushers |-> IF i = 1 THEN "top" ELSE "off"]
    /\ item = [i \in Pushers |-> [from |-> 0, to |-> 0]]
    /\ restarts = 0 /\ faults = 0 /\ removed = {}

\* An hour passes, with or without consumption that metrics collects.
Tick ==
    /\ clock < MaxTime
    /\ clock' = clock + 1
    /\ \/ UNCHANGED owed
       \/ lastReport # NoTime /\ owed' = owed \cup {clock}
    /\ UNCHANGED <<diskVars, chain, runVars, pushVars, boundVars>>

-----------------------------------------------------------------------------
\* Run: the time of the last report is read, or set when there is none ...
ReadLast ==
    /\ pc = "last"
    /\ lastReport' = IF lastReport = NoTime THEN clock ELSE lastReport
    /\ since' = lastReport'
    /\ pc' = "wait"
    /\ UNCHANGED <<timeVars, reports, chain, ts, pushVars, boundVars>>

\* ... an hour after it the consumption is put in the queue, if there is any ...
Collect ==
    /\ pc = "wait" /\ clock > since
    /\ ts' = clock
    /\ reports' = IF \E t \in owed : t >= since
                  THEN Append(reports, [from |-> since, to |-> clock])
                  ELSE reports
    /\ pc' = "set"
    /\ UNCHANGED <<timeVars, lastReport, chain, since, pushVars, boundVars>>

\* Mutant: the present time is stored.
SetLastNow ==
    /\ pc = "set"
    /\ lastReport' = clock
    /\ pc' = "last"
    /\ UNCHANGED <<timeVars, reports, chain, since, ts, pushVars, boundVars>>

\* ... and the time of the report is stored.
SetLast ==
    /\ pc = "set"
    /\ lastReport' = ts
    /\ pc' = "last"
    /\ UNCHANGED <<timeVars, reports, chain, since, ts, pushVars, boundVars>>

\* An error of the metrics database or of the queue ends Run; it is called
\* again and starts one more pusher.
RunFail ==
    /\ pc = "wait" => clock > since
    /\ restarts < MaxRestarts
    /\ restarts' = restarts + 1
    /\ pc' = "last" /\ since' = NoTime /\ ts' = NoTime
    /\ pushPc' = [pushPc EXCEPT ![restarts' + 1] = "top"]
    /\ UNCHANGED <<timeVars, diskVars, chain, item, faults, removed>>

-----------------------------------------------------------------------------
\* pusher: it ends when the context of its Run was cancelled ...
Cancelled(i) == i <= restarts

PusherLoop(i) ==
    /\ pushPc[i] = "top"
    /\ pushPc' = [pushPc EXCEPT ![i] = IF Cancelled(i) THEN "off" ELSE "peek"]
    /\ UNCHANGED <<timeVars, diskVars, chain, runVars, item, boundVars>>

\* Mutant: the report is taken out of the queue before it is sent.
PeekRemove(i) ==
    /\ pushPc[i] = "peek" /\ reports # <<>>
    /\ item' = [item EXCEPT ![i] = Head(reports)]
    /\ reports' = Tail(reports)
    /\ pushPc' = [pushPc EXCEPT ![i] = "report"]
    /\ UNCHANGED <<timeVars, lastReport, chain, runVars, boundVars>>

\* ... pushOne waits for a report, whatever happened to the context ...
Peek(i) ==
    /\ pushPc[i] = "peek" /\ reports # <<>>
    /\ item' = [item EXCEPT ![i] = Head(reports)]
    /\ pushPc' = [pushPc EXCEPT ![i] = "report"]
    /\ UNCHANGED <<timeVars, diskVars, chain, runVars, boundVars>>

\* Mutant: a pusher that fails to send a report ends.
GiveUp(i) == "off"

\* The pusher goes on after an error, 20 seconds later.
Retry(i) == "top"

\* ... sends it, in a call that may fail before or after it arrived ...
Send(i) ==
    /\ pushPc[i] = "report"
    /\ \/ /\ chain' = chain \cup {item[i]}
          /\ pushPc' = [pushPc EXCEPT ![i] = "dequeue"]
          /\ UNCHANGED faults
       \/ /\ faults < MaxFaults /\ faults' = faults + 1
          /\ pushPc' = [pushPc EXCEPT ![i] = Retry(i)]
          /\ chain' \in {chain, chain \cup {item[i]}}
    /\ UNCHANGED <<timeVars, diskVars, runVars, item, restarts, removed>>

\* ... and removes the head of the queue.
RemoveHead(i) ==
    /\ pushPc[i] = "dequeue"
    /\ reports' = IF reports = <<>> THEN <<>> ELSE Tail(reports)
    /\ pushPc' = [pushPc EXCEPT ![i] = "top"]
    /\ UNCHANGED <<timeVars, lastReport, chain, runVars, item, boundVars>>

\* provisiond dies and is started again, with one pusher; NewReporter removes
\* a queue that it cannot open, with the reports in it.
RepCrash ==
    /\ faults < MaxFaults /\ faults' = faults + 1
    /\ pc' = "last" /\ since' = NoTime /\ ts' = NoTime
    /\ pushPc' = [i \in Pushers |-> IF i = restarts + 1 THEN "top" ELSE "off"]
    /\ \/ UNCHANGED <<reports, removed>>
       \/ /\ reports' = <<>>
          /\ removed' = removed \cup {reports[i] : i \in DOMAIN reports}
    /\ UNCHANGED <<timeVars, lastReport, chain, item, restarts>>

-----------------------------------------------------------------------------
RunStep == ReadLast \/ Collect \/ SetLast
PushStep(i) == PusherLoop(i) \/ Peek(i) \/ Send(i) \/ RemoveHead(i)

RepNext ==
    \/ Tick
    \/ RunStep
    \/ RunFail
    \/ \E i \in Pushers : PushStep(i)
    \/ RepCrash

RepSpec == RepInit /\ [][RepNext]_repVars

\* Run and the pushers are goroutines that keep running.
RepFairSpec ==
    /\ RepSpec
    /\ WF_repVars(RunStep)
    /\ \A i \in Pushers : WF_repVars(PushStep(i))

-----------------------------------------------------------------------------
(* Properties *)

\* The consumption of hour t is in a report that waits in the queue or that
\* the chain received.
Covers(w, t) == w.from <= t /\ t < w.to
Reported(t) == \/ \E i \in DOMAIN reports : Covers(reports[i], t)
               \/ \E w \in chain : Covers(w, t)

\* All consumption before the last report time is accounted for: a report is
\* "only removed if report is reported to substrate" (pushOne).
Accounted == \A t \in owed : t < lastReport => Reported(t)

\* As long as Run itself does not fail, crashes and failed calls of the gateway
\* lose no consumption: all of it before the last report time is accounted for,
\* but for the reports in a queue that could not be opened (report and
\* setLastReportTime, pushOne, NewReporter).
Removed(t) == \E w \in removed : Covers(w, t)
NothingLost ==
    restarts = 0 =>
        \A t \in owed : t < lastReport => Reported(t) \/ Removed(t)

\* The queue is emptied again and again, whatever calls failed and however
\* many pushers there are (pusher).
QueueDrains == []<>(reports = <<>>)

\* The reporter implements Delivery: an hour is pending while it is not in a
\* report of the chain and metrics, the queue or a pusher still has it, and
\* after a failure of Run or a removed queue the promise is off.
Arrived == {t \in owed : \E w \in chain : Covers(w, t)}
Held(t) == \/ t >= lastReport
           \/ \E i \in DOMAIN reports : Covers(reports[i], t)
           \/ \E i \in Pushers : pushPc[i] = "report" /\ Covers(item[i], t)
Pending == {t \in owed \ Arrived : Held(t)}
Promise == INSTANCE Delivery WITH
               Hours <- 0 .. MaxTime,
               pending <- Pending,
               delivered <- Arrived,
               failed <- restarts > 0 \/ removed # {}

\* Every hour with consumption gets to the chain and is not given up before
\* it is there, over crashes, lost calls and late pushers (Run, pushOne).
AtLeastOnce == Promise!DeliverySpec

=============================================================================
