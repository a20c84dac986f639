------------------------------ MODULE Capacity ------------------------------
(***************************************************************************)
(* The engine and provisiond's capacity setter                             *)
(* (cmds/modules/provisiond/cap.go): the engine's callback hands every     *)
(* finished job to a bounded channel, and the setter's goroutine reports   *)
(* the consumption of the contract to the chain.                           *)
(***************************************************************************)
EXTENDS Engine

CONSTANTS ChanCap   \* capacity of the setter's channel (215 in the code)

ASSUME CapacityAssumption == ChanCap \in Nat \ {0}

VARIABLES
    ch,       \* the channel
    setting,  \* the deployment read by the setter and not reported yet
    used      \* the workloads whose consumption the chain knows

setterVars == <<ch, setting, used>>
capVars == <<vars, setterVars>>

OkaySet(c) == {n \in Names : workloads[c][n] \in Okay}

CapInit == /\ Init
           /\ ch = <<>> /\ setting = {}
           /\ used = [c \in Contracts |-> {}]

-----------------------------------------------------------------------------
\* Callback pushes to the channel and blocks while it is full; nothing is
\* reported for a deletion.
SetterCallback ==
    /\ Callback
    /\ \E d \in done :
        \/ d.delete /\ UNCHANGED ch
        \/ ~d.delete /\ Len(ch) < ChanCap /\ ch' = Append(ch, d.c)
    /\ UNCHANGED <<setting, used>>

\* Mutant: Run ends when the deployment is gone.
SetterGetEnds ==
    /\ setting = {} /\ ch # <<>> /\ Head(ch) \in deployments
    /\ ch' = Tail(ch)
    /\ setting' = {[c |-> Head(ch), okay |-> OkaySet(Head(ch))]}
    /\ UNCHANGED <<vars, used>>

\* Run receives a contract and reads the deployment ...
SetterGet ==
    /\ setting = {} /\ ch # <<>>
    /\ ch' = Tail(ch)
    /\ setting' = IF Head(ch) \in deployments
                  THEN {[c |-> Head(ch), okay |-> OkaySet(Head(ch))]} ELSE {}
    /\ UNCHANGED <<vars, used>>

\* ... and reports it, or gives up after the retries.
SetterSet ==
    /\ \E s \in setting :
        \/ used' = [used EXCEPT ![s.c] = s.okay]
        \/ "gatewayError" \in Env /\ UNCHANGED used
    /\ setting' = {}
    /\ UNCHANGED <<vars, ch>>

\* Mutant: a restart does not set what is in use.
SetterRestartOnly(setActive) ==
    /\ ch' = <<>> /\ setting' = {}
    /\ UNCHANGED used

\* provisiond starts again: the channel is lost, and unless this is a boot
\* the consumption of the active deployments is set, in one call that is given
\* up after the retries.
SetterRestart(setActive) ==
    /\ ch' = <<>> /\ setting' = {}
    /\ \/ used' = [c \in Contracts |-> IF setActive /\ OkaySet(c) # {}
                                       THEN OkaySet(c) ELSE used[c]]
       \/ "gatewayError" \in Env /\ UNCHANGED used

EngineStep == Work \/ \E reply \in Replies : Begin(reply)

CapNext ==
    \/ (Api \/ ApiStep \/ Events \/ EventStep \/ EngineStep \/ MarkBooted)
       /\ UNCHANGED setterVars
    \/ SetterCallback
    \/ SetterGet
    \/ SetterSet
    \/ Crash /\ SetterRestart(booted)
    \/ Reboot /\ SetterRestart(FALSE)

CapSpec == CapInit /\ [][CapNext]_capVars

\* The goroutines of provisiond keep running.
CapFairSpec ==
    /\ CapSpec
    /\ WF_capVars(EngineStep /\ UNCHANGED setterVars)
    /\ WF_capVars(SetterCallback)
    /\ WF_capVars(SetterGet) /\ WF_capVars(SetterSet)

-----------------------------------------------------------------------------
(* Properties *)

\* When the engine and the setter have nothing to do, the consumption the
\* chain knows for a deployment in use is what the deployment uses, whatever
\* callbacks a crash or a reboot lost (Callback, and Set in provisiond's main).
UsedIsCurrent ==
    \A c \in deployments :
        /\ OkaySet(c) # {}
        /\ pc = "idle" /\ queue = <<>> /\ apiJobs = {} /\ decom = {}
        /\ ch = <<>> /\ setting = {} /\ booted
        => used[c] = OkaySet(c)

\* The engine never waits for ever in its callback: the setter drains the
\* channel, however small it is, and whatever it finds in it (Callback, Run).
CallbackReturns == pc = "callback" ~> pc # "callback"

=============================================================================
