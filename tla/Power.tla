-------------------------------- MODULE Power --------------------------------
(***************************************************************************)
(* The power server of a node (pkg/power, run by powerd) on top of its     *)
(* registration.  It asks for the node's identity, waits for the first     *)
(* uptime report, brings the node to its power target and then follows the *)
(* power events of the farm, starting over whenever something fails.       *)
(*                                                                         *)
(* A node that is off is woken by the power servers of other nodes, which  *)
(* handle the same events.  They are one queue here: some node of the farm *)
(* handles each event, or fails to.                                        *)
(***************************************************************************)
EXTENDS Registrar, Sequences

CONSTANT MaxEvents   \* bound: power events that wait at a node

ASSUME PowerAssumption == MaxEvents \in Nat

Up == "up"
Down == "down"

VARIABLES
    target, recorded,    \* power target and power state on the chain
    events, farmEvents,  \* power events that wait at this node, at others
    unwoken,             \* the others dropped the event that was to wake it
    streaming,           \* noded follows the chain's events
    on, going,           \* the node is powered, zinit shuts it down
    enabled, canShutdown,   \* its nics wake it up, zinit can shut it down
    powerPc, id, want,   \* powerd: its identity, the state it goes for
    marked               \* the first uptime was reported

chainVars == <<target, recorded>>
powerdVars == <<powerPc, id, want, marked>>
farmVars == <<farmEvents, unwoken>>
onVars == <<on, going>>
kindVars == <<enabled, canShutdown>>
powerVars == <<chainVars, events, farmVars, streaming, onVars, kindVars, powerdVars>>
vars == <<regVars, faults, powerVars>>

PowerInit ==
    /\ RegInit
    /\ target \in {Up, Down} /\ recorded \in {Up, Down}
    /\ events = <<>> /\ farmEvents = <<>> /\ streaming = FALSE
    /\ on = TRUE /\ going = FALSE /\ unwoken = FALSE
    /\ enabled \in BOOLEAN /\ canShutdown \in BOOLEAN
    /\ powerPc = "node" /\ id = Zero /\ want = Up /\ marked = FALSE

-----------------------------------------------------------------------------
\* powerd is between reading a target and acting on it.
Acting == powerPc \in {"event", "set", "shutdown"}

\* The farmer changes the target; the event goes to every node that is on.
SetTarget(t) ==
    /\ t # target
    /\ Len(events) < MaxEvents /\ Len(farmEvents) < MaxEvents
    /\ "early" \in NodeEnv \/ ~on \/ streaming
    /\ \/ "hasty" \in NodeEnv
       \/ events = <<>> /\ ~Acting /\ ~going /\ farmEvents = <<>>
    /\ target' = t
    /\ events' = IF on /\ streaming THEN Append(events, t) ELSE events
    /\ farmEvents' = Append(farmEvents, t)
    /\ UNCHANGED <<regVars, faults, recorded, unwoken, streaming, onVars, kindVars,
                   powerdVars>>

\* event on another node: the magic packet for an event up wakes this one, if
\* it is off by then.  That node may not find this one or its hardware
\* address, or fail to send the packet, and drops the event: it looks at no
\* other target than its own when it starts over.
FarmEvent ==
    /\ farmEvents # <<>>
    /\ farmEvents' = Tail(farmEvents)
    /\ \/ /\ on' = (on \/ Head(farmEvents) = Up)
          /\ unwoken' = FALSE
          /\ UNCHANGED faults
       \/ /\ Fault("wake")
          /\ unwoken' = (~on /\ Head(farmEvents) = Up)
          /\ UNCHANGED on
    /\ UNCHANGED <<regVars, chainVars, events, streaming, going, kindVars, powerdVars>>

-----------------------------------------------------------------------------
\* noded follows the events of the chain once it knows its identity.
StartStream ==
    /\ on /\ ~streaming /\ state.state = "Done"
    /\ streaming' = TRUE
    /\ UNCHANGED <<regVars, faults, chainVars, events, farmVars, onVars, kindVars, powerdVars>>

\* noded is killed, or gives up waiting for its identity.  Its position in
\* the chain is kept.
NodedRestart ==
    /\ on
    /\ Fault("crash")
    /\ RegRestart
    /\ UNCHANGED powerVars

\* powerd is started: NodeID reads the identity under the lock ...
NodeID ==
    /\ on /\ powerPc = "node"
    /\ id' = state.node /\ powerPc' = "done"
    /\ UNCHANGED <<regVars, faults, chainVars, events, farmVars, streaming,
                   onVars, kindVars, want, marked>>

\* ... and returnIfDone reads the state without it; an error ends powerd.
ReturnIfDone ==
    /\ on /\ powerPc = "done"
    /\ powerPc' = IF state.state = "Done" THEN "twin" ELSE "node"
    /\ UNCHANGED <<regVars, faults, chainVars, events, farmVars, streaming,
                   onVars, kindVars, id, want, marked>>

\* TwinID is asked for in the same way; then the uptime goroutine starts.
TwinID ==
    /\ on /\ powerPc = "twin"
    /\ powerPc' = IF state.state = "Done" THEN "mark" ELSE "node"
    /\ UNCHANGED <<regVars, faults, chainVars, events, farmVars, streaming,
                   onVars, kindVars, id, want, marked>>

\* uptime: the first report is retried until it succeeds.
SendUptime ==
    /\ on /\ powerPc \notin {"node", "done", "twin"} /\ ~marked
    /\ marked' = TRUE
    /\ UNCHANGED <<regVars, faults, chainVars, events, farmVars, streaming,
                   onVars, kindVars, powerPc, id, want>>

\* events waits for it.
WaitMark ==
    /\ on /\ powerPc = "mark" /\ marked
    /\ powerPc' = "sync"
    /\ UNCHANGED <<regVars, faults, chainVars, events, farmVars, streaming,
                   onVars, kindVars, id, want, marked>>

\* The gateway is written to read the target from the chain; the present one
\* is a stub that always answers up.
GetPowerTarget == IF "stub" \in NodeEnv THEN Up ELSE target

\* Mutant: nothing is done when the target is up.
SyncSelfDown ==
    /\ on /\ powerPc = "sync"
    /\ want' = GetPowerTarget
    /\ powerPc' = IF want' = Down THEN "set" ELSE "listen"
    /\ UNCHANGED <<regVars, faults, chainVars, events, farmVars, streaming,
                   onVars, kindVars, id, marked>>

\* syncSelf: the target is read ...
SyncSelf ==
    /\ on /\ powerPc = "sync"
    /\ want' = GetPowerTarget /\ powerPc' = "set"
    /\ UNCHANGED <<regVars, faults, chainVars, events, farmVars, streaming,
                   onVars, kindVars, id, marked>>

\* Mutant: the state is set as asked for on every node.
StateForAll(t) == t

\* The state of a node without power management is up.
StateFor(t) == IF enabled THEN t ELSE Up

\* ... setNodePowerState writes the state if it is another one; the stub
\* writes nothing ...
SetNodePowerState ==
    /\ on /\ powerPc = "set"
    /\ recorded' = IF "stub" \in NodeEnv THEN recorded ELSE StateFor(want)
    /\ \/ powerPc' = (IF want = Down THEN "shutdown" ELSE "listen") /\ UNCHANGED faults
       \/ Fault("lost") /\ powerPc' = "sleep"
    /\ UNCHANGED <<regVars, target, events, farmVars, streaming,
                   onVars, kindVars, id, want, marked>>

\* The node goes off, or reboots when b: everything in memory is gone.
PowerCycle(b) ==
    /\ on' = b /\ going' = FALSE
    /\ events' = <<>> /\ streaming' = FALSE
    /\ powerPc' = "node" /\ id' = Zero /\ want' = Up /\ marked' = FALSE
    /\ RegRestart

\* ... and shutdown tells zinit to end the node, unless it could not be woken
\* up again.  The call returns while the node is still on ...
Shutdown ==
    /\ on /\ powerPc = "shutdown"
    /\ going' = (going \/ enabled)
    /\ powerPc' = "listen"
    /\ UNCHANGED <<regVars, faults, chainVars, events, farmVars, streaming, on,
                   kindVars, id, want, marked>>

\* ... and its daemons go on until it is off.  A node that cannot shut down
\* reboots instead.
PowerOff ==
    /\ on /\ going
    /\ PowerCycle(~canShutdown)
    /\ UNCHANGED <<faults, chainVars, farmVars, kindVars>>

\* recv takes an event from the stream ...
Recv ==
    /\ on /\ powerPc = "listen" /\ events # <<>>
    /\ want' = Head(events) /\ events' = Tail(events)
    /\ powerPc' = "event"
    /\ UNCHANGED <<regVars, faults, chainVars, farmVars, streaming, onVars,
                   kindVars, id, marked>>

\* Mutant: an event shuts the node down without setting its state.
EventUnset ==
    /\ on /\ powerPc = "event"
    /\ powerPc' = IF id = NodeId /\ want = Down THEN "shutdown" ELSE "listen"
    /\ UNCHANGED <<regVars, faults, chainVars, events, farmVars, streaming,
                   onVars, kindVars, id, want, marked>>

\* ... event looks up its node and handles it: only down concerns a node that
\* is on, and only if the event names its identity.
Event ==
    /\ on /\ powerPc = "event"
    /\ powerPc' = IF id = NodeId /\ want = Down THEN "set" ELSE "listen"
    /\ UNCHANGED <<regVars, faults, chainVars, events, farmVars, streaming,
                   onVars, kindVars, id, want, marked>>

\* Mutant: after an error recv goes on with the next event.
Resume == "listen"

\* Five seconds after an error recv starts over, with syncSelf.
Again == "sync"

Sleep ==
    /\ on /\ powerPc = "sleep"
    /\ powerPc' = Again
    /\ UNCHANGED <<regVars, faults, chainVars, events, farmVars, streaming,
                   onVars, kindVars, id, want, marked>>

\* A call to the gateway or to zinit fails, or the stream of events cannot be
\* opened; what was at hand is dropped.
RecvFail ==
    /\ on /\ powerPc \in {"sync", "set", "shutdown", "listen", "event"}
    /\ Fault("call")
    /\ powerPc' = "sleep"
    /\ UNCHANGED <<regVars, chainVars, events, farmVars, streaming, onVars,
                   kindVars, id, want, marked>>

\* powerd is killed, or cannot set up wake on lan, and is started again.
PowerdCrash ==
    /\ on /\ powerPc # "node"
    /\ Fault("crash")
    /\ powerPc' = "node" /\ id' = Zero /\ want' = Up /\ marked' = FALSE
    /\ UNCHANGED <<regVars, chainVars, events, farmVars, streaming, onVars, kindVars>>

-----------------------------------------------------------------------------
PowerdStep ==
    \/ NodeID \/ ReturnIfDone \/ TwinID \/ WaitMark \/ SyncSelf
    \/ SetNodePowerState \/ Shutdown \/ Recv \/ Event \/ Sleep

NodedStep == on /\ RegisterStep /\ UNCHANGED powerVars

PowerNext ==
    \/ \E a \in Addresses : Move(a) /\ UNCHANGED powerVars
    \/ \E t \in {Up, Down} : SetTarget(t)
    \/ FarmEvent
    \/ NodedStep
    \/ on /\ RegisterFail /\ UNCHANGED powerVars
    \/ StartStream
    \/ NodedRestart
    \/ PowerdStep
    \/ PowerOff
    \/ SendUptime
    \/ RecvFail
    \/ PowerdCrash

PowerSpec == PowerInit /\ [][PowerNext]_vars

\* noded, powerd and its uptime goroutine are loops that are started again
\* whenever they end; zinit shuts the node down when it was told to; other nodes
\* of the farm handle their events, or drop them.
PowerFairSpec ==
    /\ PowerSpec
    /\ WF_vars(NodedStep) /\ WF_vars(StartStream)
    /\ WF_vars(PowerdStep) /\ WF_vars(SendUptime)
    /\ WF_vars(PowerOff) /\ WF_vars(FarmEvent)

-----------------------------------------------------------------------------
(* Properties *)

\* When the address of a node that stays on settles, the registrar ends up with
\* it (register retries indefinitely).
AddressFollows ==
    \A a \in Addresses :
        usable /\ <>[](address = a /\ on) =>
            <>[](onRegistrar.id = NodeId /\ onRegistrar.addr = a)

\* A node that is off, or about to be, says so on the chain: its state was set
\* before it was shut down (syncSelf, event, setNodePowerState), whatever powerd
\* does until zinit ends it, and only nodes that can be woken up go off.
OffIsRecorded == ~on \/ going => recorded = Down /\ enabled

\* A node whose target settles on down goes off and stays off, if it can, after
\* any failed calls and restarts (recv starts over with syncSelf); powerd has to
\* know its identity, which a registration that finishes while NodeID is
\* answered may keep from it.
Blind == on /\ powerPc = "listen" /\ id # NodeId
DownFollows ==
    usable /\ enabled /\ canShutdown /\ <>[](target = Down /\ ~Blind) => <>[]~on

\* A node whose target settles on up ends up on, with that state on the chain,
\* unless the other nodes of its farm dropped the event that was to wake it
\* (syncSelf, event, powerUp).
UpFollows ==
    usable /\ <>[](target = Up /\ ~unwoken) => <>[](on /\ recorded = Up)

\* A node without power management stays on and says so, whatever its target
\* (setNodePowerState, shutdown).
DisabledIsUp == usable /\ ~enabled => <>[](on /\ recorded = Up)

=============================================================================
