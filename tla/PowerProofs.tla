----------------------------- MODULE PowerProofs -----------------------------
(***************************************************************************)
(* A node that is off says so on the chain, and a node that answers with   *)
(* an identity is registered as it is, for any addresses, any number of    *)
(* failures and restarts, and any changes of the power target.             *)
(***************************************************************************)
EXTENDS Power, TLAPS

\* What the power server is at, and an event that waits for it, are the present
\* target, which stays while the node goes off; the state is set by then.  A node
\* that is off runs no power server.
OffInv ==
    /\ target \in {Up, Down}
    /\ Acting => on /\ want = target
    /\ events = <<>> \/ events = <<target>>
    /\ powerPc = "shutdown" => want = Down
    /\ powerPc = "shutdown" /\ enabled => recorded = Down
    /\ going => on /\ enabled /\ recorded = Down /\ target = Down
    /\ ~on => enabled /\ recorded = Down /\ powerPc = "node"

Records == {NoRecord} \cup [id : {NodeId}, addr : Addresses]

\* The attempt works with the present address unless an update of it waits,
\* which needs an open stream; what it is about to read or update exists.
RegInv ==
    /\ onRegistrar \in Records
    /\ address \in Addresses /\ seen \in Addresses
    /\ regPc \in {"lookup", "create", "get", "update"} => seen = address \/ change
    /\ regPc \in {"get", "update"} => onRegistrar # NoRecord
    /\ change => subscribed
    /\ DoneIsCurrent

-----------------------------------------------------------------------------
\* Every step keeps it: the farmer waits until a change has been handled, so
\* that powerd never acts on a target that is not the present one.
LEMMA OffStep ==
    ASSUME OffInv, [PowerNext]_vars, "stub" \notin NodeEnv, "hasty" \notin NodeEnv
    PROVE  OffInv'
<1> USE DEF OffInv, Acting, Up, Down
<1>1. ASSUME UNCHANGED powerVars PROVE OffInv'
  BY <1>1 DEF powerVars, chainVars, onVars, kindVars, powerdVars
<1>2. ASSUME NEW t \in {Up, Down}, SetTarget(t) PROVE OffInv'
  <2>0. Append(<<>>, t) = <<t>>
    OBVIOUS
  <2>1. /\ ~Acting /\ ~going /\ events = <<>>
        /\ events' = <<>> \/ events' = <<t>>
        /\ target' = t
        /\ UNCHANGED <<recorded, on, going, enabled, powerPc, want>>
    BY <1>2, <2>0 DEF SetTarget, onVars, kindVars, powerdVars
  <2> QED
    BY <2>1
<1>3. CASE FarmEvent
  <2>1. on => on'
    BY <1>3, Zenon DEF FarmEvent
  <2>2. UNCHANGED <<target, recorded, events, going, enabled, powerPc, want>>
    BY <1>3 DEF FarmEvent, chainVars, kindVars, powerdVars
  <2> QED
    BY <2>1, <2>2
<1>4. CASE StartStream \/ SendUptime
  BY <1>4 DEF StartStream, SendUptime, chainVars, onVars, kindVars, powerdVars
<1>5. CASE NodeID \/ ReturnIfDone \/ TwinID \/ WaitMark \/ Sleep
  BY <1>5 DEF NodeID, ReturnIfDone, TwinID, WaitMark, Sleep, Again, chainVars,
              onVars, kindVars
<1>6. CASE SyncSelf
  <2>1. /\ on /\ want' = target /\ powerPc' = "set"
        /\ UNCHANGED <<target, recorded, events, on, going, enabled>>
    BY <1>6 DEF SyncSelf, GetPowerTarget, chainVars, onVars, kindVars
  <2> QED
    BY <2>1
<1>7. CASE SetNodePowerState
  <2>1. /\ on /\ Acting /\ recorded' = StateFor(want)
        /\ UNCHANGED <<target, events, on, going, enabled, want>>
        /\ powerPc' \in {"shutdown", "listen", "sleep"}
        /\ powerPc' = "shutdown" => want = Down
    BY <1>7 DEF SetNodePowerState, onVars, kindVars
  <2> QED
    BY <2>1 DEF StateFor
<1>8. CASE Shutdown
  <2>1. /\ on /\ Acting /\ powerPc = "shutdown" /\ going' = (going \/ enabled)
        /\ powerPc' = "listen"
        /\ UNCHANGED <<target, recorded, events, on, enabled, want>>
    BY <1>8 DEF Shutdown, chainVars, kindVars
  <2> QED
    BY <2>1
<1>9. CASE PowerOff
  <2>1. /\ going /\ ~going' /\ events' = <<>> /\ powerPc' = "node" /\ want' = Up
        /\ UNCHANGED <<target, recorded, enabled>>
    BY <1>9 DEF PowerOff, PowerCycle, chainVars, kindVars
  <2> QED
    BY <2>1
<1>10. CASE Recv
  <2>1. /\ on /\ events = <<target>> /\ want' = Head(events) /\ events' = Tail(events)
        /\ powerPc' = "event"
        /\ UNCHANGED <<target, recorded, on, going, enabled>>
    BY <1>10 DEF Recv, chainVars, onVars, kindVars
  <2>2. Head(<<target>>) = target /\ Tail(<<target>>) = <<>>
    OBVIOUS
  <2> QED
    BY <2>1, <2>2
<1>11. CASE Event \/ RecvFail \/ PowerdCrash
  BY <1>11 DEF Event, RecvFail, PowerdCrash, chainVars, onVars, kindVars
<1> QED
  BY <1>1, <1>2, <1>3, <1>4, <1>5, <1>6, <1>7, <1>8, <1>9, <1>10, <1>11
  DEF PowerNext, PowerdStep, NodedStep, NodedRestart, vars

\* With a gateway that writes to the chain and a farmer who waits until a change
\* of the target has been handled, a node that is off or going off has its power
\* state there as down, whatever calls failed and whichever daemon was killed
\* in between, and whatever powerd does until zinit ends it (syncSelf, event,
\* setNodePowerState, shutdown).
THEOREM OffIsRecordedHolds ==
    ASSUME "stub" \notin NodeEnv, "hasty" \notin NodeEnv
    PROVE  PowerSpec => []OffIsRecorded
<1>1. PowerInit => OffInv
  BY DEF PowerInit, OffInv, Acting, Up, Down
<1>2. OffInv => OffIsRecorded
  BY DEF OffInv, OffIsRecorded
<1> QED
  BY <1>1, <1>2, OffStep, PTL DEF PowerSpec

-----------------------------------------------------------------------------
\* Every step of the power server leaves the registration alone, or starts
\* noded over.
LEMMA PowerAlone ==
    ASSUME PowerNext
    PROVE  \/ \E a \in Addresses : Move(a)
           \/ RegisterStep \/ RegisterFail \/ RegRestart
           \/ UNCHANGED regVars
  BY DEF PowerNext, SetTarget, FarmEvent, NodedStep, StartStream, NodedRestart,
         PowerdStep, NodeID, ReturnIfDone, TwinID, WaitMark, SyncSelf,
         SetNodePowerState, Shutdown, PowerOff, PowerCycle, Recv, Event, Sleep,
         SendUptime, RecvFail, PowerdCrash

\* The registration keeps its invariant.
LEMMA RegStep ==
    ASSUME RegInv, [PowerNext]_vars, "move" \notin NodeEnv
    PROVE  RegInv'
<1> USE DEF RegInv, DoneIsCurrent, Registering, FailedState, DoneState,
        InProgressState
<1>1. ASSUME NEW a \in Addresses, Move(a) PROVE RegInv'
  BY <1>1 DEF Move
<1>2. CASE CheckNode
  BY <1>2 DEF CheckNode
<1>3. CASE Interfaces
  BY <1>3 DEF Interfaces
<1>4. CASE GetNodeByTwinID
  BY <1>4 DEF GetNodeByTwinID
<1>5. CASE CreateNode
  BY <1>5 DEF CreateNode, Records, NoRecord
<1>6. CASE GetNode
  BY <1>6 DEF GetNode, Records, NoRecord, Unchanged, Registered
<1>7. CASE UpdateNode
  BY <1>7 DEF UpdateNode, Records, NoRecord, Registered
<1>8. CASE RegisterFail
  BY <1>8 DEF RegisterFail
<1>9. CASE Subscribe
  BY <1>9 DEF Subscribe
<1>10. CASE AddressesUpdate
  BY <1>10 DEF AddressesUpdate
<1>11. CASE RegRestart
  BY <1>11 DEF RegRestart, Served, Records
<1>12. CASE UNCHANGED regVars
  BY <1>12 DEF regVars
<1> QED
  BY <1>1, <1>2, <1>3, <1>4, <1>5, <1>6, <1>7, <1>8, <1>9, <1>10, <1>11,
     <1>12, PowerAlone DEF RegisterStep, vars

\* When the address stays the same until the address stream is open, a
\* registrar that answers with an identity has registered the present address
\* or is about to (registerNode, register): for any addresses, lost answers
\* and restarts.
THEOREM DoneIsCurrentHolds ==
    ASSUME "move" \notin NodeEnv
    PROVE  PowerSpec => []DoneIsCurrent
<1>1. PowerInit => RegInv
  BY DEF PowerInit, RegInit, RegInv, Records, DoneIsCurrent, InProgressState
<1>2. RegInv => DoneIsCurrent
  BY DEF RegInv
<1> QED
  BY <1>1, <1>2, RegStep, PTL DEF PowerSpec

=============================================================================
