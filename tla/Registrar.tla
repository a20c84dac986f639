------------------------------ MODULE Registrar ------------------------------
(***************************************************************************)
(* The registration of a node (pkg/registrar_light, started by noded).  A  *)
(* goroutine registers the node at the registrar service, retries until it *)
(* succeeds, then waits for changes of the node's addresses and registers  *)
(* again.  Other daemons ask it for the node's identity at any time.       *)
(***************************************************************************)
EXTENDS Integers

CONSTANTS
    Addresses,   \* addresses of the zos bridge
    NodeEnv,     \* what may happen, see NodeAssumption
    MaxFaults    \* bound: failed calls and killed processes

\* "call": a call fails; "lost": a call is served and its answer gets lost;
\* "crash": a daemon is killed; "subscribe": the address stream cannot be
\* opened; "move": the address changes before the stream is open; "early":
\* the power target changes before power events are followed; "hasty": it
\* changes while a former change is still being handled; "wake": another node
\* fails to wake this one; "stub": the gateway answers for the chain without
\* asking it.
ASSUME NodeAssumption ==
    /\ Addresses # {}
    /\ MaxFaults \in Nat
    /\ NodeEnv \subseteq {"call", "lost", "crash", "subscribe", "move",
                          "early", "hasty", "wake", "stub"}

NodeId == 1
Zero == 0
NoRecord == [id |-> Zero]

VARIABLES
    onRegistrar,         \* the record of the node at the registrar service
    address,             \* the address of the zos bridge
    change,              \* an update waits in the address stream
    state,               \* what NodeID and TwinID look at
    regPc, subscribed,   \* the goroutine, and whether the stream is open
    seen,                \* the address that goes into the record
    usable,              \* the node has disks and virtualization
    faults

regVars == <<onRegistrar, address, change, state, regPc, subscribed, seen,
             usable>>

FailedState == [state |-> "Failed", node |-> Zero]
InProgressState == [state |-> "InProgress", node |-> Zero]
DoneState(id) == [state |-> "Done", node |-> id]

RegInit ==
    /\ onRegistrar \in {NoRecord} \cup [id : {NodeId}, addr : Addresses]
    /\ address \in Addresses /\ seen = address
    /\ change = FALSE /\ subscribed = FALSE
    /\ state = InProgressState /\ regPc = "check"
    /\ usable \in BOOLEAN
    /\ faults = 0

\* One more call that fails, or one more killed process.
Fault(kind) == /\ kind \in NodeEnv
               /\ faults < MaxFaults
               /\ faults' = faults + 1

\* The bridge gets another address; an open stream tells.
Move(a) ==
    /\ a # address
    /\ subscribed \/ "move" \in NodeEnv
    /\ address' = a
    /\ change' = subscribed
    /\ UNCHANGED <<onRegistrar, state, regPc, subscribed, seen, usable, faults>>

-----------------------------------------------------------------------------
\* register: a node without disks or virtualization is never registered.
CheckNode ==
    /\ regPc = "check"
    /\ \/ usable /\ regPc' = "infs" /\ UNCHANGED state
       \/ ~usable /\ regPc' = "ended" /\ state' = FailedState
    /\ UNCHANGED <<onRegistrar, address, change, subscribed, seen, usable, faults>>

\* registerNode collects the addresses ...
Interfaces ==
    /\ regPc = "infs"
    /\ seen' = address /\ regPc' = "lookup"
    /\ UNCHANGED <<onRegistrar, address, change, state, subscribed, usable, faults>>

\* ... ensures the account and looks the node up by its twin ...
GetNodeByTwinID ==
    /\ regPc = "lookup"
    /\ regPc' = IF onRegistrar = NoRecord THEN "create" ELSE "get"
    /\ UNCHANGED <<onRegistrar, address, change, state, subscribed, seen,
                   usable, faults>>

\* ... creates it when it is not there ...
CreateNode ==
    /\ regPc = "create"
    /\ onRegistrar' = [id |-> NodeId, addr |-> seen]
    /\ \/ regPc' = "get" /\ UNCHANGED <<state, faults>>
       \/ Fault("lost") /\ regPc' = "infs" /\ state' = FailedState
    /\ UNCHANGED <<address, change, subscribed, seen, usable>>

\* After a registration the goroutine opens the stream, or waits for it.
Registered == IF subscribed THEN "monitor" ELSE "subscribe"

\* Mutant: a node that has a record is left as it is.
UpToDate == TRUE

\* The record says what the node is.
Unchanged == onRegistrar.addr = seen

\* ... reads the record, which is updated if it differs ...
GetNode ==
    /\ regPc = "get"
    /\ \/ /\ Unchanged
          /\ state' = DoneState(onRegistrar.id)
          /\ regPc' = Registered
       \/ ~Unchanged /\ regPc' = "update" /\ UNCHANGED state
    /\ UNCHANGED <<onRegistrar, address, change, subscribed, seen, usable, faults>>

\* ... and the registration is done.
UpdateNode ==
    /\ regPc = "update"
    /\ onRegistrar' = [onRegistrar EXCEPT !.addr = seen]
    /\ \/ /\ state' = DoneState(onRegistrar.id)
          /\ regPc' = Registered
          /\ UNCHANGED faults
       \/ Fault("lost") /\ regPc' = "infs" /\ state' = FailedState
    /\ UNCHANGED <<address, change, subscribed, seen, usable>>

Registering == regPc \in {"infs", "lookup", "create", "get", "update"}

\* Mutant: the goroutine ends after a failed attempt.
RegisterFailEnds ==
    /\ Registering
    /\ Fault("call")
    /\ regPc' = "ended" /\ state' = FailedState
    /\ UNCHANGED <<onRegistrar, address, change, subscribed, seen, usable>>

\* A call fails: the attempt is given up and made again after a while.
RegisterFail ==
    /\ Registering
    /\ Fault("call")
    /\ regPc' = "infs" /\ state' = FailedState
    /\ UNCHANGED <<onRegistrar, address, change, subscribed, seen, usable>>

\* The address stream is opened after the first registration.  Without it the
\* goroutine ends.
Subscribe ==
    /\ regPc = "subscribe"
    /\ \/ subscribed' = TRUE /\ regPc' = "monitor" /\ UNCHANGED faults
       \/ Fault("subscribe") /\ regPc' = "ended" /\ UNCHANGED subscribed
    /\ UNCHANGED <<onRegistrar, address, change, state, seen, usable>>

\* A changed address is registered.  Every half hour the account is ensured,
\* which starts the timer of 24 hours again: it never fires.
AddressesUpdate ==
    /\ regPc = "monitor" /\ change
    /\ change' = FALSE /\ regPc' = "infs"
    /\ UNCHANGED <<onRegistrar, address, state, subscribed, seen, usable, faults>>

RegisterStep ==
    \/ CheckNode \/ Interfaces \/ GetNodeByTwinID \/ CreateNode \/ GetNode
    \/ UpdateNode \/ Subscribe \/ AddressesUpdate

\* The record when the request that noded made is served.
Served == CASE regPc = "create" -> [id |-> NodeId, addr |-> seen]
            [] regPc = "update" -> [onRegistrar EXCEPT !.addr = seen]
            [] OTHER            -> onRegistrar

\* noded starts over; the gateway may still serve its last request.
RegRestart ==
    /\ onRegistrar' \in {onRegistrar, Served}
    /\ regPc' = "check" /\ state' = InProgressState
    /\ subscribed' = FALSE /\ change' = FALSE /\ seen' = address
    /\ UNCHANGED <<address, usable>>

-----------------------------------------------------------------------------
(* Properties *)

\* While the registrar answers with an identity, the record of the node has its
\* address, or a change of it still waits to be registered (register,
\* registerNode): after lost answers, restarts and changes during an attempt.
DoneIsCurrent ==
    state.state = "Done" =>
        \/ onRegistrar.id = NodeId /\ onRegistrar.addr = address
        \/ change
        \/ Registering

=============================================================================
