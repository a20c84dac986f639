------------------------------ MODULE Delivery ------------------------------
(***************************************************************************)
(* What the consumption reporter promises: the consumption of every hour   *)
(* is delivered, at least once, and is not given up before; only a failure *)
(* of the reporter itself or of its disk may drop some of it.              *)
(***************************************************************************)
EXTENDS Integers

CONSTANT Hours

VARIABLES pending, delivered, failed

deliveryVars == <<pending, delivered, failed>>

DeliveryInit == pending = {} /\ delivered = {} /\ failed = FALSE

\* An hour with consumption passes.
Consume(h) ==
    /\ h \notin pending \cup delivered
    /\ pending' = pending \cup {h}
    /\ UNCHANGED <<delivered, failed>>

\* Some hours are delivered, in one report.
Deliver ==
    /\ delivered \subseteq delivered'
    /\ delivered' \subseteq delivered \cup pending
    /\ pending' = pending \ delivered'
    /\ UNCHANGED failed

\* The reporter fails, or goes on after a failure.
Drop ==
    /\ failed'
    /\ pending' \subseteq pending
    /\ UNCHANGED delivered

DeliveryNext == (\E h \in Hours : Consume(h)) \/ Deliver \/ Drop

DeliverySafe == DeliveryInit /\ [][DeliveryNext]_deliveryVars

DeliverySpec ==
    /\ DeliverySafe
    /\ \A h \in Hours : (h \in pending) ~> (h \in delivered \/ failed)

=============================================================================
