---------------------------- MODULE RelayDelivery ----------------------------
(***************************************************************************)
(* What the relay promises about each file handed to it, whatever requests *)
(* the network loses: the sender is told once how its upload ended, the    *)
(* recipient stores the file any number of times, reports it collected at  *)
(* most once and only after storing it, and never stores it again then.    *)
(***************************************************************************)
EXTENDS Naturals

CONSTANT Files

VARIABLES
  told,       \* what became of the upload, as far as the sender knows
  copies,     \* how many times the recipient has stored the file
  collected   \* the files it has reported as collected

deliveryVars == <<told, copies, collected>>

DeliveryInit ==
  /\ told = [f \in Files |-> "pending"]
  /\ copies = [f \in Files |-> 0]
  /\ collected = {}

\* The sender learns how its upload ended, or its process ends first.
Tell(f) ==
  /\ told[f] = "pending"
  /\ \E how \in {"sent", "failed", "stopped"} : told' = [told EXCEPT ![f] = how]
  /\ UNCHANGED <<copies, collected>>

\* The recipient stores the file, as it may do more than once.
Store(f) ==
  /\ f \notin collected
  /\ copies' = [copies EXCEPT ![f] = @ + 1]
  /\ UNCHANGED <<told, collected>>

\* The recipient reports a file it has stored.
ReportCollected(f) ==
  /\ copies[f] > 0
  /\ f \notin collected
  /\ collected' = collected \cup {f}
  /\ UNCHANGED <<told, copies>>

DeliveryNext == \E f \in Files : Tell(f) \/ Store(f) \/ ReportCollected(f)

Delivery == DeliveryInit /\ [][DeliveryNext]_deliveryVars
=============================================================================
