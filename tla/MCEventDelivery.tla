--------------------------- MODULE MCEventDelivery ---------------------------
(* Instances of EventDelivery for TLC. *)
EXTENDS EventDelivery

MCEventIds == Signals \X (0..MaxChanges)
=============================================================================
