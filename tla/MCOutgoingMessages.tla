------------------------- MODULE MCOutgoingMessages -------------------------
(* Instances of OutgoingMessages for TLC. *)
EXTENDS OutgoingMessages
=============================================================================
