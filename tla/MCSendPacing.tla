----------------------------- MODULE MCSendPacing -----------------------------
(* Instances of SendPacing for TLC. *)
EXTENDS SendPacing

CONSTANTS s1, s2, unset, malformed
=============================================================================
