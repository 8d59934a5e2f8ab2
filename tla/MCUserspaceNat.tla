--------------------------- MODULE MCUserspaceNat ---------------------------
(* Segments of two bytes, at most three unacknowledged; sequence numbers that wrap. *)
EXTENDS UserspaceNat
=============================================================================
