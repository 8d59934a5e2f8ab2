----------------------------- MODULE MCSendPath -----------------------------
(* Instances of SendPath for TLC. *)
EXTENDS SendPath

\* A frame takes two packets of length 1 (3 + 2 * (2 + 1) bytes); one of length 8
\* does not fit into a frame with another.
ShortOrLong == {1, 8}
=============================================================================
