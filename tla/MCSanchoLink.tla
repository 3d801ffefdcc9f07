---------------------------- MODULE MCSanchoLink ----------------------------
(* Instances of SanchoLink for TLC. *)
EXTENDS SanchoLink, TLC

CONSTANTS p1, p2, w1, w2
=============================================================================
