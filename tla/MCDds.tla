------------------------------- MODULE MCDds -------------------------------
(* Constants of Dds for TLC. *)
EXTENDS Dds

CONSTANTS a, b, g
=============================================================================
