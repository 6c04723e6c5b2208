------------------------------- MODULE MCSftp -------------------------------
(* Constants of Sftp for TLC. *)
EXTENDS Sftp

CONSTANTS r1, r2, r3
=============================================================================
