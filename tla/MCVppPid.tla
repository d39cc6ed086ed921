------------------------------ MODULE MCVppPid ------------------------------
(***************************************************************************)
(* An instance of VppPid for TLC: a directory that is no process, the      *)
(* plugin, and a process with a lower and one with a higher pid.           *)
(***************************************************************************)
EXTENDS VppPid

OneDir == {-1}
=============================================================================
