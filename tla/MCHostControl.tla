-------------------------- MODULE MCHostControl --------------------------
(***************************************************************************)
(* HostControl for TLC: one daemon, and one "hosttool top" watching it.    *)
(***************************************************************************)
EXTENDS HostControl, TLC
=============================================================================
