-------------------------- MODULE MCArchCloudJobs --------------------------
(***************************************************************************)
(* ArchCloudJobs for TLC.                                                  *)
(***************************************************************************)
EXTENDS ArchCloudJobs, TLC

\* Jobs are interchangeable, and so are daemons of the same kind.
DaemonSymmetry == Permutations(Daemons)
Symmetry == Permutations(Jobs) \cup Permutations(Daemons)
=============================================================================
