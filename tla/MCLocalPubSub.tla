--------------------------- MODULE MCLocalPubSub ---------------------------
(***************************************************************************)
(* LocalPubSub for TLC: one subscription that the publishers and the       *)
(* pullers share, as runlab and the daemons share theirs, and one private  *)
(* subscription per private puller.                                        *)
(***************************************************************************)
EXTENDS LocalPubSub, TLC

CONSTANTS Shared

MCSubOf == [a \in Agents |-> IF a \in Private THEN a ELSE Shared]
MCSubs == {Shared} \cup Private
MCMaxMessages == [p \in Pullers |-> IF p \in Private THEN 2 ELSE 1]
Symmetry == Permutations(Publishers) \cup Permutations(Pullers \ Private)
=============================================================================
