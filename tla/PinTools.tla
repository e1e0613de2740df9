------------------------------ MODULE PinTools ------------------------------
(***************************************************************************)
(* A program under one of the pin tools.  The cache simulator and the      *)
(* block tools share nothing but the program; which of them runs is the    *)
(* user's choice.  sample_archlab.cpp does nothing.                        *)
(***************************************************************************)
EXTENDS DCache, BlockTools

VARIABLE tool

vars == <<tool, dcacheVars, blockVars>>

Init == /\ tool \in {"dcache", "blocks"}
        /\ InitDCache
        /\ InitBlocks
        /\ tool = "dcache" => knobs = CHOOSE k \in KnobSettings : TRUE

Next == /\ tool' = tool
        /\ \/ tool = "dcache" /\ NextDCache /\ UNCHANGED blockVars
           \/ tool = "blocks" /\ NextBlocks /\ UNCHANGED dcacheVars

Spec == Init /\ [][Next]_vars
=============================================================================
