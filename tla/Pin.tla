-------------------------------- MODULE Pin --------------------------------
(***************************************************************************)
(* What the pin tools have in common: Intel Pin runs a program of several  *)
(* threads under a tool; one of them calls libarchlab, whose pin_get_tool  *)
(* Pin replaces with the tool's own (Routine in each tool).                *)
(***************************************************************************)
CONSTANTS
    Threads,    \* the program's threads
    Main        \* the one that controls the tool

ASSUME MainAssumption == Main \in Threads
=============================================================================
