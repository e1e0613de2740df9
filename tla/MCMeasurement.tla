--------------------------- MODULE MCMeasurement ---------------------------
(***************************************************************************)
(* Measurement for TLC: one program, run with a command line for each      *)
(* engine and with those that fail.                                        *)
(***************************************************************************)
EXTENDS Measurement

Stat(n) == [alias |-> n, name |-> n]
Wall    == [alias |-> "WallTime", name |-> WallTime]
Line    == [help |-> FALSE, found |-> TRUE, engine |-> "papi",
            stats |-> <<Wall>>, tags |-> {}, calcs |-> {}]

\* What works.  The third asks for a rapl event between two core events, and
\* renames the second of them as the first; the last two leave core events to
\* be tracked later, behind a core event and behind a rapl event.
MCGoodLines ==
    { [Line EXCEPT !.engine = "native", !.tags = {"tag"}],
      [Line EXCEPT !.engine = "pcm", !.calcs = {"calc"}],
      [Line EXCEPT !.stats = <<Stat("cyc"), Stat("energy"),
                               [alias |-> "cyc", name |-> "ins"]>>],
      [Line EXCEPT !.stats = <<Stat("cyc")>>],
      [Line EXCEPT !.stats = <<Stat("energy")>>],
      [Line EXCEPT !.engine = "pin", !.stats = <<Stat("loads")>>] }

\* What does not: an unknown engine, option file or statistic, an event
\* given twice (as two stat-sets do), PIN with the default statistics.
MCBadLines ==
    { [Line EXCEPT !.help = TRUE],
      [Line EXCEPT !.found = FALSE],
      [Line EXCEPT !.engine = "none of them"],
      [Line EXCEPT !.engine = "all-core", !.stats = <<Stat("cyc")>>],
      [Line EXCEPT !.stats = <<Stat("cyc"), Stat("cyc")>>],
      [Line EXCEPT !.engine = "pin"] }

MCCommandLines == MCGoodLines \cup MCBadLines

MCPinLines == {[Line EXCEPT !.engine = "pin", !.stats = <<Stat("loads_STAT")>>]}

MCAttributes == {Empty, [k \in {"size"} |-> Text]}

\* The cache simulator (dcache_archlab.cpp) looks X_STAT up and reports X.
\* "loads" is a register that is reported as it was asked for, as the interface
\* of the tools allows.  The tracing and the sample tool, which have register 0
\* for any name and no name for it, are left out.
MCRegisterName == [r \in {"loads", "loads_STAT"} |-> "loads"]
=============================================================================
