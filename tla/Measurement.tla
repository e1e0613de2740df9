---------------------------- MODULE Measurement ----------------------------
(***************************************************************************)
(* The measurement library: one program that links libarchlab, parses its  *)
(* command line and times regions of its code (archlab.cpp, DataCollector, *)
(* the PAPI, PIN, PCM and native collectors, ArchLabTimer).                *)
(*                                                                         *)
(* A statistic is a name.  What a counter reads is symbolic: <<"count", e, *)
(* i>> is the number of events e during interval i, so that a value put    *)
(* under the wrong name, or taken from the wrong interval, shows.          *)
(* Undefined is what the code reads past the end of an array, or before    *)
(* anything was stored.                                                    *)
(*                                                                         *)
(* PAPI's event sets keep their own list of events, which the library      *)
(* cannot see: it remembers the events it added, in order, and finds the   *)
(* counts by their index.                                                  *)
(***************************************************************************)
EXTENDS Naturals, Sequences

CONSTANTS
    CommandLines,   \* the command lines the program may be given
    CoreEvents,     \* names that PAPI counts in its first component
    RaplEvents,     \* names that PAPI counts in its rapl component, if any
    MaxCounters,    \* how many core events PAPI can count at a time
    Registers,      \* the names the pin tool looks its registers up by
    RegisterName,   \* such a name -> the name the pin tool reports it under
    PcmStats,       \* the fixed list that the PCM engine reports
    Attributes,     \* the key-value maps that a program passes when it starts
    Speeds,         \* clock speeds the program asks for; 0 stands for -1
    MaxIntervals,   \* bound: intervals started
    MaxChanges      \* bound: calls that change what is tracked while running

WallTime   == "ARCHLAB_WALL_TIME"
ClockSpeed == "ARCHLAB_CLOCK_SPEED_MHZ"
BaseStats  == {WallTime, ClockSpeed}
PapiEvents == CoreEvents \cup RaplEvents
StatNames  == BaseStats \cup PapiEvents \cup Registers
Engines    == {"native", "papi", "pin", "pcm", "all-core"}
EventSets  == {"core", "rapl"}

Undefined == <<"undefined">>
Text      == <<"text">>
Blank     == <<"blank">>
Empty     == [k \in {} |-> Text]

ASSUME NamesAssumption ==
    /\ CoreEvents \cap RaplEvents = {}
    /\ PapiEvents \cap (BaseStats \cup PcmStats) = {}
    /\ \A kv \in Attributes : DOMAIN kv \cap PapiEvents = {}
    /\ \A c \in CommandLines :
          /\ {"tags", "calcs"} \subseteq DOMAIN c
          /\ (c.tags \cup c.calcs) \cap PapiEvents = {}
    /\ \A r \in Registers : RegisterName[r] \notin PapiEvents
    /\ MaxIntervals \in Nat /\ MaxChanges \in Nat /\ MaxCounters \in Nat

VARIABLES
    phase,          \* "command_line", "running", or how the program ended
    line,           \* what is left of the command line
    engine,         \* which DataCollector was made, "none" before that
    tags, stats, calcs,   \* the columns; no property is about their order
    output_aliases, \* name -> the name of its column
    default_kv,     \* what every interval's map starts from
    my_stats,       \* the base statistics tracked
    events,         \* event set -> the events the collector remembers
    papi,           \* PAPI's own: event set -> its events, and if it runs
    tracked_registers,    \* the registers the PIN collector reports
    current_mhz,    \* the clock speed that was last asked for
    now,            \* ticks when the time is read
    stored_intervals,
    current,        \* index of the interval being timed, 0 if none
    timer,          \* an ArchLabTimer: "none", "made", "timing" or "calling"
    rows,           \* the rows last written: column -> value
    changes,        \* calls that changed what is tracked while running
    cleared,        \* history: what is tracked was cleared while running
    tampered        \* history: it was, or something was tracked after an
                    \* interval had begun

configVars   == <<line, engine, tags, stats, calcs, output_aliases, default_kv>>
trackedVars  == <<my_stats, events, tracked_registers>>
intervalVars == <<now, stored_intervals, current>>
historyVars  == <<changes, cleared, tampered>>
vars == <<phase, configVars, trackedVars, papi, current_mhz, intervalVars,
          timer, rows, historyVars>>

ToSet(s) == {s[i] : i \in DOMAIN s}

\* json::merge_patch with a patch that holds no nulls
Merge(kv, patch) ==
    [k \in DOMAIN kv \cup DOMAIN patch |->
        IF k \in DOMAIN patch THEN patch[k] ELSE kv[k]]

Finished(iv) == iv.end # 0
Running      == phase = "running"
Columns      == tags \cup stats \cup calcs

Init ==
    /\ phase = "command_line" /\ line \in CommandLines
    /\ engine = "none"
    /\ tags = {} /\ stats = {} /\ calcs = {}
    /\ output_aliases = Empty /\ default_kv = Empty
    /\ my_stats = {} /\ tracked_registers = {}
    /\ events = [s \in EventSets |-> <<>>]
    /\ papi = [s \in EventSets |-> [set |-> <<>>, on |-> FALSE]]
    /\ current_mhz = 1000
    /\ now = 1 /\ stored_intervals = <<>> /\ current = 0
    /\ timer = "none" /\ rows = <<>>
    /\ changes = 0 /\ cleared = FALSE /\ tampered = FALSE

\* exit and abort: nothing that was measured is written.
Exit(how) ==
    /\ phase' = how
    /\ UNCHANGED <<configVars, trackedVars, papi, current_mhz, intervalVars,
                   timer, rows, historyVars>>

(***************************************************************************)
(* Tracking a statistic.                                                   *)
(***************************************************************************)
\* PAPI_add_named_event: not while the set runs, and no event twice.
CanAdd(s, e) ==
    /\ ~papi[s].on
    /\ e \notin ToSet(papi[s].set)
    /\ CASE s = "core" -> e \in CoreEvents /\ Len(papi[s].set) < MaxCounters
         [] s = "rapl" -> e \in RaplEvents

\* The core set is tried first, then the rapl set.
Add(s, e) ==
    /\ engine = "papi"
    /\ CanAdd(s, e)
    /\ events' = [events EXCEPT ![s] = Append(@, e)]
    /\ papi' = [papi EXCEPT ![s].set = Append(@, e)]
    /\ UNCHANGED <<my_stats, tracked_registers>>

IsBase(e) ==
    /\ e \in BaseStats
    /\ engine # "pin"

TrackBase(e) ==
    /\ IsBase(e)
    /\ my_stats' = my_stats \cup {e}
    /\ UNCHANGED <<events, papi, tracked_registers>>

TrackRegister(e) ==
    /\ engine = "pin" /\ e \in Registers
    /\ tracked_registers' = tracked_registers \cup {e}
    /\ UNCHANGED <<my_stats, events, papi>>

TrackStat(e) ==
    \/ \E s \in EventSets : Add(s, e)
    \/ TrackBase(e)
    \/ TrackRegister(e)

Refused(e) ==
    /\ ~IsBase(e)
    /\ ~(engine = "pin" /\ e \in Registers)
    /\ ~(engine = "papi" /\ \E s \in EventSets : CanAdd(s, e))

\* PAPI knows the event but cannot add it, or nobody knows it.
HowRefused(e) ==
    IF engine = "papi" /\ e \in PapiEvents THEN "exit 1" ELSE "abort"

(***************************************************************************)
(* The command line: the engine first, then the statistics, tags and calcs.*)
(***************************************************************************)
Parsing == phase = "command_line"

AskForHelp == Parsing /\ line.help /\ Exit("exit 0")

MissingStatSet == Parsing /\ ~line.help /\ ~line.found /\ Exit("exit 1")

UnknownEngine ==
    /\ Parsing /\ ~line.help /\ line.found
    /\ line.engine \notin Engines
    /\ Exit("exit 1")

MakeCollector ==
    /\ Parsing /\ ~line.help /\ line.found
    /\ engine = "none" /\ line.engine \in Engines
    /\ engine' = line.engine
    /\ UNCHANGED <<phase, line, tags, stats, calcs, output_aliases,
                   default_kv, trackedVars, papi, current_mhz, intervalVars,
                   timer, rows, historyVars>>

\* "alias=name"; without an alias the name stands for itself.
ParseStat ==
    /\ Parsing /\ engine # "none" /\ line.stats # <<>>
    /\ LET o == Head(line.stats) IN
        \/ /\ TrackStat(o.name)
           /\ stats' = stats \cup {o.name}
           /\ output_aliases' = Merge(output_aliases,
                                      [k \in {o.name} |-> o.alias])
           /\ line' = [line EXCEPT !.stats = Tail(@)]
           /\ UNCHANGED <<phase, engine, tags, calcs, default_kv, current_mhz,
                          intervalVars, timer, rows, historyVars>>
        \/ Refused(o.name) /\ Exit(HowRefused(o.name))

ParseTagsAndCalcs ==
    /\ Parsing /\ engine # "none" /\ line.stats = <<>>
    /\ tags' = tags \cup line.tags
    /\ calcs' = calcs \cup line.calcs
    /\ default_kv' = Merge(default_kv,
                           [k \in line.tags \cup line.calcs |-> Text])
    /\ phase' = "running"
    /\ UNCHANGED <<line, engine, stats, output_aliases, trackedVars, papi,
                   current_mhz, intervalVars, timer, rows, historyVars>>

(***************************************************************************)
(* Timing.                                                                 *)
(***************************************************************************)
\* The event sets that the PAPI interval starts and stops.
Used == {s \in EventSets : engine = "papi" /\ events[s] # <<>>}

Timed(kv) == [kv |-> Merge(default_kv, kv), begin |-> now, end |-> 0,
              mhz |-> current_mhz, counts |-> <<>>]

\* A bug to test the invariant with: intervals that nest.
BeginIntervalNested(kv) ==
    /\ Len(stored_intervals) < MaxIntervals
    /\ \A s \in Used : ~papi[s].on
    /\ papi' = [s \in EventSets |->
                  IF s \in Used THEN [papi[s] EXCEPT !.on = TRUE] ELSE papi[s]]
    /\ stored_intervals' = Append(stored_intervals, Timed(kv))
    /\ current' = Len(stored_intervals) + 1
    /\ now' = now + 1
    /\ tags' = tags \cup DOMAIN kv
    /\ UNCHANGED <<phase, line, engine, stats, calcs, output_aliases,
                   default_kv, trackedVars, current_mhz, rows, historyVars>>

\* PAPI_start refuses a set that runs.
BeginInterval(kv) ==
    /\ Len(stored_intervals) < MaxIntervals
    /\ current = 0
    /\ \A s \in Used : ~papi[s].on
    /\ papi' = [s \in EventSets |->
                  IF s \in Used THEN [papi[s] EXCEPT !.on = TRUE] ELSE papi[s]]
    /\ stored_intervals' = Append(stored_intervals, Timed(kv))
    /\ current' = Len(stored_intervals) + 1
    /\ now' = now + 1
    /\ tags' = tags \cup DOMAIN kv
    /\ UNCHANGED <<phase, line, engine, stats, calcs, output_aliases,
                   default_kv, trackedVars, current_mhz, rows, historyVars>>

\* Timing already, or PAPI cannot start counting.
CannotBegin ==
    \/ current # 0
    \/ Used # {}

\* What PAPI_stop stores, as far as the collector reads it: PAPI's order,
\* the collector's length.
Read(s, i) ==
    IF s \in Used
    THEN [k \in 1 .. Len(events[s]) |->
            IF k \in DOMAIN papi[s].set
            THEN <<"count", papi[s].set[k], i>> ELSE Undefined]
    ELSE <<>>

EndInterval ==
    /\ current # 0
    /\ \A s \in Used : papi[s].on
    /\ papi' = [s \in EventSets |->
                  IF s \in Used THEN [papi[s] EXCEPT !.on = FALSE] ELSE papi[s]]
    /\ stored_intervals' = [stored_intervals EXCEPT ![current] =
            [@ EXCEPT !.end = now,
                      !.counts = Read("core", current) \o Read("rapl", current)]]
    /\ current' = 0
    /\ now' = now + 1
    /\ UNCHANGED <<phase, configVars, trackedVars, current_mhz, rows,
                   historyVars>>

\* Not timing, or PAPI cannot read the counters.
CannotEnd == current = 0 \/ Used # {}

StartTiming(kv) ==
    /\ Running
    /\ \/ BeginInterval(kv) /\ UNCHANGED timer
       \/ CannotBegin /\ Exit("exit 1")

StopTiming ==
    /\ Running
    /\ \/ EndInterval /\ UNCHANGED timer
       \/ CannotEnd /\ Exit("exit 1")

(***************************************************************************)
(* ArchLabTimer.  "calling" is go(f) while f runs, which may itself time.  *)
(***************************************************************************)
MakeTimer ==
    /\ Running /\ timer = "none"
    /\ timer' = "made"
    /\ UNCHANGED <<phase, configVars, trackedVars, papi, current_mhz,
                   intervalVars, rows, historyVars>>

TimerGo(kv, how) ==
    /\ Running /\ timer # "none"
    /\ \/ BeginInterval(kv) /\ timer' = how
       \/ CannotBegin /\ Exit("exit 1")

CallReturns ==
    /\ Running /\ timer = "calling"
    /\ \/ EndInterval /\ timer' = "made"
       \/ CannotEnd /\ Exit("exit 1")

\* The destructor; also when f throws.
LeaveScope ==
    /\ Running
    /\ \/ /\ timer = "made"
          /\ timer' = "none"
          /\ UNCHANGED <<phase, configVars, trackedVars, papi, current_mhz,
                         intervalVars, rows, historyVars>>
       \/ /\ timer \in {"timing", "calling"}
          /\ \/ EndInterval /\ timer' = "none"
             \/ CannotEnd /\ Exit("exit 1")

(***************************************************************************)
(* Calls that change what is tracked, or the machine, while running.       *)
(***************************************************************************)
TrackWhileRunning(e) ==
    /\ Running /\ changes < MaxChanges
    /\ \/ /\ TrackStat(e)
          /\ changes' = changes + 1
          /\ tampered' = (tampered \/ stored_intervals # <<>>)
          /\ UNCHANGED <<phase, configVars, current_mhz, intervalVars, timer,
                         rows, cleared>>
       \/ Refused(e) /\ Exit(HowRefused(e))

RegisterStat(e) ==
    /\ Running /\ changes < MaxChanges
    /\ stats' = stats \cup {e}
    /\ changes' = changes + 1
    /\ UNCHANGED <<phase, line, engine, tags, calcs, output_aliases,
                   default_kv, trackedVars, papi, current_mhz, intervalVars,
                   timer, rows, cleared, tampered>>

\* The base statistics stay, and so do the events in PAPI's sets.
ClearTrackedStats ==
    /\ Running /\ changes < MaxChanges
    /\ events' = [s \in EventSets |-> <<>>]
    /\ tracked_registers' = {}
    /\ changes' = changes + 1
    /\ cleared' = TRUE /\ tampered' = TRUE
    /\ UNCHANGED <<phase, configVars, my_stats, papi, current_mhz,
                   intervalVars, timer, rows>>

\* Remembered before cpupower is run, whether that works or not.  The native
\* and the PIN engine ignore the call.
SetCpuClockFrequency(mhz) ==
    /\ Running /\ engine \notin {"native", "pin"} /\ mhz # 0
    /\ current_mhz' = mhz
    /\ UNCHANGED <<phase, configVars, trackedVars, papi, intervalVars, timer,
                   rows, historyVars>>

(***************************************************************************)
(* Results.                                                                *)
(***************************************************************************)
CountAt(iv, k) == IF k \in DOMAIN iv.counts THEN iv.counts[k] ELSE Undefined
Counted(iv, e, i) == IF Finished(iv) THEN <<"count", e, i>> ELSE Undefined

\* A bug: the rapl counts are looked up as if there were no core counts.
PapiReportNoOffset(iv) ==
    [e \in IF engine = "papi" THEN ToSet(events["core"]) \cup ToSet(events["rapl"])
                              ELSE {} |->
        CountAt(iv, CHOOSE k \in 1 .. MaxCounters :
            \E s \in EventSets : k \in DOMAIN events[s] /\ events[s][k] = e)]

\* The counts are found by the present lists' indices, the rapl ones after
\* the core ones.
PapiReport(iv) ==
    [e \in IF engine = "papi" THEN ToSet(events["core"]) \cup ToSet(events["rapl"])
                              ELSE {} |->
        IF \E k \in DOMAIN events["core"] : events["core"][k] = e
        THEN CountAt(iv, CHOOSE k \in DOMAIN events["core"] : events["core"][k] = e)
        ELSE CountAt(iv, Len(events["core"]) +
                         CHOOSE k \in DOMAIN events["rapl"] : events["rapl"][k] = e)]

\* A bug: the clock speed of the moment the results are written.
BaseReportLate(iv) ==
    [e \in my_stats |->
        CASE e = ClockSpeed -> <<"mhz", current_mhz>>
          [] e = WallTime -> IF Finished(iv) THEN <<"time", iv.begin, iv.end>>
                                             ELSE Undefined]

BaseReport(iv) ==
    [e \in my_stats |->
        CASE e = ClockSpeed -> <<"mhz", iv.mhz>>
          [] e = WallTime -> IF Finished(iv) THEN <<"time", iv.begin, iv.end>>
                                             ELSE Undefined]

PinReport(iv, i) ==
    [n \in {RegisterName[r] : r \in tracked_registers} |-> Counted(iv, n, i)]

PcmReport(iv, i) ==
    [e \in IF engine = "pcm" THEN PcmStats ELSE {} |-> Counted(iv, e, i)]

BuildJson(iv, i) ==
    Merge(Merge(Merge(Merge(iv.kv, PapiReport(iv)), PinReport(iv, i)),
                PcmReport(iv, i)),
          BaseReport(iv))

Cell(kv, c) == IF c \in DOMAIN kv THEN kv[c] ELSE Blank

\* A bug: rows from what the intervals hold, as WriteJson has them.
WriteCsvUnbuilt ==
    /\ Running /\ stored_intervals # <<>>
    /\ rows' = [i \in DOMAIN stored_intervals |->
                  [c \in Columns |-> Cell(stored_intervals[i].kv, c)]]
    /\ UNCHANGED <<phase, configVars, trackedVars, papi, current_mhz,
                   intervalVars, timer, historyVars>>

\* build_json leaves what it reports in the interval.
WriteCsv ==
    /\ Running /\ stored_intervals # <<>>
    /\ LET kvs == [i \in DOMAIN stored_intervals |->
                     BuildJson(stored_intervals[i], i)]
       IN  /\ stored_intervals' = [i \in DOMAIN stored_intervals |->
                                     [stored_intervals[i] EXCEPT !.kv = kvs[i]]]
           /\ rows' = [i \in DOMAIN kvs |-> [c \in Columns |-> Cell(kvs[i], c)]]
    /\ UNCHANGED <<phase, configVars, trackedVars, papi, current_mhz, now,
                   current, timer, historyVars>>

Renamed(c) == IF c \in DOMAIN output_aliases THEN output_aliases[c] ELSE c

\* build_json of the collector writes what the intervals hold already; of
\* two keys that get the same name one is lost.
WriteJson ==
    /\ Running
    /\ rows' = [i \in DOMAIN stored_intervals |->
                  LET kv == stored_intervals[i].kv
                  IN  [c \in {Renamed(k) : k \in DOMAIN kv} |->
                         kv[CHOOSE k \in DOMAIN kv : Renamed(k) = c]]]
    /\ UNCHANGED <<phase, configVars, trackedVars, papi, current_mhz,
                   intervalVars, timer, historyVars>>

\* The file to write, of either format, cannot be opened.
CannotOpen == Running /\ Exit("exit 1")

Return == Running /\ Exit("exit 0")

Ended == ~Parsing /\ ~Running /\ UNCHANGED vars

Next ==
    \/ AskForHelp \/ MissingStatSet \/ UnknownEngine \/ MakeCollector
    \/ ParseStat \/ ParseTagsAndCalcs
    \/ \E kv \in Attributes : StartTiming(kv)
    \/ StopTiming
    \/ MakeTimer
    \/ \E kv \in Attributes, how \in {"timing", "calling"} : TimerGo(kv, how)
    \/ CallReturns \/ LeaveScope
    \/ \E e \in StatNames : TrackWhileRunning(e) \/ RegisterStat(e)
    \/ ClearTrackedStats
    \/ \E mhz \in Speeds : SetCpuClockFrequency(mhz)
    \/ WriteCsv \/ WriteJson \/ CannotOpen
    \/ Return \/ Ended

Spec == Init /\ [][Next]_vars

(***************************************************************************)
(* Properties.                                                             *)
(***************************************************************************)
AllEvents == events["core"] \o events["rapl"]

IsInterval(iv) ==
    /\ DOMAIN iv = {"kv", "begin", "end", "mhz", "counts"}
    /\ iv.begin \in Nat /\ iv.end \in Nat

\* The types that the other invariants rest on.
TypeOK ==
    /\ phase \in {"command_line", "running", "exit 0", "exit 1", "abort"}
    /\ engine \in Engines \cup {"none"}
    /\ events \in [EventSets -> Seq(PapiEvents)]
    /\ events["rapl"] \in Seq(RaplEvents)
    /\ papi \in [EventSets -> [set : Seq(PapiEvents), on : BOOLEAN]]
    /\ now \in Nat \ {0} /\ current \in Nat
    /\ cleared \in BOOLEAN /\ tampered \in BOOLEAN /\ (cleared => tampered)
    /\ stored_intervals \in Seq(ToSet(stored_intervals))
    /\ \A i \in DOMAIN stored_intervals : IsInterval(stored_intervals[i])

\* Nothing is measured before the command line has been read.
MeasuredLater == Parsing => stored_intervals = <<>>

\* At most one interval is open, and it is the last one.  Intervals are
\* stored in the order of time and do not overlap (the times of two timers,
\* or of nested calls, would be counted twice).
OneAtATime ==
    /\ current \in {0, Len(stored_intervals)}
    /\ \A i \in DOMAIN stored_intervals :
        LET iv == stored_intervals[i] IN
        /\ iv.begin < now /\ iv.end < now
        /\ i # current => iv.begin < iv.end
        /\ i = current => iv.end = 0
        /\ \A j \in DOMAIN stored_intervals :
             i < j => iv.end < stored_intervals[j].begin

\* Until what is tracked is cleared, the collector's lists and PAPI's event
\* sets are the same.
InStep == ~cleared => \A s \in EventSets : events[s] = papi[s].set

\* The counts that an interval can have read: of its own only.
Own(i) == {<<"count", e, i>> : e \in PapiEvents}

\* c core counts and then r rapl counts, each of the event that stands at the
\* same place of the collector's list.
ReadInTurn(iv, i, c, r) ==
    /\ Len(iv.counts) = c + r
    /\ \A k \in 1 .. c : iv.counts[k] = <<"count", events["core"][k], i>>
    /\ \A k \in 1 .. r : iv.counts[c + k] = <<"count", events["rapl"][k], i>>

\* What an interval has read is of itself; until a clear it is the count of
\* every event tracked at the time in turn, and the lists only grow.
OwnCounts(i) ==
    LET iv == stored_intervals[i] IN
    /\ iv.counts \in Seq(Own(i) \cup {Undefined})
    /\ ~Finished(iv) => iv.counts = <<>>
    /\ ~cleared => \E c \in 0 .. Len(events["core"]), r \in 0 .. Len(events["rapl"]) :
                      ReadInTurn(iv, i, c, r)

CountsOwn == \A i \in DOMAIN stored_intervals : OwnCounts(i)

\* If nothing was tracked since, it is the count of every event tracked.
CountsInStep ==
    ~tampered => \A i \in DOMAIN stored_intervals :
        stored_intervals[i].counts =
                IF engine = "papi" /\ Finished(stored_intervals[i])
                THEN [k \in 1 .. Len(AllEvents) |-> <<"count", AllEvents[k], i>>]
                ELSE <<>>

\* What may be a key of an interval's map besides the events: names that
\* are not those of events.
NamesApart ==
    /\ DOMAIN default_kv \cap PapiEvents = {}
    /\ {"tags", "calcs"} \subseteq DOMAIN line
    /\ (line.tags \cup line.calcs) \cap PapiEvents = {}
    /\ my_stats \subseteq BaseStats
    /\ tracked_registers \subseteq Registers

\* The interval has read a rapl count where a core event is looked up now,
\* which was tracked since.
Shifted(i) ==
    \E k \in DOMAIN stored_intervals[i].counts \cap DOMAIN events["core"] :
        \E r \in RaplEvents : stored_intervals[i].counts[k] = <<"count", r, i>>

\* What may be reported as the count of e during interval i.
Reportable(v, e, i) ==
    \/ v \in {<<"count", e, i>>, Undefined}
    \/ \E f \in PapiEvents :
          /\ v = <<"count", f, i>>
          /\ cleared \/ (f \in RaplEvents /\ Shifted(i))

\* However tracking, timing and writing alternate: a count that is reported
\* for an interval was read in that interval, and it is the count of the
\* event it is reported for.  The code breaks the second in two cases only.
\* PAPI keeps the events that the library forgets at a clear; and the rapl
\* counts are looked for behind as many core counts as there are core events
\* now, so that a core event tracked after an interval that counted rapl
\* events shifts them, and takes one of them for its own count
\* (PAPIDataCollector.cpp, build_json).
TrueCounts ==
    \A i \in DOMAIN stored_intervals :
        \A e \in PapiEvents \cap DOMAIN stored_intervals[i].kv :
            Reportable(stored_intervals[i].kv[e], e, i)

\* The inductive invariant.
IndInv ==
    /\ TypeOK /\ MeasuredLater /\ OneAtATime
    /\ InStep /\ CountsOwn /\ CountsInStep /\ NamesApart

\* A line of the CSV file has the value of everything that is both tracked
\* and registered, if the interval is over: the engines find what they
\* tracked under the name it was asked for.  The pin tools do not (see
\* StatsReported).  Nothing was cleared, nor tracked after the first interval
\* had begun: what is tracked later has no value for the intervals before.
Tracks(c) ==
    \/ c \in my_stats
    \/ \E s \in EventSets : c \in ToSet(events[s])
    \/ c \in tracked_registers /\ RegisterName[c] = c
RowsComplete ==
    [][WriteCsv /\ ~tampered =>
        \A i \in DOMAIN stored_intervals :
            Finished(stored_intervals[i]) =>
                \A c \in stats :
                    Tracks(c) => rows'[i][c] \notin {Blank, Undefined}]_vars

\* Once a value was reported for an interval that is over it never changes:
\* writing the results twice, or measuring on, gives the same.  As above,
\* nothing was cleared or tracked late (see TrueCounts).
RowsFinal ==
    [][~tampered' =>
        \A i \in DOMAIN stored_intervals :
            \A c \in DOMAIN stored_intervals[i].kv :
                LET v == stored_intervals[i].kv[c] IN
                Finished(stored_intervals[i]) /\ v # Undefined =>
                    stored_intervals'[i].kv[c] = v]_vars

\* "Which stats to collect" (the help of --stat, archlab.cpp): a statistic
\* given on the command line has a value in every row.
StatsReported ==
    [][WriteCsv /\ changes = 0 =>
        \A i \in DOMAIN stored_intervals :
            Finished(stored_intervals[i]) =>
                \A c \in stats : rows'[i][c] # Blank]_vars
=============================================================================
