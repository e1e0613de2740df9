------------------------- MODULE Measurement_proofs -------------------------
(***************************************************************************)
(* Proofs that the measurement library stores intervals that do not        *)
(* overlap, and reports counts under the right name and for the right      *)
(* interval, for any command line, events, attributes and order of calls.  *)
(*                                                                         *)
(* The argument: as long as nobody clears the lists of events, they are    *)
(* PAPI's (InStep) and only grow; so what an interval reads is the count   *)
(* of each event tracked at the time, in turn (CountsOwn), and a name is   *)
(* looked up where its count is, unless the core events before a rapl one  *)
(* became more.  If nothing was tracked since an interval began, its       *)
(* counts are those of all that is tracked (CountsInStep): a row then has  *)
(* a value for whatever is tracked, the same whenever it is written.       *)
(***************************************************************************)
EXTENDS Measurement, SequenceTheorems, TLAPS

\* A function on 1 .. n is a sequence of its values.
LEMMA RangeSeq ==
    ASSUME NEW n \in Nat, NEW t, t = [i \in 1 .. n |-> t[i]]
    PROVE  t \in Seq(ToSet(t)) /\ Len(t) = n /\ DOMAIN t = 1 .. n
<1>1. DOMAIN t = 1 .. n OBVIOUS
<1>2. t \in [1 .. n -> ToSet(t)] BY <1>1 DEF ToSet
<1>3. t \in Seq(ToSet(t)) BY <1>2, SeqDef
<1>4. Len(t) \in Nat /\ DOMAIN t = 1 .. Len(t) BY <1>3, LenProperties
<1>5. Len(t) = n BY <1>1, <1>4
<1> QED BY <1>1, <1>3, <1>5

\* Appending to a sequence.
LEMMA AppendSeq ==
    ASSUME NEW s, s \in Seq(ToSet(s)), NEW x
    PROVE  /\ Append(s, x) \in Seq(ToSet(Append(s, x))) /\ Len(Append(s, x)) = Len(s) + 1
           /\ Append(s, x)[Len(s) + 1] = x
           /\ \A i \in 1 .. Len(s) : Append(s, x)[i] = s[i]
<1> DEFINE B == ToSet(s) \cup {x}  t == Append(s, x)
<1>1. s \in Seq(B) BY SeqMonotonic
<1>2. /\ t \in Seq(B) /\ Len(t) = Len(s) + 1
      /\ t[Len(s) + 1] = x
      /\ \A i \in 1 .. Len(s) : t[i] = s[i]
  BY <1>1, AppendProperties
<1>3. Len(t) \in Nat /\ DOMAIN t = 1 .. Len(t) /\ t \in [1 .. Len(t) -> B]
  BY <1>2, LenProperties
<1>4. t = [i \in 1 .. Len(t) |-> t[i]] BY <1>3
<1>5. t \in Seq(ToSet(t)) BY <1>3, <1>4, RangeSeq
<1> QED BY <1>2, <1>5

\* The indices of a sequence of this module.
LEMMA Indices ==
    ASSUME NEW s, s \in Seq(ToSet(s))
    PROVE  Len(s) \in Nat /\ DOMAIN s = 1 .. Len(s)
BY LenProperties

LEMMA SameLength ==
    ASSUME NEW m \in Nat, NEW n \in Nat, 1 .. m = 1 .. n
    PROVE  m = n
<1>1. CASE m < n
  <2>1. n \in 1 .. n /\ n \notin 1 .. m BY <1>1
  <2> QED BY <2>1
<1>2. CASE n < m
  <2>1. m \in 1 .. m /\ m \notin 1 .. n BY <1>2
  <2> QED BY <2>1
<1> QED BY <1>1, <1>2

(***************************************************************************)
(* What a step can be.                                                     *)
(***************************************************************************)
\* The line after it was read in part.
SameTags == /\ {"tags", "calcs"} \subseteq DOMAIN line => {"tags", "calcs"} \subseteq DOMAIN line'
            /\ {"tags", "calcs"} \subseteq DOMAIN line =>
                  line'.tags = line.tags /\ line'.calcs = line.calcs

\* An event, a base statistic or a register is tracked.
Tracking ==
    /\ \E e \in StatNames : TrackStat(e)
    /\ UNCHANGED <<phase, engine, default_kv, intervalVars>>
    /\ SameTags
    /\ tampered' = (tampered \/ (Running /\ stored_intervals # <<>>))
    /\ cleared' = cleared
    /\ Parsing \/ Running

\* Nothing of what the invariant speaks of changes, but for the engine.
Still ==
    /\ UNCHANGED <<trackedVars, papi, intervalVars, cleared, tampered, line>>
    /\ phase' \in {"command_line", "running", "exit 0", "exit 1", "abort"}
    /\ phase' = "command_line" => Parsing
    /\ engine' = engine \/ (Parsing /\ engine = "none" /\ engine' \in Engines)
    /\ \/ default_kv' = default_kv
       \/ default_kv' = Merge(default_kv, [k \in line.tags \cup line.calcs |-> Text])

\* Every step begins or ends an interval, writes, tracks, clears or is still.
LEMMA StepIs ==
    ASSUME TypeOK, [Next]_vars
    PROVE  \/ \E kv \in Attributes : Running /\ BeginInterval(kv)
           \/ Running /\ EndInterval
           \/ WriteCsv \/ ClearTrackedStats \/ Tracking \/ Still
<1> USE DEF configVars, trackedVars, intervalVars, historyVars
<1>1. ASSUME NEW how \in {"exit 0", "exit 1", "abort"}, Exit(how) PROVE Still
  BY <1>1 DEF Exit, Still
<1>2. CASE UNCHANGED vars BY <1>2 DEF vars, Still, TypeOK, Parsing
<1>3. CASE AskForHelp \/ MissingStatSet \/ UnknownEngine \/ CannotOpen \/ Return
  BY <1>1, <1>3 DEF AskForHelp, MissingStatSet, UnknownEngine, CannotOpen, Return
<1>4. CASE MakeCollector BY <1>4 DEF MakeCollector, Still, TypeOK
<1>5. ASSUME NEW e, TrackStat(e) PROVE e \in StatNames
  BY <1>5 DEF TrackStat, Add, CanAdd, TrackBase, IsBase, TrackRegister, StatNames,
              PapiEvents, EventSets
<1>6. ASSUME NEW e, HowRefused(e) \notin {"exit 0", "exit 1", "abort"} PROVE FALSE
  BY <1>6 DEF HowRefused
<1>7. CASE ParseStat
  <2> DEFINE e == Head(line.stats).name
  <2>1. CASE TrackStat(e)
    <3>1. e \in StatNames BY <1>5, <2>1
    <3>2. CASE Exit(HowRefused(e)) BY <1>1, <1>6, <3>2
    <3>3. CASE /\ line' = [line EXCEPT !.stats = Tail(line.stats)]
               /\ UNCHANGED <<phase, engine, tags, calcs, default_kv, current_mhz,
                              intervalVars, timer, rows, historyVars>>
      <4>1. SameTags BY <3>3 DEF SameTags
      <4>2. ~Running BY <1>7 DEF ParseStat, Parsing, Running
      <4>3. tampered' = (tampered \/ (Running /\ stored_intervals # <<>>))
        BY <3>3, <4>2 DEF TypeOK
      <4> HIDE DEF e
      <4> QED BY <1>7, <2>1, <3>1, <3>3, <4>1, <4>3 DEF Tracking, ParseStat
    <3> QED BY <1>7, <3>2, <3>3 DEF ParseStat
  <2>2. CASE ~TrackStat(e)
    <3>1. Exit(HowRefused(e)) BY <1>7, <2>2 DEF ParseStat
    <3> QED BY <1>1, <1>6, <3>1
  <2> QED BY <2>1, <2>2
<1>8. CASE ParseTagsAndCalcs
  BY <1>8 DEF ParseTagsAndCalcs, Still, TypeOK
<1>9. ASSUME NEW kv \in Attributes, StartTiming(kv)
      PROVE  (Running /\ BeginInterval(kv)) \/ Still
  BY <1>1, <1>9 DEF StartTiming
<1>10. CASE StopTiming BY <1>1, <1>10 DEF StopTiming
<1>11. CASE MakeTimer BY <1>11 DEF MakeTimer, Still, TypeOK, Parsing
<1>12. ASSUME NEW kv \in Attributes, NEW how \in {"timing", "calling"}, TimerGo(kv, how)
       PROVE  (Running /\ BeginInterval(kv)) \/ Still
  BY <1>1, <1>12 DEF TimerGo
<1>13. CASE CallReturns BY <1>1, <1>13 DEF CallReturns
<1>14. CASE LeaveScope
  <2>1. CASE timer = "made" /\ UNCHANGED <<phase, configVars, trackedVars, papi,
                current_mhz, intervalVars, rows, historyVars>>
    BY <2>1 DEF Still, TypeOK, Parsing
  <2> QED BY <1>1, <1>14, <2>1 DEF LeaveScope
<1>15. ASSUME NEW e \in StatNames, TrackWhileRunning(e) PROVE Tracking \/ Still
  <2>1. CASE TrackStat(e) /\ UNCHANGED <<phase, configVars, current_mhz, intervalVars,
                timer, rows, cleared>> /\ tampered' = (tampered \/ stored_intervals # <<>>)
    <3>1. Running BY <1>15 DEF TrackWhileRunning
    <3>2. SameTags BY <2>1 DEF SameTags
    <3>3. tampered' = (tampered \/ (Running /\ stored_intervals # <<>>)) BY <2>1, <3>1
    <3> QED BY <2>1, <3>1, <3>2, <3>3 DEF Tracking
  <2>2. CASE Exit(HowRefused(e)) BY <1>1, <1>6, <2>2
  <2> QED BY <1>15, <2>1, <2>2 DEF TrackWhileRunning
<1>16. ASSUME NEW e \in StatNames, RegisterStat(e) PROVE Still
  BY <1>16 DEF RegisterStat, Still, TypeOK, Parsing
<1>17. ASSUME NEW mhz \in Speeds, SetCpuClockFrequency(mhz) PROVE Still
  BY <1>17 DEF SetCpuClockFrequency, Still, TypeOK, Parsing
<1>18. CASE WriteJson BY <1>18 DEF WriteJson, Still, TypeOK, Parsing
<1> QED
  BY <1>2, <1>3, <1>4, <1>7, <1>8, <1>9, <1>10, <1>11, <1>12, <1>13, <1>14, <1>15,
     <1>16, <1>17, <1>18 DEF Next, Ended

(***************************************************************************)
(* Each part of the invariant.                                             *)
(***************************************************************************)
\* Nothing is measured, typed or named before the program runs.
LEMMA InitInv == Init => IndInv
<1> SUFFICES ASSUME Init PROVE IndInv OBVIOUS
<1> USE DEF Init
<1>1. <<>> \in Seq(ToSet(<<>>)) /\ <<>> \in Seq(PapiEvents) /\ Len(<<>>) = 0
  BY EmptySeq
<1>2. DOMAIN stored_intervals = {} BY <1>1, LenProperties
<1>3. TypeOK
  <2>1. events \in [EventSets -> Seq(PapiEvents)] BY <1>1 DEF EventSets
  <2>2. papi \in [EventSets -> [set : Seq(PapiEvents), on : BOOLEAN]] BY <1>1 DEF EventSets
  <2>3. phase = "command_line" /\ engine = "none" /\ now \in Nat \ {0} /\ current \in Nat
    OBVIOUS
  <2>4. /\ cleared \in BOOLEAN /\ tampered \in BOOLEAN /\ (cleared => tampered)
        /\ events["rapl"] \in Seq(RaplEvents)
    BY EmptySeq DEF EventSets
  <2>5. stored_intervals \in Seq(ToSet(stored_intervals)) BY <1>1
  <2> QED BY <1>2, <2>1, <2>2, <2>3, <2>4, <2>5 DEF TypeOK
<1>4. MeasuredLater /\ OneAtATime BY <1>1, <1>2 DEF MeasuredLater, OneAtATime
<1>5. InStep /\ CountsOwn /\ CountsInStep
  BY <1>2 DEF InStep, CountsOwn, CountsInStep, EventSets
<1>6. DOMAIN default_kv = {} BY DEF Empty
<1>7. NamesApart BY <1>6, NamesAssumption DEF NamesApart
<1> QED BY <1>3, <1>4, <1>5, <1>7 DEF IndInv

\* The events remembered and those of PAPI, when one is tracked.
LEMMA TrackTypes ==
    ASSUME TypeOK, NEW e, TrackStat(e)
    PROVE  /\ events' \in [EventSets -> Seq(PapiEvents)]
           /\ events'["rapl"] \in Seq(RaplEvents)
           /\ papi' \in [EventSets -> [set : Seq(PapiEvents), on : BOOLEAN]]
           /\ (\A s \in EventSets : events[s] = papi[s].set) =>
                  \A s \in EventSets : events'[s] = papi'[s].set
<1>1. CASE UNCHANGED <<events, papi>> BY <1>1 DEF TypeOK
<1>2. ASSUME NEW s \in EventSets, Add(s, e)
      PROVE  /\ events' \in [EventSets -> Seq(PapiEvents)]
             /\ events'["rapl"] \in Seq(RaplEvents)
             /\ papi' \in [EventSets -> [set : Seq(PapiEvents), on : BOOLEAN]]
             /\ (\A r \in EventSets : events[r] = papi[r].set) =>
                    \A r \in EventSets : events'[r] = papi'[r].set
  <2>1. e \in PapiEvents BY <1>2 DEF Add, CanAdd, EventSets, PapiEvents
  <2>2. events' = [events EXCEPT ![s] = Append(events[s], e)]
    BY <1>2 DEF Add
  <2>3. papi' = [papi EXCEPT ![s] = [papi[s] EXCEPT !.set = Append(papi[s].set, e)]]
    BY <1>2 DEF Add
  <2>4. /\ Append(events[s], e) \in Seq(PapiEvents)
        /\ Append(papi[s].set, e) \in Seq(PapiEvents)
    BY <2>1, AppendProperties DEF TypeOK
  <2>5. events'["rapl"] \in Seq(RaplEvents)
    <3>1. CASE s = "rapl"
      <4>1. e \in RaplEvents BY <1>2, <3>1 DEF Add, CanAdd
      <4>2. Append(events["rapl"], e) \in Seq(RaplEvents)
        BY <4>1, AppendProperties DEF TypeOK
      <4> QED BY <2>2, <3>1, <4>2 DEF TypeOK
    <3>2. CASE s # "rapl" BY <2>2, <3>2 DEF TypeOK, EventSets
    <3> QED BY <3>1, <3>2
  <2> QED BY <2>2, <2>3, <2>4, <2>5 DEF TypeOK
<1> QED BY <1>1, <1>2 DEF TrackStat, TrackBase, TrackRegister

\* The intervals after one has begun.
LEMMA BeginStored ==
    ASSUME TypeOK, NEW kv, BeginInterval(kv)
    PROVE  /\ Len(stored_intervals) \in Nat
           /\ DOMAIN stored_intervals = 1 .. Len(stored_intervals)
           /\ stored_intervals' \in Seq(ToSet(stored_intervals'))
           /\ Len(stored_intervals') = Len(stored_intervals) + 1
           /\ DOMAIN stored_intervals' = 1 .. Len(stored_intervals) + 1
           /\ stored_intervals'[Len(stored_intervals) + 1] = Timed(kv)
           /\ \A i \in 1 .. Len(stored_intervals) : stored_intervals'[i] = stored_intervals[i]
           /\ current' = Len(stored_intervals) + 1 /\ now' = now + 1 /\ current = 0
<1> DEFINE x == Timed(kv)
<1>1. stored_intervals' = Append(stored_intervals, x) BY DEF BeginInterval
<1>2. current' = Len(stored_intervals) + 1 /\ now' = now + 1 /\ current = 0
  BY DEF BeginInterval
<1>3. stored_intervals \in Seq(ToSet(stored_intervals)) BY DEF TypeOK
<1> HIDE DEF x
<1>4. Len(stored_intervals) \in Nat /\ DOMAIN stored_intervals = 1 .. Len(stored_intervals)
  BY <1>3, Indices
<1> DEFINE t == Append(stored_intervals, x)
<1>5. /\ t \in Seq(ToSet(t)) /\ Len(t) = Len(stored_intervals) + 1
      /\ t[Len(stored_intervals) + 1] = x
      /\ \A i \in 1 .. Len(stored_intervals) : t[i] = stored_intervals[i]
  BY <1>3, AppendSeq
<1>6. DOMAIN t = 1 .. Len(t) BY <1>5, Indices
<1> HIDE DEF t
<1>7. stored_intervals' = t BY <1>1 DEF t
<1>8. DOMAIN t = 1 .. Len(stored_intervals) + 1 BY <1>5, <1>6
<1> QED BY <1>2, <1>4, <1>5, <1>7, <1>8 DEF x

\* The intervals after one has ended.
LEMMA EndStored ==
    ASSUME TypeOK, OneAtATime, EndInterval
    PROVE  /\ Len(stored_intervals) \in Nat
           /\ DOMAIN stored_intervals = 1 .. Len(stored_intervals)
           /\ current \in 1 .. Len(stored_intervals) /\ current = Len(stored_intervals)
           /\ stored_intervals' \in Seq(ToSet(stored_intervals'))
           /\ DOMAIN stored_intervals' = 1 .. Len(stored_intervals)
           /\ stored_intervals'[current] =
                [stored_intervals[current] EXCEPT
                    !.end = now,
                    !.counts = Read("core", current) \o Read("rapl", current)]
           /\ \A i \in 1 .. Len(stored_intervals) :
                 i # current => stored_intervals'[i] = stored_intervals[i]
           /\ current' = 0 /\ now' = now + 1
<1> DEFINE n == Len(stored_intervals)
           read == Read("core", current) \o Read("rapl", current)
           iv == [stored_intervals[current] EXCEPT !.end = now, !.counts = read]
<1>1. stored_intervals \in Seq(ToSet(stored_intervals)) BY DEF TypeOK
<1>2. n \in Nat /\ DOMAIN stored_intervals = 1 .. n BY <1>1, Indices
<1>3. current # 0 /\ current' = 0 /\ now' = now + 1 BY DEF EndInterval
<1>4. current \in {0, n} BY DEF OneAtATime
<1>5. current = n /\ current \in 1 .. n
  <2>1. n \in Nat BY <1>2
  <2>2. current = n /\ n # 0 BY <1>3, <1>4
  <2> HIDE DEF n
  <2>3. n \in 1 .. n BY <2>1, <2>2
  <2> QED BY <2>2, <2>3
<1>6. stored_intervals' = [stored_intervals EXCEPT ![current] = iv]
  BY DEF EndInterval
<1> HIDE DEF read, iv, n
<1>7. stored_intervals' = [i \in 1 .. n |-> stored_intervals'[i]] BY <1>2, <1>6
<1>8. stored_intervals' \in Seq(ToSet(stored_intervals')) /\ DOMAIN stored_intervals' = 1 .. n
  BY <1>2, <1>7, RangeSeq
<1>9. /\ stored_intervals'[current] = iv
       /\ \A i \in 1 .. n : i # current => stored_intervals'[i] = stored_intervals[i]
  BY <1>2, <1>5, <1>6
<1> QED BY <1>2, <1>3, <1>5, <1>8, <1>9 DEF iv, n, read

\* The intervals after the table has been written: only their maps differ.
LEMMA WriteStored ==
    ASSUME TypeOK, WriteCsv
    PROVE  /\ stored_intervals' \in Seq(ToSet(stored_intervals'))
           /\ DOMAIN stored_intervals' = DOMAIN stored_intervals
           /\ \A i \in DOMAIN stored_intervals :
                stored_intervals'[i] = [stored_intervals[i] EXCEPT
                                          !.kv = BuildJson(stored_intervals[i], i)]
           /\ UNCHANGED <<phase, configVars, trackedVars, papi, now, current, cleared, tampered>>
<1> DEFINE n == Len(stored_intervals)
<1>1. n \in Nat /\ DOMAIN stored_intervals = 1 .. n BY Indices DEF TypeOK
<1>2. stored_intervals' = [i \in 1 .. n |-> [stored_intervals[i] EXCEPT
                                          !.kv = BuildJson(stored_intervals[i], i)]]
  BY <1>1 DEF WriteCsv
<1>3. stored_intervals' = [i \in 1 .. n |-> stored_intervals'[i]] BY <1>2
<1>4. stored_intervals' \in Seq(ToSet(stored_intervals')) /\ DOMAIN stored_intervals' = 1 .. n
  BY <1>1, <1>3, RangeSeq
<1> QED BY <1>1, <1>2, <1>4 DEF WriteCsv, historyVars


\* Starting and stopping the event sets leaves their events alone.
LEMMA Switched ==
    ASSUME TypeOK, NEW b \in BOOLEAN,
           papi' = [s \in EventSets |->
                      IF s \in Used THEN [papi[s] EXCEPT !.on = b] ELSE papi[s]]
    PROVE  /\ papi' \in [EventSets -> [set : Seq(PapiEvents), on : BOOLEAN]]
           /\ \A s \in EventSets : papi'[s].set = papi[s].set
<1> DEFINE P == [set : Seq(PapiEvents), on : BOOLEAN]
<1>1. ASSUME NEW s \in EventSets PROVE papi[s] \in P BY DEF TypeOK
<1>2. ASSUME NEW s \in EventSets
      PROVE  papi'[s] \in P /\ papi'[s].set = papi[s].set
  <2>1. papi'[s] = IF s \in Used THEN [papi[s] EXCEPT !.on = b] ELSE papi[s] OBVIOUS
  <2>2. papi[s] \in P BY <1>1
  <2>3. CASE s \in Used
    <3>1. papi'[s] = [papi[s] EXCEPT !.on = b] BY <2>1, <2>3
    <3> QED BY <2>2, <3>1
  <2>4. CASE s \notin Used
    <3>1. papi'[s] = papi[s] BY <2>1, <2>4
    <3> QED BY <2>2, <3>1
  <2> QED BY <2>3, <2>4
<1>3. papi' = [s \in EventSets |-> papi'[s]] OBVIOUS
<1> HIDE DEF P
<1>4. papi' \in [EventSets -> P] BY <1>2, <1>3
<1> QED BY <1>2, <1>4 DEF P

\* What an interval is when it begins, when it ends and when it is written.
LEMMA Begun ==
    ASSUME TypeOK, NEW kv
    PROVE  /\ IsInterval(Timed(kv)) /\ Timed(kv).begin = now /\ Timed(kv).end = 0
           /\ Timed(kv).counts = <<>> /\ Timed(kv).kv = Merge(default_kv, kv)
<1>1. now \in Nat BY DEF TypeOK
<1> QED BY <1>1 DEF IsInterval, Timed

LEMMA Done ==
    ASSUME NEW iv, IsInterval(iv), NEW t \in Nat, NEW c, NEW e,
           e = [iv EXCEPT !.end = t, !.counts = c]
    PROVE  IsInterval(e) /\ e.begin = iv.begin /\ e.end = t /\ e.counts = c /\ e.kv = iv.kv
BY DEF IsInterval

LEMMA Written ==
    ASSUME NEW iv, IsInterval(iv), NEW kv, NEW e, e = [iv EXCEPT !.kv = kv]
    PROVE  /\ IsInterval(e) /\ e.begin = iv.begin /\ e.end = iv.end
           /\ e.counts = iv.counts /\ e.kv = kv
BY DEF IsInterval

LEMMA TypeStep == TypeOK /\ OneAtATime /\ [Next]_vars => TypeOK'
<1> SUFFICES ASSUME TypeOK, OneAtATime, [Next]_vars PROVE TypeOK' OBVIOUS
<1> USE DEF configVars, trackedVars, intervalVars, historyVars
<1>0. now \in Nat \ {0} /\ current \in Nat
      /\ \A i \in DOMAIN stored_intervals : IsInterval(stored_intervals[i])
  BY DEF TypeOK
<1>1. ASSUME NEW kv \in Attributes, BeginInterval(kv) PROVE TypeOK'
  <2>1. papi' = [s \in EventSets |->
                   IF s \in Used THEN [papi[s] EXCEPT !.on = TRUE] ELSE papi[s]]
    BY <1>1 DEF BeginInterval
  <2>2. papi' \in [EventSets -> [set : Seq(PapiEvents), on : BOOLEAN]] BY <2>1, Switched
  <2>3. /\ Len(stored_intervals) \in Nat
        /\ DOMAIN stored_intervals = 1 .. Len(stored_intervals)
        /\ stored_intervals' \in Seq(ToSet(stored_intervals'))
        /\ DOMAIN stored_intervals' = 1 .. Len(stored_intervals) + 1
        /\ stored_intervals'[Len(stored_intervals) + 1] = Timed(kv)
        /\ \A i \in 1 .. Len(stored_intervals) : stored_intervals'[i] = stored_intervals[i]
        /\ current' = Len(stored_intervals) + 1 /\ now' = now + 1
    BY <1>1, BeginStored
  <2>4. IsInterval(Timed(kv)) BY Begun
  <2>5. \A i \in DOMAIN stored_intervals' : IsInterval(stored_intervals'[i])
    BY <1>0, <2>3, <2>4
  <2>6. now' \in Nat \ {0} /\ current' \in Nat BY <1>0, <2>3
  <2>7. UNCHANGED <<phase, engine, events, cleared, tampered>> BY <1>1 DEF BeginInterval
  <2> QED BY <2>2, <2>3, <2>5, <2>6, <2>7 DEF TypeOK, IsInterval
<1>2. CASE EndInterval
  <2>1. papi' = [s \in EventSets |->
                   IF s \in Used THEN [papi[s] EXCEPT !.on = FALSE] ELSE papi[s]]
    BY <1>2 DEF EndInterval
  <2>2. papi' \in [EventSets -> [set : Seq(PapiEvents), on : BOOLEAN]] BY <2>1, Switched
  <2> DEFINE c == Read("core", current) \o Read("rapl", current)
  <2>3. /\ current \in DOMAIN stored_intervals
        /\ stored_intervals' \in Seq(ToSet(stored_intervals'))
        /\ DOMAIN stored_intervals' = DOMAIN stored_intervals
        /\ stored_intervals'[current] =
             [stored_intervals[current] EXCEPT !.end = now, !.counts = c]
        /\ \A i \in DOMAIN stored_intervals :
             i # current => stored_intervals'[i] = stored_intervals[i]
        /\ current' = 0 /\ now' = now + 1
    BY <1>2, EndStored
  <2> HIDE DEF c
  <2>4. IsInterval(stored_intervals'[current])
    <3>1. IsInterval(stored_intervals[current]) /\ now \in Nat BY <1>0, <2>3
    <3>2. stored_intervals'[current] =
             [stored_intervals[current] EXCEPT !.end = now, !.counts = c] BY <2>3
    <3> QED BY <3>1, <3>2 DEF IsInterval
  <2>5. \A i \in DOMAIN stored_intervals' : IsInterval(stored_intervals'[i])
    BY <1>0, <2>3, <2>4
  <2>6. now' \in Nat \ {0} /\ current' \in Nat BY <1>0, <2>3
  <2>7. UNCHANGED <<phase, engine, events, cleared, tampered>> BY <1>2 DEF EndInterval
  <2> QED BY <2>2, <2>3, <2>5, <2>6, <2>7 DEF TypeOK, IsInterval
<1>3. CASE WriteCsv
  <2>1. /\ stored_intervals' \in Seq(ToSet(stored_intervals'))
        /\ DOMAIN stored_intervals' = DOMAIN stored_intervals
        /\ \A i \in DOMAIN stored_intervals :
             stored_intervals'[i] = [stored_intervals[i] EXCEPT
                                       !.kv = BuildJson(stored_intervals[i], i)]
        /\ UNCHANGED <<phase, engine, events, papi, now, current, cleared, tampered>>
    BY <1>3, WriteStored
  <2>2. ASSUME NEW i \in DOMAIN stored_intervals' PROVE IsInterval(stored_intervals'[i])
    <3>1. /\ stored_intervals'[i] = [stored_intervals[i] EXCEPT
                                       !.kv = BuildJson(stored_intervals[i], i)]
          /\ IsInterval(stored_intervals[i])
      BY <1>0, <2>1
    <3> QED BY <3>1, Written
  <2> QED BY <2>1, <2>2 DEF TypeOK, IsInterval
<1>4. CASE ClearTrackedStats
  <2>1. <<>> \in Seq(PapiEvents) BY EmptySeq
  <2>2. events' \in [EventSets -> Seq(PapiEvents)] /\ events'["rapl"] \in Seq(RaplEvents)
    BY <1>4, <2>1, EmptySeq DEF ClearTrackedStats, EventSets
  <2>3. UNCHANGED <<phase, engine, papi, intervalVars>> /\ cleared' = TRUE /\ tampered' = TRUE
    BY <1>4 DEF ClearTrackedStats
  <2> QED BY <2>2, <2>3 DEF TypeOK, IsInterval
<1>5. CASE Tracking
  <2>1. PICK e \in StatNames : TrackStat(e) BY <1>5 DEF Tracking
  <2>2. /\ events' \in [EventSets -> Seq(PapiEvents)]
        /\ events'["rapl"] \in Seq(RaplEvents)
        /\ papi' \in [EventSets -> [set : Seq(PapiEvents), on : BOOLEAN]]
    BY <2>1, TrackTypes
  <2>3. /\ UNCHANGED <<phase, engine, intervalVars, cleared>>
        /\ tampered' \in BOOLEAN /\ (tampered => tampered')
    BY <1>5 DEF Tracking, TypeOK
  <2> QED BY <2>2, <2>3 DEF TypeOK, IsInterval
<1>6. CASE Still
  BY <1>6 DEF Still, TypeOK, IsInterval
<1> QED BY <1>1, <1>2, <1>3, <1>4, <1>5, <1>6, StepIs

\* The intervals are apart, and nothing is measured while the line is read.
LEMMA ApartStep ==
    TypeOK /\ MeasuredLater /\ OneAtATime /\ [Next]_vars => MeasuredLater' /\ OneAtATime'
<1> SUFFICES ASSUME TypeOK, MeasuredLater, OneAtATime, [Next]_vars
             PROVE  MeasuredLater' /\ OneAtATime'
  OBVIOUS
<1> USE DEF configVars, trackedVars, intervalVars, historyVars
<1> DEFINE n == Len(stored_intervals)
<1>0. /\ now \in Nat \ {0} /\ n \in Nat /\ DOMAIN stored_intervals = 1 .. n
      /\ \A i \in DOMAIN stored_intervals : IsInterval(stored_intervals[i])
      /\ \A i \in DOMAIN stored_intervals :
            stored_intervals[i].begin \in Nat /\ stored_intervals[i].end \in Nat
  BY Indices DEF TypeOK, IsInterval
<1>1. ASSUME NEW kv \in Attributes, Running, BeginInterval(kv)
      PROVE  MeasuredLater' /\ OneAtATime'
  <2>1. /\ stored_intervals'[n + 1] = Timed(kv)
        /\ DOMAIN stored_intervals' = 1 .. n + 1 /\ Len(stored_intervals') = n + 1
        /\ \A i \in 1 .. n : stored_intervals'[i] = stored_intervals[i]
        /\ current' = n + 1 /\ now' = now + 1 /\ current = 0
    BY <1>1, BeginStored
  <2>2. MeasuredLater'
    <3>1. phase' = phase BY <1>1 DEF BeginInterval
    <3> QED BY <1>1, <3>1 DEF MeasuredLater, Running, Parsing
  <2>3. stored_intervals'[n + 1].begin = now /\ stored_intervals'[n + 1].end = 0
    BY <2>1, Begun
  <2>4. /\ current' \in {0, Len(stored_intervals')}
        /\ \A i \in 1 .. n :
             /\ stored_intervals[i].begin < now /\ stored_intervals[i].end < now
             /\ stored_intervals[i].begin < stored_intervals[i].end
             /\ \A j \in 1 .. n : i < j => stored_intervals[i].end < stored_intervals[j].begin
    BY <1>0, <2>1 DEF OneAtATime
  <2> HIDE DEF n
  <2>5. ASSUME NEW i \in 1 .. n + 1
        PROVE  /\ stored_intervals'[i].begin < now' /\ stored_intervals'[i].end < now'
               /\ i # current' => stored_intervals'[i].begin < stored_intervals'[i].end
               /\ i = current' => stored_intervals'[i].end = 0
               /\ \A j \in 1 .. n + 1 :
                    i < j => stored_intervals'[i].end < stored_intervals'[j].begin
    <3>1. CASE i = n + 1
      <4>1. /\ stored_intervals'[i].begin = now /\ stored_intervals'[i].end = 0
            /\ i = current' /\ now' = now + 1
        BY <2>1, <2>3, <3>1
      <4>2. ~\E j \in 1 .. n + 1 : i < j BY <1>0, <3>1
      <4> QED BY <1>0, <4>1, <4>2
    <3>2. CASE i \in 1 .. n
      <4>1. stored_intervals'[i] = stored_intervals[i] /\ now' = now + 1 /\ i # current'
        BY <1>0, <2>1, <3>2
      <4>2. /\ stored_intervals[i].begin \in Nat /\ stored_intervals[i].end \in Nat
            /\ stored_intervals[i].begin < now /\ stored_intervals[i].end < now
            /\ stored_intervals[i].begin < stored_intervals[i].end
        BY <1>0, <2>4, <3>2
      <4>3. ASSUME NEW j \in 1 .. n + 1, i < j
            PROVE  stored_intervals[i].end < stored_intervals'[j].begin
        <5>1. CASE j = n + 1 BY <2>3, <4>2, <5>1
        <5>2. CASE j \in 1 .. n
          <6>1. stored_intervals'[j] = stored_intervals[j] BY <2>1, <5>2
          <6> QED BY <2>4, <3>2, <4>3, <5>2, <6>1
        <5> QED BY <1>0, <5>1, <5>2
      <4> QED BY <1>0, <4>1, <4>2, <4>3
    <3> QED BY <1>0, <3>1, <3>2
  <2>6. OneAtATime' BY <2>1, <2>4, <2>5 DEF OneAtATime
  <2> QED BY <2>2, <2>6
<1>2. CASE Running /\ EndInterval
  <2> DEFINE c == Read("core", current) \o Read("rapl", current)
  <2>1. /\ current \in 1 .. n /\ current = n
        /\ DOMAIN stored_intervals' = 1 .. n
        /\ stored_intervals'[current] =
             [stored_intervals[current] EXCEPT !.end = now, !.counts = c]
        /\ \A i \in 1 .. n : i # current => stored_intervals'[i] = stored_intervals[i]
        /\ current' = 0 /\ now' = now + 1
    BY <1>2, EndStored
  <2>2. MeasuredLater'
    <3>1. phase' = phase BY <1>2 DEF EndInterval
    <3> QED BY <1>2, <3>1 DEF MeasuredLater, Running, Parsing
  <2> HIDE DEF c
  <2>3. /\ stored_intervals'[current].begin = stored_intervals[current].begin
        /\ stored_intervals'[current].end = now
    <3>1. IsInterval(stored_intervals[current]) BY <1>0, <2>1
    <3> QED BY <2>1, <3>1 DEF IsInterval
  <2>4. \A i \in 1 .. n :
          /\ stored_intervals[i].begin < now
          /\ i # current => stored_intervals[i].begin < stored_intervals[i].end
          /\ i # current => stored_intervals[i].end < now
          /\ \A j \in 1 .. n : i < j => stored_intervals[i].end < stored_intervals[j].begin
    BY <1>0 DEF OneAtATime
  <2> HIDE DEF n
  <2>5. ASSUME NEW i \in 1 .. n
        PROVE  /\ stored_intervals'[i].begin < now' /\ stored_intervals'[i].end < now'
               /\ stored_intervals'[i].begin < stored_intervals'[i].end
               /\ \A j \in 1 .. n :
                    i < j => stored_intervals'[i].end < stored_intervals'[j].begin
    <3>1. CASE i = current
      <4>1. /\ stored_intervals'[i].begin = stored_intervals[i].begin
            /\ stored_intervals'[i].end = now /\ now' = now + 1
        BY <2>1, <2>3, <3>1
      <4>2. stored_intervals[i].begin < now /\ stored_intervals[i].begin \in Nat
        BY <1>0, <2>4
      <4>3. ~\E j \in 1 .. n : i < j BY <1>0, <2>1, <3>1
      <4> QED BY <1>0, <4>1, <4>2, <4>3
    <3>2. CASE i # current
      <4>1. stored_intervals'[i] = stored_intervals[i] /\ now' = now + 1
        BY <2>1, <3>2
      <4>2. /\ stored_intervals[i].begin \in Nat /\ stored_intervals[i].end \in Nat
            /\ stored_intervals[i].begin < now /\ stored_intervals[i].end < now
            /\ stored_intervals[i].begin < stored_intervals[i].end
        BY <1>0, <2>4, <3>2
      <4>3. ASSUME NEW j \in 1 .. n, i < j
            PROVE  stored_intervals[i].end < stored_intervals'[j].begin
        <5>1. stored_intervals'[j].begin = stored_intervals[j].begin BY <2>1, <2>3
        <5>2. stored_intervals[i].end < stored_intervals[j].begin BY <2>4, <4>3
        <5> QED BY <5>1, <5>2
      <4> QED BY <1>0, <4>1, <4>2, <4>3
    <3> QED BY <3>1, <3>2
  <2>6. OneAtATime' BY <1>0, <2>1, <2>5 DEF OneAtATime
  <2> QED BY <2>2, <2>6
<1>3. CASE WriteCsv
  <2>1. /\ stored_intervals' \in Seq(ToSet(stored_intervals'))
        /\ DOMAIN stored_intervals' = DOMAIN stored_intervals
        /\ \A i \in DOMAIN stored_intervals :
             stored_intervals'[i] = [stored_intervals[i] EXCEPT
                                       !.kv = BuildJson(stored_intervals[i], i)]
        /\ UNCHANGED <<phase, now, current>>
    BY <1>3, WriteStored
  <2>2. MeasuredLater' BY <1>3, <2>1 DEF MeasuredLater, WriteCsv, Running, Parsing
  <2>3. ASSUME NEW i \in DOMAIN stored_intervals
        PROVE  /\ stored_intervals'[i].begin = stored_intervals[i].begin
               /\ stored_intervals'[i].end = stored_intervals[i].end
    <3>1. /\ IsInterval(stored_intervals[i])
          /\ stored_intervals'[i] = [stored_intervals[i] EXCEPT
                                       !.kv = BuildJson(stored_intervals[i], i)]
      BY <1>0, <2>1
    <3> QED BY <3>1, Written
  <2>4. Len(stored_intervals') = n
    <3>1. /\ Len(stored_intervals') \in Nat
          /\ DOMAIN stored_intervals' = 1 .. Len(stored_intervals')
      BY <2>1, Indices
    <3>2. 1 .. Len(stored_intervals') = 1 .. n BY <1>0, <2>1, <3>1
    <3>3. n \in Nat BY <1>0
    <3> QED BY <3>1, <3>2, <3>3, SameLength
  <2>5. OneAtATime' BY <2>1, <2>3, <2>4 DEF OneAtATime
  <2> QED BY <2>2, <2>5
<1>4. CASE ClearTrackedStats \/ Tracking \/ Still
  <2>1. UNCHANGED intervalVars /\ (phase' = "command_line" => phase = "command_line")
    BY <1>4 DEF ClearTrackedStats, Tracking, Still, Parsing
  <2> QED BY <2>1 DEF MeasuredLater, Parsing, OneAtATime
<1> QED BY <1>1, <1>2, <1>3, <1>4, StepIs

\* The collector's lists and PAPI's stay the same, until somebody clears them.
LEMMA InStepStep == TypeOK /\ InStep /\ [Next]_vars => InStep'
<1> SUFFICES ASSUME TypeOK, InStep, [Next]_vars, ~cleared'
             PROVE  \A s \in EventSets : events'[s] = papi'[s].set
  BY DEF InStep
<1> USE DEF configVars, trackedVars, intervalVars, historyVars
<1>1. ASSUME NEW kv \in Attributes, BeginInterval(kv)
      PROVE  \A s \in EventSets : events'[s] = papi'[s].set
  <2>1. papi' = [s \in EventSets |->
                   IF s \in Used THEN [papi[s] EXCEPT !.on = TRUE] ELSE papi[s]]
    BY <1>1 DEF BeginInterval
  <2>2. \A s \in EventSets : papi'[s].set = papi[s].set BY <2>1, Switched
  <2>3. events' = events /\ cleared' = cleared BY <1>1 DEF BeginInterval
  <2> QED BY <2>2, <2>3 DEF InStep
<1>2. CASE EndInterval
  <2>1. papi' = [s \in EventSets |->
                   IF s \in Used THEN [papi[s] EXCEPT !.on = FALSE] ELSE papi[s]]
    BY <1>2 DEF EndInterval
  <2>2. \A s \in EventSets : papi'[s].set = papi[s].set BY <2>1, Switched
  <2>3. events' = events /\ cleared' = cleared BY <1>2 DEF EndInterval
  <2> QED BY <2>2, <2>3 DEF InStep
<1>3. CASE WriteCsv
  <2>1. events' = events /\ papi' = papi /\ cleared' = cleared BY <1>3, WriteStored
  <2> QED BY <2>1 DEF InStep
<1>4. CASE ClearTrackedStats BY <1>4 DEF ClearTrackedStats
<1>5. CASE Tracking
  <2>1. PICK e \in StatNames : TrackStat(e) BY <1>5 DEF Tracking
  <2>2. ~cleared BY <1>5 DEF Tracking
  <2>3. \A s \in EventSets : events[s] = papi[s].set BY <2>2 DEF InStep
  <2> QED BY <2>1, <2>3, TrackTypes
<1>6. CASE Still BY <1>6 DEF Still, InStep
<1> QED BY <1>1, <1>2, <1>3, <1>4, <1>5, <1>6, StepIs

\* What is tracked besides events, and what every interval has, are no events.
LEMMA NamesStep == TypeOK /\ NamesApart /\ [Next]_vars => NamesApart'
<1> SUFFICES ASSUME TypeOK, NamesApart, [Next]_vars PROVE NamesApart' OBVIOUS
<1> USE DEF configVars, trackedVars, intervalVars, historyVars
<1>1. ASSUME UNCHANGED <<default_kv, line, my_stats>>,
             tracked_registers' \subseteq tracked_registers
      PROVE  NamesApart'
  BY <1>1 DEF NamesApart
<1>2. ASSUME NEW kv \in Attributes, BeginInterval(kv) PROVE NamesApart'
  BY <1>1, <1>2 DEF BeginInterval
<1>3. CASE EndInterval BY <1>1, <1>3 DEF EndInterval
<1>4. CASE WriteCsv BY <1>1, <1>4 DEF WriteCsv
<1>5. CASE ClearTrackedStats BY <1>1, <1>5 DEF ClearTrackedStats
<1>6. CASE Tracking
  <2>1. PICK e \in StatNames : TrackStat(e) BY <1>6 DEF Tracking
  <2>2. my_stats' \subseteq BaseStats /\ tracked_registers' \subseteq Registers
    BY <2>1 DEF NamesApart, TrackStat, Add, TrackBase, IsBase, TrackRegister
  <2>3. default_kv' = default_kv /\ SameTags BY <1>6 DEF Tracking
  <2> QED BY <2>2, <2>3 DEF NamesApart, SameTags
<1>7. CASE Still
  <2>1. UNCHANGED <<line, my_stats, tracked_registers>> BY <1>7 DEF Still
  <2>2. CASE default_kv' = default_kv BY <1>1, <2>1, <2>2
  <2>3. CASE default_kv' = Merge(default_kv, [k \in line.tags \cup line.calcs |-> Text])
    <3>1. DOMAIN default_kv' = DOMAIN default_kv \cup (line.tags \cup line.calcs)
      BY <2>3 DEF Merge
    <3> QED BY <2>1, <3>1 DEF NamesApart
  <2> QED BY <1>7, <2>2, <2>3 DEF Still
<1> QED BY <1>2, <1>3, <1>4, <1>5, <1>6, <1>7, StepIs

\* What is read when an interval ends, in step: the count of every event.
LEMMA ReadInStep ==
    ASSUME TypeOK, InStep, ~cleared, NEW i
    PROVE  Read("core", i) \o Read("rapl", i) =
             IF engine = "papi" THEN [k \in 1 .. Len(AllEvents) |-> <<"count", AllEvents[k], i>>]
                                ELSE <<>>
<1> DEFINE C == events["core"]  R == events["rapl"]
           V == {<<"count", e, i>> : e \in PapiEvents}
           rc == Read("core", i)  rr == Read("rapl", i)
<1>1. C \in Seq(PapiEvents) /\ R \in Seq(PapiEvents) BY DEF TypeOK, EventSets
<1>2. /\ Len(C) \in Nat /\ DOMAIN C = 1 .. Len(C)
      /\ Len(R) \in Nat /\ DOMAIN R = 1 .. Len(R)
      /\ \A k \in 1 .. Len(C) : C[k] \in PapiEvents
      /\ \A k \in 1 .. Len(R) : R[k] \in PapiEvents
  BY <1>1, LenProperties, ElementOfSeq
<1>3. CASE engine # "papi"
  <2>1. rc = <<>> /\ rr = <<>> BY <1>3 DEF Read, Used
  <2>2. <<>> \o <<>> = <<>> OBVIOUS
  <2> QED BY <1>3, <2>1, <2>2
<1>4. CASE engine = "papi"
  <2>1. ASSUME NEW s \in EventSets
        PROVE  Read(s, i) = [k \in 1 .. Len(events[s]) |-> <<"count", events[s][k], i>>]
    <3>1. events[s] \in Seq(PapiEvents) /\ papi[s].set = events[s]
      BY DEF TypeOK, InStep
    <3>2. Len(events[s]) \in Nat /\ DOMAIN events[s] = 1 .. Len(events[s])
      BY <3>1, LenProperties
    <3>3. CASE events[s] # <<>>
      <4>1. s \in Used BY <1>4, <3>3 DEF Used
      <4> QED BY <3>1, <3>2, <4>1 DEF Read
    <3>4. CASE events[s] = <<>>
      <4>1. s \notin Used /\ Len(events[s]) = 0 BY <3>4 DEF Used
      <4>2. Read(s, i) = <<>> BY <4>1 DEF Read
      <4>3. [k \in 1 .. 0 |-> <<"count", events[s][k], i>>] = <<>> OBVIOUS
      <4> QED BY <4>1, <4>2, <4>3
    <3> QED BY <3>3, <3>4
  <2>2. /\ rc = [k \in 1 .. Len(C) |-> <<"count", C[k], i>>]
        /\ rr = [k \in 1 .. Len(R) |-> <<"count", R[k], i>>]
    BY <2>1 DEF EventSets
  <2> HIDE DEF rc, rr
  <2>3. rc \in Seq(V) /\ rr \in Seq(V)
    <3>1. rc \in [1 .. Len(C) -> V] /\ rr \in [1 .. Len(R) -> V] BY <1>2, <2>2
    <3> HIDE DEF V
    <3> QED BY <1>2, <3>1, SeqDef
  <2>4. Len(rc) = Len(C) /\ Len(rr) = Len(R)
    <3>1. /\ Len(rc) \in Nat /\ DOMAIN rc = 1 .. Len(rc)
          /\ Len(rr) \in Nat /\ DOMAIN rr = 1 .. Len(rr)
      BY <2>3, LenProperties
    <3>2. DOMAIN rc = 1 .. Len(C) /\ DOMAIN rr = 1 .. Len(R) BY <2>2
    <3> QED BY <1>2, <3>1, <3>2, SameLength
  <2>5. /\ C \o R \in Seq(PapiEvents) /\ Len(C \o R) = Len(C) + Len(R)
        /\ \A k \in 1 .. Len(C) + Len(R) :
              (C \o R)[k] = IF k <= Len(C) THEN C[k] ELSE R[k - Len(C)]
    BY <1>1, ConcatProperties
  <2>6. /\ rc \o rr \in Seq(V) /\ Len(rc \o rr) = Len(C) + Len(R)
        /\ \A k \in 1 .. Len(C) + Len(R) :
              (rc \o rr)[k] = IF k <= Len(C) THEN rc[k] ELSE rr[k - Len(C)]
    <3> HIDE DEF V
    <3>1. /\ rc \o rr \in Seq(V) /\ Len(rc \o rr) = Len(rc) + Len(rr)
          /\ \A k \in 1 .. Len(rc) + Len(rr) :
                (rc \o rr)[k] = IF k <= Len(rc) THEN rc[k] ELSE rr[k - Len(rc)]
      BY <2>3, ConcatProperties
    <3> QED BY <2>4, <3>1
  <2>7. Len(C) + Len(R) \in Nat /\ Len(AllEvents) = Len(C) + Len(R)
    <3>1. Len(C) \in Nat /\ Len(R) \in Nat BY <1>2
    <3>2. AllEvents = C \o R BY DEF AllEvents
    <3> HIDE DEF C, R
    <3> QED BY <2>5, <3>1, <3>2
  <2>8. ASSUME NEW k \in 1 .. Len(C) + Len(R)
        PROVE  (rc \o rr)[k] = <<"count", AllEvents[k], i>>
    <3>1. CASE k <= Len(C)
      <4>1. k \in 1 .. Len(C) BY <1>2, <3>1
      <4>2. (rc \o rr)[k] = rc[k] BY <2>6, <3>1
      <4>3. AllEvents[k] = C[k] BY <2>5, <3>1 DEF AllEvents
      <4>4. rc[k] = <<"count", C[k], i>> BY <2>2, <4>1
      <4> QED BY <4>2, <4>3, <4>4
    <3>2. CASE ~(k <= Len(C))
      <4>1. k - Len(C) \in 1 .. Len(R)
        <5>1. Len(C) \in Nat /\ Len(R) \in Nat BY <1>2
        <5> HIDE DEF C, R
        <5> QED BY <3>2, <5>1
      <4>2. (rc \o rr)[k] = rr[k - Len(C)] BY <2>6, <3>2
      <4>3. AllEvents[k] = R[k - Len(C)] BY <2>5, <3>2 DEF AllEvents
      <4>4. rr[k - Len(C)] = <<"count", R[k - Len(C)], i>> BY <2>2, <4>1
      <4> QED BY <4>2, <4>3, <4>4
    <3> QED BY <3>1, <3>2
  <2>9. rc \o rr = [k \in 1 .. Len(C) + Len(R) |-> (rc \o rr)[k]]
    <3> HIDE DEF V
    <3>1. rc \o rr \in [1 .. Len(rc \o rr) -> V] BY <2>6, LenProperties
    <3>2. Len(rc \o rr) = Len(C) + Len(R) BY <2>6
    <3> QED BY <3>1, <3>2
  <2>10. rc \o rr = [k \in 1 .. Len(AllEvents) |-> <<"count", AllEvents[k], i>>]
    BY <2>7, <2>8, <2>9
  <2> QED BY <1>4, <2>10 DEF rc, rr
<1> QED BY <1>3, <1>4

\* Whatever is stored was counted in step.
LEMMA CountsStep ==
    /\ TypeOK /\ MeasuredLater /\ OneAtATime /\ InStep /\ CountsInStep
    /\ [Next]_vars
    => CountsInStep'
<1> SUFFICES ASSUME TypeOK, MeasuredLater, OneAtATime, InStep, CountsInStep, [Next]_vars,
                    ~tampered'
             PROVE  CountsInStep'
  BY DEF CountsInStep
<1> USE DEF configVars, trackedVars, intervalVars, historyVars
<1>0. /\ \A i \in DOMAIN stored_intervals : IsInterval(stored_intervals[i])
      /\ now \in Nat /\ now # 0
  BY DEF TypeOK
<1> DEFINE Counts(i) ==
             IF engine = "papi"
             THEN [k \in 1 .. Len(AllEvents) |-> <<"count", AllEvents[k], i>>] ELSE <<>>
<1>1. ASSUME NEW kv \in Attributes, BeginInterval(kv) PROVE CountsInStep'
  <2>1. /\ DOMAIN stored_intervals = 1 .. Len(stored_intervals)
        /\ Len(stored_intervals) \in Nat
        /\ DOMAIN stored_intervals' = 1 .. Len(stored_intervals) + 1
        /\ stored_intervals'[Len(stored_intervals) + 1] = Timed(kv)
        /\ \A i \in 1 .. Len(stored_intervals) : stored_intervals'[i] = stored_intervals[i]
    BY <1>1, BeginStored
  <2>2. events' = events /\ engine' = engine /\ tampered' = tampered
    BY <1>1 DEF BeginInterval
  <2>3. Timed(kv).end = 0 /\ Timed(kv).counts = <<>> BY Begun
  <2>4. AllEvents' = AllEvents BY <2>2 DEF AllEvents
  <2>5. ASSUME NEW i \in DOMAIN stored_intervals'
        PROVE  stored_intervals'[i].counts =
                 IF engine' = "papi" /\ Finished(stored_intervals'[i])
                 THEN [k \in 1 .. Len(AllEvents') |-> <<"count", AllEvents'[k], i>>]
                 ELSE <<>>
    <3>1. CASE i = Len(stored_intervals) + 1 BY <2>1, <2>3, <3>1 DEF Finished
    <3>2. CASE i \in DOMAIN stored_intervals
      <4>1. stored_intervals'[i] = stored_intervals[i] BY <2>1, <3>2
      <4>2. stored_intervals[i].counts =
              IF engine = "papi" /\ Finished(stored_intervals[i])
              THEN [k \in 1 .. Len(AllEvents) |-> <<"count", AllEvents[k], i>>]
              ELSE <<>>
        BY <2>2, <3>2 DEF CountsInStep
      <4> QED BY <2>2, <2>4, <4>1, <4>2
    <3> QED BY <2>1, <3>1, <3>2
  <2> QED BY <2>5 DEF CountsInStep, Finished
<1>2. CASE EndInterval
  <2> DEFINE c == Read("core", current) \o Read("rapl", current)
  <2>1. /\ current \in DOMAIN stored_intervals
        /\ DOMAIN stored_intervals' = DOMAIN stored_intervals
        /\ stored_intervals'[current] =
             [stored_intervals[current] EXCEPT !.end = now, !.counts = c]
        /\ \A i \in DOMAIN stored_intervals :
             i # current => stored_intervals'[i] = stored_intervals[i]
    BY <1>2, EndStored
  <2>2. events' = events /\ engine' = engine /\ tampered' = tampered
    BY <1>2 DEF EndInterval
  <2>3. AllEvents' = AllEvents BY <2>2 DEF AllEvents
  <2>4. c = Counts(current)
    <3>1. ~cleared BY <2>2 DEF TypeOK
    <3> QED BY <3>1, ReadInStep
  <2> HIDE DEF c
  <2>5. stored_intervals'[current].end = now /\ stored_intervals'[current].counts = c
    <3>1. IsInterval(stored_intervals[current]) BY <1>0, <2>1
    <3> QED BY <2>1, <3>1 DEF IsInterval
  <2>6. ASSUME NEW i \in DOMAIN stored_intervals'
        PROVE  stored_intervals'[i].counts =
                 IF engine' = "papi" /\ Finished(stored_intervals'[i])
                 THEN [k \in 1 .. Len(AllEvents') |-> <<"count", AllEvents'[k], i>>]
                 ELSE <<>>
    <3>1. CASE i = current
      <4>1. Finished(stored_intervals'[i]) BY <1>0, <2>5, <3>1 DEF Finished
      <4>2. stored_intervals'[i].counts = Counts(i) BY <2>4, <2>5, <3>1
      <4> QED BY <2>2, <2>3, <4>1, <4>2
    <3>2. CASE i # current
      <4>1. stored_intervals'[i] = stored_intervals[i] BY <2>1, <3>2
      <4>2. stored_intervals[i].counts =
              IF engine = "papi" /\ Finished(stored_intervals[i])
              THEN [k \in 1 .. Len(AllEvents) |-> <<"count", AllEvents[k], i>>]
              ELSE <<>>
        BY <2>1, <2>2 DEF CountsInStep
      <4> QED BY <2>2, <2>3, <4>1, <4>2
    <3> QED BY <3>1, <3>2
  <2> QED BY <2>6 DEF CountsInStep, Finished
<1>3. CASE WriteCsv
  <2>1. /\ DOMAIN stored_intervals' = DOMAIN stored_intervals
        /\ \A i \in DOMAIN stored_intervals :
             stored_intervals'[i] = [stored_intervals[i] EXCEPT
                                       !.kv = BuildJson(stored_intervals[i], i)]
        /\ engine' = engine /\ events' = events /\ tampered' = tampered
    BY <1>3, WriteStored
  <2>2. AllEvents' = AllEvents BY <2>1 DEF AllEvents
  <2>3. ASSUME NEW i \in DOMAIN stored_intervals
        PROVE  /\ stored_intervals'[i].counts = stored_intervals[i].counts
               /\ stored_intervals'[i].end = stored_intervals[i].end
    <3>1. /\ IsInterval(stored_intervals[i])
          /\ stored_intervals'[i] = [stored_intervals[i] EXCEPT
                                       !.kv = BuildJson(stored_intervals[i], i)]
      BY <1>0, <2>1
    <3> QED BY <3>1, Written
  <2> QED BY <2>1, <2>2, <2>3 DEF CountsInStep, Finished
<1>4. CASE ClearTrackedStats BY <1>4 DEF ClearTrackedStats
<1>5. CASE Tracking
  <2>1. stored_intervals = <<>> BY <1>5 DEF Tracking, MeasuredLater
  <2>2. stored_intervals' = <<>> BY <1>5, <2>1 DEF Tracking
  <2>3. DOMAIN stored_intervals' = {} BY <2>2
  <2> QED BY <2>3 DEF CountsInStep
<1>6. CASE Still
  <2>1. UNCHANGED <<events, stored_intervals, tampered>> BY <1>6 DEF Still
  <2>2. CASE engine' = engine BY <2>1, <2>2 DEF CountsInStep, AllEvents
  <2>3. CASE Parsing
    <3>1. DOMAIN stored_intervals' = {} BY <2>1, <2>3 DEF MeasuredLater
    <3> QED BY <3>1 DEF CountsInStep
  <2> QED BY <1>6, <2>2, <2>3 DEF Still
<1> QED BY <1>1, <1>2, <1>3, <1>4, <1>5, <1>6, StepIs

\* The lists of events may have become longer.
Grown ==
    \A s \in EventSets :
        /\ Len(events[s]) <= Len(events'[s])
        /\ \A k \in 1 .. Len(events[s]) : events'[s][k] = events[s][k]

\* The lists as the lemmas use them.
LEMMA Lists ==
    ASSUME TypeOK, NEW s \in EventSets
    PROVE  /\ events[s] \in Seq(PapiEvents)
           /\ Len(events[s]) \in Nat /\ DOMAIN events[s] = 1 .. Len(events[s])
           /\ \A k \in 1 .. Len(events[s]) : events[s][k] \in PapiEvents
<1>1. events[s] \in Seq(PapiEvents) BY DEF TypeOK
<1> QED BY <1>1, LenProperties, ElementOfSeq

LEMMA TrackGrows ==
    ASSUME TypeOK, NEW e, TrackStat(e)
    PROVE  Grown
<1>1. \A s \in EventSets : Len(events[s]) \in Nat BY Lists
<1>2. CASE UNCHANGED events BY <1>1, <1>2 DEF Grown
<1>3. ASSUME NEW s \in EventSets, Add(s, e) PROVE Grown
  <2>1. events' = [events EXCEPT ![s] = Append(events[s], e)] BY <1>3 DEF Add
  <2>2. e \in PapiEvents BY <1>3 DEF Add, CanAdd, EventSets, PapiEvents
  <2>3. events[s] \in Seq(PapiEvents) BY Lists
  <2> DEFINE t == Append(events[s], e)
  <2>4. /\ Len(t) = Len(events[s]) + 1
        /\ \A k \in 1 .. Len(events[s]) : t[k] = events[s][k]
    BY <2>2, <2>3, AppendProperties
  <2> HIDE DEF t
  <2>5. events'[s] = t BY <2>1 DEF TypeOK, t
  <2>6. ASSUME NEW q \in EventSets, q # s PROVE events'[q] = events[q]
    BY <2>1, <2>6 DEF TypeOK
  <2>7. ASSUME NEW q \in EventSets
        PROVE  /\ Len(events[q]) <= Len(events'[q])
               /\ \A k \in 1 .. Len(events[q]) : events'[q][k] = events[q][k]
    <3>1. CASE q = s
      <4>1. Len(events[s]) <= Len(t) BY <1>1, <2>4
      <4> QED BY <2>4, <2>5, <3>1, <4>1
    <3>2. CASE q # s
      <4>1. Len(events[q]) <= Len(events[q]) BY <1>1
      <4> QED BY <2>6, <3>2, <4>1
    <3> QED BY <3>1, <3>2
  <2> QED BY <2>7 DEF Grown
<1> QED BY <1>2, <1>3 DEF TrackStat, TrackBase, TrackRegister

\* What an interval has read stays its own, while the lists only grow, and
\* what they shift stays shifted.
LEMMA OwnKept ==
    ASSUME TypeOK, TypeOK', NEW i, OwnCounts(i),
           stored_intervals'[i].counts = stored_intervals[i].counts,
           stored_intervals'[i].end = stored_intervals[i].end,
           cleared => cleared', cleared' \/ Grown
    PROVE  OwnCounts(i)' /\ (Shifted(i) => cleared' \/ Shifted(i)')
<1> DEFINE n == stored_intervals[i].counts
           C == Len(events["core"])  R == Len(events["rapl"])
           C1 == Len(events'["core"])  R1 == Len(events'["rapl"])
<1>1. /\ n \in Seq(Own(i) \cup {Undefined})
      /\ stored_intervals[i].end = 0 => n = <<>>
      /\ ~cleared => \E c \in 0 .. C, r \in 0 .. R : ReadInTurn(stored_intervals[i], i, c, r)
  BY DEF OwnCounts, Finished
<1>2. "core" \in EventSets /\ "rapl" \in EventSets BY DEF EventSets
<1>3. C \in Nat /\ R \in Nat /\ DOMAIN events["core"] = 1 .. C BY <1>2, Lists
<1>4. C1 \in Nat /\ R1 \in Nat /\ DOMAIN events'["core"] = 1 .. C1
  <2>1. /\ events'["core"] \in Seq(PapiEvents)
        /\ events'["rapl"] \in Seq(PapiEvents)
    BY <1>2 DEF TypeOK
  <2> QED BY <2>1, LenProperties
<1>5. CASE cleared'
  <2>1. OwnCounts(i)' BY <1>1, <1>5 DEF OwnCounts, Finished, Own
  <2> QED BY <1>5, <2>1
<1>6. CASE ~cleared'
  <2>1. ~cleared BY <1>6
  <2>2. /\ C <= C1 /\ \A k \in 1 .. C : events'["core"][k] = events["core"][k]
        /\ R <= R1 /\ \A k \in 1 .. R : events'["rapl"][k] = events["rapl"][k]
    BY <1>2, <1>6 DEF Grown
  <2>3. PICK c \in 0 .. C, r \in 0 .. R : ReadInTurn(stored_intervals[i], i, c, r)
    BY <1>1, <2>1
  <2>4. /\ Len(n) = c + r
        /\ \A k \in 1 .. c : n[k] = <<"count", events["core"][k], i>>
        /\ \A k \in 1 .. r : n[c + k] = <<"count", events["rapl"][k], i>>
    BY <2>3 DEF ReadInTurn
  <2>5. stored_intervals'[i].counts = n OBVIOUS
  <2> HIDE DEF n, C, R, C1, R1
  <2>6. c \in 0 .. C1 /\ r \in 0 .. R1 /\ 1 .. c \subseteq 1 .. C /\ 1 .. r \subseteq 1 .. R
    BY <1>3, <1>4, <2>2
  <2>7. /\ \A k \in 1 .. c : n[k] = <<"count", events'["core"][k], i>>
        /\ \A k \in 1 .. r : n[c + k] = <<"count", events'["rapl"][k], i>>
    BY <2>2, <2>4, <2>6
  <2>8. ReadInTurn(stored_intervals[i], i, c, r)' BY <2>4, <2>5, <2>7 DEF ReadInTurn
  <2>9. OwnCounts(i)'
    BY <1>1, <2>5, <2>6, <2>8 DEF OwnCounts, Finished, Own, C1, R1, n
  <2>10. 1 .. C \subseteq 1 .. C1 BY <1>3, <1>4, <2>2
  <2>11. Shifted(i) => Shifted(i)' BY <1>3, <1>4, <2>5, <2>10 DEF Shifted, n
  <2> QED BY <2>9, <2>11
<1> QED BY <1>5, <1>6

\* What PAPI stores is of the interval under way.
LEMMA ReadOwn ==
    ASSUME TypeOK, NEW i
    PROVE  Read("core", i) \o Read("rapl", i) \in Seq(Own(i) \cup {Undefined})
<1> DEFINE V == Own(i) \cup {Undefined}
<1>1. ASSUME NEW s \in EventSets PROVE Read(s, i) \in Seq(V)
  <2>1. CASE s \notin Used
    <3>1. Read(s, i) = <<>> BY <2>1 DEF Read
    <3> HIDE DEF V
    <3> QED BY <3>1, EmptySeq
  <2>2. CASE s \in Used
    <3>1. Len(events[s]) \in Nat BY Lists
    <3>2. papi[s].set \in Seq(PapiEvents) BY DEF TypeOK
    <3>3. \A k \in DOMAIN papi[s].set : papi[s].set[k] \in PapiEvents
      BY <3>2, LenProperties, ElementOfSeq
    <3>4. Read(s, i) = [k \in 1 .. Len(events[s]) |->
                          IF k \in DOMAIN papi[s].set
                          THEN <<"count", papi[s].set[k], i>> ELSE Undefined]
      BY <2>2 DEF Read
    <3>5. Read(s, i) \in [1 .. Len(events[s]) -> V] BY <3>3, <3>4 DEF Own
    <3> HIDE DEF V
    <3> QED BY <3>1, <3>5, SeqDef
  <2> QED BY <2>1, <2>2
<1>2. Read("core", i) \in Seq(V) /\ Read("rapl", i) \in Seq(V) BY <1>1 DEF EventSets
<1> HIDE DEF V
<1>3. Read("core", i) \o Read("rapl", i) \in Seq(V) BY <1>2, ConcatProperties
<1> QED BY <1>3 DEF V

\* Every event in turn, as ReadInTurn says it.
LEMMA AllInTurn ==
    ASSUME TypeOK, NEW iv, NEW i,
           iv.counts = [k \in 1 .. Len(AllEvents) |-> <<"count", AllEvents[k], i>>]
    PROVE  ReadInTurn(iv, i, Len(events["core"]), Len(events["rapl"]))
<1> DEFINE C == events["core"]  R == events["rapl"]  n == iv.counts
<1>1. /\ C \in Seq(PapiEvents) /\ Len(C) \in Nat
      /\ R \in Seq(PapiEvents) /\ Len(R) \in Nat
  BY Lists DEF EventSets
<1>2. /\ Len(AllEvents) = Len(C) + Len(R)
      /\ \A k \in 1 .. Len(C) + Len(R) :
            AllEvents[k] = IF k <= Len(C) THEN C[k] ELSE R[k - Len(C)]
  BY <1>1, ConcatProperties DEF AllEvents
<1>3. n = [k \in 1 .. Len(C) + Len(R) |-> <<"count", AllEvents[k], i>>] BY <1>2
<1> HIDE DEF C, R, n
<1>4. Len(C) + Len(R) \in Nat BY <1>1
<1>5. n = [k \in 1 .. Len(C) + Len(R) |-> n[k]] BY <1>3
<1>6. Len(n) = Len(C) + Len(R) BY <1>4, <1>5, RangeSeq
<1>7. ASSUME NEW k \in 1 .. Len(C) PROVE n[k] = <<"count", C[k], i>>
  <2>1. k \in 1 .. Len(C) + Len(R) /\ k <= Len(C) BY <1>1
  <2> QED BY <1>2, <1>3, <2>1
<1>8. ASSUME NEW k \in 1 .. Len(R) PROVE n[Len(C) + k] = <<"count", R[k], i>>
  <2>1. PICK j : j = Len(C) + k OBVIOUS
  <2>2. j \in 1 .. Len(C) + Len(R) /\ ~(j <= Len(C)) /\ j - Len(C) = k BY <1>1, <2>1
  <2>3. AllEvents[j] = R[k] BY <1>2, <2>2
  <2> QED BY <1>3, <2>1, <2>2, <2>3
<1> QED BY <1>6, <1>7, <1>8 DEF ReadInTurn, n, C, R

\* What is stored was read in its own interval, in turn.
LEMMA OwnStep ==
    TypeOK /\ OneAtATime /\ InStep /\ CountsOwn /\ [Next]_vars => CountsOwn'
<1> SUFFICES ASSUME TypeOK, OneAtATime, InStep, CountsOwn, [Next]_vars
             PROVE  CountsOwn'
  OBVIOUS
<1> USE DEF configVars, trackedVars, intervalVars, historyVars
<1>0. /\ \A i \in DOMAIN stored_intervals : IsInterval(stored_intervals[i]) /\ OwnCounts(i)
      /\ now \in Nat /\ now # 0
      /\ TypeOK'
      /\ \A s \in EventSets : Len(events[s]) \in Nat
  BY TypeStep, Lists DEF TypeOK, CountsOwn
<1>1. UNCHANGED events => Grown BY <1>0 DEF Grown
<1>2. ASSUME NEW kv \in Attributes, BeginInterval(kv) PROVE CountsOwn'
  <2>1. /\ DOMAIN stored_intervals = 1 .. Len(stored_intervals)
        /\ Len(stored_intervals) \in Nat
        /\ DOMAIN stored_intervals' = 1 .. Len(stored_intervals) + 1
        /\ stored_intervals'[Len(stored_intervals) + 1] = Timed(kv)
        /\ \A i \in 1 .. Len(stored_intervals) : stored_intervals'[i] = stored_intervals[i]
    BY <1>2, BeginStored
  <2>2. events' = events /\ cleared' = cleared BY <1>2 DEF BeginInterval
  <2>3. Timed(kv).counts = <<>> BY Begun
  <2>4. ASSUME NEW i \in DOMAIN stored_intervals' PROVE OwnCounts(i)'
    <3>1. CASE i = Len(stored_intervals) + 1
      <4>1. stored_intervals'[i].counts = <<>> BY <2>1, <2>3, <3>1
      <4>2. ReadInTurn(stored_intervals[i], i, 0, 0)'
        BY <4>1, EmptySeq DEF ReadInTurn
      <4>3. <<>> \in Seq(Own(i) \cup {Undefined})'
        <5> DEFINE V == Own(i)' \cup {Undefined}
        <5> HIDE DEF V
        <5>1. <<>> \in Seq(V) BY EmptySeq
        <5> QED BY <5>1 DEF V
      <4>4. 0 \in 0 .. Len(events'["core"]) /\ 0 \in 0 .. Len(events'["rapl"])
        BY <1>0, <2>2 DEF EventSets
      <4> QED BY <4>1, <4>2, <4>3, <4>4 DEF OwnCounts
    <3>2. CASE i \in DOMAIN stored_intervals
      <4>1. stored_intervals'[i] = stored_intervals[i] BY <2>1, <3>2
      <4> QED BY <1>0, <1>1, <2>2, <3>2, <4>1, OwnKept
    <3> QED BY <2>1, <3>1, <3>2
  <2> QED BY <2>4 DEF CountsOwn
<1>3. CASE EndInterval
  <2> DEFINE n == Read("core", current) \o Read("rapl", current)
  <2>1. /\ current \in DOMAIN stored_intervals
        /\ DOMAIN stored_intervals' = DOMAIN stored_intervals
        /\ stored_intervals'[current] =
             [stored_intervals[current] EXCEPT !.end = now, !.counts = n]
        /\ \A i \in DOMAIN stored_intervals :
             i # current => stored_intervals'[i] = stored_intervals[i]
    BY <1>3, EndStored
  <2>2. events' = events /\ cleared' = cleared BY <1>3 DEF EndInterval
  <2>3. n \in Seq(Own(current) \cup {Undefined}) BY ReadOwn
  <2>4. ~cleared => n = IF engine = "papi"
                        THEN [k \in 1 .. Len(AllEvents) |-> <<"count", AllEvents[k], current>>]
                        ELSE <<>>
    BY ReadInStep
  <2> HIDE DEF n
  <2> DEFINE iv == stored_intervals'[current]
  <2>5. iv.end = now /\ iv.counts = n
    <3>1. IsInterval(stored_intervals[current]) BY <1>0, <2>1
    <3> QED BY <2>1, <3>1 DEF IsInterval
  <2>6. ~cleared => \E c \in 0 .. Len(events["core"]), r \in 0 .. Len(events["rapl"]) :
                       ReadInTurn(iv, current, c, r)
    <3> HIDE DEF iv
    <3> SUFFICES ASSUME ~cleared
                 PROVE  \E c \in 0 .. Len(events["core"]), r \in 0 .. Len(events["rapl"]) :
                           ReadInTurn(iv, current, c, r)
      OBVIOUS
    <3>1. Len(events["core"]) \in Nat /\ Len(events["rapl"]) \in Nat BY <1>0 DEF EventSets
    <3>2. CASE engine = "papi"
      <4>1. ReadInTurn(iv, current, Len(events["core"]), Len(events["rapl"]))
        BY <2>4, <2>5, <3>2, AllInTurn
      <4> QED BY <3>1, <4>1
    <3>3. CASE engine # "papi"
      <4>1. iv.counts = <<>> BY <2>4, <2>5, <3>3
      <4>2. ReadInTurn(iv, current, 0, 0) BY <4>1, EmptySeq DEF ReadInTurn
      <4> QED BY <3>1, <4>2
    <3> QED BY <3>2, <3>3
  <2>7. ASSUME NEW i, i = current PROVE OwnCounts(i)'
    <3>1. /\ stored_intervals'[i].counts \in Seq(Own(i) \cup {Undefined})
          /\ stored_intervals'[i].end # 0
          /\ ~cleared =>
               \E c \in 0 .. Len(events["core"]), r \in 0 .. Len(events["rapl"]) :
                  ReadInTurn(stored_intervals'[i], i, c, r)
      BY <1>0, <2>3, <2>5, <2>6, <2>7
    <3> HIDE DEF iv
    <3>2. \A c, r : ReadInTurn(stored_intervals[i], i, c, r)' <=>
                    ReadInTurn(stored_intervals'[i], i, c, r)
      BY <2>2 DEF ReadInTurn
    <3>3. ~cleared' =>
            \E c \in 0 .. Len(events'["core"]), r \in 0 .. Len(events'["rapl"]) :
               ReadInTurn(stored_intervals[i], i, c, r)'
      BY <2>2, <3>1, <3>2
    <3> QED BY <3>1, <3>3 DEF OwnCounts, Finished, Own
  <2>8. ASSUME NEW i \in DOMAIN stored_intervals' PROVE OwnCounts(i)'
    <3>1. CASE i = current BY <2>7, <3>1
    <3>2. CASE i # current
      <4>1. stored_intervals'[i] = stored_intervals[i] /\ i \in DOMAIN stored_intervals
        BY <2>1, <3>2
      <4> QED BY <1>0, <1>1, <2>2, <4>1, OwnKept
    <3> QED BY <3>1, <3>2
  <2> QED BY <2>8 DEF CountsOwn
<1>4. CASE WriteCsv
  <2>1. /\ DOMAIN stored_intervals' = DOMAIN stored_intervals
        /\ \A i \in DOMAIN stored_intervals :
             stored_intervals'[i] = [stored_intervals[i] EXCEPT
                                       !.kv = BuildJson(stored_intervals[i], i)]
        /\ events' = events /\ cleared' = cleared
    BY <1>4, WriteStored
  <2>2. ASSUME NEW i \in DOMAIN stored_intervals PROVE OwnCounts(i)'
    <3>1. /\ IsInterval(stored_intervals[i])
          /\ stored_intervals'[i] = [stored_intervals[i] EXCEPT
                                       !.kv = BuildJson(stored_intervals[i], i)]
      BY <1>0, <2>1
    <3>2. /\ stored_intervals'[i].counts = stored_intervals[i].counts
          /\ stored_intervals'[i].end = stored_intervals[i].end
      BY <3>1, Written
    <3> QED BY <1>0, <1>1, <2>1, <3>2, OwnKept
  <2> QED BY <2>1, <2>2 DEF CountsOwn
<1>5. CASE ClearTrackedStats \/ Tracking \/ Still
  <2>1. stored_intervals' = stored_intervals
    BY <1>5 DEF ClearTrackedStats, Tracking, Still
  <2>2. (cleared => cleared') /\ (cleared' \/ Grown)
    <3>1. CASE ClearTrackedStats BY <3>1 DEF ClearTrackedStats
    <3>2. CASE Tracking
      <4>1. PICK e \in StatNames : TrackStat(e) BY <3>2 DEF Tracking
      <4> QED BY <3>2, <4>1, TrackGrows DEF Tracking
    <3>3. CASE Still BY <1>1, <3>3 DEF Still
    <3> QED BY <1>5, <3>1, <3>2, <3>3
  <2>3. ASSUME NEW i \in DOMAIN stored_intervals PROVE OwnCounts(i)'
    BY <1>0, <2>1, <2>2, OwnKept
  <2> QED BY <2>1, <2>3 DEF CountsOwn
<1> QED BY <1>2, <1>3, <1>4, <1>5, StepIs

(***************************************************************************)
(* What is reported.                                                       *)
(***************************************************************************)
\* A name that the collector has in one of its lists gets the count that is
\* at its index, and that is its own.
LEMMA PapiReports ==
    ASSUME TypeOK, CountsInStep, ~tampered, NEW i \in DOMAIN stored_intervals,
           NEW e \in DOMAIN PapiReport(stored_intervals[i])
    PROVE  PapiReport(stored_intervals[i])[e] = Counted(stored_intervals[i], e, i)
<1> DEFINE C == events["core"]  R == events["rapl"]
           iv == stored_intervals[i]
           inC(k) == k \in DOMAIN C /\ C[k] = e
           inR(k) == k \in DOMAIN R /\ R[k] = e
           kc == CHOOSE k \in DOMAIN C : C[k] = e
           kr == CHOOSE k \in DOMAIN R : R[k] = e
<1>1. C \in Seq(PapiEvents) /\ R \in Seq(PapiEvents) BY DEF TypeOK, EventSets
<1>2. /\ Len(C) \in Nat /\ DOMAIN C = 1 .. Len(C)
      /\ Len(R) \in Nat /\ DOMAIN R = 1 .. Len(R)
  BY <1>1, LenProperties
<1>3. /\ Len(AllEvents) = Len(C) + Len(R)
      /\ \A k \in 1 .. Len(C) + Len(R) :
            AllEvents[k] = IF k <= Len(C) THEN C[k] ELSE R[k - Len(C)]
  BY <1>1, ConcatProperties DEF AllEvents
<1>4. /\ engine = "papi" /\ e \in ToSet(C) \cup ToSet(R)
      /\ PapiReport(iv)[e] = IF \E k \in DOMAIN C : C[k] = e
                             THEN CountAt(iv, kc) ELSE CountAt(iv, Len(C) + kr)
  BY DEF PapiReport
<1>5. iv.counts = IF Finished(iv)
                  THEN [k \in 1 .. Len(AllEvents) |-> <<"count", AllEvents[k], i>>]
                  ELSE <<>>
  BY <1>4 DEF CountsInStep
<1>6. ASSUME NEW k \in 1 .. Len(C) + Len(R), AllEvents[k] = e
      PROVE  CountAt(iv, k) = Counted(iv, e, i)
  <2>1. CASE Finished(iv)
    <3>1. iv.counts = [j \in 1 .. Len(AllEvents) |-> <<"count", AllEvents[j], i>>]
      BY <1>5, <2>1
    <3>2. k \in 1 .. Len(AllEvents) BY <1>3, <1>6
    <3> HIDE DEF iv
    <3>3. k \in DOMAIN iv.counts /\ iv.counts[k] = <<"count", e, i>>
      BY <1>6, <3>1, <3>2
    <3> QED BY <2>1, <3>3 DEF CountAt, Counted
  <2>2. CASE ~Finished(iv)
    <3>1. iv.counts = <<>> BY <1>5, <2>2
    <3>2. DOMAIN iv.counts = {} BY <3>1
    <3> QED BY <2>2, <3>2 DEF CountAt, Counted
  <2> QED BY <2>1, <2>2
<1>7. CASE \E k \in DOMAIN C : C[k] = e
  <2>1. kc \in DOMAIN C /\ C[kc] = e BY <1>7
  <2> HIDE DEF kc
  <2>2. kc \in 1 .. Len(C) + Len(R) /\ kc <= Len(C)
    <3>1. kc \in 1 .. Len(C) BY <1>2, <2>1
    <3>2. Len(C) \in Nat /\ Len(R) \in Nat BY <1>2
    <3> HIDE DEF C, R
    <3> QED BY <3>1, <3>2
  <2>3. AllEvents[kc] = e BY <1>3, <2>1, <2>2
  <2>4. CountAt(iv, kc) = Counted(iv, e, i) BY <1>6, <2>2, <2>3
  <2> QED BY <1>4, <1>7, <2>4
<1>8. CASE ~\E k \in DOMAIN C : C[k] = e
  <2>1. \E k \in DOMAIN R : R[k] = e BY <1>4, <1>8 DEF ToSet
  <2>2. kr \in DOMAIN R /\ R[kr] = e BY <2>1
  <2> HIDE DEF kr
  <2>3. PICK k : k = Len(C) + kr OBVIOUS
  <2>4. k \in 1 .. Len(C) + Len(R) /\ ~(k <= Len(C)) /\ k - Len(C) = kr
    <3>1. kr \in 1 .. Len(R) BY <1>2, <2>2
    <3>2. Len(C) \in Nat /\ Len(R) \in Nat BY <1>2
    <3> HIDE DEF C, R
    <3> QED BY <2>3, <3>1, <3>2
  <2>5. AllEvents[k] = R[k - Len(C)] BY <1>3, <2>4
  <2>6. R[k - Len(C)] = e BY <2>2, <2>4
  <2>7. CountAt(iv, k) = Counted(iv, e, i) BY <1>6, <2>4, <2>5, <2>6
  <2> QED BY <1>4, <1>8, <2>3, <2>7 DEF kr
<1> QED BY <1>7, <1>8

\* Only the counters write under the name of an event.
LEMMA BuildJsonAt ==
    ASSUME NamesApart, NEW iv, NEW i, NEW e \in PapiEvents, e \in DOMAIN BuildJson(iv, i)
    PROVE  IF e \in DOMAIN PapiReport(iv) THEN BuildJson(iv, i)[e] = PapiReport(iv)[e]
           ELSE e \in DOMAIN iv.kv /\ BuildJson(iv, i)[e] = iv.kv[e]
<1> DEFINE m1 == Merge(iv.kv, PapiReport(iv))
           m2 == Merge(m1, PinReport(iv, i))
           m3 == Merge(m2, PcmReport(iv, i))
           m4 == Merge(m3, BaseReport(iv))
<1>0. ASSUME NEW f, NEW g
      PROVE  /\ DOMAIN Merge(f, g) = DOMAIN f \cup DOMAIN g
             /\ e \in DOMAIN g => Merge(f, g)[e] = g[e]
             /\ e \in DOMAIN f /\ e \notin DOMAIN g => Merge(f, g)[e] = f[e]
  BY DEF Merge
<1>1. e \notin DOMAIN PinReport(iv, i)
  BY NamesAssumption DEF NamesApart, PinReport
<1>2. e \notin DOMAIN PcmReport(iv, i) BY NamesAssumption DEF PcmReport
<1>3. e \notin DOMAIN BaseReport(iv) BY NamesAssumption DEF NamesApart, BaseReport
<1>4. BuildJson(iv, i) = m4 BY DEF BuildJson
<1> HIDE DEF m4
<1>5. e \in DOMAIN m3 /\ m4[e] = m3[e]
  <2>1. DOMAIN m4 = DOMAIN m3 \cup DOMAIN BaseReport(iv) BY <1>0 DEF m4
  <2>2. e \in DOMAIN m3 BY <1>3, <1>4, <2>1
  <2> HIDE DEF m3
  <2> QED BY <1>0, <1>3, <2>2 DEF m4
<1> HIDE DEF m3
<1>6. e \in DOMAIN m2 /\ m3[e] = m2[e]
  <2>1. DOMAIN m3 = DOMAIN m2 \cup DOMAIN PcmReport(iv, i) BY <1>0 DEF m3
  <2>2. e \in DOMAIN m2 BY <1>2, <1>5, <2>1
  <2> HIDE DEF m2
  <2> QED BY <1>0, <1>2, <2>2 DEF m3
<1> HIDE DEF m2
<1>7. e \in DOMAIN m1 /\ m2[e] = m1[e]
  <2>1. DOMAIN m2 = DOMAIN m1 \cup DOMAIN PinReport(iv, i) BY <1>0 DEF m2
  <2>2. e \in DOMAIN m1 BY <1>1, <1>6, <2>1
  <2> HIDE DEF m1
  <2> QED BY <1>0, <1>1, <2>2 DEF m2
<1> HIDE DEF m1
<1>8. BuildJson(iv, i)[e] = m1[e] BY <1>4, <1>5, <1>6, <1>7
<1>9. DOMAIN m1 = DOMAIN iv.kv \cup DOMAIN PapiReport(iv) BY <1>0 DEF m1
<1>10. CASE e \in DOMAIN PapiReport(iv)
  <2>1. m1[e] = PapiReport(iv)[e] BY <1>0, <1>10 DEF m1
  <2> QED BY <1>8, <1>10, <2>1
<1>11. CASE e \notin DOMAIN PapiReport(iv)
  <2>1. e \in DOMAIN iv.kv BY <1>7, <1>9, <1>11
  <2>2. m1[e] = iv.kv[e] BY <1>0, <1>11, <2>1 DEF m1
  <2> QED BY <1>8, <1>11, <2>1, <2>2
<1> QED BY <1>10, <1>11

\* What build_json writes for an event is the count of that event, unless a
\* rapl count was shifted or the lists were cleared.
LEMMA PapiTrue ==
    ASSUME TypeOK, CountsOwn, NEW i \in DOMAIN stored_intervals,
           NEW e \in DOMAIN PapiReport(stored_intervals[i])
    PROVE  Reportable(PapiReport(stored_intervals[i])[e], e, i)
<1> DEFINE C == events["core"]  R == events["rapl"]
           iv == stored_intervals[i]  n == iv.counts
           kc == CHOOSE k \in DOMAIN C : C[k] = e
           kr == CHOOSE k \in DOMAIN R : R[k] = e
           v == PapiReport(iv)[e]
<1>1. /\ Len(C) \in Nat /\ DOMAIN C = 1 .. Len(C)
      /\ Len(R) \in Nat /\ DOMAIN R = 1 .. Len(R)
  BY Lists DEF EventSets
<1>2. \A k \in 1 .. Len(R) : R[k] \in RaplEvents /\ R[k] \in PapiEvents
  <2>1. R \in Seq(RaplEvents) BY DEF TypeOK
  <2> HIDE DEF R
  <2> QED BY <2>1, ElementOfSeq DEF PapiEvents
<1>3. /\ e \in ToSet(C) \cup ToSet(R)
      /\ v = IF \E k \in DOMAIN C : C[k] = e
             THEN CountAt(iv, kc) ELSE CountAt(iv, Len(C) + kr)
  BY DEF PapiReport
<1>4. /\ n \in Seq(Own(i) \cup {Undefined})
      /\ ~cleared => \E c \in 0 .. Len(C), r \in 0 .. Len(R) : ReadInTurn(iv, i, c, r)
  BY DEF CountsOwn, OwnCounts
<1>5. DOMAIN n = 1 .. Len(n) /\ \A k \in 1 .. Len(n) : n[k] \in Own(i) \cup {Undefined}
  BY <1>4, LenProperties, ElementOfSeq
<1> SUFFICES Reportable(v, e, i) OBVIOUS
<1> HIDE DEF v
<1>6. PICK k : /\ v = CountAt(iv, k)
               /\ \/ k \in 1 .. Len(C) /\ C[k] = e
                  \/ \E j \in 1 .. Len(R) : k = Len(C) + j /\ R[j] = e
  <2>1. CASE \E k \in DOMAIN C : C[k] = e
    <3>1. kc \in DOMAIN C /\ C[kc] = e BY <2>1
    <3> QED BY <1>1, <1>3, <2>1, <3>1
  <2>2. CASE ~\E k \in DOMAIN C : C[k] = e
    <3>1. \E k \in DOMAIN R : R[k] = e BY <1>3, <2>2 DEF ToSet
    <3>2. kr \in DOMAIN R /\ R[kr] = e BY <3>1
    <3> QED BY <1>1, <1>3, <2>2, <3>2
  <2> QED BY <2>1, <2>2
<1> HIDE DEF C, R
<1>7. CASE k \notin 1 .. Len(n) BY <1>5, <1>6, <1>7 DEF CountAt, Reportable
<1>8. CASE k \in 1 .. Len(n)
  <2>1. v = n[k] /\ v \in Own(i) \cup {Undefined} BY <1>5, <1>6, <1>8 DEF CountAt
  <2>2. CASE cleared BY <2>1, <2>2 DEF Reportable, Own
  <2>3. CASE ~cleared
    <3>1. PICK c \in 0 .. Len(C), r \in 0 .. Len(R) : ReadInTurn(iv, i, c, r) BY <1>4, <2>3
    <3>2. /\ Len(n) = c + r
          /\ \A j \in 1 .. c : n[j] = <<"count", C[j], i>>
          /\ \A j \in 1 .. r : n[c + j] = <<"count", R[j], i>>
      BY <3>1 DEF ReadInTurn, C, R
    <3> HIDE DEF n
    <3>3. c \in Nat /\ r \in Nat /\ c <= Len(C) /\ r <= Len(R) BY <1>1
    <3>4. CASE k \in 1 .. c
      <4>1. ~\E j \in 1 .. Len(R) : k = Len(C) + j BY <1>1, <3>3, <3>4
      <4>2. C[k] = e BY <1>6, <4>1
      <4>3. v = <<"count", e, i>> BY <2>1, <3>2, <3>4, <4>2
      <4> QED BY <4>3 DEF Reportable
    <3>5. CASE k \notin 1 .. c
      <4>1. PICK j \in 1 .. r : k = c + j
        <5>1. k \in 1 .. c + r BY <1>8, <3>2
        <5>2. k - c \in 1 .. r /\ k = c + (k - c) BY <3>3, <3>5, <5>1
        <5> QED BY <5>2
      <4>2. j \in 1 .. Len(R) /\ 1 \in 1 .. r /\ 1 \in 1 .. Len(R) BY <1>1, <3>3
      <4>3. v = <<"count", R[j], i>> BY <2>1, <3>2, <4>1
      <4>4. CASE c = Len(C)
        <5>1. k \notin 1 .. Len(C) BY <3>5, <4>4
        <5>2. PICK m \in 1 .. Len(R) : k = Len(C) + m /\ R[m] = e BY <1>6, <5>1
        <5>3. m = j BY <3>3, <4>1, <4>4, <5>2
        <5>4. v = <<"count", e, i>> BY <4>3, <5>2, <5>3
        <5> QED BY <5>4 DEF Reportable
      <4>5. CASE c # Len(C)
        <5>1. PICK d : d = c + 1 OBVIOUS
        <5>2. d \in 1 .. Len(C) /\ d \in 1 .. Len(n)
          <6>1. c < Len(C) /\ 1 <= r
            <7>1. Len(C) \in Nat BY <1>1
            <7>2. 1 <= r BY <3>3, <4>2
            <7>3. c < Len(C) BY <3>3, <4>5, <7>1
            <7> QED BY <7>2, <7>3
          <6>2. d \in 1 .. Len(C) BY <1>1, <3>3, <5>1, <6>1
          <6>3. d \in 1 .. c + r BY <3>3, <5>1, <6>1
          <6> QED BY <3>2, <6>2, <6>3
        <5>3. n[d] = <<"count", R[1], i>> BY <3>2, <4>2, <5>1
        <5>4. R[1] \in RaplEvents /\ R[j] \in RaplEvents /\ R[j] \in PapiEvents BY <1>2, <4>2
        <5>5. d \in DOMAIN n \cap DOMAIN C BY <1>1, <1>5, <5>2
        <5>6. Shifted(i) BY <5>3, <5>4, <5>5 DEF Shifted, n, C
        <5> QED BY <4>3, <5>4, <5>6 DEF Reportable
      <4> QED BY <4>4, <4>5
    <3> QED BY <3>4, <3>5
  <2> QED BY <2>2, <2>3
<1> QED BY <1>7, <1>8

\* What may be reported may still be.
LEMMA ReportableKept ==
    ASSUME NEW v, NEW e, NEW i, Reportable(v, e, i),
           cleared => cleared', Shifted(i) => cleared' \/ Shifted(i)'
    PROVE  Reportable(v, e, i)'
BY DEF Reportable

\* The maps hold true counts only.
LEMMA TrueStep ==
    IndInv /\ TrueCounts /\ [Next]_vars => TrueCounts'
<1> SUFFICES ASSUME IndInv, TrueCounts, [Next]_vars PROVE TrueCounts' OBVIOUS
<1> USE DEF configVars, trackedVars, intervalVars, historyVars
<1>0. /\ TypeOK /\ TypeOK' /\ OneAtATime /\ NamesApart /\ CountsOwn
      /\ \A i \in DOMAIN stored_intervals : IsInterval(stored_intervals[i]) /\ OwnCounts(i)
      /\ \A s \in EventSets : Len(events[s]) \in Nat
  BY TypeStep, Lists DEF IndInv, TypeOK, CountsOwn
<1> DEFINE True(i) == \A e \in PapiEvents \cap DOMAIN stored_intervals[i].kv :
                         Reportable(stored_intervals[i].kv[e], e, i)
           Was(i) == \A e \in PapiEvents \cap DOMAIN stored_intervals'[i].kv :
                         Reportable(stored_intervals'[i].kv[e], e, i)
           Is(i) == \A e \in PapiEvents \cap DOMAIN stored_intervals'[i].kv :
                         Reportable(stored_intervals[i].kv[e], e, i)'
<1>1. UNCHANGED events => Grown BY <1>0 DEF Grown
<1>2. \A i \in DOMAIN stored_intervals : True(i) BY DEF TrueCounts
<1>3. ASSUME NEW i \in DOMAIN stored_intervals, Was(i),
             cleared => cleared', Shifted(i) => cleared' \/ Shifted(i)'
      PROVE  Is(i)
  <2>1. ASSUME NEW v, NEW e, Reportable(v, e, i) PROVE Reportable(v, e, i)'
    BY <1>3, <2>1, ReportableKept
  <2>2. ASSUME NEW v, NEW e, Reportable(v, e, i), v = stored_intervals'[i].kv[e]
        PROVE  Reportable(stored_intervals[i].kv[e], e, i)'
    BY <2>1, <2>2 DEF Reportable
  <2> QED BY <1>3, <2>2
<1>4. ASSUME NEW i \in DOMAIN stored_intervals,
             stored_intervals'[i].kv = stored_intervals[i].kv,
             cleared => cleared', Shifted(i) => cleared' \/ Shifted(i)'
      PROVE  Is(i)
  <2>1. Was(i) BY <1>2, <1>4
  <2> QED BY <1>3, <1>4, <2>1
<1>5. ASSUME \A i \in DOMAIN stored_intervals' : Is(i) PROVE TrueCounts'
  BY <1>5 DEF TrueCounts
<1>6. ASSUME NEW kv \in Attributes, BeginInterval(kv) PROVE TrueCounts'
  <2>1. /\ DOMAIN stored_intervals = 1 .. Len(stored_intervals)
        /\ Len(stored_intervals) \in Nat
        /\ DOMAIN stored_intervals' = 1 .. Len(stored_intervals) + 1
        /\ stored_intervals'[Len(stored_intervals) + 1] = Timed(kv)
        /\ \A i \in 1 .. Len(stored_intervals) : stored_intervals'[i] = stored_intervals[i]
    BY <1>0, <1>6, BeginStored
  <2>2. events' = events /\ cleared' = cleared BY <1>6 DEF BeginInterval
  <2>3. PapiEvents \cap DOMAIN Timed(kv).kv = {}
    <3>1. Timed(kv).kv = Merge(default_kv, kv) BY <1>0, Begun
    <3>2. DOMAIN Merge(default_kv, kv) = DOMAIN default_kv \cup DOMAIN kv BY DEF Merge
    <3>3. DOMAIN kv \cap PapiEvents = {} BY NamesAssumption
    <3> QED BY <1>0, <3>1, <3>2, <3>3 DEF NamesApart
  <2>4. ASSUME NEW i \in DOMAIN stored_intervals' PROVE Is(i)
    <3>1. CASE i = Len(stored_intervals) + 1
      <4>1. PapiEvents \cap DOMAIN stored_intervals'[i].kv = {} BY <2>1, <2>3, <3>1
      <4> QED BY <4>1
    <3>2. CASE i \in DOMAIN stored_intervals
      <4>1. stored_intervals'[i] = stored_intervals[i] BY <2>1, <3>2
      <4>2. Shifted(i) => cleared' \/ Shifted(i)'
        BY <1>0, <1>1, <2>2, <3>2, <4>1, OwnKept
      <4>3. stored_intervals'[i].kv = stored_intervals[i].kv BY <4>1
      <4> QED BY <1>4, <2>2, <3>2, <4>2, <4>3
    <3> QED BY <2>1, <3>1, <3>2
  <2> QED BY <1>5, <2>4
<1>7. CASE EndInterval
  <2> DEFINE n == Read("core", current) \o Read("rapl", current)
  <2>1. /\ current \in DOMAIN stored_intervals
        /\ DOMAIN stored_intervals' = DOMAIN stored_intervals
        /\ stored_intervals'[current] =
             [stored_intervals[current] EXCEPT !.end = now, !.counts = n]
        /\ \A i \in DOMAIN stored_intervals :
             i # current => stored_intervals'[i] = stored_intervals[i]
    BY <1>0, <1>7, EndStored
  <2>2. events' = events /\ cleared' = cleared BY <1>7 DEF EndInterval
  <2> HIDE DEF n
  <2>3. stored_intervals'[current].kv = stored_intervals[current].kv
    <3>1. IsInterval(stored_intervals[current]) BY <1>0, <2>1
    <3> QED BY <2>1, <3>1 DEF IsInterval
  <2>4. ~Shifted(current)
    <3>1. ~Finished(stored_intervals[current]) BY <1>0, <2>1 DEF OneAtATime, Finished
    <3>2. stored_intervals[current].counts = <<>> BY <1>0, <2>1, <3>1 DEF OwnCounts
    <3>3. DOMAIN stored_intervals[current].counts = {} BY <3>2
    <3> QED BY <3>3 DEF Shifted
  <2>5. ASSUME NEW i \in DOMAIN stored_intervals' PROVE Is(i)
    <3>1. CASE i = current BY <1>4, <2>1, <2>2, <2>3, <2>4, <3>1
    <3>2. CASE i # current
      <4>1. stored_intervals'[i] = stored_intervals[i] /\ i \in DOMAIN stored_intervals
        BY <2>1, <3>2
      <4>2. Shifted(i) => cleared' \/ Shifted(i)'
        BY <1>0, <1>1, <2>2, <4>1, OwnKept
      <4>3. stored_intervals'[i].kv = stored_intervals[i].kv BY <4>1
      <4> QED BY <1>4, <2>2, <4>1, <4>2, <4>3
    <3> QED BY <3>1, <3>2
  <2> QED BY <1>5, <2>5
<1>8. CASE WriteCsv
  <2>1. /\ DOMAIN stored_intervals' = DOMAIN stored_intervals
        /\ \A i \in DOMAIN stored_intervals :
             stored_intervals'[i] = [stored_intervals[i] EXCEPT
                                       !.kv = BuildJson(stored_intervals[i], i)]
        /\ events' = events /\ cleared' = cleared
    BY <1>0, <1>8, WriteStored
  <2>2. ASSUME NEW i \in DOMAIN stored_intervals PROVE Is(i)
    <3> DEFINE new == BuildJson(stored_intervals[i], i)
    <3>1. /\ IsInterval(stored_intervals[i])
          /\ stored_intervals'[i] = [stored_intervals[i] EXCEPT !.kv = new]
      BY <1>0, <2>1
    <3>2. ASSUME NEW e \in PapiEvents, e \in DOMAIN new
          PROVE  Reportable(new[e], e, i)
      <4>1. CASE e \in DOMAIN PapiReport(stored_intervals[i])
        <5>1. new[e] = PapiReport(stored_intervals[i])[e]
          BY <1>0, <3>2, <4>1, BuildJsonAt
        <5>2. Reportable(PapiReport(stored_intervals[i])[e], e, i)
          BY <1>0, <4>1, PapiTrue
        <5> QED BY <5>1, <5>2
      <4>2. CASE e \notin DOMAIN PapiReport(stored_intervals[i])
        <5>1. /\ e \in DOMAIN stored_intervals[i].kv
              /\ new[e] = stored_intervals[i].kv[e]
          BY <1>0, <3>2, <4>2, BuildJsonAt
        <5> QED BY <1>2, <5>1
      <4> QED BY <4>1, <4>2
    <3> HIDE DEF new
    <3>3. /\ stored_intervals'[i].kv = new
          /\ stored_intervals'[i].counts = stored_intervals[i].counts
          /\ stored_intervals'[i].end = stored_intervals[i].end
      BY <3>1, Written
    <3>4. Shifted(i) => cleared' \/ Shifted(i)' BY <1>0, <1>1, <2>1, <3>3, OwnKept
    <3>5. Was(i) BY <3>2, <3>3
    <3> QED BY <1>3, <2>1, <3>4, <3>5
  <2> QED BY <1>5, <2>1, <2>2
<1>9. CASE ClearTrackedStats \/ Tracking \/ Still
  <2>1. stored_intervals' = stored_intervals
    BY <1>9 DEF ClearTrackedStats, Tracking, Still
  <2>2. (cleared => cleared') /\ (cleared' \/ Grown)
    <3>1. CASE ClearTrackedStats BY <3>1 DEF ClearTrackedStats
    <3>2. CASE Tracking
      <4>1. PICK e \in StatNames : TrackStat(e) BY <3>2 DEF Tracking
      <4> QED BY <1>0, <3>2, <4>1, TrackGrows DEF Tracking
    <3>3. CASE Still BY <1>1, <3>3 DEF Still
    <3> QED BY <1>9, <3>1, <3>2, <3>3
  <2>3. ASSUME NEW i \in DOMAIN stored_intervals PROVE Is(i)
    <3>1. Shifted(i) => cleared' \/ Shifted(i)' BY <1>0, <2>1, <2>2, OwnKept
    <3>2. stored_intervals'[i].kv = stored_intervals[i].kv BY <2>1
    <3> QED BY <1>4, <2>2, <3>1, <3>2
  <2> QED BY <1>5, <2>1, <2>3
<1> QED BY <1>0, <1>6, <1>7, <1>8, <1>9, StepIs

(***************************************************************************)
(* What a row holds.  As long as the lists are in step, every engine       *)
(* reports the same thing under a name: the base statistic, or the count   *)
(* of the events of that name in that interval (ReportIs).                 *)
(***************************************************************************)
\* The names under which something is reported, now or ever.
Reporting ==
    my_stats \cup {RegisterName[r] : r \in tracked_registers}
             \cup (IF engine = "papi" THEN ToSet(events["core"]) \cup ToSet(events["rapl"])
                                      ELSE {})
             \cup (IF engine = "pcm" THEN PcmStats ELSE {})

NamesReported == BaseStats \cup PapiEvents \cup PcmStats \cup {RegisterName[r] : r \in Registers}

\* What is reported for an interval, when the base statistics in b are tracked.
Final(b, iv, i, c) ==
    IF c \in b
    THEN IF c = ClockSpeed THEN <<"mhz", iv.mhz>>
         ELSE IF Finished(iv) THEN <<"time", iv.begin, iv.end>> ELSE Undefined
    ELSE Counted(iv, c, i)

\* Nothing that is reported for an interval that is over is undefined.
LEMMA FinalDefined ==
    ASSUME NEW b, NEW iv, NEW i, NEW c, Finished(iv)
    PROVE  Final(b, iv, i, c) \notin {Blank, Undefined}
<1>1. Blank[1] = "blank" /\ Undefined[1] = "undefined" BY DEF Blank, Undefined
<1>2. Final(b, iv, i, c)[1] \in {"mhz", "time", "count"} BY DEF Final, Counted
<1> QED BY <1>1, <1>2

\* What is reported does not depend on what the interval's map holds.
LEMMA FinalWritten ==
    ASSUME NEW b, NEW iv, IsInterval(iv), NEW i, NEW c, NEW kv, NEW e,
           e = [iv EXCEPT !.kv = kv]
    PROVE  Final(b, e, i, c) = Final(b, iv, i, c)
<1>1. e.mhz = iv.mhz /\ e.begin = iv.begin /\ e.end = iv.end BY DEF IsInterval
<1> QED BY <1>1 DEF Final, Counted, Finished

\* What is reported for an interval under way stays when it ends.
LEMMA FinalDone ==
    ASSUME NEW b, NEW iv, ~Finished(iv), NEW e, e.mhz = iv.mhz, NEW i, NEW c,
           Final(b, iv, i, c) # Undefined
    PROVE  Final(b, e, i, c) = Final(b, iv, i, c)
<1>1. c \in b /\ c = ClockSpeed BY DEF Final, Counted
<1> QED BY <1>1 DEF Final

\* The base report, as Final has it.
LEMMA BaseIs ==
    ASSUME NamesApart, NEW iv, NEW i, NEW c \in my_stats
    PROVE  BaseReport(iv)[c] = Final(my_stats, iv, i, c)
<1>1. c \in BaseStats BY DEF NamesApart
<1>2. CASE c = ClockSpeed BY <1>2 DEF BaseReport, Final, ClockSpeed, WallTime
<1>3. CASE c = WallTime BY <1>3 DEF BaseReport, Final, ClockSpeed, WallTime
<1> QED BY <1>1, <1>2, <1>3 DEF BaseStats

\* Merging gives the patch where it has a value.
LEMMA MergeAt ==
    ASSUME NEW f, NEW g
    PROVE  /\ DOMAIN Merge(f, g) = DOMAIN f \cup DOMAIN g
           /\ \A c \in DOMAIN g : Merge(f, g)[c] = g[c]
           /\ \A c \in DOMAIN f : c \notin DOMAIN g => Merge(f, g)[c] = f[c]
BY DEF Merge

\* What build_json leaves in an interval.
LEMMA ReportIs ==
    ASSUME TypeOK, CountsInStep, NamesApart, ~tampered, NEW i \in DOMAIN stored_intervals
    PROVE  LET iv == stored_intervals[i]  new == BuildJson(iv, i) IN
           /\ DOMAIN new = DOMAIN iv.kv \cup Reporting
           /\ \A c \in Reporting : new[c] = Final(my_stats, iv, i, c)
           /\ \A c \in DOMAIN iv.kv : c \notin Reporting => new[c] = iv.kv[c]
<1> DEFINE iv == stored_intervals[i]
           f1 == PapiReport(iv)    f2 == PinReport(iv, i)
           f3 == PcmReport(iv, i)  f4 == BaseReport(iv)
           m1 == Merge(iv.kv, f1)  m2 == Merge(m1, f2)
           m3 == Merge(m2, f3)     m4 == Merge(m3, f4)
<1>1. BuildJson(iv, i) = m4 BY DEF BuildJson
<1>2. Reporting = DOMAIN f1 \cup DOMAIN f2 \cup DOMAIN f3 \cup DOMAIN f4
  BY DEF Reporting, PapiReport, PinReport, PcmReport, BaseReport
<1>3. DOMAIN f4 = my_stats BY DEF BaseReport
<1>4. \A c \in DOMAIN f1 : f1[c] = Counted(iv, c, i) BY PapiReports
<1>5. \A c \in DOMAIN f2 : f2[c] = Counted(iv, c, i) BY DEF PinReport
<1>6. \A c \in DOMAIN f3 : f3[c] = Counted(iv, c, i) BY DEF PcmReport
<1>7. \A c \in DOMAIN f4 : f4[c] = Final(my_stats, iv, i, c) BY <1>3, BaseIs
<1>8. \A c : c \notin my_stats => Counted(iv, c, i) = Final(my_stats, iv, i, c) BY DEF Final
<1> HIDE DEF iv, f1, f2, f3, f4
<1>9. /\ DOMAIN m4 = DOMAIN m3 \cup DOMAIN f4
      /\ \A c \in DOMAIN f4 : m4[c] = f4[c]
      /\ \A c \in DOMAIN m3 : c \notin DOMAIN f4 => m4[c] = m3[c]
  <2> HIDE DEF m3
  <2> QED BY MergeAt
<1> HIDE DEF m4
<1>10. /\ DOMAIN m3 = DOMAIN m2 \cup DOMAIN f3
       /\ \A c \in DOMAIN f3 : m3[c] = f3[c]
       /\ \A c \in DOMAIN m2 : c \notin DOMAIN f3 => m3[c] = m2[c]
  <2> HIDE DEF m2
  <2> QED BY MergeAt
<1> HIDE DEF m3
<1>11. /\ DOMAIN m2 = DOMAIN m1 \cup DOMAIN f2
       /\ \A c \in DOMAIN f2 : m2[c] = f2[c]
       /\ \A c \in DOMAIN m1 : c \notin DOMAIN f2 => m2[c] = m1[c]
  <2> HIDE DEF m1
  <2> QED BY MergeAt
<1> HIDE DEF m2
<1>12. /\ DOMAIN m1 = DOMAIN iv.kv \cup DOMAIN f1
       /\ \A c \in DOMAIN f1 : m1[c] = f1[c]
       /\ \A c \in DOMAIN iv.kv : c \notin DOMAIN f1 => m1[c] = iv.kv[c]
  BY MergeAt
<1> HIDE DEF m1
<1>13. DOMAIN m4 = DOMAIN iv.kv \cup Reporting BY <1>2, <1>9, <1>10, <1>11, <1>12
<1>14. ASSUME NEW c \in Reporting PROVE m4[c] = Final(my_stats, iv, i, c)
  <2>1. CASE c \in DOMAIN f4 BY <1>7, <1>9, <2>1
  <2>2. CASE c \notin DOMAIN f4
    <3>1. c \in DOMAIN m3 /\ m4[c] = m3[c] BY <1>9, <1>13, <2>2
    <3>2. m3[c] = Counted(iv, c, i)
      <4>1. CASE c \in DOMAIN f3 BY <1>6, <1>10, <4>1
      <4>2. CASE c \notin DOMAIN f3
        <5>1. c \in DOMAIN m2 /\ m3[c] = m2[c] BY <1>10, <3>1, <4>2
        <5>2. CASE c \in DOMAIN f2 BY <1>5, <1>11, <5>1, <5>2
        <5>3. CASE c \notin DOMAIN f2
          <6>1. c \in DOMAIN f1 BY <1>2, <2>2, <4>2, <5>3
          <6>2. c \in DOMAIN m1 /\ m2[c] = m1[c] BY <1>11, <5>1, <5>3
          <6> QED BY <1>4, <1>12, <5>1, <6>1, <6>2
        <5> QED BY <5>2, <5>3
      <4> QED BY <4>1, <4>2
    <3>3. c \notin my_stats BY <1>3, <2>2
    <3> QED BY <1>8, <3>1, <3>2, <3>3
  <2> QED BY <2>1, <2>2
<1>15. ASSUME NEW c \in DOMAIN iv.kv, c \notin Reporting PROVE m4[c] = iv.kv[c]
  <2>1. c \notin DOMAIN f1 /\ c \notin DOMAIN f2 /\ c \notin DOMAIN f3 /\ c \notin DOMAIN f4
    BY <1>2, <1>15
  <2>2. c \in DOMAIN m1 /\ m1[c] = iv.kv[c] BY <1>12, <2>1
  <2>3. c \in DOMAIN m2 /\ m2[c] = iv.kv[c] BY <1>11, <2>1, <2>2
  <2>4. c \in DOMAIN m3 /\ m3[c] = iv.kv[c] BY <1>10, <2>1, <2>3
  <2> QED BY <1>9, <2>1, <2>4
<1> QED BY <1>1, <1>13, <1>14, <1>15 DEF iv

\* Only the PAPI engine has events.
PapiOnly == engine # "papi" => \A s \in EventSets : events[s] = <<>>

LEMMA PapiOnlyStep == TypeOK /\ PapiOnly /\ [Next]_vars => PapiOnly'
<1> SUFFICES ASSUME TypeOK, PapiOnly, [Next]_vars PROVE PapiOnly' OBVIOUS
<1> USE DEF configVars, trackedVars, intervalVars, historyVars
<1>1. ASSUME UNCHANGED <<engine, events>> PROVE PapiOnly' BY <1>1 DEF PapiOnly
<1>2. ASSUME NEW kv, BeginInterval(kv) PROVE PapiOnly' BY <1>1, <1>2 DEF BeginInterval
<1>3. CASE EndInterval BY <1>1, <1>3 DEF EndInterval
<1>4. CASE WriteCsv BY <1>1, <1>4 DEF WriteCsv
<1>5. CASE ClearTrackedStats BY <1>5 DEF ClearTrackedStats, PapiOnly
<1>6. CASE Tracking
  <2>1. engine' = engine BY <1>6 DEF Tracking
  <2>2. engine # "papi" => events' = events
    BY <1>6 DEF Tracking, TrackStat, Add, TrackBase, TrackRegister
  <2> QED BY <2>1, <2>2 DEF PapiOnly
<1>7. CASE Still
  <2>1. events' = events /\ (engine' = engine \/ engine = "none") BY <1>7 DEF Still
  <2> QED BY <2>1 DEF PapiOnly
<1> QED BY <1>2, <1>3, <1>4, <1>5, <1>6, <1>7, StepIs

\* A program's attributes, tags and calculations have no name that an engine
\* reports something under.
AttributesApart ==
    /\ \A kv \in Attributes : DOMAIN kv \cap NamesReported = {}
    /\ \A c \in CommandLines : (c.tags \cup c.calcs) \cap NamesReported = {}

DefaultApart == (DOMAIN default_kv \cup line.tags \cup line.calcs) \cap NamesReported = {}

LEMMA DefaultStep == TypeOK /\ NamesApart /\ DefaultApart /\ [Next]_vars => DefaultApart'
<1> SUFFICES ASSUME TypeOK, NamesApart, DefaultApart, [Next]_vars PROVE DefaultApart' OBVIOUS
<1> USE DEF configVars, trackedVars, intervalVars, historyVars
<1>1. ASSUME UNCHANGED <<default_kv, line>> PROVE DefaultApart' BY <1>1 DEF DefaultApart
<1>2. ASSUME NEW kv, BeginInterval(kv) PROVE DefaultApart'
  BY <1>1, <1>2 DEF BeginInterval
<1>3. CASE EndInterval BY <1>1, <1>3 DEF EndInterval
<1>4. CASE WriteCsv BY <1>1, <1>4 DEF WriteCsv
<1>5. CASE ClearTrackedStats BY <1>1, <1>5 DEF ClearTrackedStats
<1>6. CASE Tracking
  <2>1. default_kv' = default_kv /\ line'.tags = line.tags /\ line'.calcs = line.calcs
    BY <1>6 DEF Tracking, SameTags, NamesApart
  <2> QED BY <2>1 DEF DefaultApart
<1>7. CASE Still
  <2>1. line' = line BY <1>7 DEF Still
  <2>2. CASE default_kv' = default_kv BY <1>1, <2>1, <2>2
  <2>3. CASE default_kv' = Merge(default_kv, [k \in line.tags \cup line.calcs |-> Text])
    <3>1. DOMAIN default_kv' = DOMAIN default_kv \cup (line.tags \cup line.calcs)
      BY <2>3 DEF Merge
    <3> QED BY <2>1, <3>1 DEF DefaultApart
  <2> QED BY <1>7, <2>2, <2>3 DEF Still
<1> QED BY <1>2, <1>3, <1>4, <1>5, <1>6, <1>7, StepIs

\* What was reported for an interval, and is defined, is what is reported
\* for it now.
Settled(b, names, iv, i) ==
    \A c \in DOMAIN iv.kv \cap names :
        iv.kv[c] # Undefined => iv.kv[c] = Final(b, iv, i, c)

KvFinal ==
    ~tampered => \A i \in DOMAIN stored_intervals :
        Settled(my_stats, Reporting, stored_intervals[i], i)

LEMMA ReportingKnown == TypeOK /\ NamesApart => Reporting \subseteq NamesReported
<1> SUFFICES ASSUME TypeOK, NamesApart PROVE Reporting \subseteq NamesReported OBVIOUS
<1>1. ASSUME NEW s \in EventSets PROVE ToSet(events[s]) \subseteq PapiEvents
  <2>1. events[s] \in Seq(PapiEvents) BY DEF TypeOK
  <2>2. \A k \in DOMAIN events[s] : events[s][k] \in PapiEvents BY <2>1, ElementOfSeq, LenProperties
  <2> QED BY <2>2 DEF ToSet
<1>2. ToSet(events["core"]) \cup ToSet(events["rapl"]) \subseteq PapiEvents
  BY <1>1 DEF EventSets
<1>3. my_stats \subseteq BaseStats /\ tracked_registers \subseteq Registers BY DEF NamesApart
<1> QED BY <1>2, <1>3 DEF Reporting, NamesReported

\* While somebody tracks in step, or an engine is made, nothing is stored.
LEMMA TrackedEarly ==
    ASSUME TypeOK, MeasuredLater, ~tampered', Tracking \/ (Still /\ engine' # engine)
    PROVE  stored_intervals = <<>> /\ stored_intervals' = stored_intervals
<1> USE DEF trackedVars, intervalVars
<1>1. CASE Tracking
  <2>1. ~(Running /\ stored_intervals # <<>>) /\ (Parsing \/ Running)
    BY <1>1 DEF Tracking, TypeOK
  <2> QED BY <1>1, <2>1 DEF Tracking, MeasuredLater
<1>2. CASE Still /\ engine' # engine BY <1>2 DEF Still, MeasuredLater
<1> QED BY <1>1, <1>2

\* What a step leaves of what is reported.
LEMMA ReportingSame ==
    UNCHANGED <<my_stats, tracked_registers, engine, events>> =>
        my_stats' = my_stats /\ Reporting' = Reporting
BY DEF Reporting

LEMMA KvFinalStep ==
    ASSUME AttributesApart
    PROVE  IndInv /\ DefaultApart /\ KvFinal /\ [Next]_vars => KvFinal'
<1> SUFFICES ASSUME IndInv, DefaultApart, KvFinal, [Next]_vars, ~tampered'
             PROVE  KvFinal'
  BY DEF KvFinal
<1> USE DEF configVars, trackedVars, intervalVars, historyVars
<1>0. /\ TypeOK /\ MeasuredLater /\ OneAtATime /\ CountsInStep /\ NamesApart
      /\ \A i \in DOMAIN stored_intervals : IsInterval(stored_intervals[i])
      /\ Reporting \subseteq NamesReported
  BY ReportingKnown DEF IndInv, TypeOK
<1>1. ASSUME my_stats' = my_stats, Reporting' = Reporting,
             \A i \in DOMAIN stored_intervals' :
                 Settled(my_stats, Reporting, stored_intervals'[i], i)
      PROVE  KvFinal'
  BY <1>1 DEF KvFinal
<1>2. ~tampered => \A i \in DOMAIN stored_intervals :
          Settled(my_stats, Reporting, stored_intervals[i], i)
  BY DEF KvFinal
<1>3. ASSUME NEW kv \in Attributes, BeginInterval(kv) PROVE KvFinal'
  <2>1. /\ DOMAIN stored_intervals = 1 .. Len(stored_intervals)
        /\ Len(stored_intervals) \in Nat
        /\ DOMAIN stored_intervals' = 1 .. Len(stored_intervals) + 1
        /\ stored_intervals'[Len(stored_intervals) + 1] = Timed(kv)
        /\ \A i \in 1 .. Len(stored_intervals) : stored_intervals'[i] = stored_intervals[i]
    BY <1>0, <1>3, BeginStored
  <2>2. ~tampered /\ my_stats' = my_stats /\ Reporting' = Reporting
    BY <1>3, ReportingSame DEF BeginInterval
  <2>3. DOMAIN Timed(kv).kv \cap Reporting = {}
    <3>1. Timed(kv).kv = Merge(default_kv, kv) BY <1>0, Begun
    <3>2. DOMAIN Merge(default_kv, kv) = DOMAIN default_kv \cup DOMAIN kv BY MergeAt
    <3>3. DOMAIN kv \cap NamesReported = {} BY DEF AttributesApart
    <3> QED BY <1>0, <3>1, <3>2, <3>3 DEF DefaultApart
  <2>4. ASSUME NEW i \in DOMAIN stored_intervals'
        PROVE  Settled(my_stats, Reporting, stored_intervals'[i], i)
    <3>1. CASE i = Len(stored_intervals) + 1 BY <2>1, <2>3, <3>1 DEF Settled
    <3>2. CASE i \in DOMAIN stored_intervals
      <4>1. stored_intervals'[i] = stored_intervals[i] BY <2>1, <3>2
      <4> QED BY <1>2, <2>2, <3>2, <4>1
    <3> QED BY <2>1, <3>1, <3>2
  <2> QED BY <1>1, <2>2, <2>4
<1>4. CASE EndInterval
  <2> DEFINE n == Read("core", current) \o Read("rapl", current)
             iv == stored_intervals[current]
  <2>1. /\ current \in DOMAIN stored_intervals
        /\ DOMAIN stored_intervals' = DOMAIN stored_intervals
        /\ stored_intervals'[current] = [iv EXCEPT !.end = now, !.counts = n]
        /\ \A i \in DOMAIN stored_intervals :
             i # current => stored_intervals'[i] = stored_intervals[i]
    BY <1>0, <1>4, EndStored
  <2> HIDE DEF n
  <2>2. ~tampered /\ my_stats' = my_stats /\ Reporting' = Reporting
    BY <1>4, ReportingSame DEF EndInterval
  <2>3. ~Finished(iv) /\ IsInterval(iv) BY <1>0, <2>1 DEF OneAtATime, Finished
  <2>4. Settled(my_stats, Reporting, iv, current) BY <1>2, <2>1, <2>2
  <2> HIDE DEF iv
  <2>5. stored_intervals'[current].kv = iv.kv BY <2>1, <2>3 DEF IsInterval
  <2>6. Settled(my_stats, Reporting, stored_intervals'[current], current)
    <3> DEFINE e == stored_intervals'[current]
    <3>1. e.mhz = iv.mhz /\ e.kv = iv.kv BY <2>1, <2>3, <2>5 DEF IsInterval
    <3> HIDE DEF e
    <3>2. ASSUME NEW c \in DOMAIN iv.kv \cap Reporting, iv.kv[c] # Undefined
          PROVE  iv.kv[c] = Final(my_stats, e, current, c)
      <4>1. iv.kv[c] = Final(my_stats, iv, current, c) BY <2>4, <3>2 DEF Settled
      <4>2. Final(my_stats, iv, current, c) # Undefined BY <3>2, <4>1
      <4> QED BY <2>3, <3>1, <4>1, <4>2, FinalDone
    <3>3. Settled(my_stats, Reporting, e, current) BY <3>1, <3>2 DEF Settled
    <3> QED BY <3>3 DEF e
  <2>7. \A i \in DOMAIN stored_intervals' :
            Settled(my_stats, Reporting, stored_intervals'[i], i)
    BY <1>2, <2>1, <2>2, <2>6
  <2> QED BY <1>1, <2>2, <2>7
<1>5. CASE WriteCsv
  <2>1. /\ DOMAIN stored_intervals' = DOMAIN stored_intervals
        /\ \A i \in DOMAIN stored_intervals :
             stored_intervals'[i] = [stored_intervals[i] EXCEPT
                                       !.kv = BuildJson(stored_intervals[i], i)]
        /\ ~tampered
    BY <1>0, <1>5, WriteStored
  <2>2. my_stats' = my_stats /\ Reporting' = Reporting
    BY <1>5, ReportingSame DEF WriteCsv
  <2>3. ASSUME NEW i \in DOMAIN stored_intervals
        PROVE  Settled(my_stats, Reporting, stored_intervals'[i], i)
    <3> DEFINE iv == stored_intervals[i]  new == BuildJson(iv, i)
    <3>1. IsInterval(iv) /\ stored_intervals'[i] = [iv EXCEPT !.kv = new] BY <1>0, <2>1
    <3>2. \A c \in Reporting : new[c] = Final(my_stats, iv, i, c)
      BY <1>0, <2>1, ReportIs
    <3> HIDE DEF new, iv
    <3>3. stored_intervals'[i].kv = new BY <3>1, Written
    <3>4. \A c : Final(my_stats, stored_intervals'[i], i, c) = Final(my_stats, iv, i, c)
      BY <3>1, FinalWritten
    <3> QED BY <3>2, <3>3, <3>4 DEF Settled
  <2> QED BY <1>1, <2>1, <2>2, <2>3
<1>6. CASE ClearTrackedStats BY <1>6 DEF ClearTrackedStats
<1>7. CASE Tracking \/ (Still /\ engine' # engine)
  <2>1. stored_intervals' = <<>> BY <1>0, <1>7, TrackedEarly
  <2>2. DOMAIN stored_intervals' = {} BY <2>1
  <2> QED BY <2>2 DEF KvFinal
<1>8. CASE Still /\ engine' = engine
  <2>1. UNCHANGED <<my_stats, tracked_registers, events, stored_intervals, tampered>>
    BY <1>8 DEF Still
  <2>2. my_stats' = my_stats /\ Reporting' = Reporting BY <1>8, <2>1, ReportingSame
  <2> QED BY <1>1, <1>2, <2>1, <2>2
<1> QED BY <1>0, <1>3, <1>4, <1>5, <1>6, <1>7, <1>8, StepIs

\* What was reported for an interval that is over is reported again.
LEMMA RowsStep ==
    ASSUME IndInv, KvFinal, [Next]_vars, ~tampered',
           NEW i \in DOMAIN stored_intervals, NEW c \in DOMAIN stored_intervals[i].kv,
           Finished(stored_intervals[i]), stored_intervals[i].kv[c] # Undefined
    PROVE  stored_intervals'[i].kv[c] = stored_intervals[i].kv[c]
<1> USE DEF configVars, trackedVars, intervalVars, historyVars
<1>0. /\ TypeOK /\ OneAtATime /\ CountsInStep /\ NamesApart
      /\ IsInterval(stored_intervals[i])
  BY DEF IndInv, TypeOK
<1>1. ASSUME NEW kv \in Attributes, BeginInterval(kv)
      PROVE  stored_intervals'[i] = stored_intervals[i]
  BY <1>0, <1>1, BeginStored
<1>2. ASSUME EndInterval PROVE stored_intervals'[i] = stored_intervals[i]
  <2>1. i # current BY <1>0, <1>2 DEF OneAtATime, Finished
  <2> QED BY <1>0, <1>2, <2>1, EndStored
<1>3. ASSUME WriteCsv PROVE stored_intervals'[i].kv[c] = stored_intervals[i].kv[c]
  <2> DEFINE iv == stored_intervals[i]  new == BuildJson(iv, i)
  <2>1. ~tampered /\ stored_intervals'[i] = [iv EXCEPT !.kv = new]
    BY <1>0, <1>3, WriteStored
  <2>2. /\ \A d \in Reporting : new[d] = Final(my_stats, iv, i, d)
        /\ \A d \in DOMAIN iv.kv : d \notin Reporting => new[d] = iv.kv[d]
    BY <1>0, <2>1, ReportIs
  <2>3. Settled(my_stats, Reporting, iv, i) BY <2>1 DEF KvFinal
  <2> HIDE DEF new
  <2>4. stored_intervals'[i].kv = new BY <1>0, <2>1, Written
  <2>5. new[c] = iv.kv[c] BY <2>2, <2>3 DEF Settled
  <2> QED BY <2>4, <2>5
<1>4. ASSUME Tracking \/ Still PROVE stored_intervals'[i] = stored_intervals[i]
  BY <1>4 DEF Tracking, Still
<1>5. ~ClearTrackedStats BY DEF ClearTrackedStats
<1> QED BY <1>0, <1>1, <1>2, <1>3, <1>4, <1>5, StepIs

\* A row has a value for what is tracked and registered.
LEMMA CompleteStep ==
    ASSUME IndInv, PapiOnly, WriteCsv, ~tampered,
           NEW i \in DOMAIN stored_intervals, Finished(stored_intervals[i]),
           NEW c \in stats, Tracks(c)
    PROVE  rows'[i][c] \notin {Blank, Undefined}
<1> DEFINE iv == stored_intervals[i]  new == BuildJson(iv, i)
<1>0. TypeOK /\ CountsInStep /\ NamesApart BY DEF IndInv
<1>1. c \in Reporting
  <2>1. CASE c \in my_stats BY <2>1 DEF Reporting
  <2>2. CASE \E s \in EventSets : c \in ToSet(events[s])
    <3>1. PICK s \in EventSets : c \in ToSet(events[s]) BY <2>2
    <3>2. engine = "papi"
      <4>1. SUFFICES ASSUME engine # "papi" PROVE FALSE OBVIOUS
      <4>2. events[s] = <<>> BY <4>1 DEF PapiOnly
      <4>3. ToSet(events[s]) = {} BY <4>2 DEF ToSet
      <4> QED BY <3>1, <4>3
    <3>3. c \in ToSet(events["core"]) \cup ToSet(events["rapl"]) BY <3>1 DEF EventSets
    <3> QED BY <3>2, <3>3 DEF Reporting
  <2>3. CASE c \in tracked_registers /\ RegisterName[c] = c BY <2>3 DEF Reporting
  <2> QED BY <2>1, <2>2, <2>3 DEF Tracks
<1>2. /\ DOMAIN new = DOMAIN iv.kv \cup Reporting
      /\ \A d \in Reporting : new[d] = Final(my_stats, iv, i, d)
  BY <1>0, ReportIs
<1>3. rows' = [j \in DOMAIN stored_intervals |->
                 [d \in Columns |-> Cell(BuildJson(stored_intervals[j], j), d)]]
  BY DEF WriteCsv
<1>4. c \in Columns BY DEF Columns
<1>5. rows'[i][c] = Cell(new, c) BY <1>3, <1>4
<1> HIDE DEF new
<1>6. Cell(new, c) = Final(my_stats, iv, i, c) BY <1>1, <1>2 DEF Cell
<1> QED BY <1>5, <1>6, FinalDefined

(***************************************************************************)
(* The theorems.                                                           *)
(***************************************************************************)
\* The invariant holds in every state, whatever the events, the command
\* lines, the attributes and the order of the calls.
THEOREM Invariance == Spec => []IndInv
<1>1. Init => IndInv BY InitInv
<1>2. IndInv /\ [Next]_vars => IndInv'
  BY TypeStep, ApartStep, InStepStep, OwnStep, CountsStep, NamesStep DEF IndInv
<1> QED BY <1>1, <1>2, PTL DEF Spec

\* At most one interval is open and intervals do not overlap.
THEOREM OneAtATimeCorrect == Spec => []OneAtATime
<1>1. IndInv => OneAtATime BY DEF IndInv
<1> QED BY <1>1, Invariance, PTL

\* No count is ever reported for another interval than its own; and under
\* another event's name only after a clear, or if it is a rapl count and a core
\* event was tracked after its interval.
THEOREM TrueCountsCorrect == Spec => []TrueCounts
<1>1. Init => TrueCounts
  <2> SUFFICES ASSUME Init PROVE TrueCounts OBVIOUS
  <2>1. DOMAIN stored_intervals = {} BY DEF Init
  <2> QED BY <2>1 DEF TrueCounts
<1>2. IndInv /\ TrueCounts /\ [Next]_vars => TrueCounts' BY TrueStep
<1> QED BY <1>1, <1>2, Invariance, PTL DEF Spec

\* A line of the table has a value for everything that is both tracked and
\* registered, when the interval is over and the lists are in step.
THEOREM RowsCompleteCorrect == Spec => RowsComplete
<1>1. Init => PapiOnly BY DEF Init, PapiOnly
<1>2. IndInv /\ PapiOnly /\ [Next]_vars => PapiOnly' BY PapiOnlyStep DEF IndInv
<1>3. IndInv /\ PapiOnly /\ [Next]_vars =>
        [WriteCsv /\ ~tampered =>
            \A i \in DOMAIN stored_intervals :
                Finished(stored_intervals[i]) =>
                    \A c \in stats :
                        Tracks(c) => rows'[i][c] \notin {Blank, Undefined}]_vars
  BY CompleteStep
<1> QED BY <1>1, <1>2, <1>3, Invariance, PTL DEF Spec, RowsComplete

\* What was reported for an interval that is over never changes, if no
\* attribute, tag or calculation has the name of something reported.
THEOREM RowsFinalCorrect ==
    ASSUME AttributesApart
    PROVE  Spec => RowsFinal
<1>1. Init => DefaultApart /\ KvFinal
  <2> SUFFICES ASSUME Init PROVE DefaultApart /\ KvFinal OBVIOUS
  <2>1. DOMAIN default_kv = {} /\ line \in CommandLines BY DEF Init, Empty
  <2>2. DOMAIN stored_intervals = {} BY DEF Init
  <2> QED BY <2>1, <2>2 DEF DefaultApart, KvFinal, AttributesApart
<1>2. IndInv /\ DefaultApart /\ [Next]_vars => DefaultApart' BY DefaultStep DEF IndInv
<1>3. IndInv /\ DefaultApart /\ KvFinal /\ [Next]_vars => KvFinal' BY KvFinalStep
<1>4. IndInv /\ KvFinal /\ [Next]_vars =>
        [~tampered' =>
            \A i \in DOMAIN stored_intervals :
                \A c \in DOMAIN stored_intervals[i].kv :
                    LET v == stored_intervals[i].kv[c] IN
                    Finished(stored_intervals[i]) /\ v # Undefined =>
                        stored_intervals'[i].kv[c] = v]_vars
  BY RowsStep
<1> QED BY <1>1, <1>2, <1>3, <1>4, Invariance, PTL DEF Spec, RowsFinal
=============================================================================
