------------------------ MODULE CacheControl_proofs ------------------------
(***************************************************************************)
(* Proofs about the machine's state, for any programs and CPUs, any number *)
(* of open files and loads of the module, and failures of every call.      *)
(*                                                                         *)
(* The argument: a program that flushes has the device open, so the module *)
(* is not unloaded (InUse); what a loop over the CPUs has behind it is     *)
(* done, was said to have failed, or was undone by another (Progress).     *)
(***************************************************************************)
EXTENDS CacheControl, TLAPS

\* The machine starts in a state of the inductive invariant.
LEMMA InitInv == Init => IndInv
<1> SUFFICES ASSUME Init PROVE IndInv OBVIOUS
<1> USE DEF Init
<1>1. TypeOK
  BY DEF TypeOK, Steps, Calls, Frequencies, Absent, Good, Error
<1>2. InUse BY DEF InUse
<1>3. NothingLeft BY DEF NothingLeft
<1>4. Progress
  BY DEF Progress, ProgressOf
<1> QED BY <1>1, <1>2, <1>3, <1>4 DEF IndInv

\* Every step of the administrator preserves the types.
LEMMA AdminTypes == TypeOK /\ Admin => TypeOK'
<1> SUFFICES ASSUME TypeOK, Admin PROVE TypeOK' OBVIOUS
<1>1. UNCHANGED <<programVars, machineVars, historyVars>>
  BY DEF Admin, Insmod, AllocRegion, CreateClass, CreateDevice, AddCdev, Rmmod,
         DelCdev, DestroyAll
<1>2. /\ mod' \in {"out", "region", "class", "device", "cdev", "live", "del",
                  "destroy", "oops"}
      /\ {region', class', node', cdev'} \subseteq {Absent, Good, Error}
      /\ loads' \in Nat
  BY DEF TypeOK, Admin, Insmod, AllocRegion, CreateClass, CreateDevice, AddCdev,
         Rmmod, DelCdev, DestroyAll
<1> QED BY <1>1, <1>2 DEF TypeOK, programVars, machineVars, historyVars

\* So does every step of a program.
LEMMA ProgramTypes ==
    ASSUME TypeOK, NEW p \in Procs,
           \/ \E c \in Calls : Enter(p, c)
           \/ Step(p) \/ EndProgram(p)
    PROVE  TypeOK'
<1> USE MachineAssumption
    DEF TypeOK, kernelVars, machineVars, historyVars, Frequencies
<1>1. ASSUME NEW c \in Calls, Enter(p, c) PROVE TypeOK'
  <2>1. First(c) \in Steps BY DEF First, Calls, Steps
  <2> QED BY <1>1, <2>1 DEF Enter
<1>2. ASSUME Unflushed(p),
             UNCHANGED <<kernelVars, machineVars, historyVars, call, fds, nominal>>
      PROVE  TypeOK'
  <2>1. AfterFlush(p) \in Steps BY DEF AfterFlush, Steps
  <2> QED BY <1>2, <2>1 DEF Unflushed
<1>3. CASE AccessFails(p) BY <1>2, <1>3 DEF AccessFails
<1>4. CASE OpenFails(p) BY <1>2, <1>4 DEF OpenFails
<1>5. CASE Access(p) BY <1>5 DEF Access, Steps
<1>6. CASE Open(p) BY <1>6 DEF Open, Steps
<1>7. ASSUME NEW c \in CPUs, FlushCpu(p, c) PROVE TypeOK'
  <2>1. todo' \in [Procs -> SUBSET CPUs] BY <1>7 DEF FlushCpu
  <2>2. flushed' \in [Procs -> SUBSET CPUs] BY <1>7 DEF FlushCpu
  <2> QED BY <1>7, <2>1, <2>2 DEF FlushCpu
<1>8. CASE IoctlReturns(p)
  <2>1. AfterFlush(p) \in Steps BY DEF AfterFlush, Steps
  <2> QED BY <1>8, <2>1 DEF IoctlReturns
<1>9. disturbed' = [q \in Procs |->
          disturbed[q] \/ (q # p /\ pc[q] # "app" /\ call[q] = "pristine_machine")]
        => disturbed' \in [Procs -> BOOLEAN]
  OBVIOUS
<1>10. ASSUME NEW c \in CPUs, NEW ok \in BOOLEAN, SetPrefetcher(p, c, ok)
       PROVE  TypeOK'
  <2>1. disturbed' \in [Procs -> BOOLEAN]
    BY <1>9, <1>10 DEF SetPrefetcher, Disturb
  <2>2. prefetch' \in [CPUs -> BOOLEAN]
    <3> DEFINE on == (call[p] = "pristine_machine")
    <3>1. on \in BOOLEAN OBVIOUS
    <3>2. prefetch' = [prefetch EXCEPT ![c] = on] \/ prefetch' = prefetch
      BY <1>10 DEF SetPrefetcher
    <3> HIDE DEF on
    <3> QED BY <3>1, <3>2
  <2>3. /\ todo' \in [Procs -> SUBSET CPUs]
        /\ said' \in [Procs -> SUBSET {"flush", "prefetcher", "frequency"}]
    BY <1>10 DEF SetPrefetcher
  <2> QED BY <1>10, <2>1, <2>2, <2>3 DEF SetPrefetcher
<1>11. CASE PrefetcherSet(p) BY <1>11 DEF PrefetcherSet, Steps
<1>12. CASE Record(p) BY <1>12 DEF Record, Wanted, Steps
<1>13. ASSUME NEW ok \in BOOLEAN, CpuPower(p, ok) PROVE TypeOK'
  <2>1. disturbed' \in [Procs -> BOOLEAN]
    BY <1>9, <1>13 DEF CpuPower, Disturb
  <2>2. /\ pc' \in [Procs -> Steps] /\ mhz' \in Frequencies
        /\ said' \in [Procs -> SUBSET {"flush", "prefetcher", "frequency"}]
    BY <1>13 DEF CpuPower, Steps
  <2> QED BY <1>13, <2>1, <2>2 DEF CpuPower
<1>14. CASE Return(p) BY <1>14 DEF Return, Forget, Steps, Calls
<1>15. CASE EndProgram(p) BY <1>15 DEF EndProgram
<1> QED
  BY <1>1, <1>3, <1>4, <1>5, <1>6, <1>7, <1>8, <1>10, <1>11, <1>12, <1>13,
     <1>14, <1>15 DEF Step

\* The device stays while it is in use.
LEMMA InUseStep == TypeOK /\ InUse /\ [Next]_vars => InUse'
<1> SUFFICES ASSUME TypeOK, InUse, [Next]_vars PROVE InUse' OBVIOUS
<1>1. CASE UNCHANGED vars
  BY <1>1 DEF InUse, vars, kernelVars, programVars
<1>2. CASE Admin
  <2>1. UNCHANGED <<pc, fds>>
    BY <1>2 DEF Admin, Insmod, AllocRegion, CreateClass, CreateDevice, AddCdev,
                Rmmod, DelCdev, DestroyAll, programVars
  <2>2. SUFFICES ASSUME NEW p \in Procs, fds[p] > 0 PROVE UNCHANGED <<mod, node, cdev>>
    BY <2>1 DEF InUse
  <2>3. mod = "live" /\ fds[p] # 0 BY <2>2 DEF InUse, TypeOK
  <2> QED BY <1>2, <2>3 DEF Admin, Insmod, AllocRegion, CreateClass, CreateDevice,
                AddCdev, Rmmod, DelCdev, DestroyAll
<1>3. ASSUME NEW p \in Procs,
             \/ \E c \in Calls : Enter(p, c)
             \/ Step(p) \/ EndProgram(p)
      PROVE  InUse'
  <2>1. UNCHANGED <<mod, node, cdev>>
    BY <1>3 DEF Enter, Step, AccessFails, Access, OpenFails, Open, FlushCpu,
                IoctlReturns, SetPrefetcher, PrefetcherSet, Record, CpuPower,
                Return, EndProgram, kernelVars
  <2>2. \A q \in Procs \ {p} : fds'[q] = fds[q] /\ pc'[q] = pc[q]
    BY <1>3 DEF TypeOK, Enter, Step, AccessFails, Access, OpenFails, Open, FlushCpu,
                IoctlReturns, SetPrefetcher, PrefetcherSet, Record, CpuPower,
                Return, EndProgram, Unflushed
  <2>3. /\ fds'[p] > 0 => mod = "live" /\ node = Good /\ cdev = Good
        /\ pc'[p] = "flush" => fds'[p] > 0
    <3>1. CASE \E c \in Calls : Enter(p, c)
      BY <3>1 DEF TypeOK, InUse, Enter, First, Calls
    <3>2. CASE EndProgram(p) BY <3>2 DEF TypeOK, InUse, EndProgram
    <3>3. CASE Open(p) BY <3>3 DEF TypeOK, InUse, Open, CanOpen
    <3>4. CASE AccessFails(p) \/ OpenFails(p)
      BY <3>4 DEF TypeOK, InUse, AccessFails, OpenFails, Unflushed, AfterFlush
    <3>5. CASE Access(p) \/ PrefetcherSet(p) \/ Record(p) \/ Return(p)
      BY <3>5 DEF TypeOK, InUse, Access, PrefetcherSet, Record, Return
    <3>6. CASE IoctlReturns(p) BY <3>6 DEF TypeOK, InUse, IoctlReturns, AfterFlush
    <3>7. CASE \E c \in CPUs : FlushCpu(p, c) BY <3>7 DEF TypeOK, InUse, FlushCpu
    <3>8. CASE \E c \in CPUs, ok \in BOOLEAN : SetPrefetcher(p, c, ok)
      BY <3>8 DEF TypeOK, InUse, SetPrefetcher
    <3>9. CASE \E ok \in BOOLEAN : CpuPower(p, ok)
      BY <3>9 DEF TypeOK, InUse, CpuPower
    <3> QED BY <1>3, <3>1, <3>2, <3>3, <3>4, <3>5, <3>6, <3>7, <3>8, <3>9 DEF Step
  <2> QED BY <2>1, <2>2, <2>3 DEF InUse
<1> QED BY <1>1, <1>2, <1>3 DEF Next

\* An unloaded module has left nothing behind.
LEMMA NothingLeftStep == NothingLeft /\ [Next]_vars => NothingLeft'
<1> SUFFICES ASSUME NothingLeft, [Next]_vars PROVE NothingLeft' OBVIOUS
<1>1. CASE UNCHANGED kernelVars BY <1>1 DEF NothingLeft, kernelVars
<1>2. CASE Admin
  BY <1>2 DEF NothingLeft, Admin, Insmod, AllocRegion, CreateClass, CreateDevice,
              AddCdev, Rmmod, DelCdev, DestroyAll
<1>3. ASSUME NEW p \in Procs,
             \/ \E c \in Calls : Enter(p, c)
             \/ Step(p) \/ EndProgram(p)
      PROVE  UNCHANGED kernelVars
  BY <1>3 DEF Enter, Step, AccessFails, Access, OpenFails, Open, FlushCpu,
              IoctlReturns, SetPrefetcher, PrefetcherSet, Record, CpuPower,
              Return, EndProgram
<1> QED BY <1>1, <1>2, <1>3 DEF Next, vars

\* A step of one program keeps what another has behind it, or disturbs it.
LEMMA OthersProgress ==
    ASSUME TypeOK, NEW p \in Procs, NEW q \in Procs, q # p, ProgressOf(q),
           \/ \E c \in Calls : Enter(p, c)
           \/ Step(p) \/ EndProgram(p)
    PROVE  ProgressOf(q)'
<1> USE DEF TypeOK
<1>1. /\ pc'[q] = pc[q] /\ call'[q] = call[q] /\ todo'[q] = todo[q]
      /\ said'[q] = said[q] /\ nominal'[q] = nominal[q]
  BY DEF Enter, Step, AccessFails, Access, OpenFails, Open, FlushCpu, Unflushed,
         IoctlReturns, SetPrefetcher, PrefetcherSet, Record, CpuPower,
         Return, Forget, EndProgram
<1>2. /\ flushed[q] \subseteq flushed'[q]
      /\ pc[q] \notin {"access", "open", "flush"} => flushed'[q] = flushed[q]
  BY DEF Enter, Step, AccessFails, Access, OpenFails, Open, FlushCpu, Unflushed,
         IoctlReturns, SetPrefetcher, PrefetcherSet, Record, CpuPower,
         Return, Forget, EndProgram, historyVars
<1>3. /\ disturbed[q] => disturbed'[q]
      /\ pc[q] # "app" /\ call[q] = "pristine_machine" =>
             \/ disturbed'[q]
             \/ UNCHANGED <<prefetch, mhz>>
  <2>1. CASE \E c \in CPUs, ok \in BOOLEAN : SetPrefetcher(p, c, ok)
    BY <2>1 DEF SetPrefetcher, Disturb
  <2>2. CASE \E ok \in BOOLEAN : CpuPower(p, ok)
    BY <2>2 DEF CpuPower, Disturb
  <2>3. CASE Return(p) BY <2>3 DEF Return, Forget, machineVars
  <2>4. CASE \E c \in CPUs : FlushCpu(p, c) BY <2>4 DEF FlushCpu, machineVars
  <2>5. CASE UNCHANGED <<machineVars, historyVars>>
    BY <2>5 DEF machineVars, historyVars
  <2> QED
    BY <2>1, <2>2, <2>3, <2>4, <2>5 DEF Enter, Step, AccessFails, Access, OpenFails,
       Open, IoctlReturns, PrefetcherSet, Record, EndProgram
<1> QED
  BY <1>1, <1>2, <1>3 DEF ProgressOf, Flushes, FlushedOrSaid, PrefetchOrSaid, ClockOrSaid

\* A program's own step keeps what it has behind it.
LEMMA OwnProgress ==
    ASSUME TypeOK, NEW p \in Procs, ProgressOf(p),
           \/ \E c \in Calls : Enter(p, c)
           \/ Step(p) \/ EndProgram(p)
    PROVE  ProgressOf(p)'
<1> USE DEF TypeOK, ProgressOf, Flushes, FlushedOrSaid, PrefetchOrSaid, ClockOrSaid,
            machineVars, historyVars
<1>1. ASSUME NEW c \in Calls, Enter(p, c) PROVE ProgressOf(p)'
  <2>1. pc'[p] = First(c) /\ call'[p] = c BY <1>1 DEF Enter
  <2>2. CASE c \in {"flush_caches", "pristine_machine"}
    BY <2>1, <2>2 DEF First
  <2>3. CASE c \in {"disable_prefetcher", "slow_down"}
    BY <2>1, <2>3 DEF First
  <2> QED BY <2>2, <2>3 DEF Calls
<1>2. ASSUME Unflushed(p), pc[p] \in {"access", "open"}, UNCHANGED <<historyVars, call>>
      PROVE  ProgressOf(p)'
  <2>1. /\ pc'[p] = AfterFlush(p) /\ "flush" \in said'[p]
        /\ todo'[p] = CPUs /\ call'[p] = call[p]
    BY <1>2 DEF Unflushed
  <2>2. call[p] \in {"flush_caches", "pristine_machine"} BY <1>2
  <2> QED BY <2>1, <2>2 DEF AfterFlush
<1>3. CASE AccessFails(p) BY <1>2, <1>3 DEF AccessFails
<1>4. CASE OpenFails(p) BY <1>2, <1>4 DEF OpenFails
<1>5. CASE Access(p) BY <1>5 DEF Access
<1>6. CASE Open(p) BY <1>6 DEF Open
<1>7. ASSUME NEW c \in CPUs, FlushCpu(p, c) PROVE ProgressOf(p)'
  <2>1. /\ pc'[p] = "flush" /\ call'[p] = call[p] /\ pc[p] = "flush"
        /\ todo'[p] = todo[p] \ {c} /\ flushed'[p] = flushed[p] \cup {c}
    BY <1>7 DEF FlushCpu
  <2> QED BY <2>1
<1>8. CASE IoctlReturns(p)
  <2>1. /\ pc'[p] = AfterFlush(p) /\ flushed'[p] = flushed[p]
        /\ todo'[p] = CPUs /\ call'[p] = call[p] /\ pc[p] = "flush"
    BY <1>8 DEF IoctlReturns
  <2>2. flushed[p] = CPUs
    <3>1. CPUs \subseteq flushed[p] BY <1>8 DEF IoctlReturns
    <3>2. flushed[p] \subseteq CPUs OBVIOUS
    <3> QED BY <3>1, <3>2
  <2>3. call[p] \in {"flush_caches", "pristine_machine"} BY <2>1
  <2> QED BY <2>1, <2>2, <2>3 DEF AfterFlush
<1>9. ASSUME NEW c \in CPUs, NEW ok \in BOOLEAN, SetPrefetcher(p, c, ok)
      PROVE  ProgressOf(p)'
  <2>1. /\ pc[p] = "prefetcher" /\ pc'[p] = pc[p] /\ call'[p] = call[p]
        /\ todo'[p] = todo[p] \ {c} /\ flushed'[p] = flushed[p]
        /\ said[p] \subseteq said'[p]
    BY <1>9 DEF SetPrefetcher
  <2>2. call[p] = "pristine_machine" => PrefetchOrSaid(p, CPUs \ todo[p])'
    <3>1. CASE ok
      <4>1. disturbed[p] => disturbed'[p] BY <1>9, <3>1 DEF SetPrefetcher, Disturb
      <4>2. call[p] = "pristine_machine" => prefetch' = [prefetch EXCEPT ![c] = TRUE]
        BY <1>9, <3>1 DEF SetPrefetcher
      <4> QED BY <2>1, <4>1, <4>2
    <3>2. CASE ~ok
      <4>1. "prefetcher" \in said'[p] BY <1>9, <3>2 DEF SetPrefetcher
      <4> QED BY <4>1
    <3> QED BY <3>1, <3>2
  <2> QED BY <2>1, <2>2
<1>10. CASE PrefetcherSet(p)
  <2>1. /\ pc[p] = "prefetcher" /\ call'[p] = call[p] /\ todo[p] = {}
        /\ pc'[p] = IF call[p] = "pristine_machine" THEN "frequency" ELSE "returned"
        /\ UNCHANGED <<flushed, said, disturbed, prefetch>>
    BY <1>10 DEF PrefetcherSet
  <2> QED BY <2>1
<1>11. CASE Record(p)
  <2>1. /\ pc[p] = "frequency" /\ call'[p] = call[p] /\ pc'[p] = "cpupower"
        /\ nominal'[p] = Wanted(p)
        /\ UNCHANGED <<flushed, said, disturbed, prefetch>>
    BY <1>11 DEF Record
  <2> QED BY <2>1 DEF Wanted
<1>12. ASSUME NEW ok \in BOOLEAN, CpuPower(p, ok) PROVE ProgressOf(p)'
  <2>1. /\ pc[p] = "cpupower" /\ call'[p] = call[p] /\ pc'[p] = "returned"
        /\ said[p] \subseteq said'[p]
        /\ disturbed[p] => disturbed'[p]
        /\ UNCHANGED <<flushed, prefetch, nominal>>
    BY <1>12 DEF CpuPower, Disturb
  <2>2. mhz' = nominal[p] \/ "frequency" \in said'[p]
    BY <1>12 DEF CpuPower
  <2> QED BY <2>1, <2>2
<1>13. CASE Return(p) BY <1>13 DEF Return, Forget
<1>14. CASE EndProgram(p) BY <1>14 DEF EndProgram
<1> QED
  BY <1>1, <1>3, <1>4, <1>5, <1>6, <1>7, <1>8, <1>9, <1>10, <1>11, <1>12,
     <1>13, <1>14 DEF Step

\* The administrator's steps do not touch what Progress speaks of.
LEMMA ProgressStep == TypeOK /\ Progress /\ [Next]_vars => Progress'
<1> SUFFICES ASSUME TypeOK, Progress, [Next]_vars, NEW q \in Procs
             PROVE  ProgressOf(q)'
  BY DEF Progress
<1>1. ProgressOf(q) BY DEF Progress
<1>2. CASE UNCHANGED <<programVars, machineVars, historyVars>>
  BY <1>1, <1>2 DEF ProgressOf, Flushes, FlushedOrSaid, PrefetchOrSaid, ClockOrSaid,
                    programVars, machineVars, historyVars
<1>3. CASE Admin
  <2>1. UNCHANGED <<programVars, machineVars, historyVars>>
    BY <1>3 DEF Admin, Insmod, AllocRegion, CreateClass, CreateDevice, AddCdev,
                Rmmod, DelCdev, DestroyAll
  <2> QED BY <1>2, <2>1
<1>4. CASE UNCHANGED vars BY <1>2, <1>4 DEF vars
<1>5. ASSUME NEW p \in Procs,
             \/ \E c \in Calls : Enter(p, c)
             \/ Step(p) \/ EndProgram(p)
      PROVE  ProgressOf(q)'
  <2>1. CASE p = q BY <1>1, <1>5, <2>1, OwnProgress
  <2>2. CASE p # q BY <1>1, <1>5, <2>2, OthersProgress
  <2> QED BY <2>1, <2>2
<1> QED BY <1>3, <1>4, <1>5 DEF Next

\* The inductive invariant holds whatever the programs, the administrator and
\* the failures of the calls: cache_control.c and DataCollector.cpp:311-372.
THEOREM Invariance == Spec => []IndInv
<1>1. Init => IndInv BY InitInv
<1>2. IndInv /\ [Next]_vars => IndInv'
  <2> SUFFICES ASSUME IndInv, [Next]_vars PROVE IndInv' OBVIOUS
  <2>1. TypeOK'
    <3>1. CASE UNCHANGED vars
      BY <3>1 DEF IndInv, TypeOK, vars, kernelVars, programVars, machineVars, historyVars
    <3> QED BY <3>1, AdminTypes, ProgramTypes DEF IndInv, Next
  <2> QED BY <2>1, InUseStep, NothingLeftStep, ProgressStep DEF IndInv
<1> QED BY <1>1, <1>2, PTL DEF Spec

\* pristine_machine has put the machine in its state, or has said that not.
THEOREM PristineOrSaidCorrect == Spec => []PristineOrSaid
<1>1. IndInv => PristineOrSaid
  BY DEF IndInv, Progress, ProgressOf, PristineOrSaid
<1> QED BY <1>1, Invariance, PTL
=============================================================================
