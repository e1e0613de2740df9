---------------------------- MODULE CacheControl ----------------------------
(***************************************************************************)
(* The state of the machine that measurements set: the kernel module       *)
(* cache_control.c, which an administrator loads and unloads, and the      *)
(* functions of DataCollector.cpp that flush the caches through it, switch *)
(* the prefetchers and set the clock frequency, called by several programs.*)
(*                                                                         *)
(* External: the kernel's device tables, its module counts (rmmod is       *)
(* refused while a file of the module is open) and the commands wrmsr and  *)
(* cpupower.  class_create and device_create of the kernel return an error *)
(* pointer, never NULL, and device_create fails under such a class;        *)
(* cdev_add returns an error number other than -1.                         *)
(***************************************************************************)
EXTENDS Naturals, FiniteSets

CONSTANTS
    Procs,       \* the programs
    CPUs,
    Fast, Slow,  \* two clock frequencies, the first is cpu_frequencies[0]
    MaxFds,      \* how many files a program may have open
    MaxLoads     \* bound: how often the module is loaded

ASSUME MachineAssumption == MaxFds \in Nat /\ MaxLoads \in Nat /\ Fast # Slow

Absent == "absent"   \* of a resource: not there
Good   == "good"     \* there
Error  == "error"    \* an error pointer is kept in its place

Calls == {"flush_caches", "pristine_machine", "disable_prefetcher", "slow_down"}

VARIABLES
    mod,         \* where the module is in its life
    region, class, node, cdev,   \* what it registered
    loads,
    pc, call,    \* program -> where it is, and in which call
    fds,         \* program -> files of the device it has open
    todo,        \* program -> CPUs its present loop or flush has left
    said,        \* program -> what it reported as failed in this call
    prefetch,    \* CPU -> its prefetchers are on
    mhz,         \* the clock frequency
    nominal,     \* program -> current_nominal_mhz
    flushed,     \* history: program -> CPUs flushed since its call began
    disturbed    \* history: program -> another changed the machine meanwhile

kernelVars  == <<mod, region, class, node, cdev, loads>>
programVars == <<pc, call, fds, todo, said, nominal>>
machineVars == <<prefetch, mhz>>
historyVars == <<flushed, disturbed>>
vars == <<kernelVars, programVars, machineVars, historyVars>>

Frequencies == {Fast, Slow}

Init ==
    /\ mod = "out"
    /\ region = Absent /\ class = Absent /\ node = Absent /\ cdev = Absent
    /\ loads = 0
    /\ pc = [p \in Procs |-> "app"]
    /\ call = [p \in Procs |-> "flush_caches"]
    /\ fds = [p \in Procs |-> 0]
    /\ todo = [p \in Procs |-> {}]
    /\ said = [p \in Procs |-> {}]
    /\ prefetch = [c \in CPUs |-> FALSE] /\ mhz = Slow
    /\ nominal = [p \in Procs |-> Fast]
    /\ flushed = [p \in Procs |-> {}]
    /\ disturbed = [p \in Procs |-> FALSE]

(***************************************************************************)
(* cache_control_init and cache_control_exit, a call of the kernel a step. *)
(***************************************************************************)
Insmod ==
    /\ mod = "out" /\ loads < MaxLoads
    /\ mod' = "region" /\ loads' = loads + 1
    /\ UNCHANGED <<region, class, node, cdev, programVars, machineVars,
                   historyVars>>

AllocRegion(ok) ==
    /\ mod = "region"
    /\ region' = IF ok THEN Good ELSE Absent
    /\ mod' = IF ok THEN "class" ELSE "out"
    /\ UNCHANGED <<class, node, cdev, loads, programVars, machineVars,
                   historyVars>>

\* The failures of these three are not what the code tests for: it goes on.
CreateClass(ok) ==
    /\ mod = "class"
    /\ class' = IF ok THEN Good ELSE Error
    /\ mod' = "device"
    /\ UNCHANGED <<region, node, cdev, loads, programVars, machineVars,
                   historyVars>>

CreateDevice(ok) ==
    /\ mod = "device"
    /\ node' = IF ok /\ class = Good THEN Good ELSE Absent
    /\ mod' = "cdev"
    /\ UNCHANGED <<region, class, cdev, loads, programVars, machineVars,
                   historyVars>>

\* Mutant: the failure of the last step is found and nothing is taken back.
AddCdevNoUnwind(ok) ==
    /\ mod = "cdev"
    /\ cdev' = IF ok THEN Good ELSE Absent
    /\ mod' = IF ok THEN "live" ELSE "out"
    /\ UNCHANGED <<region, class, node, loads, programVars, machineVars,
                   historyVars>>

AddCdev(ok) ==
    /\ mod = "cdev"
    /\ cdev' = IF ok THEN Good ELSE Absent
    /\ mod' = "live"
    /\ UNCHANGED <<region, class, node, loads, programVars, machineVars,
                   historyVars>>

\* The file operations name the module as their owner.
Rmmod ==
    /\ mod = "live" /\ \A p \in Procs : fds[p] = 0
    /\ mod' = "del"
    /\ UNCHANGED <<region, class, node, cdev, loads, programVars, machineVars,
                   historyVars>>

DelCdev ==
    /\ mod = "del"
    /\ cdev' = Absent
    /\ mod' = "destroy"
    /\ UNCHANGED <<region, class, node, loads, programVars, machineVars,
                   historyVars>>

\* device_destroy follows the class pointer: an error pointer ends in an oops
\* and the module stays as it is.
DestroyAll ==
    /\ mod = "destroy"
    /\ IF class = Error
       THEN mod' = "oops" /\ UNCHANGED <<region, class, node>>
       ELSE mod' = "out" /\ region' = Absent /\ class' = Absent /\ node' = Absent
    /\ UNCHANGED <<cdev, loads, programVars, machineVars, historyVars>>

(***************************************************************************)
(* A program calls one of DataCollector's functions.                       *)
(***************************************************************************)
First(c) == CASE c = "flush_caches"       -> "access"
              [] c = "pristine_machine"   -> "access"
              [] c = "disable_prefetcher" -> "prefetcher"
              [] c = "slow_down"          -> "frequency"

Enter(p, c) ==
    /\ pc[p] = "app"
    /\ pc' = [pc EXCEPT ![p] = First(c)]
    /\ call' = [call EXCEPT ![p] = c]
    /\ todo' = [todo EXCEPT ![p] = CPUs]
    /\ UNCHANGED <<kernelVars, machineVars, historyVars, fds, said, nominal>>

\* flush_caches returns: on to the prefetchers if pristine_machine called it.
AfterFlush(p) == IF call[p] = "pristine_machine" THEN "prefetcher" ELSE "returned"

Unflushed(p) ==
    /\ said' = [said EXCEPT ![p] = @ \cup {"flush"}]
    /\ pc' = [pc EXCEPT ![p] = AfterFlush(p)]
    /\ todo' = [todo EXCEPT ![p] = CPUs]

\* The device is not there, or may not be read and written.
AccessFails(p) ==
    /\ pc[p] = "access"
    /\ Unflushed(p)
    /\ UNCHANGED <<kernelVars, machineVars, historyVars, call, fds, nominal>>

Access(p) ==
    /\ pc[p] = "access" /\ node = Good
    /\ pc' = [pc EXCEPT ![p] = "open"]
    /\ UNCHANGED <<kernelVars, machineVars, historyVars, call, fds, todo, said,
                   nominal>>

\* The device may have gone since, or its driver not have come yet.
CanOpen(p) == node = Good /\ cdev = Good /\ mod = "live" /\ fds[p] < MaxFds

OpenFails(p) ==
    /\ pc[p] = "open" /\ ~CanOpen(p)
    /\ Unflushed(p)
    /\ UNCHANGED <<kernelVars, machineVars, historyVars, call, fds, nominal>>

Open(p) ==
    /\ pc[p] = "open" /\ CanOpen(p)
    /\ fds' = [fds EXCEPT ![p] = @ + 1]
    /\ pc' = [pc EXCEPT ![p] = "flush"]
    /\ todo' = [todo EXCEPT ![p] = CPUs]
    /\ UNCHANGED <<kernelVars, machineVars, historyVars, call, said, nominal>>

\* my_ioctl: every CPU writes back and invalidates its caches.
FlushCpu(p, c) ==
    /\ pc[p] = "flush" /\ c \in todo[p]
    /\ todo' = [todo EXCEPT ![p] = @ \ {c}]
    /\ flushed' = [q \in Procs |-> IF pc[q] \in {"access", "open", "flush"}
                                  THEN flushed[q] \cup {c} ELSE flushed[q]]
    /\ UNCHANGED <<kernelVars, machineVars, pc, call, fds, said, nominal,
                   disturbed>>

\* Mutant: on_each_cpu does not wait.
IoctlReturnsEarly(p) ==
    /\ pc[p] = "flush"
    /\ pc' = [pc EXCEPT ![p] = AfterFlush(p)]
    /\ todo' = [todo EXCEPT ![p] = CPUs]
    /\ UNCHANGED <<kernelVars, machineVars, historyVars, call, fds, said,
                   nominal>>

\* on_each_cpu waits for all of them.  The file is not closed.  my_ioctl does
\* not refuse this command, so that the program's exit at a refusal is not
\* reached.
IoctlReturns(p) ==
    /\ pc[p] = "flush" /\ todo[p] = {}
    /\ pc' = [pc EXCEPT ![p] = AfterFlush(p)]
    /\ todo' = [todo EXCEPT ![p] = CPUs]
    /\ UNCHANGED <<kernelVars, machineVars, historyVars, call, fds, said,
                   nominal>>

\* enable_prefetcher and disable_prefetcher: wrmsr on each CPU.
Disturb(p) == disturbed' = [q \in Procs |->
    disturbed[q] \/ (q # p /\ pc[q] # "app" /\ call[q] = "pristine_machine")]

SetPrefetcher(p, c, ok) ==
    /\ pc[p] = "prefetcher" /\ c \in todo[p]
    /\ todo' = [todo EXCEPT ![p] = @ \ {c}]
    /\ IF ok
       THEN /\ prefetch' = [prefetch EXCEPT ![c] = call[p] = "pristine_machine"]
            /\ Disturb(p) /\ UNCHANGED said
       ELSE /\ said' = [said EXCEPT ![p] = @ \cup {"prefetcher"}]
            /\ UNCHANGED <<prefetch, disturbed>>
    /\ UNCHANGED <<kernelVars, mhz, pc, call, fds, nominal, flushed>>

PrefetcherSet(p) ==
    /\ pc[p] = "prefetcher" /\ todo[p] = {}
    /\ pc' = [pc EXCEPT ![p] = IF call[p] = "pristine_machine"
                               THEN "frequency" ELSE "returned"]
    /\ UNCHANGED <<kernelVars, machineVars, historyVars, call, fds, todo, said,
                   nominal>>

\* set_cpu_clock_frequency: what is recorded with every interval is assigned
\* before the command is run, whatever becomes of it.
Wanted(p) == IF call[p] = "pristine_machine" THEN Fast ELSE Slow

Record(p) ==
    /\ pc[p] = "frequency"
    /\ nominal' = [nominal EXCEPT ![p] = Wanted(p)]
    /\ pc' = [pc EXCEPT ![p] = "cpupower"]
    /\ UNCHANGED <<kernelVars, machineVars, historyVars, call, fds, todo, said>>

CpuPower(p, ok) ==
    /\ pc[p] = "cpupower"
    /\ IF ok
       THEN mhz' = nominal[p] /\ Disturb(p) /\ UNCHANGED said
       ELSE /\ said' = [said EXCEPT ![p] = @ \cup {"frequency"}]
            /\ UNCHANGED <<mhz, disturbed>>
    /\ pc' = [pc EXCEPT ![p] = "returned"]
    /\ UNCHANGED <<kernelVars, prefetch, call, fds, todo, nominal, flushed>>

Forget(p) ==
    /\ call' = [call EXCEPT ![p] = "flush_caches"]
    /\ said' = [said EXCEPT ![p] = {}]
    /\ todo' = [todo EXCEPT ![p] = {}]
    /\ flushed' = [flushed EXCEPT ![p] = {}]
    /\ disturbed' = [disturbed EXCEPT ![p] = FALSE]

Return(p) ==
    /\ pc[p] = "returned"
    /\ pc' = [pc EXCEPT ![p] = "app"]
    /\ Forget(p)
    /\ UNCHANGED <<kernelVars, machineVars, fds, nominal>>

\* The kernel closes the files of a program that ends; another begins.
EndProgram(p) ==
    /\ pc[p] = "app" /\ fds[p] > 0
    /\ fds' = [fds EXCEPT ![p] = 0]
    /\ UNCHANGED <<kernelVars, machineVars, historyVars, pc, call, todo, said,
                   nominal>>

Step(p) ==
    \/ AccessFails(p) \/ Access(p) \/ OpenFails(p) \/ Open(p)
    \/ \E c \in CPUs : FlushCpu(p, c)
    \/ IoctlReturns(p)
    \/ \E c \in CPUs, ok \in BOOLEAN : SetPrefetcher(p, c, ok)
    \/ PrefetcherSet(p) \/ Record(p)
    \/ \E ok \in BOOLEAN : CpuPower(p, ok)
    \/ Return(p)

Admin ==
    \/ Insmod
    \/ \E ok \in BOOLEAN : \/ AllocRegion(ok) \/ CreateClass(ok)
                           \/ CreateDevice(ok) \/ AddCdev(ok)
    \/ Rmmod \/ DelCdev \/ DestroyAll

Next ==
    \/ Admin
    \/ \E p \in Procs : \/ \E c \in Calls : Enter(p, c)
                        \/ Step(p) \/ EndProgram(p)

Spec == Init /\ [][Next]_vars

(***************************************************************************)
(* Properties.                                                             *)
(***************************************************************************)
Steps == {"app", "access", "open", "flush", "prefetcher", "frequency",
          "cpupower", "returned"}

TypeOK ==
    /\ mod \in {"out", "region", "class", "device", "cdev", "live", "del",
                "destroy", "oops"}
    /\ {region, class, node, cdev} \subseteq {Absent, Good, Error}
    /\ loads \in Nat
    /\ pc \in [Procs -> Steps] /\ call \in [Procs -> Calls]
    /\ fds \in [Procs -> Nat]
    /\ todo \in [Procs -> SUBSET CPUs]
    /\ said \in [Procs -> SUBSET {"flush", "prefetcher", "frequency"}]
    /\ prefetch \in [CPUs -> BOOLEAN] /\ mhz \in Frequencies
    /\ nominal \in [Procs -> Frequencies]
    /\ flushed \in [Procs -> SUBSET CPUs]
    /\ disturbed \in [Procs -> BOOLEAN]

\* The device is there while a program has it open or is flushing through it,
\* and an unloaded module leaves nothing behind.
InUse ==
    \A p \in Procs :
        /\ fds[p] > 0 => mod = "live" /\ node = Good /\ cdev = Good
        /\ pc[p] = "flush" => fds[p] > 0

NothingLeft ==
    /\ mod \in {"out", "region"} =>
           region = Absent /\ class = Absent /\ node = Absent
    /\ mod \notin {"live", "del"} => cdev = Absent
    /\ mod \in {"class"} => class = Absent /\ node = Absent
    /\ mod \in {"device"} => node = Absent

Flushes(p) == call[p] \in {"flush_caches", "pristine_machine"}

FlushedOrSaid(p) == flushed[p] = CPUs \/ "flush" \in said[p]
PrefetchOrSaid(p, cpus) ==
    "prefetcher" \in said[p] \/ disturbed[p] \/ \A c \in cpus : prefetch[c]
ClockOrSaid(p) == mhz = Fast \/ disturbed[p] \/ "frequency" \in said[p]

\* How far a program is in its call, and what that means for the machine.
ProgressOf(p) ==
    /\ pc[p] \in {"access", "open", "flush"} => Flushes(p)
    /\ pc[p] = "flush" => CPUs \ todo[p] \subseteq flushed[p]
    /\ pc[p] \in {"prefetcher", "frequency", "cpupower", "returned"}
          /\ Flushes(p) => FlushedOrSaid(p)
    /\ call[p] = "pristine_machine" =>
         /\ pc[p] = "prefetcher" => PrefetchOrSaid(p, CPUs \ todo[p])
         /\ pc[p] \in {"frequency", "cpupower", "returned"} =>
                PrefetchOrSaid(p, CPUs)
         /\ pc[p] \in {"cpupower", "returned"} => nominal[p] = Fast
         /\ pc[p] = "returned" => ClockOrSaid(p)
    /\ call[p] = "flush_caches" =>
         pc[p] \notin {"prefetcher", "frequency", "cpupower"}
Progress == \A p \in Procs : ProgressOf(p)

IndInv == TypeOK /\ InUse /\ NothingLeft /\ Progress

\* When pristine_machine or flush_caches returns, every CPU's caches were
\* flushed since it was called, or it said that they were not, wherever the
\* module's loading or unloading was at the time and although files are never
\* closed; and the prefetchers and the clock are as they should be, unless it
\* said so or another program changed them meanwhile.
PristineOrSaid ==
    \A p \in Procs :
        /\ pc[p] = "returned" /\ Flushes(p) => FlushedOrSaid(p)
        /\ pc[p] = "returned" /\ call[p] = "pristine_machine" =>
             PrefetchOrSaid(p, CPUs) /\ ClockOrSaid(p)
=============================================================================
