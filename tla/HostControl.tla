---------------------------- MODULE HostControl ----------------------------
(***************************************************************************)
(* How a runner daemon is controlled and watched: the threads of           *)
(* runlab_daemon.py that share its status, and the display of hosttool.    *)
(*                                                                         *)
(* The main thread runs jobs and reports RUNNING and IDLE; the head        *)
(* (CommandListener) obeys the commands that "hosttool cmd" publishes; the *)
(* heart sends a heartbeat now and then.  set_status assigns the global    *)
(* status, rewrites the status file and sends a heartbeat.  The file's     *)
(* reader is not in the repository: it is whoever started the daemon, who  *)
(* learns from it what a command asked for.  Only keep_running_flag has a  *)
(* lock, so the steps of set_status interleave.  Heartbeats may reach      *)
(* "hosttool top" late, twice, in any order or never.                      *)
(*                                                                         *)
(* One daemon is modelled, without --debug: daemons share nothing here,    *)
(* and hosttool keeps a separate entry for each.  The clocks of the hosts  *)
(* agree.  Jobs are modelled in ArchCloudJobs.                             *)
(***************************************************************************)
EXTENDS Naturals

CONSTANTS
    JustOnce,     \* is the daemon run with --just-once
    None,         \* no heartbeat, no host, no status
    StopCommands, \* the commands that arrive, besides exit and
                  \* send-heartbeat, by the status that they set
    Patience,     \* after how long top forgets a silent host
    MaxCommands,  \* bound: commands that arrive
    MaxFaults,    \* bound: calls of the publish/subscribe service that raise
    MaxClock      \* bound: the clock stops here

Idle         == "IDLE"
Running      == "RUNNING"
ReloadDocker == "RELOAD_DOCKER"
ReloadPython == "RELOAD_PYTHON"
Shutdown     == "SHUTDOWN"
StopStatus   == {ReloadDocker, ReloadPython, Shutdown}
ValidStatus  == {Idle, Running} \cup StopStatus

ASSUME ConstantsAssumption ==
    /\ JustOnce \in BOOLEAN
    /\ StopCommands \subseteq StopStatus
    /\ Patience \in Nat /\ MaxCommands \in Nat /\ MaxFaults \in Nat
    /\ MaxClock \in Nat

\* The length of each status, and of the empty text, in the status file.
Empty == ""
Width == [s \in ValidStatus \cup {Empty} |-> IF s = Empty THEN 0
                                            ELSE IF s = Idle THEN 4
                                            ELSE IF s = Running THEN 7
                                            ELSE IF s = Shutdown THEN 8
                                            ELSE 13]

\* The contents of the status file: front at its beginning and, when base is
\* longer, the rest of base after it.
Contents == [front : DOMAIN Width, base : DOMAIN Width]
Whole(s) == [front |-> s, base |-> s]

\* What writing s at the start of a file that holds c leaves.
Overwrite(c, s) ==
    IF Width[c.base] > Width[s] THEN [front |-> s, base |-> c.base]
                                ELSE Whole(s)

Threads   == {"main", "heart", "head"}
Heartbeat == [stamp : Nat, status : ValidStatus]

VARIABLES
    flag,       \* keep_running_flag
    status,     \* the global status
    file,       \* the contents of the status file
    pc,         \* thread -> its next step
    arg,        \* thread -> the argument of its set_status
    ret,        \* thread -> where it goes on after sending a heartbeat
    stamp,      \* thread -> the time in the heartbeat that it is making
    clock,      \* the time; it moves on whenever a heartbeat reads it
    beats,      \* the heartbeats that were published
    top,        \* hosttool's entry for this daemon
    commands,   \* how many commands have arrived
    faults,     \* how many calls have raised
    changedAt,  \* history: the time at which status last changed
    late,       \* history: jobs started although keep_running_flag was down
    told        \* history: the stop status that a command wrote for good

statusVars  == <<status, changedAt>>
fileVars    == <<file, told>>
beatVars    == <<stamp, clock, beats>>
callVars    == <<arg, ret>>
historyVars == <<late, commands, faults>>
vars == <<flag, statusVars, fileVars, pc, callVars, beatVars, top,
          historyVars>>

PcState == {"assign", "open", "write", "stamp", "send",
            "start", "loop", "pull", "job", "finally", "leave", "exit",
            "off", "listen", "dead", "gone"}

TypeOK ==
    /\ flag \in BOOLEAN
    /\ status \in ValidStatus
    /\ file \in Contents
    /\ pc \in [Threads -> PcState]
    /\ arg \in [Threads -> ValidStatus]
    /\ ret \in [Threads -> PcState]
    /\ stamp \in [Threads -> Nat]
    /\ clock \in Nat
    /\ beats \subseteq Heartbeat
    /\ \/ top = None
       \/ top \in [status : ValidStatus, last : Nat, new : BOOLEAN]
    /\ commands \in Nat /\ faults \in Nat
    /\ changedAt \in Nat /\ late \in Nat
    /\ told = None \/ told \in StopStatus

\* The main thread sets the status before it starts the others.  The file is
\* what the daemon's previous run left.
Init ==
    /\ flag = TRUE
    /\ status = Idle
    /\ file \in {Whole(s) : s \in DOMAIN Width}
    /\ pc = [t \in Threads |-> IF t = "main" THEN "assign" ELSE "off"]
    /\ arg = [t \in Threads |-> Idle]
    /\ ret = [t \in Threads |-> IF t = "main" THEN "start"
                                ELSE IF t = "heart" THEN "stamp"
                                ELSE "listen"]
    /\ stamp = [t \in Threads |-> 0]
    /\ clock = 0
    /\ beats = {}
    /\ top = None
    /\ commands = 0 /\ faults = 0 /\ changedAt = 0 /\ late = 0
    /\ told = None

Go(t, to) == pc' = [pc EXCEPT ![t] = to]

(***************************************************************************)
(* set_status and send_beat, called by any thread.                         *)
(***************************************************************************)
\* Thread t calls set_status(s) and goes on at r.
SetStatus(t, s, r) ==
    /\ Go(t, "assign")
    /\ arg' = [arg EXCEPT ![t] = s]
    /\ ret' = [ret EXCEPT ![t] = r]

Assign(t) ==
    /\ pc[t] = "assign"
    /\ Go(t, "open")
    /\ status' = arg[t]
    /\ changedAt' = IF status = arg[t] THEN changedAt ELSE clock
    /\ UNCHANGED <<flag, fileVars, callVars, beatVars, top, historyVars>>

\* Opening for writing truncates the file.
OpenFile(t) ==
    /\ pc[t] = "open"
    /\ Go(t, "write")
    /\ file' = Whole(Empty)
    /\ told' = IF t = "head" THEN None ELSE told
    /\ UNCHANGED <<flag, statusVars, callVars, beatVars, top, historyVars>>

\* The main thread may still change the file of its own accord.
MainMayWrite == pc["main"] \in {"pull", "assign", "open", "write"}

\* Closing the file writes the status at its start.
WriteFile(t) ==
    /\ pc[t] = "write"
    /\ Go(t, "stamp")
    /\ file' = Overwrite(file, arg[t])
    /\ told' = IF t = "head" /\ ~MainMayWrite THEN arg[t] ELSE told
    /\ arg' = [arg EXCEPT ![t] = Idle]
    /\ UNCHANGED <<flag, statusVars, ret, beatVars, top, historyVars>>

Stamp(t) ==
    /\ pc[t] = "stamp"
    /\ Go(t, "send")
    /\ clock' = IF clock < MaxClock THEN clock + 1 ELSE clock
    /\ stamp' = [stamp EXCEPT ![t] = clock']
    /\ UNCHANGED <<flag, statusVars, fileVars, callVars, beats, top,
                   historyVars>>

\* The status is read after the time.  Heartbeats made when the clock has
\* stopped are left out.
Send(t) ==
    /\ pc[t] = "send"
    /\ Go(t, ret[t])
    /\ beats' = IF stamp[t] = MaxClock THEN beats
                ELSE beats \cup {[stamp |-> stamp[t], status |-> status]}
    /\ stamp' = [stamp EXCEPT ![t] = 0]
    /\ UNCHANGED <<flag, statusVars, fileVars, callVars, clock, top,
                   historyVars>>

\* Publishing raises, or the head's pull does.  The heart and the head have
\* no handlers: their thread ends, and the daemon goes on without it.  The
\* head's only handler names an exception that the module does not import.
\* In the main thread the exception ends what it was doing: the daemon, the
\* job, or the finally clause (line 322 catches).
Raise(t) ==
    /\ pc[t] = "send" \/ (t = "head" /\ pc[t] = "listen")
    /\ faults < MaxFaults
    /\ faults' = faults + 1
    /\ Go(t, IF t # "main" THEN "dead"
             ELSE IF ret[t] = "start" THEN "exit"
             ELSE IF ret[t] = "job" THEN "finally"
             ELSE "loop")
    /\ stamp' = [stamp EXCEPT ![t] = 0]
    /\ UNCHANGED <<flag, statusVars, fileVars, callVars, clock, beats, top,
                   late, commands>>

Report(t) == Assign(t) \/ OpenFile(t) \/ WriteFile(t) \/ Stamp(t) \/ Send(t)

(***************************************************************************)
(* The main thread.                                                        *)
(***************************************************************************)
StartThreads ==
    /\ pc["main"] = "start"
    /\ pc' = [pc EXCEPT !["main"] = "loop", !["heart"] = "stamp",
                        !["head"] = "listen"]
    /\ UNCHANGED <<flag, statusVars, fileVars, callVars, beatVars, top,
                   historyVars>>

\* Mutant: the loop does not ask keep_running.
LoopForever ==
    /\ pc["main"] = "loop"
    /\ Go("main", "pull")
    /\ UNCHANGED <<flag, statusVars, fileVars, callVars, beatVars, top,
                   historyVars>>

Loop ==
    /\ pc["main"] = "loop"
    /\ Go("main", IF flag THEN "pull" ELSE "exit")
    /\ UNCHANGED <<flag, statusVars, fileVars, callVars, beatVars, top,
                   historyVars>>

\* Nothing to run: no message, a job that is missing or not SUBMITTED, or an
\* exception.
PullNothing ==
    /\ pc["main"] = "pull"
    /\ Go("main", "finally")
    /\ UNCHANGED <<flag, statusVars, fileVars, callVars, beatVars, top,
                   historyVars>>

PullJob ==
    /\ pc["main"] = "pull"
    /\ SetStatus("main", Running, "job")
    /\ late' = IF flag THEN late ELSE late + 1
    /\ UNCHANGED <<flag, statusVars, fileVars, beatVars, top, commands,
                   faults>>

EndJob ==
    /\ pc["main"] = "job"
    /\ Go("main", "finally")
    /\ UNCHANGED <<flag, statusVars, fileVars, callVars, beatVars, top,
                   historyVars>>

\* Mutant: the finally clause does not ask keep_running.
FinallyIdle ==
    /\ pc["main"] = "finally"
    /\ SetStatus("main", Idle, "leave")
    /\ UNCHANGED <<flag, statusVars, fileVars, beatVars, top, historyVars>>

Finally ==
    /\ pc["main"] = "finally"
    /\ IF flag THEN SetStatus("main", Idle, "leave")
               ELSE Go("main", "leave") /\ UNCHANGED callVars
    /\ UNCHANGED <<flag, statusVars, fileVars, beatVars, top, historyVars>>

Leave ==
    /\ pc["main"] = "leave"
    /\ Go("main", IF JustOnce THEN "exit" ELSE "loop")
    /\ UNCHANGED <<flag, statusVars, fileVars, callVars, beatVars, top,
                   historyVars>>

\* The others are daemon threads: they end with the main thread, wherever
\* they are.
Exit ==
    /\ pc["main"] = "exit"
    /\ pc' = [t \in Threads |-> "gone"]
    /\ UNCHANGED <<flag, statusVars, fileVars, callVars, beatVars, top,
                   historyVars>>

MainStep ==
    \/ Report("main") \/ StartThreads \/ Loop \/ PullNothing \/ PullJob
    \/ EndJob \/ Finally \/ Leave \/ Exit

(***************************************************************************)
(* The head: CommandListener.listen.                                       *)
(***************************************************************************)
Arrive ==
    /\ pc["head"] = "listen"
    /\ commands < MaxCommands
    /\ commands' = commands + 1

\* The command "exit": stop_running alone.
ObeyExit ==
    /\ Arrive
    /\ flag' = FALSE
    /\ UNCHANGED <<statusVars, fileVars, pc, callVars, beatVars, top, late,
                   faults>>

\* "reload-python", "reload-docker" and "shutdown": stop_running, and then
\* set_status.
ObeyStop(s) ==
    /\ Arrive
    /\ flag' = FALSE
    /\ SetStatus("head", s, "listen")
    /\ UNCHANGED <<statusVars, fileVars, beatVars, top, late, faults>>

ObeySendHeartbeat ==
    /\ Arrive
    /\ Go("head", "stamp")
    /\ UNCHANGED <<flag, statusVars, fileVars, callVars, beatVars, top, late,
                   faults>>

HeadStep ==
    \/ ObeyExit \/ ObeySendHeartbeat \/ Report("head")
    \/ \E s \in StopCommands : ObeyStop(s)

(***************************************************************************)
(* "hosttool top": HostTop.run in hosttool.py.                             *)
(***************************************************************************)
\* Mutant: a heartbeat counts whatever its time is.
TopReceiveAny(b) ==
    /\ top' = IF top = None
              THEN [status |-> b.status, last |-> clock, new |-> TRUE]
              ELSE [status |-> b.status, new |-> FALSE,
                    last |-> IF b.stamp > top.last THEN b.stamp ELSE top.last]
    /\ UNCHANGED <<flag, statusVars, fileVars, pc, callVars, beatVars,
                   historyVars>>

\* A host not seen before is entered as heard from now, whatever the time in
\* the heartbeat; later, heartbeats older than the last one are ignored.
TopReceive(b) ==
    /\ \/ /\ top = None
          /\ top' = [status |-> b.status, last |-> clock, new |-> TRUE]
       \/ /\ top # None /\ b.stamp > top.last
          /\ top' = [status |-> b.status, last |-> b.stamp, new |-> FALSE]
    /\ UNCHANGED <<flag, statusVars, fileVars, pc, callVars, beatVars,
                   historyVars>>

\* Lines 224-226: a host that was silent for too long is dropped.
TopForget ==
    /\ top # None
    /\ clock > top.last + Patience
    /\ top' = None
    /\ UNCHANGED <<flag, statusVars, fileVars, pc, callVars, beatVars,
                   historyVars>>

TopStep == TopForget \/ \E b \in beats : TopReceive(b)

\* Time passes without a heartbeat.
Tick ==
    /\ clock < MaxClock
    /\ clock' = clock + 1
    /\ UNCHANGED <<flag, statusVars, fileVars, pc, callVars, stamp, beats, top,
                   historyVars>>

-----------------------------------------------------------------------------
Next ==
    \/ MainStep \/ HeadStep \/ TopStep
    \/ Report("heart")
    \/ \E t \in Threads : Raise(t)
    \/ Tick

Spec == Init /\ [][Next]_vars

\* The main thread is scheduled, and each call that it makes ends: pulls have
\* a deadline, jobs a time limit.
FairSpec == Spec /\ WF_vars(MainStep)

-----------------------------------------------------------------------------
(***************************************************************************)
(* Properties.                                                             *)
(***************************************************************************)
\* A status that a command has put into the file while the main thread was
\* running a job, or anywhere but between its two tests of keep_running, is
\* still there, whole, when the daemon ends (runlab_daemon.py:199, 313): the
\* main thread neither replaces it nor leaves its own shorter one in it.
CommandReported == told # None => file = Whole(told)

\* After a command to stop, the daemon takes one more job at most: the one
\* whose pull was under way (runlab_daemon.py:199-225).
OneMoreJob == late <= 1

\* Once top has accepted a heartbeat made after the status last changed it
\* shows that status, whatever arrives afterwards: the time in a heartbeat is
\* read before the status, and top compares times (runlab_daemon.py:97-100,
\* hosttool.py:214-220).
TopCatchesUp ==
    top # None /\ ~top.new /\ top.last > changedAt => top.status = status

\* A daemon that was told to stop ends, also when its status cannot be
\* published or its other threads have died (runlab_daemon.py:199, 312-327).
StopEnds == ~flag ~> pc["main"] = "gone"

-----------------------------------------------------------------------------
(***************************************************************************)
(* The inductive invariant.                                                *)
(***************************************************************************)
\* Which statuses a thread reports, and when.
Calls ==
    /\ \A t \in Threads : pc[t] \in {"assign", "open", "write"} =>
          \/ t = "main" /\ arg[t] \in {Idle, Running}
          \/ t = "head" /\ arg[t] \in StopStatus /\ ~flag
    /\ pc["heart"] \in {"off", "stamp", "send", "dead", "gone"}
    /\ ret["heart"] = "stamp" /\ ret["head"] = "listen"
    /\ pc["head"] \in {"off", "listen", "assign", "open", "write", "stamp",
                       "send", "dead", "gone"}
    /\ ret["main"] \in {"start", "job", "leave"}

\* Nobody reads the time ahead of the clock.
ClockLeads ==
    /\ changedAt <= clock
    /\ \A t \in Threads : stamp[t] <= clock
    /\ \A b \in beats : b.stamp <= clock
    /\ top # None => top.last <= clock

\* A heartbeat made after the last change has the current status.
BeatsCurrent == \A b \in beats : b.stamp > changedAt => b.status = status

\* What a command has told for good, the main thread will not touch.
ToldStands == told # None => ~flag /\ ~MainMayWrite /\ pc["head"] # "write"

\* Since the head truncated the file only the main thread may have written.
HeadAlone ==
    pc["head"] = "write" => file.base \in {Empty, Idle, Running}

LateOnce == late = 0 \/ (late = 1 /\ ~flag /\ pc["main"] \notin {"pull"})

IndInv ==
    /\ TypeOK /\ Calls /\ ClockLeads /\ BeatsCurrent /\ ToldStands
    /\ HeadAlone /\ LateOnce /\ CommandReported /\ TopCatchesUp
=============================================================================
