------------------------- MODULE HostControl_proofs -------------------------
(***************************************************************************)
(* Proofs about HostControl, for any bounds on commands, faults and time.  *)
(* One lemma per part of IndInv shows that every step keeps that part.     *)
(***************************************************************************)
EXTENDS HostControl, TLAPS

\* What the steps of Next are, one by one: the case split of every lemma.
LEMMA StepCases ==
    ASSUME [Next]_vars
    PROVE  \/ \E t \in Threads : \/ Assign(t) \/ OpenFile(t) \/ WriteFile(t)
                                 \/ Stamp(t) \/ Send(t) \/ Raise(t)
           \/ StartThreads \/ Loop \/ PullNothing \/ PullJob \/ EndJob
           \/ Finally \/ Leave \/ Exit
           \/ ObeyExit \/ ObeySendHeartbeat
           \/ \E s \in StopCommands : ObeyStop(s)
           \/ TopForget \/ Tick \/ \E b \in beats : TopReceive(b)
           \/ UNCHANGED vars
<1>1. "main" \in Threads /\ "head" \in Threads /\ "heart" \in Threads
  BY DEF Threads
<1> QED BY <1>1 DEF Next, MainStep, HeadStep, TopStep, Report

\* A status written over a shorter one replaces it; over a longer one it
\* leaves a mixture.
LEMMA OverwriteFacts ==
    ASSUME NEW c \in Contents, NEW s \in ValidStatus
    PROVE  /\ Overwrite(c, s) \in Contents
           /\ c.base \in {Empty, Idle, Running} /\ s \in StopStatus =>
                 Overwrite(c, s) = Whole(s)
           /\ c.base \in {Empty, Idle, Running} /\ s \in {Idle, Running} =>
                 Overwrite(c, s).base \in {Empty, Idle, Running}
<1> USE DEF Contents, Whole, Overwrite
<1>1. s \in DOMAIN Width /\ DOMAIN Width = ValidStatus \cup {Empty}
  BY DEF Width
<1>2. Overwrite(c, s) \in Contents BY <1>1
<1>3. ASSUME c.base \in {Empty, Idle, Running}, s \in StopStatus
      PROVE  Overwrite(c, s) = Whole(s)
  <2>1. Width[c.base] \in {0, 4, 7}
    BY <1>3 DEF Width, ValidStatus, StopStatus, Empty, Idle, Running,
                Shutdown, ReloadDocker, ReloadPython
  <2>2. Width[s] \in {8, 13}
    BY <1>3 DEF Width, ValidStatus, StopStatus, Empty, Idle, Running,
                Shutdown, ReloadDocker, ReloadPython
  <2> QED BY <2>1, <2>2
<1>4. c.base \in {Empty, Idle, Running} /\ s \in {Idle, Running} =>
          Overwrite(c, s).base \in {Empty, Idle, Running}
  OBVIOUS
<1> QED BY <1>2, <1>3, <1>4

\* Every step keeps the types.  A heartbeat needs a status and a thread to
\* return to; a set_status needs an argument, which Calls gives.
LEMMA TypeStep ==
    ASSUME TypeOK, Calls, [Next]_vars
    PROVE  TypeOK'
<1> USE ConstantsAssumption DEF Go, SetStatus, statusVars, fileVars, callVars,
   beatVars, historyVars, vars, TypeOK, PcState, Arrive
<1>1. ASSUME NEW t \in Threads, Assign(t) PROVE TypeOK'
  BY <1>1 DEF Assign
<1>2. ASSUME NEW t \in Threads, OpenFile(t) PROVE TypeOK'
  <2>1. file' \in Contents
    BY <1>2 DEF OpenFile, Contents, Whole, Width
  <2> QED BY <1>2, <2>1 DEF OpenFile
<1>3. ASSUME NEW t \in Threads, WriteFile(t) PROVE TypeOK'
  <2>0. Idle \in ValidStatus BY DEF ValidStatus
  <2>1. file' \in Contents BY <1>3, OverwriteFacts DEF WriteFile
  <2>2. told' = None \/ told' \in StopStatus BY <1>3 DEF WriteFile, Calls
  <2>3. arg' \in [Threads -> ValidStatus] BY <1>3, <2>0 DEF WriteFile
  <2> QED BY <1>3, <2>1, <2>2, <2>3 DEF WriteFile
<1>4. ASSUME NEW t \in Threads, Stamp(t) PROVE TypeOK'
  BY <1>4 DEF Stamp
<1>5. ASSUME NEW t \in Threads, Send(t) PROVE TypeOK'
  <2>1. [stamp |-> stamp[t], status |-> status] \in Heartbeat
    BY DEF Heartbeat
  <2> QED BY <1>5, <2>1 DEF Send
<1>6. ASSUME NEW t \in Threads, Raise(t) PROVE TypeOK'
  BY <1>6 DEF Raise
<1>7. CASE StartThreads
  BY <1>7 DEF StartThreads
<1>8. CASE Loop
  BY <1>8 DEF Loop
<1>9. CASE PullNothing
  BY <1>9 DEF PullNothing
<1>10. CASE PullJob
  <2>1. Running \in ValidStatus BY DEF ValidStatus
  <2>2. late' \in Nat BY <1>10 DEF PullJob
  <2> QED BY <1>10, <2>1, <2>2 DEF PullJob
<1>11. CASE EndJob
  BY <1>11 DEF EndJob
<1>12. CASE Finally
  <2>1. Idle \in ValidStatus BY DEF ValidStatus
  <2> QED BY <1>12, <2>1 DEF Finally
<1>13. CASE Leave
  BY <1>13 DEF Leave
<1>14. CASE Exit
  BY <1>14 DEF Exit
<1>15. CASE ObeyExit
  <2>1. commands' \in Nat BY <1>15 DEF ObeyExit
  <2> QED BY <1>15, <2>1 DEF ObeyExit
<1>16. CASE ObeySendHeartbeat
  <2>1. commands' \in Nat BY <1>16 DEF ObeySendHeartbeat
  <2> QED BY <1>16, <2>1 DEF ObeySendHeartbeat
<1>17. ASSUME NEW s \in StopCommands, ObeyStop(s) PROVE TypeOK'
  <2>1. s \in ValidStatus BY DEF ValidStatus
  <2>2. commands' \in Nat BY <1>17 DEF ObeyStop
  <2> QED BY <1>17, <2>1, <2>2 DEF ObeyStop
<1>18. ASSUME TopForget \/ Tick PROVE TypeOK'
  BY <1>18 DEF TopForget, Tick
<1>19. ASSUME NEW b \in beats, TopReceive(b) PROVE TypeOK'
  <2>1. b.stamp \in Nat /\ b.status \in ValidStatus BY DEF Heartbeat
  <2>2. clock \in Nat OBVIOUS
  <2>3. top' \in [status : ValidStatus, last : Nat, new : BOOLEAN]
    <3>1. CASE top' = [status |-> b.status, last |-> clock, new |-> TRUE]
      BY <2>1, <2>2, <3>1
    <3>2. CASE top' = [status |-> b.status, last |-> b.stamp, new |-> FALSE]
      BY <2>1, <3>2
    <3> QED BY <1>19, <3>1, <3>2 DEF TopReceive
  <2>4. UNCHANGED <<flag, statusVars, fileVars, pc, callVars, beatVars,
                    historyVars>>
    BY <1>19 DEF TopReceive
  <2> QED BY <2>3, <2>4
<1>20. CASE UNCHANGED vars
  BY <1>20
<1> QED BY StepCases, <1>1, <1>2, <1>3, <1>4, <1>5, <1>6, <1>7, <1>8, <1>9,
   <1>10, <1>11, <1>12, <1>13, <1>14, <1>15, <1>16, <1>17, <1>18, <1>19, <1>20

\* The variables that each step may change, for the lemmas below.
LEMMA Frames ==
    ASSUME [Next]_vars
    PROVE  /\ \/ UNCHANGED <<statusVars, beatVars, top>>
              \/ \E t \in Threads : \/ Assign(t) \/ Stamp(t) \/ Send(t)
                                    \/ Raise(t)
              \/ TopForget \/ Tick
              \/ \E b \in beats : TopReceive(b)
           /\ \/ UNCHANGED fileVars
              \/ \E t \in Threads : OpenFile(t) \/ WriteFile(t)
<1> USE DEF statusVars, beatVars, fileVars, vars
<1>1. ASSUME NEW t \in Threads, OpenFile(t) \/ WriteFile(t)
      PROVE  UNCHANGED <<statusVars, beatVars, top>>
  BY <1>1 DEF OpenFile, WriteFile
<1>2. ASSUME \/ StartThreads \/ Loop \/ PullNothing \/ PullJob \/ EndJob
             \/ Finally \/ Leave \/ Exit \/ ObeyExit \/ ObeySendHeartbeat
             \/ \E s \in StopCommands : ObeyStop(s)
             \/ UNCHANGED vars
      PROVE  UNCHANGED <<statusVars, beatVars, top, fileVars>>
  BY <1>2 DEF StartThreads, Loop, PullNothing, PullJob, EndJob, Finally,
              Leave, Exit, ObeyExit, ObeySendHeartbeat, ObeyStop
<1>3. ASSUME NEW t \in Threads, \/ Assign(t) \/ Stamp(t) \/ Send(t)
                                \/ Raise(t)
      PROVE  UNCHANGED fileVars
  BY <1>3 DEF Assign, Stamp, Send, Raise
<1>4. ASSUME TopForget \/ Tick \/ \E b \in beats : TopReceive(b)
      PROVE  UNCHANGED fileVars
  BY <1>4 DEF TopForget, Tick, TopReceive
<1> QED BY StepCases, <1>1, <1>2, <1>3, <1>4

\* The clock stays ahead: a thread reads it after it has moved it on, and
\* a change of the status is dated by it.
LEMMA ClockLeadsStep ==
    ASSUME TypeOK, ClockLeads, [Next]_vars
    PROVE  ClockLeads'
<1> USE ConstantsAssumption DEF TypeOK, ClockLeads, statusVars, beatVars
<1>0. clock \in Nat /\ changedAt \in Nat
  OBVIOUS
<1>1. ASSUME NEW t \in Threads, Assign(t) PROVE ClockLeads'
  BY <1>0, <1>1 DEF Assign
<1>2. ASSUME NEW t \in Threads, Stamp(t) PROVE ClockLeads'
  <2>1. clock' \in Nat /\ clock <= clock' BY <1>0, <1>2 DEF Stamp
  <2>2. UNCHANGED <<statusVars, beats, top>> BY <1>2 DEF Stamp
  <2>3. \A u \in Threads : stamp'[u] <= clock'
    <3>1. \A u \in Threads : stamp'[u] = stamp[u] \/ stamp'[u] = clock'
      BY <1>2 DEF Stamp
    <3>2. \A u \in Threads : stamp[u] \in Nat /\ stamp[u] <= clock OBVIOUS
    <3> QED BY <1>0, <2>1, <3>1, <3>2
  <2>4. \A b \in beats : b.stamp \in Nat /\ b.stamp <= clock
    BY DEF Heartbeat
  <2>5. top # None => top.last \in Nat /\ top.last <= clock OBVIOUS
  <2> QED BY <1>0, <2>1, <2>2, <2>3, <2>4, <2>5
<1>3. ASSUME NEW t \in Threads, Send(t) PROVE ClockLeads'
  <2>1. UNCHANGED <<statusVars, clock, top>> BY <1>3 DEF Send
  <2>2. \A u \in Threads : stamp'[u] = stamp[u] \/ stamp'[u] = 0
    BY <1>3 DEF Send
  <2>3. \A b \in beats' : b \in beats \/ b.stamp = stamp[t]
    BY <1>3 DEF Send
  <2> QED BY <1>0, <2>1, <2>2, <2>3
<1>4. ASSUME NEW t \in Threads, Raise(t) PROVE ClockLeads'
  <2>1. UNCHANGED <<statusVars, clock, beats, top>> BY <1>4 DEF Raise
  <2>2. \A u \in Threads : stamp'[u] = stamp[u] \/ stamp'[u] = 0
    BY <1>4 DEF Raise
  <2> QED BY <1>0, <2>1, <2>2
<1>5. CASE TopForget
  BY <1>5 DEF TopForget
<1>6. ASSUME NEW b \in beats, TopReceive(b) PROVE ClockLeads'
  <2>1. UNCHANGED <<statusVars, beatVars>> BY <1>6 DEF TopReceive
  <2>2. top'.last = clock \/ top'.last = b.stamp BY <1>6 DEF TopReceive
  <2> QED BY <1>0, <2>1, <2>2
<1>7. CASE Tick
  BY <1>0, <1>7 DEF Tick, Heartbeat
<1>8. CASE UNCHANGED <<statusVars, beatVars, top>>
  BY <1>8
<1> QED BY Frames, <1>1, <1>2, <1>3, <1>4, <1>5, <1>6, <1>7, <1>8

\* A heartbeat dated after the last change has the current status: a new one
\* reads the status as it is, and when the status changes no heartbeat is
\* dated after that.
LEMMA BeatsCurrentStep ==
    ASSUME TypeOK, ClockLeads, BeatsCurrent, [Next]_vars
    PROVE  BeatsCurrent'
<1> USE DEF statusVars, beatVars, BeatsCurrent
<1>0. \A b \in beats : b.stamp \in Nat /\ b.stamp <= clock
  BY DEF TypeOK, Heartbeat, ClockLeads
<1>1. ASSUME NEW t \in Threads, Assign(t) PROVE BeatsCurrent'
  <2>1. clock \in Nat BY DEF TypeOK
  <2> QED BY <1>0, <1>1, <2>1 DEF Assign
<1>2. ASSUME NEW t \in Threads, Send(t) PROVE BeatsCurrent'
  <2>1. UNCHANGED statusVars BY <1>2 DEF Send
  <2>2. \A b \in beats' : b \in beats \/ b.status = status
    BY <1>2 DEF Send
  <2> QED BY <2>1, <2>2
<1>3. ASSUME NEW t \in Threads, Stamp(t) \/ Raise(t) PROVE BeatsCurrent'
  BY <1>3 DEF Stamp, Raise
<1>4. ASSUME TopForget \/ Tick \/ \E b \in beats : TopReceive(b)
      PROVE  BeatsCurrent'
  BY <1>4 DEF TopForget, Tick, TopReceive
<1>5. CASE UNCHANGED <<statusVars, beatVars, top>>
  BY <1>5
<1> QED BY Frames, <1>1, <1>2, <1>3, <1>4, <1>5

\* What top shows after it has accepted a current heartbeat is current: the
\* next one that it accepts is later, so it is current too.
LEMMA TopCatchesUpStep ==
    ASSUME TypeOK, ClockLeads, BeatsCurrent, TopCatchesUp, [Next]_vars
    PROVE  TopCatchesUp'
<1> USE DEF statusVars, beatVars, TopCatchesUp
<1>1. ASSUME NEW t \in Threads, Assign(t) PROVE TopCatchesUp'
  <2>1. UNCHANGED top /\ status' = arg[t] BY <1>1 DEF Assign
  <2>2. top # None => top.last \in Nat /\ top.last <= clock
    BY DEF TypeOK, ClockLeads
  <2>3. CASE status = arg[t]
    BY <1>1, <2>1, <2>3 DEF Assign
  <2>4. CASE status # arg[t]
    <3>1. changedAt' = clock /\ clock \in Nat BY <1>1, <2>4 DEF Assign, TypeOK
    <3> QED BY <2>1, <2>2, <3>1
  <2> QED BY <2>3, <2>4
<1>2. ASSUME NEW t \in Threads, Stamp(t) \/ Send(t) \/ Raise(t)
      PROVE  TopCatchesUp'
  BY <1>2 DEF Stamp, Send, Raise
<1>3. ASSUME TopForget \/ Tick PROVE TopCatchesUp'
  BY <1>3 DEF TopForget, Tick
<1>4. ASSUME NEW b \in beats, TopReceive(b) PROVE TopCatchesUp'
  BY <1>4 DEF TopReceive, BeatsCurrent
<1>5. CASE UNCHANGED <<statusVars, beatVars, top>>
  BY <1>5
<1> QED BY Frames, <1>1, <1>2, <1>3, <1>4, <1>5

\* Whose set_status is running, with which argument, and where each thread
\* goes on: the heart reports nothing, the head stop statuses once the flag is
\* down, the main thread IDLE and RUNNING.
LEMMA CallsStep ==
    ASSUME TypeOK, Calls, [Next]_vars
    PROVE  Calls'
<1> USE ConstantsAssumption DEF TypeOK, Calls, Go, callVars, Threads
<1>1. ASSUME NEW t \in Threads, Assign(t) \/ OpenFile(t) PROVE Calls'
  BY <1>1 DEF Assign, OpenFile
<1>2. ASSUME NEW t \in Threads, WriteFile(t) PROVE Calls'
  BY <1>2 DEF WriteFile
<1>3. ASSUME NEW t \in Threads, Stamp(t) \/ Send(t) PROVE Calls'
  BY <1>3 DEF Stamp, Send
<1>4. ASSUME NEW t \in Threads, Raise(t) PROVE Calls'
  BY <1>4 DEF Raise
<1>5. ASSUME \/ StartThreads \/ Loop \/ PullNothing \/ EndJob \/ Leave
             \/ Exit \/ ObeyExit \/ ObeySendHeartbeat
      PROVE  Calls'
  BY <1>5 DEF StartThreads, Loop, PullNothing, EndJob, Leave, Exit, ObeyExit,
              ObeySendHeartbeat, Arrive
<1>6. ASSUME PullJob \/ Finally PROVE Calls'
  BY <1>6 DEF PullJob, Finally, SetStatus
<1>7. ASSUME NEW s \in StopCommands, ObeyStop(s) PROVE Calls'
  BY <1>7 DEF ObeyStop, SetStatus, Arrive
<1>8. ASSUME \/ TopForget \/ Tick \/ (\E b \in beats : TopReceive(b))
             \/ UNCHANGED vars
      PROVE  Calls'
  BY <1>8 DEF TopForget, Tick, TopReceive, vars
<1> QED
  BY StepCases, <1>1, <1>2, <1>3, <1>4, <1>5, <1>6, <1>7, <1>8

\* The flag never goes up again; when it is down the main thread enters no
\* call of set_status but after the pull that was under way, and no new pull.
LEMMA FlagDown ==
    ASSUME TypeOK, Calls, ~flag, [Next]_vars
    PROVE  /\ ~flag'
           /\ MainMayWrite' => MainMayWrite
           /\ pc'["main"] = "pull" => pc["main"] = "pull"
<1> USE DEF TypeOK, Calls, Go, Threads, MainMayWrite
<1>1. ASSUME NEW t \in Threads, \/ Assign(t) \/ OpenFile(t) \/ WriteFile(t)
                                \/ Stamp(t) \/ Send(t) \/ Raise(t)
      PROVE  /\ ~flag'
             /\ MainMayWrite' => MainMayWrite
             /\ pc'["main"] = "pull" => pc["main"] = "pull"
  BY <1>1 DEF Assign, OpenFile, WriteFile, Stamp, Send, Raise
<1>2. ASSUME \/ StartThreads \/ Loop \/ PullNothing \/ PullJob \/ EndJob
             \/ Finally \/ Leave \/ Exit \/ ObeyExit \/ ObeySendHeartbeat
             \/ \E s \in StopCommands : ObeyStop(s)
      PROVE  /\ ~flag'
             /\ MainMayWrite' => MainMayWrite
             /\ pc'["main"] = "pull" => pc["main"] = "pull"
  BY <1>2 DEF StartThreads, Loop, PullNothing, PullJob, EndJob, Finally,
              Leave, Exit, ObeyExit, ObeySendHeartbeat, ObeyStop, SetStatus
<1>3. ASSUME \/ TopForget \/ Tick \/ (\E b \in beats : TopReceive(b))
             \/ UNCHANGED vars
      PROVE  /\ ~flag'
             /\ MainMayWrite' => MainMayWrite
             /\ pc'["main"] = "pull" => pc["main"] = "pull"
  BY <1>3 DEF TopForget, Tick, TopReceive, vars
<1> QED BY StepCases, <1>1, <1>2, <1>3

\* Only the head's own steps bring it to the writing of the file.
LEMMA HeadWrites ==
    ASSUME TypeOK, Calls, [Next]_vars, pc'["head"] = "write"
    PROVE  OpenFile("head") \/ pc["head"] = "write"
<1> USE DEF TypeOK, Calls, Go, Threads
<1>1. ASSUME NEW t \in Threads, \/ Assign(t) \/ OpenFile(t) \/ WriteFile(t)
                                \/ Stamp(t) \/ Send(t) \/ Raise(t)
      PROVE  OpenFile("head") \/ pc["head"] = "write"
  BY <1>1 DEF Assign, OpenFile, WriteFile, Stamp, Send, Raise
<1>2. ASSUME \/ StartThreads \/ Loop \/ PullNothing \/ PullJob \/ EndJob
             \/ Finally \/ Leave \/ Exit \/ ObeyExit \/ ObeySendHeartbeat
             \/ \E s \in StopCommands : ObeyStop(s)
      PROVE  pc["head"] = "write"
  BY <1>2 DEF StartThreads, Loop, PullNothing, PullJob, EndJob, Finally,
              Leave, Exit, ObeyExit, ObeySendHeartbeat, ObeyStop, SetStatus
<1>3. ASSUME \/ TopForget \/ Tick \/ (\E b \in beats : TopReceive(b))
             \/ UNCHANGED vars
      PROVE  pc["head"] = "write"
  BY <1>3 DEF TopForget, Tick, TopReceive, vars
<1> QED BY StepCases, <1>1, <1>2, <1>3

\* After the head has truncated the file, the others write into it at most
\* statuses that the head's overwrites.
LEMMA HeadAloneStep ==
    ASSUME TypeOK, Calls, HeadAlone, [Next]_vars
    PROVE  HeadAlone'
<1> USE DEF HeadAlone
<1>1. SUFFICES ASSUME pc'["head"] = "write"
               PROVE  file'.base \in {Empty, Idle, Running}
  OBVIOUS
<1>2. ASSUME NEW t \in Threads, OpenFile(t)
      PROVE  file'.base \in {Empty, Idle, Running}
  BY <1>2 DEF OpenFile, Whole
<1>3. ASSUME NEW t \in Threads, WriteFile(t)
      PROVE  file'.base \in {Empty, Idle, Running}
  <2>1. t # "head"
    BY <1>1, <1>3 DEF WriteFile, Go, TypeOK, Threads
  <2>2. arg[t] \in {Idle, Running} /\ arg[t] \in ValidStatus
    BY <1>3, <2>1 DEF WriteFile, Calls, TypeOK, Threads
  <2>3. pc["head"] = "write"
    BY <1>1, <1>3, <2>1 DEF WriteFile, Go, TypeOK, Threads
  <2>4. file \in Contents BY DEF TypeOK
  <2>5. file' = Overwrite(file, arg[t]) BY <1>3 DEF WriteFile
  <2> QED BY <2>2, <2>3, <2>4, <2>5, OverwriteFacts
<1>4. CASE UNCHANGED fileVars /\ ~OpenFile("head")
  BY <1>1, <1>4, HeadWrites DEF fileVars
<1>5. "head" \in Threads BY DEF Threads
<1> QED BY Frames, <1>2, <1>3, <1>4, <1>5

\* When a command has told its status for good, the flag is down and the main
\* thread has left its last pull.
LEMMA ToldStandsStep ==
    ASSUME TypeOK, Calls, ToldStands, [Next]_vars
    PROVE  ToldStands'
<1>1. SUFFICES ASSUME told' # None
               PROVE  ~flag' /\ ~MainMayWrite' /\ pc'["head"] # "write"
  BY DEF ToldStands
<1>2. CASE told # None
  <2>1. ~flag /\ ~MainMayWrite /\ pc["head"] # "write"
    BY <1>2 DEF ToldStands
  <2>2. ~OpenFile("head") BY <1>1 DEF OpenFile
  <2> QED BY <2>1, <2>2, FlagDown, HeadWrites
<1>3. ASSUME NEW t \in Threads, WriteFile(t), told = None
      PROVE  ~flag' /\ ~MainMayWrite' /\ pc'["head"] # "write"
  <2>1. t = "head" /\ ~MainMayWrite BY <1>1, <1>3 DEF WriteFile
  <2>2. ~flag BY <1>3, <2>1 DEF WriteFile, Calls
  <2>3. pc'["head"] # "write"
    BY <1>3, <2>1 DEF WriteFile, Go, TypeOK, Threads
  <2> QED BY <2>1, <2>2, <2>3, FlagDown
<1>4. ASSUME told = None, \A t \in Threads : ~WriteFile(t)
      PROVE  FALSE
  BY <1>1, <1>4, Frames DEF fileVars, OpenFile
<1> QED BY <1>2, <1>3, <1>4

\* Whoever changes the file while a command's status stands would have to be
\* the main thread, which may not; and the head leaves its status whole.
LEMMA CommandReportedStep ==
    ASSUME TypeOK, Calls, ToldStands, HeadAlone, CommandReported, [Next]_vars
    PROVE  CommandReported'
<1> USE DEF CommandReported
<1>1. ASSUME NEW t \in Threads, OpenFile(t), told' # None
      PROVE  FALSE
  <2>1. t # "head" /\ told # None BY <1>1 DEF OpenFile
  <2>2. pc["main"] # "open" BY <2>1 DEF ToldStands, MainMayWrite
  <2>3. pc["heart"] # "open" BY DEF Calls
  <2> QED BY <1>1, <2>1, <2>2, <2>3 DEF OpenFile, Threads
<1>2. ASSUME NEW t \in Threads, WriteFile(t), told' # None
      PROVE  file' = Whole(told')
  <2>1. pc[t] = "write" /\ pc["heart"] # "write" BY <1>2 DEF WriteFile, Calls
  <2>2. CASE t = "head"
    <3>1. told' = arg[t]
      BY <1>2, <2>1, <2>2 DEF WriteFile, ToldStands
    <3>2. file.base \in {Empty, Idle, Running} BY <2>1, <2>2 DEF HeadAlone
    <3>3. arg[t] \in StopStatus /\ arg[t] \in ValidStatus
      BY <2>1, <2>2 DEF Calls, TypeOK
    <3>4. file \in Contents BY DEF TypeOK
    <3>5. file' = Overwrite(file, arg[t]) BY <1>2 DEF WriteFile
    <3> QED BY <3>1, <3>2, <3>3, <3>4, <3>5, OverwriteFacts
  <2>3. CASE t = "main"
    BY <1>2, <2>1, <2>3 DEF WriteFile, ToldStands, MainMayWrite
  <2> QED BY <2>1, <2>2, <2>3 DEF Threads
<1>3. CASE UNCHANGED fileVars
  BY <1>3 DEF fileVars
<1> QED BY Frames, <1>1, <1>2, <1>3

\* A job counts as late when its pull was under way as the flag went down;
\* with the flag down there is no further pull.
LEMMA LateOnceStep ==
    ASSUME TypeOK, Calls, LateOnce, [Next]_vars
    PROVE  LateOnce'
<1> USE DEF LateOnce, historyVars
<1>1. CASE PullJob
  <2>1. pc'["main"] = "assign"
    BY <1>1 DEF PullJob, SetStatus, Go, TypeOK, Threads
  <2>2. pc["main"] = "pull" /\ flag' = flag BY <1>1 DEF PullJob
  <2>3. late = 0 BY <2>2
  <2> QED BY <1>1, <2>1, <2>2, <2>3 DEF PullJob
<1>2. ASSUME NEW t \in Threads, \/ Assign(t) \/ OpenFile(t) \/ WriteFile(t)
                                \/ Stamp(t) \/ Send(t) \/ Raise(t)
      PROVE  late' = late
  BY <1>2 DEF Assign, OpenFile, WriteFile, Stamp, Send, Raise
<1>3. ASSUME \/ StartThreads \/ Loop \/ PullNothing \/ EndJob
             \/ Finally \/ Leave \/ Exit \/ ObeyExit \/ ObeySendHeartbeat
             \/ \E s \in StopCommands : ObeyStop(s)
      PROVE  late' = late
  BY <1>3 DEF StartThreads, Loop, PullNothing, EndJob, Finally, Leave, Exit,
              ObeyExit, ObeySendHeartbeat, ObeyStop
<1>4. ASSUME \/ TopForget \/ Tick \/ (\E b \in beats : TopReceive(b))
             \/ UNCHANGED vars
      PROVE  late' = late
  BY <1>4 DEF TopForget, Tick, TopReceive, vars
<1>5. CASE late' = late
  BY <1>5, FlagDown
<1> QED BY StepCases, <1>1, <1>2, <1>3, <1>4, <1>5

-----------------------------------------------------------------------------
\* The invariant holds at the start: nothing has been sent, told or run.
LEMMA InitInv == Init => IndInv
<1> SUFFICES ASSUME Init PROVE IndInv
  OBVIOUS
<1> USE ConstantsAssumption DEF Init
<1>1. Idle \in ValidStatus BY DEF ValidStatus
<1>2. file \in Contents BY DEF Contents, Whole
<1>3. TypeOK
  BY <1>1, <1>2 DEF TypeOK, PcState, Threads
<1>4. Calls BY DEF Calls, Threads
<1>5. ClockLeads /\ BeatsCurrent BY DEF ClockLeads, BeatsCurrent
<1>6. ToldStands /\ HeadAlone BY DEF ToldStands, HeadAlone, Threads
<1>7. LateOnce /\ CommandReported /\ TopCatchesUp
  BY DEF LateOnce, CommandReported, TopCatchesUp
<1> QED BY <1>3, <1>4, <1>5, <1>6, <1>7 DEF IndInv

\* IndInv is an invariant of the daemon, its commands and its watcher, for
\* every set of commands and every bound.
THEOREM Invariance == Spec => []IndInv
<1>1. ASSUME IndInv, [Next]_vars PROVE IndInv'
  BY <1>1, TypeStep, CallsStep, ClockLeadsStep, BeatsCurrentStep,
     ToldStandsStep, HeadAloneStep, LateOnceStep, CommandReportedStep,
     TopCatchesUpStep
     DEF IndInv
<1> QED BY InitInv, <1>1, PTL DEF Spec

\* The types of HostControl.
THEOREM TypeCorrect == Spec => []TypeOK
<1>1. IndInv => TypeOK BY DEF IndInv
<1> QED BY <1>1, Invariance, PTL

\* The status of a command that arrived while the main thread was not between
\* its two tests of keep_running stays in the file: CommandReported.
THEOREM CommandReportedCorrect == Spec => []CommandReported
<1>1. IndInv => CommandReported BY DEF IndInv
<1> QED BY <1>1, Invariance, PTL

\* At most one job starts after a command to stop: OneMoreJob.
THEOREM OneMoreJobCorrect == Spec => []OneMoreJob
<1>1. IndInv => OneMoreJob BY DEF IndInv, LateOnce, OneMoreJob
<1> QED BY <1>1, Invariance, PTL

\* Late, repeated and reordered heartbeats do not undo what top has learnt of
\* the current status: TopCatchesUp.
THEOREM TopCatchesUpCorrect == Spec => []TopCatchesUp
<1>1. IndInv => TopCatchesUp BY DEF IndInv
<1> QED BY <1>1, Invariance, PTL
=============================================================================
