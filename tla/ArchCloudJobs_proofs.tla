----------------------- MODULE ArchCloudJobs_proofs -----------------------
(***************************************************************************)
(* Proofs about ArchCloudJobs, for any set of jobs and daemons and any     *)
(* bounds.  IndInv is inductive: TypeOK needs RecordsExist and ResultsHeld *)
(* (a put needs the record that its pull fetched and a result to report),  *)
(* RecordsExist needs OneDelivery, and so on; one lemma shows that a step  *)
(* keeps one part, from all parts before it.                               *)
(***************************************************************************)
EXTENDS ArchCloudJobs, TLAPS

(***************************************************************************)
(* The records that the puts write.                                        *)
(***************************************************************************)
\* push (BaseDataStore.py:16-36) writes a well-formed record with no archive.
LEMMA NewRecordFacts ==
    /\ NewRecord \in Record /\ NewRecord # None
    /\ NewRecord.status = Submitted
    /\ ~NewRecord.zip_archive
<1>1. NewRecord \in Record
  BY DEF NewRecord, Record, Status, RunStatus, Submitted, Unset
<1>2. NewRecord # None BY <1>1, ConstantsAssumption
<1> QED BY <1>1, <1>2 DEF NewRecord

\* The fields each update sets; only the daemon's last one adds an archive.
LEMMA StartedFacts ==
    ASSUME NEW r \in Record, NEW d \in Daemons
    PROVE  /\ MarkStarted(r, d) \in Record /\ MarkStarted(r, d) # None
           /\ MarkStarted(r, d).status = Started
           /\ MarkStarted(r, d).zip_archive = r.zip_archive
BY ConstantsAssumption DEF MarkStarted, Record, Status

\* A cancellation or confirmation keeps whatever archive the pull saw.
LEMMA SettledFacts ==
    ASSUME NEW r \in Record, NEW how \in RunStatus
    PROVE  /\ MarkSettled(r, how) \in Record /\ MarkSettled(r, how) # None
           /\ MarkSettled(r, how).status = Completed
           /\ MarkSettled(r, how).zip_archive = r.zip_archive
BY ConstantsAssumption DEF MarkSettled, Record, Status

\* The last update of the daemon records the outcome and an archive.
LEMMA FinishedFacts ==
    ASSUME NEW r \in Record, NEW how \in RunStatus
    PROVE  /\ MarkFinished(r, how) \in Record /\ MarkFinished(r, how) # None
           /\ MarkFinished(r, how).status = Completed
           /\ MarkFinished(r, how).zip_archive
BY ConstantsAssumption DEF MarkFinished, Record, Status

\* An error only changes the status.
LEMMA ErrorFacts ==
    ASSUME NEW r \in Record
    PROVE  /\ MarkError(r) \in Record /\ MarkError(r) # None
           /\ MarkError(r).status = Error
           /\ MarkError(r).zip_archive = r.zip_archive
BY ConstantsAssumption DEF MarkError, Record, Status

(***************************************************************************)
(* The initial states.                                                     *)
(***************************************************************************)
\* The initial state, before any process has started, satisfies IndInv.
LEMMA InitInv == Init => IndInv
<1> SUFFICES ASSUME Init PROVE IndInv
  OBVIOUS
<1> USE ConstantsAssumption DEF Init
<1>1. TypeOK
  <2> USE DEF ClientPc, DaemonPc, CleanupPc, Answers, Fresh, Expired
  <2>1. spent \in [TroubleKinds -> Nat] OBVIOUS
  <2>2. age \in [Jobs -> Fresh .. Expired] OBVIOUS
  <2>3. ktodo \subseteq Jobs \X {Submitted, Started} OBVIOUS
  <2> QED BY <2>1, <2>2, <2>3 DEF TypeOK
<1>2. RecordsExist BY DEF RecordsExist
<1>3. OneDelivery BY DEF OneDelivery, Open, Runs
<1>4. ArchivesBacked BY DEF ArchivesBacked, Backed
<1>5. ResultsHeld BY DEF ResultsHeld
<1>6. CompletedHasArchive BY DEF CompletedHasArchive, IsStatus
<1>7. LostResultOnlyIfCancelled BY DEF LostResultOnlyIfCancelled, Unset
<1> QED BY <1>1, <1>2, <1>3, <1>4, <1>5, <1>6, <1>7 DEF IndInv

\* Every step keeps the types, given that a put has a record to put.
LEMMA TypeStep ==
    ASSUME TypeOK, RecordsExist, ResultsHeld, [Next]_vars
    PROVE  TypeOK'
<1> USE ConstantsAssumption
    DEF ConstantsAssumption, TypeOK, ClientPc, DaemonPc,
        CleanupPc, Answers, TroubleKinds, RunStatus, Fresh, Old, Expired,
        Unset, Put, Go, Finish, Trouble,
        blobs, topicVars, clientVars, daemonVars, cleanupVars
<1>1. ASSUME NEW j \in Jobs, ClientStep(j) PROVE TypeOK'
  <2>1. CASE Subscribe(j) BY <2>1 DEF Subscribe
  <2>2. CASE WriteSubmission(j) BY <2>2 DEF WriteSubmission
  <2>3. CASE Push(j) BY <2>3, NewRecordFacts DEF Push
  <2>4. CASE Publish(j) BY <2>4 DEF Publish
  <2>5. CASE Appear(j) BY <2>5 DEF Appear
  <2>6. CASE PollTimeout(j) BY <2>6 DEF PollTimeout
  <2>7. CASE PollCompleted(j) BY <2>7 DEF PollCompleted
  <2>8. CASE PollError(j) BY <2>8 DEF PollError
  <2>9. CASE ClientUpdatePull(j) BY <2>9 DEF ClientUpdatePull
  <2>10. CASE CancelPut(j)
    <3>1. cbuf[j] \in Record
      BY <2>10 DEF RecordsExist, CancelPut
    <3>2. /\ MarkSettled(cbuf[j], "timeout") \in Record
          /\ MarkSettled(cbuf[j], "timeout") # None
      BY <3>1, SettledFacts DEF RunStatus
    <3> QED BY <2>10, <3>1, <3>2 DEF CancelPut
  <2>11. CASE ConfirmPut(j)
    <3>1. cbuf[j] \in Record
      BY <2>11 DEF RecordsExist, ConfirmPut
    <3>2. /\ MarkSettled(cbuf[j], "success") \in Record
          /\ MarkSettled(cbuf[j], "success") # None
      BY <3>1, SettledFacts DEF RunStatus
    <3> QED BY <2>11, <3>1, <3>2 DEF ConfirmPut
  <2>12. CASE Fetch(j) BY <2>12 DEF Fetch
  <2> QED
    BY <1>1, <2>1, <2>2, <2>3, <2>4, <2>5, <2>6, <2>7, <2>8, <2>9,
       <2>10, <2>11, <2>12
       DEF ClientStep
<1>2. ASSUME NEW j \in Jobs, KillClient(j) PROVE TypeOK'
  BY <1>2 DEF KillClient
<1>3. ASSUME NEW j \in Jobs, Tick(j) PROVE TypeOK'
  BY <1>3 DEF Tick
<1>4. ASSUME NEW d \in Daemons, DaemonStep(d) PROVE TypeOK'
  <2>1. CASE Boot(d) BY <2>1 DEF Boot
  <2>2. CASE Pull(d) BY <2>2 DEF Pull
  <2>3. CASE PullNothing(d) BY <2>3 DEF PullNothing
  <2>4. CASE Check(d) BY <2>4 DEF Check
  <2>5. CASE DaemonUpdatePull(d) BY <2>5 DEF DaemonUpdatePull, RecordsExist
  <2>6. CASE GrabPut(d)
    <3>1. dbuf[d] \in Record /\ cur[d] \in Jobs
      BY <2>6 DEF RecordsExist, GrabPut
    <3>2. /\ MarkStarted(dbuf[d], d) \in Record
          /\ MarkStarted(dbuf[d], d) # None
      BY <3>1, StartedFacts
    <3> QED BY <2>6, <3>1, <3>2 DEF GrabPut
  <2>7. CASE RunJob(d)
    <3>1. PICK s \in RunStatus : dres' = [dres EXCEPT ![d] = s]
      BY <2>7 DEF RunJob
    <3> QED BY <2>7, <3>1 DEF RunJob
  <2>8. CASE Recheck(d) BY <2>8 DEF Recheck
  <2>9. CASE Bundle(d) BY <2>9 DEF Bundle
  <2>10. CASE WriteResult(d) BY <2>10 DEF WriteResult
  <2>11. CASE FinishPut(d)
    <3>1. dbuf[d] \in Record /\ cur[d] \in Jobs /\ dres[d] \in RunStatus
      BY <2>11 DEF RecordsExist, ResultsHeld, FinishPut
    <3>2. /\ MarkFinished(dbuf[d], dres[d]) \in Record
          /\ MarkFinished(dbuf[d], dres[d]) # None
      BY <3>1, FinishedFacts
    <3> QED BY <2>11, <3>1, <3>2 DEF FinishPut
  <2>12. CASE ErrorPut(d)
    <3>1. dbuf[d] \in Record /\ cur[d] \in Jobs
      BY <2>12 DEF RecordsExist, ErrorPut
    <3>2. /\ MarkError(dbuf[d]) \in Record
          /\ MarkError(dbuf[d]) # None
      BY <3>1, ErrorFacts
    <3> QED BY <2>12, <3>1, <3>2 DEF ErrorPut
  <2> QED
    BY <1>4, <2>1, <2>2, <2>3, <2>4, <2>5, <2>6, <2>7, <2>8, <2>9,
       <2>10, <2>11, <2>12
       DEF DaemonStep
<1>5. ASSUME NEW d \in Daemons, PullRaises(d) PROVE TypeOK'
  BY <1>5 DEF PullRaises
<1>6. ASSUME NEW d \in Daemons, Fault(d) PROVE TypeOK'
  BY <1>6 DEF Fault
<1>7. ASSUME NEW d \in Daemons, Exit(d) \/ Crash(d) PROVE TypeOK'
  BY <1>7 DEF Exit, Crash, Restart
<1>8. ASSUME CleanupStep PROVE TypeOK'
  <2>1. CASE StartCleanup BY <2>1 DEF StartCleanup
  <2>2. CASE Query BY <2>2 DEF Query
  <2>3. CASE NextStale BY <2>3 DEF NextStale
  <2>4. CASE CleanupPut
    <3>1. kbuf \in Record /\ kjob \in Jobs
      BY <2>4 DEF RecordsExist, CleanupPut
    <3>2. /\ MarkSettled(kbuf, "timeout") \in Record
          /\ MarkSettled(kbuf, "timeout") # None
      BY <3>1, SettledFacts DEF RunStatus
    <3> QED BY <2>4, <3>1, <3>2 DEF CleanupPut
  <2>5. CASE EndCleanup BY <2>5 DEF EndCleanup
  <2> QED
    BY <1>8, <2>1, <2>2, <2>3, <2>4, <2>5
       DEF CleanupStep
<1>9. CASE UNCHANGED vars BY <1>9 DEF vars
<1> QED
  BY <1>1, <1>2, <1>3, <1>4, <1>5, <1>6, <1>7, <1>8, <1>9 DEF Next

\* Every step keeps RecordsExist: no step removes a record.
LEMMA RecordsStep ==
    ASSUME TypeOK, RecordsExist, OneDelivery, ResultsHeld, TypeOK', [Next]_vars
    PROVE  RecordsExist'
<1> USE ConstantsAssumption
    DEF TypeOK, Put, Go, Finish, Trouble,
        blobs, topicVars, clientVars, daemonVars, cleanupVars, RecordsExist
<1>1. ASSUME NEW j \in Jobs, ClientStep(j) PROVE RecordsExist'
  <2>1. CASE Subscribe(j) BY <2>1 DEF Subscribe
  <2>2. CASE WriteSubmission(j) BY <2>2 DEF WriteSubmission
  <2>3. CASE Push(j) BY <2>3, NewRecordFacts DEF Push
  <2>4. CASE Publish(j) BY <2>4 DEF Publish
  <2>5. CASE Appear(j) BY <2>5 DEF Appear
  <2>6. CASE PollTimeout(j) BY <2>6 DEF PollTimeout
  <2>7. CASE PollCompleted(j) BY <2>7 DEF PollCompleted
  <2>8. CASE PollError(j) BY <2>8 DEF PollError
  <2>9. CASE ClientUpdatePull(j) BY <2>9 DEF ClientUpdatePull
  <2>10. CASE CancelPut(j)
    <3>1. cbuf[j] \in Record
      BY <2>10 DEF RecordsExist, CancelPut
    <3>2. /\ MarkSettled(cbuf[j], "timeout") \in Record
          /\ MarkSettled(cbuf[j], "timeout") # None
      BY <3>1, SettledFacts DEF RunStatus
    <3> QED BY <2>10, <3>1, <3>2 DEF CancelPut
  <2>11. CASE ConfirmPut(j)
    <3>1. cbuf[j] \in Record
      BY <2>11 DEF RecordsExist, ConfirmPut
    <3>2. /\ MarkSettled(cbuf[j], "success") \in Record
          /\ MarkSettled(cbuf[j], "success") # None
      BY <3>1, SettledFacts DEF RunStatus
    <3> QED BY <2>11, <3>1, <3>2 DEF ConfirmPut
  <2>12. CASE Fetch(j) BY <2>12 DEF Fetch
  <2> QED
    BY <1>1, <2>1, <2>2, <2>3, <2>4, <2>5, <2>6, <2>7, <2>8, <2>9,
       <2>10, <2>11, <2>12
       DEF ClientStep
<1>2. ASSUME NEW j \in Jobs, KillClient(j) PROVE RecordsExist'
  BY <1>2 DEF KillClient
<1>3. ASSUME NEW j \in Jobs, Tick(j) PROVE RecordsExist'
  BY <1>3 DEF Tick
<1>4. ASSUME NEW d \in Daemons, DaemonStep(d) PROVE RecordsExist'
  <2>1. CASE Boot(d) BY <2>1 DEF Boot
  <2>2. CASE Pull(d) BY <2>2 DEF Pull
  <2>3. CASE PullNothing(d) BY <2>3 DEF PullNothing
  <2>4. CASE Check(d) BY <2>4 DEF Check
  <2>5. CASE DaemonUpdatePull(d) BY <2>5 DEF DaemonUpdatePull
  <2>6. CASE GrabPut(d)
    <3>1. dbuf[d] \in Record /\ cur[d] \in Jobs
      BY <2>6 DEF RecordsExist, GrabPut
    <3>2. /\ MarkStarted(dbuf[d], d) \in Record
          /\ MarkStarted(dbuf[d], d) # None
      BY <3>1, StartedFacts
    <3> QED BY <2>6, <3>1, <3>2 DEF GrabPut
  <2>7. CASE RunJob(d) BY <2>7 DEF RunJob
  <2>8. CASE Recheck(d) BY <2>8 DEF Recheck
  <2>9. CASE Bundle(d) BY <2>9 DEF Bundle
  <2>10. CASE WriteResult(d) BY <2>10 DEF WriteResult
  <2>11. CASE FinishPut(d)
    <3>1. dbuf[d] \in Record /\ cur[d] \in Jobs /\ dres[d] \in RunStatus
      BY <2>11 DEF RecordsExist, ResultsHeld, FinishPut
    <3>2. /\ MarkFinished(dbuf[d], dres[d]) \in Record
          /\ MarkFinished(dbuf[d], dres[d]) # None
      BY <3>1, FinishedFacts
    <3> QED BY <2>11, <3>1, <3>2 DEF FinishPut
  <2>12. CASE ErrorPut(d)
    <3>1. dbuf[d] \in Record /\ cur[d] \in Jobs
      BY <2>12 DEF RecordsExist, ErrorPut
    <3>2. /\ MarkError(dbuf[d]) \in Record
          /\ MarkError(dbuf[d]) # None
      BY <3>1, ErrorFacts
    <3> QED BY <2>12, <3>1, <3>2 DEF ErrorPut
  <2> QED
    BY <1>4, <2>1, <2>2, <2>3, <2>4, <2>5, <2>6, <2>7, <2>8, <2>9,
       <2>10, <2>11, <2>12
       DEF DaemonStep
<1>5. ASSUME NEW d \in Daemons, PullRaises(d) PROVE RecordsExist'
  BY <1>5 DEF PullRaises
<1>6. ASSUME NEW d \in Daemons, Fault(d) PROVE RecordsExist'
  BY <1>6 DEF Fault
<1>7. ASSUME NEW d \in Daemons, Exit(d) \/ Crash(d) PROVE RecordsExist'
  BY <1>7 DEF Exit, Crash, Restart
<1>8. ASSUME CleanupStep PROVE RecordsExist'
  <2>1. CASE StartCleanup BY <2>1 DEF StartCleanup
  <2>2. CASE Query BY <2>2 DEF Query, IsStatus
  <2>3. CASE NextStale BY <2>3 DEF NextStale
  <2>4. CASE CleanupPut
    <3>1. kbuf \in Record /\ kjob \in Jobs
      BY <2>4 DEF RecordsExist, CleanupPut
    <3>2. /\ MarkSettled(kbuf, "timeout") \in Record
          /\ MarkSettled(kbuf, "timeout") # None
      BY <3>1, SettledFacts DEF RunStatus
    <3> QED BY <2>4, <3>1, <3>2 DEF CleanupPut
  <2>5. CASE EndCleanup BY <2>5 DEF EndCleanup
  <2> QED
    BY <1>8, <2>1, <2>2, <2>3, <2>4, <2>5
       DEF CleanupStep
<1>9. CASE UNCHANGED vars BY <1>9 DEF vars
<1> QED
  BY <1>1, <1>2, <1>3, <1>4, <1>5, <1>6, <1>7, <1>8, <1>9 DEF Next

\* Every step keeps OneDelivery: only Publish adds a message, and only a lost
\* acknowledgement leaves a pulled one behind.
LEMMA DeliveryStep ==
    ASSUME TypeOK, OneDelivery, [Next]_vars
    PROVE  OneDelivery'
<1> USE ConstantsAssumption
    DEF TypeOK, Put, Go, Finish, Trouble,
        blobs, topicVars, clientVars, daemonVars, cleanupVars, OneDelivery,
        Open, Runs, BeforePublish
<1>1. ASSUME NEW j \in Jobs, ClientStep(j) PROVE OneDelivery'
  <2>1. CASE Subscribe(j) BY <2>1 DEF Subscribe
  <2>2. CASE WriteSubmission(j) BY <2>2 DEF WriteSubmission
  <2>3. CASE Push(j) BY <2>3 DEF Push
  <2>4. CASE Publish(j) BY <2>4 DEF Publish
  <2>5. CASE Appear(j) BY <2>5 DEF Appear
  <2>6. CASE PollTimeout(j) BY <2>6 DEF PollTimeout
  <2>7. CASE PollCompleted(j) BY <2>7 DEF PollCompleted
  <2>8. CASE PollError(j) BY <2>8 DEF PollError
  <2>9. CASE ClientUpdatePull(j) BY <2>9 DEF ClientUpdatePull
  <2>10. CASE CancelPut(j) BY <2>10 DEF CancelPut
  <2>11. CASE ConfirmPut(j) BY <2>11 DEF ConfirmPut
  <2>12. CASE Fetch(j) BY <2>12 DEF Fetch
  <2> QED
    BY <1>1, <2>1, <2>2, <2>3, <2>4, <2>5, <2>6, <2>7, <2>8, <2>9,
       <2>10, <2>11, <2>12
       DEF ClientStep
<1>2. ASSUME NEW j \in Jobs, KillClient(j) PROVE OneDelivery'
  BY <1>2 DEF KillClient
<1>3. ASSUME NEW j \in Jobs, Tick(j) PROVE OneDelivery'
  BY <1>3 DEF Tick
<1>4. ASSUME NEW d \in Daemons, DaemonStep(d) PROVE OneDelivery'
  <2>1. CASE Boot(d) BY <2>1 DEF Boot
  <2>2. CASE Pull(d)
    <3>1. PICK j \in queue :
            /\ cur' = [cur EXCEPT ![d] = j]
            /\ \/ queue' = queue \ {j} /\ UNCHANGED spent
               \/ UNCHANGED queue /\ Trouble("ack")
      BY <2>2 DEF Pull
    <3>2. \A i \in Jobs : BeforePublish(i)' => ~Open(i)'
      BY <2>2, <3>1 DEF Pull
    <3>3. CASE queue' = queue \ {j} /\ UNCHANGED spent
      BY <2>2, <3>1, <3>2, <3>3 DEF Pull
    <3>4. CASE UNCHANGED queue /\ Trouble("ack")
      <4>1. spent'["ack"] # 0 BY <3>4 DEF TroubleKinds
      <4> QED BY <3>2, <4>1
    <3> QED BY <3>1, <3>3, <3>4
  <2>3. CASE PullNothing(d) BY <2>3 DEF PullNothing
  <2>4. CASE Check(d) BY <2>4 DEF Check
  <2>5. CASE DaemonUpdatePull(d) BY <2>5 DEF DaemonUpdatePull
  <2>6. CASE GrabPut(d) BY <2>6 DEF GrabPut
  <2>7. CASE RunJob(d) BY <2>7 DEF RunJob
  <2>8. CASE Recheck(d) BY <2>8 DEF Recheck
  <2>9. CASE Bundle(d) BY <2>9 DEF Bundle
  <2>10. CASE WriteResult(d) BY <2>10 DEF WriteResult
  <2>11. CASE FinishPut(d) BY <2>11 DEF FinishPut
  <2>12. CASE ErrorPut(d)
    <3>1. /\ dpc'[d] \in {"boot", "idle"}
          /\ \A e \in Daemons \ {d} : dpc'[e] = dpc[e] /\ cur'[e] = cur[e]
      BY <2>12 DEF ErrorPut
    <3>2. UNCHANGED <<cpc, queue, spent>> BY <2>12 DEF ErrorPut
    <3> QED BY <3>1, <3>2
  <2> QED
    BY <1>4, <2>1, <2>2, <2>3, <2>4, <2>5, <2>6, <2>7, <2>8, <2>9,
       <2>10, <2>11, <2>12
       DEF DaemonStep
<1>5. ASSUME NEW d \in Daemons, PullRaises(d) PROVE OneDelivery'
  BY <1>5 DEF PullRaises
<1>6. ASSUME NEW d \in Daemons, Fault(d) PROVE OneDelivery'
  BY <1>6 DEF Fault
<1>7. ASSUME NEW d \in Daemons, Exit(d) \/ Crash(d) PROVE OneDelivery'
   <2>1. dpc' = [dpc EXCEPT ![d] = "boot"] /\ cur' = [cur EXCEPT ![d] = None]
    BY <1>7 DEF Exit, Crash, Restart
  <2>2. UNCHANGED <<cpc, queue>> BY <1>7 DEF Exit, Crash, Restart
  <2>3. spent'["ack"] = spent["ack"]
    BY <1>7 DEF Exit, Crash, Restart, TroubleKinds
  <2> QED BY <2>1, <2>2, <2>3
<1>8. ASSUME CleanupStep PROVE OneDelivery'
  <2>1. CASE StartCleanup BY <2>1 DEF StartCleanup
  <2>2. CASE Query BY <2>2 DEF Query
  <2>3. CASE NextStale BY <2>3 DEF NextStale
  <2>4. CASE CleanupPut BY <2>4 DEF CleanupPut
  <2>5. CASE EndCleanup BY <2>5 DEF EndCleanup
  <2> QED
    BY <1>8, <2>1, <2>2, <2>3, <2>4, <2>5
       DEF CleanupStep
<1>9. CASE UNCHANGED vars BY <1>9 DEF vars
<1> QED
  BY <1>1, <1>2, <1>3, <1>4, <1>5, <1>6, <1>7, <1>8, <1>9 DEF Next

\* Every step keeps ArchivesBacked: a stored result is never deleted, and only
\* FinishPut adds an archive, after WriteResult.
LEMMA ArchiveStep ==
    ASSUME TypeOK, RecordsExist, OneDelivery, ResultsHeld, ArchivesBacked,
    [Next]_vars
    PROVE  ArchivesBacked'
<1> USE ConstantsAssumption
    DEF TypeOK, Put, Go, Finish, Trouble,
        blobs, topicVars, clientVars, daemonVars, cleanupVars, ArchivesBacked,
        Backed
<1>1. ASSUME NEW j \in Jobs, ClientStep(j) PROVE ArchivesBacked'
  <2>1. CASE Subscribe(j) BY <2>1 DEF Subscribe
  <2>2. CASE WriteSubmission(j) BY <2>2 DEF WriteSubmission
  <2>3. CASE Push(j) BY <2>3, NewRecordFacts DEF Push
  <2>4. CASE Publish(j) BY <2>4 DEF Publish
  <2>5. CASE Appear(j) BY <2>5 DEF Appear
  <2>6. CASE PollTimeout(j) BY <2>6 DEF PollTimeout
  <2>7. CASE PollCompleted(j) BY <2>7 DEF PollCompleted
  <2>8. CASE PollError(j) BY <2>8 DEF PollError
  <2>9. CASE ClientUpdatePull(j) BY <2>9 DEF ClientUpdatePull
  <2>10. CASE CancelPut(j)
    <3>1. cbuf[j] \in Record
      BY <2>10 DEF RecordsExist, CancelPut
    <3>2. MarkSettled(cbuf[j], "timeout").zip_archive = cbuf[j].zip_archive
      BY <3>1, SettledFacts DEF RunStatus
    <3> QED BY <2>10, <3>1, <3>2 DEF CancelPut, RecordsExist, ResultsHeld
  <2>11. CASE ConfirmPut(j)
    <3>1. cbuf[j] \in Record
      BY <2>11 DEF RecordsExist, ConfirmPut
    <3>2. MarkSettled(cbuf[j], "success").zip_archive = cbuf[j].zip_archive
      BY <3>1, SettledFacts DEF RunStatus
    <3> QED BY <2>11, <3>1, <3>2 DEF ConfirmPut, RecordsExist, ResultsHeld
  <2>12. CASE Fetch(j) BY <2>12 DEF Fetch
  <2> QED
    BY <1>1, <2>1, <2>2, <2>3, <2>4, <2>5, <2>6, <2>7, <2>8, <2>9,
       <2>10, <2>11, <2>12
       DEF ClientStep
<1>2. ASSUME NEW j \in Jobs, KillClient(j) PROVE ArchivesBacked'
  BY <1>2 DEF KillClient
<1>3. ASSUME NEW j \in Jobs, Tick(j) PROVE ArchivesBacked'
  BY <1>3 DEF Tick
<1>4. ASSUME NEW d \in Daemons, DaemonStep(d) PROVE ArchivesBacked'
  <2>1. CASE Boot(d) BY <2>1 DEF Boot
  <2>2. CASE Pull(d) BY <2>2 DEF Pull, RecordsExist
  <2>3. CASE PullNothing(d) BY <2>3 DEF PullNothing, RecordsExist
  <2>4. CASE Check(d) BY <2>4 DEF Check
  <2>5. CASE DaemonUpdatePull(d) BY <2>5 DEF DaemonUpdatePull
  <2>6. CASE GrabPut(d)
    <3>1. dbuf[d] \in Record /\ cur[d] \in Jobs
      BY <2>6 DEF RecordsExist, GrabPut
    <3>2. MarkStarted(dbuf[d], d).zip_archive = dbuf[d].zip_archive
      BY <3>1, StartedFacts
    <3> QED BY <2>6, <3>1, <3>2 DEF GrabPut, RecordsExist, ResultsHeld
  <2>7. CASE RunJob(d) BY <2>7 DEF RunJob
  <2>8. CASE Recheck(d) BY <2>8 DEF Recheck
  <2>9. CASE Bundle(d) BY <2>9 DEF Bundle
  <2>10. CASE WriteResult(d)
    BY <2>10 DEF WriteResult, ResultsHeld, RecordsExist
  <2>11. CASE FinishPut(d)
    <3>1. dbuf[d] \in Record /\ cur[d] \in Jobs /\ dres[d] \in RunStatus
      BY <2>11 DEF RecordsExist, ResultsHeld, FinishPut
    <3>2. MarkFinished(dbuf[d], dres[d]).zip_archive
      BY <3>1, FinishedFacts
    <3> QED BY <2>11, <3>1, <3>2 DEF FinishPut, RecordsExist, ResultsHeld
  <2>12. CASE ErrorPut(d)
    <3>1. dbuf[d] \in Record /\ cur[d] \in Jobs
      BY <2>12 DEF RecordsExist, ErrorPut
    <3>2. MarkError(dbuf[d]).zip_archive = dbuf[d].zip_archive
      BY <3>1, ErrorFacts
    <3> QED BY <2>12, <3>1, <3>2 DEF ErrorPut, RecordsExist, ResultsHeld
  <2> QED
    BY <1>4, <2>1, <2>2, <2>3, <2>4, <2>5, <2>6, <2>7, <2>8, <2>9,
       <2>10, <2>11, <2>12
       DEF DaemonStep
<1>5. ASSUME NEW d \in Daemons, PullRaises(d) PROVE ArchivesBacked'
  BY <1>5 DEF PullRaises
<1>6. ASSUME NEW d \in Daemons, Fault(d) PROVE ArchivesBacked'
  BY <1>6 DEF Fault
<1>7. ASSUME NEW d \in Daemons, Exit(d) \/ Crash(d) PROVE ArchivesBacked'
  BY <1>7 DEF Exit, Crash, Restart
<1>8. ASSUME CleanupStep PROVE ArchivesBacked'
  <2>1. CASE StartCleanup BY <2>1 DEF StartCleanup
  <2>2. CASE Query BY <2>2 DEF Query
  <2>3. CASE NextStale BY <2>3 DEF NextStale, RecordsExist
  <2>4. CASE CleanupPut
    <3>1. kbuf \in Record /\ kjob \in Jobs
      BY <2>4 DEF RecordsExist, CleanupPut
    <3>2. MarkSettled(kbuf, "timeout").zip_archive = kbuf.zip_archive
      BY <3>1, SettledFacts DEF RunStatus
    <3> QED BY <2>4, <3>1, <3>2 DEF CleanupPut, RecordsExist, ResultsHeld
  <2>5. CASE EndCleanup BY <2>5 DEF EndCleanup
  <2> QED
    BY <1>8, <2>1, <2>2, <2>3, <2>4, <2>5
       DEF CleanupStep
<1>9. CASE UNCHANGED vars BY <1>9 DEF vars
<1> QED
  BY <1>1, <1>2, <1>3, <1>4, <1>5, <1>6, <1>7, <1>8, <1>9 DEF Next

\* Every step keeps ResultsHeld.
LEMMA ResultStep ==
    ASSUME TypeOK, RecordsExist, ResultsHeld, [Next]_vars
    PROVE  ResultsHeld'
<1> USE ConstantsAssumption
    DEF TypeOK, Put, Go, Finish, Trouble,
        blobs, topicVars, clientVars, daemonVars, cleanupVars, ResultsHeld,
        RunStatus, Unset
<1>1. ASSUME NEW j \in Jobs, ClientStep(j) PROVE ResultsHeld'
  <2>1. CASE Subscribe(j) BY <2>1 DEF Subscribe
  <2>2. CASE WriteSubmission(j) BY <2>2 DEF WriteSubmission
  <2>3. CASE Push(j) BY <2>3 DEF Push
  <2>4. CASE Publish(j) BY <2>4 DEF Publish
  <2>5. CASE Appear(j) BY <2>5 DEF Appear
  <2>6. CASE PollTimeout(j) BY <2>6 DEF PollTimeout
  <2>7. CASE PollCompleted(j) BY <2>7 DEF PollCompleted
  <2>8. CASE PollError(j) BY <2>8 DEF PollError
  <2>9. CASE ClientUpdatePull(j) BY <2>9 DEF ClientUpdatePull
  <2>10. CASE CancelPut(j) BY <2>10 DEF CancelPut
  <2>11. CASE ConfirmPut(j) BY <2>11 DEF ConfirmPut
  <2>12. CASE Fetch(j) BY <2>12 DEF Fetch
  <2> QED
    BY <1>1, <2>1, <2>2, <2>3, <2>4, <2>5, <2>6, <2>7, <2>8, <2>9,
       <2>10, <2>11, <2>12
       DEF ClientStep
<1>2. ASSUME NEW j \in Jobs, KillClient(j) PROVE ResultsHeld'
  BY <1>2 DEF KillClient
<1>3. ASSUME NEW j \in Jobs, Tick(j) PROVE ResultsHeld'
  BY <1>3 DEF Tick
<1>4. ASSUME NEW d \in Daemons, DaemonStep(d) PROVE ResultsHeld'
  <2>1. CASE Boot(d) BY <2>1 DEF Boot
  <2>2. CASE Pull(d) BY <2>2 DEF Pull
  <2>3. CASE PullNothing(d) BY <2>3 DEF PullNothing
  <2>4. CASE Check(d) BY <2>4 DEF Check
  <2>5. CASE DaemonUpdatePull(d) BY <2>5 DEF DaemonUpdatePull
  <2>6. CASE GrabPut(d) BY <2>6 DEF GrabPut
  <2>7. CASE RunJob(d) BY <2>7 DEF RunJob, RecordsExist
  <2>8. CASE Recheck(d) BY <2>8 DEF Recheck
  <2>9. CASE Bundle(d) BY <2>9 DEF Bundle
  <2>10. CASE WriteResult(d) BY <2>10 DEF WriteResult, RecordsExist
  <2>11. CASE FinishPut(d) BY <2>11 DEF FinishPut
  <2>12. CASE ErrorPut(d) BY <2>12 DEF ErrorPut
  <2> QED
    BY <1>4, <2>1, <2>2, <2>3, <2>4, <2>5, <2>6, <2>7, <2>8, <2>9,
       <2>10, <2>11, <2>12
       DEF DaemonStep
<1>5. ASSUME NEW d \in Daemons, PullRaises(d) PROVE ResultsHeld'
  BY <1>5 DEF PullRaises
<1>6. ASSUME NEW d \in Daemons, Fault(d) PROVE ResultsHeld'
  BY <1>6 DEF Fault
<1>7. ASSUME NEW d \in Daemons, Exit(d) \/ Crash(d) PROVE ResultsHeld'
  BY <1>7 DEF Exit, Crash, Restart
<1>8. ASSUME CleanupStep PROVE ResultsHeld'
  <2>1. CASE StartCleanup BY <2>1 DEF StartCleanup
  <2>2. CASE Query BY <2>2 DEF Query
  <2>3. CASE NextStale BY <2>3 DEF NextStale
  <2>4. CASE CleanupPut BY <2>4 DEF CleanupPut
  <2>5. CASE EndCleanup BY <2>5 DEF EndCleanup
  <2> QED
    BY <1>8, <2>1, <2>2, <2>3, <2>4, <2>5
       DEF CleanupStep
<1>9. CASE UNCHANGED vars BY <1>9 DEF vars
<1> QED
  BY <1>1, <1>2, <1>3, <1>4, <1>5, <1>6, <1>7, <1>8, <1>9 DEF Next

\* Every step keeps CompletedHasArchive.
LEMMA CompletedStep ==
    ASSUME TypeOK, RecordsExist, ResultsHeld, CompletedHasArchive, [Next]_vars
    PROVE  CompletedHasArchive'
<1> USE ConstantsAssumption
    DEF TypeOK, Put, Go, Finish, Trouble,
        blobs, topicVars, clientVars, daemonVars, cleanupVars,
        CompletedHasArchive, IsStatus, Status, Submitted, Started, Completed,
        Error
<1>1. ASSUME NEW j \in Jobs, ClientStep(j) PROVE CompletedHasArchive'
  <2>1. CASE Subscribe(j) BY <2>1 DEF Subscribe
  <2>2. CASE WriteSubmission(j) BY <2>2 DEF WriteSubmission
  <2>3. CASE Push(j) BY <2>3, NewRecordFacts DEF Push
  <2>4. CASE Publish(j) BY <2>4 DEF Publish
  <2>5. CASE Appear(j) BY <2>5 DEF Appear
  <2>6. CASE PollTimeout(j) BY <2>6 DEF PollTimeout
  <2>7. CASE PollCompleted(j) BY <2>7 DEF PollCompleted
  <2>8. CASE PollError(j) BY <2>8 DEF PollError
  <2>9. CASE ClientUpdatePull(j) BY <2>9 DEF ClientUpdatePull
  <2>10. CASE CancelPut(j)
    <3>1. cbuf[j] \in Record
      BY <2>10 DEF RecordsExist, CancelPut
    <3> QED BY <2>10, <3>1 DEF CancelPut
  <2>11. CASE ConfirmPut(j)
    <3>1. cbuf[j] \in Record
      BY <2>11 DEF RecordsExist, ConfirmPut
    <3> QED BY <2>11, <3>1 DEF ConfirmPut
  <2>12. CASE Fetch(j) BY <2>12 DEF Fetch
  <2> QED
    BY <1>1, <2>1, <2>2, <2>3, <2>4, <2>5, <2>6, <2>7, <2>8, <2>9,
       <2>10, <2>11, <2>12
       DEF ClientStep
<1>2. ASSUME NEW j \in Jobs, KillClient(j) PROVE CompletedHasArchive'
  BY <1>2 DEF KillClient
<1>3. ASSUME NEW j \in Jobs, Tick(j) PROVE CompletedHasArchive'
  BY <1>3 DEF Tick
<1>4. ASSUME NEW d \in Daemons, DaemonStep(d) PROVE CompletedHasArchive'
  <2>1. CASE Boot(d) BY <2>1 DEF Boot
  <2>2. CASE Pull(d) BY <2>2 DEF Pull
  <2>3. CASE PullNothing(d) BY <2>3 DEF PullNothing
  <2>4. CASE Check(d) BY <2>4 DEF Check
  <2>5. CASE DaemonUpdatePull(d) BY <2>5 DEF DaemonUpdatePull
  <2>6. CASE GrabPut(d)
    <3>1. dbuf[d] \in Record /\ cur[d] \in Jobs
      BY <2>6 DEF RecordsExist, GrabPut
    <3>2. MarkStarted(dbuf[d], d).status # Completed
      BY <3>1, StartedFacts
    <3> QED BY <2>6, <3>1, <3>2 DEF GrabPut
  <2>7. CASE RunJob(d) BY <2>7 DEF RunJob
  <2>8. CASE Recheck(d) BY <2>8 DEF Recheck
  <2>9. CASE Bundle(d) BY <2>9 DEF Bundle
  <2>10. CASE WriteResult(d) BY <2>10 DEF WriteResult
  <2>11. CASE FinishPut(d)
    <3>1. dbuf[d] \in Record /\ cur[d] \in Jobs /\ dres[d] \in RunStatus
      BY <2>11 DEF RecordsExist, ResultsHeld, FinishPut
    <3>2. MarkFinished(dbuf[d], dres[d]).zip_archive
      BY <3>1, FinishedFacts
    <3> QED BY <2>11, <3>1, <3>2 DEF FinishPut
  <2>12. CASE ErrorPut(d)
    <3>1. dbuf[d] \in Record /\ cur[d] \in Jobs
      BY <2>12 DEF RecordsExist, ErrorPut
    <3>2. MarkError(dbuf[d]).status # Completed
      BY <3>1, ErrorFacts
    <3> QED BY <2>12, <3>1, <3>2 DEF ErrorPut
  <2> QED
    BY <1>4, <2>1, <2>2, <2>3, <2>4, <2>5, <2>6, <2>7, <2>8, <2>9,
       <2>10, <2>11, <2>12
       DEF DaemonStep
<1>5. ASSUME NEW d \in Daemons, PullRaises(d) PROVE CompletedHasArchive'
  BY <1>5 DEF PullRaises
<1>6. ASSUME NEW d \in Daemons, Fault(d) PROVE CompletedHasArchive'
  BY <1>6 DEF Fault
<1>7. ASSUME NEW d \in Daemons, Exit(d) \/ Crash(d) PROVE CompletedHasArchive'
  BY <1>7 DEF Exit, Crash, Restart
<1>8. ASSUME CleanupStep PROVE CompletedHasArchive'
  <2>1. CASE StartCleanup BY <2>1 DEF StartCleanup
  <2>2. CASE Query BY <2>2 DEF Query
  <2>3. CASE NextStale BY <2>3 DEF NextStale
  <2>4. CASE CleanupPut
    <3>1. kbuf \in Record /\ kjob \in Jobs
      BY <2>4 DEF RecordsExist, CleanupPut
    <3> QED BY <2>4, <3>1 DEF CleanupPut
  <2>5. CASE EndCleanup BY <2>5 DEF EndCleanup
  <2> QED
    BY <1>8, <2>1, <2>2, <2>3, <2>4, <2>5
       DEF CleanupStep
<1>9. CASE UNCHANGED vars BY <1>9 DEF vars
<1> QED
  BY <1>1, <1>2, <1>3, <1>4, <1>5, <1>6, <1>7, <1>8, <1>9 DEF Next

\* Every step keeps LostResultOnlyIfCancelled: a client that fetches without
\* having seen a cancelled record finds a result.
LEMMA LostResultStep ==
    ASSUME TypeOK, RecordsExist, ArchivesBacked,
           CompletedHasArchive, LostResultOnlyIfCancelled, [Next]_vars
    PROVE  LostResultOnlyIfCancelled'
<1> USE ConstantsAssumption
    DEF TypeOK, Put, Go, Finish, Trouble,
        blobs, topicVars, clientVars, daemonVars, cleanupVars,
        LostResultOnlyIfCancelled
<1>1. ASSUME NEW j \in Jobs, ClientStep(j) PROVE LostResultOnlyIfCancelled'
  <2>1. CASE Subscribe(j) BY <2>1 DEF Subscribe
  <2>2. CASE WriteSubmission(j) BY <2>2 DEF WriteSubmission
  <2>3. CASE Push(j) BY <2>3 DEF Push
  <2>4. CASE Publish(j) BY <2>4 DEF Publish
  <2>5. CASE Appear(j) BY <2>5 DEF Appear
  <2>6. CASE PollTimeout(j) BY <2>6 DEF PollTimeout
  <2>7. CASE PollCompleted(j) BY <2>7 DEF PollCompleted
  <2>8. CASE PollError(j) BY <2>8 DEF PollError
  <2>9. CASE ClientUpdatePull(j) BY <2>9 DEF ClientUpdatePull
  <2>10. CASE CancelPut(j) BY <2>10 DEF CancelPut
  <2>11. CASE ConfirmPut(j) BY <2>11 DEF ConfirmPut
  <2>12. CASE Fetch(j)
    BY <2>12
      DEF Fetch, RecordsExist, ArchivesBacked, Backed, CompletedHasArchive
  <2> QED
    BY <1>1, <2>1, <2>2, <2>3, <2>4, <2>5, <2>6, <2>7, <2>8, <2>9,
       <2>10, <2>11, <2>12
       DEF ClientStep
<1>2. ASSUME NEW j \in Jobs, KillClient(j) PROVE LostResultOnlyIfCancelled'
  BY <1>2 DEF KillClient
<1>3. ASSUME NEW j \in Jobs, Tick(j) PROVE LostResultOnlyIfCancelled'
  BY <1>3 DEF Tick
<1>4. ASSUME NEW d \in Daemons, DaemonStep(d) PROVE LostResultOnlyIfCancelled'
  <2>1. CASE Boot(d) BY <2>1 DEF Boot
  <2>2. CASE Pull(d) BY <2>2 DEF Pull
  <2>3. CASE PullNothing(d) BY <2>3 DEF PullNothing
  <2>4. CASE Check(d) BY <2>4 DEF Check
  <2>5. CASE DaemonUpdatePull(d) BY <2>5 DEF DaemonUpdatePull
  <2>6. CASE GrabPut(d) BY <2>6 DEF GrabPut
  <2>7. CASE RunJob(d) BY <2>7 DEF RunJob
  <2>8. CASE Recheck(d) BY <2>8 DEF Recheck
  <2>9. CASE Bundle(d) BY <2>9 DEF Bundle
  <2>10. CASE WriteResult(d) BY <2>10 DEF WriteResult
  <2>11. CASE FinishPut(d) BY <2>11 DEF FinishPut
  <2>12. CASE ErrorPut(d) BY <2>12 DEF ErrorPut
  <2> QED
    BY <1>4, <2>1, <2>2, <2>3, <2>4, <2>5, <2>6, <2>7, <2>8, <2>9,
       <2>10, <2>11, <2>12
       DEF DaemonStep
<1>5. ASSUME NEW d \in Daemons, PullRaises(d) PROVE LostResultOnlyIfCancelled'
  BY <1>5 DEF PullRaises
<1>6. ASSUME NEW d \in Daemons, Fault(d) PROVE LostResultOnlyIfCancelled'
  BY <1>6 DEF Fault
<1>7. ASSUME NEW d \in Daemons, Exit(d) \/ Crash(d)
  PROVE LostResultOnlyIfCancelled'
  BY <1>7 DEF Exit, Crash, Restart
<1>8. ASSUME CleanupStep PROVE LostResultOnlyIfCancelled'
  <2>1. CASE StartCleanup BY <2>1 DEF StartCleanup
  <2>2. CASE Query BY <2>2 DEF Query
  <2>3. CASE NextStale BY <2>3 DEF NextStale
  <2>4. CASE CleanupPut BY <2>4 DEF CleanupPut
  <2>5. CASE EndCleanup BY <2>5 DEF EndCleanup
  <2> QED
    BY <1>8, <2>1, <2>2, <2>3, <2>4, <2>5
       DEF CleanupStep
<1>9. CASE UNCHANGED vars BY <1>9 DEF vars
<1> QED
  BY <1>1, <1>2, <1>3, <1>4, <1>5, <1>6, <1>7, <1>8, <1>9 DEF Next

(***************************************************************************)
(* The theorems.                                                           *)
(***************************************************************************)
\* Each part of IndInv is kept by a step that starts with all of them.
LEMMA IndInvStep == IndInv /\ [Next]_vars => IndInv'
<1> SUFFICES ASSUME IndInv, [Next]_vars PROVE IndInv'
  OBVIOUS
<1> USE DEF IndInv
<1>1. TypeOK' BY TypeStep
<1>2. RecordsExist' BY <1>1, RecordsStep
<1>3. OneDelivery' BY DeliveryStep
<1>4. ArchivesBacked' BY ArchiveStep
<1>5. ResultsHeld' BY ResultStep
<1>6. CompletedHasArchive' BY CompletedStep
<1>7. LostResultOnlyIfCancelled' BY LostResultStep
<1> QED BY <1>1, <1>2, <1>3, <1>4, <1>5, <1>6, <1>7

\* IndInv holds in every reachable state, for any numbers of jobs, daemons,
\* crashes, faults, redeliveries and cancellations.
THEOREM Invariance == Spec => []IndInv
BY InitInv, IndInvStep, PTL DEF Spec

\* Every variable keeps its type; in particular no update ever works on a
\* record it failed to pull.
THEOREM TypeCorrect == Spec => []TypeOK
BY Invariance, PTL DEF IndInv

\* Two daemons never work on one job unless a message was redelivered.
THEOREM OneRunnerCorrect == Spec => []OneRunner
<1>1. IndInv => OneRunner
  BY DEF IndInv, OneDelivery, OneRunner
<1> QED BY <1>1, Invariance, PTL

\* The client's call fails with NotFound or KeyError only after an operator
\* cancelled the job, under redelivery, faults and crashes too.
THEOREM LostResultCorrect == Spec => []LostResultOnlyIfCancelled
BY Invariance, PTL DEF IndInv
=============================================================================
