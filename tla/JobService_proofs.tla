------------------------- MODULE JobService_proofs -------------------------
(***************************************************************************)
(* What becomes of a job: proofs that ArchCloudJobs abandons no job, never *)
(* changes a result that a user was given and implements JobService, for   *)
(* any set of jobs and daemons and any bounds.                             *)
(*                                                                         *)
(* JobsInv, an invariant beside IndInv, says what a daemon's hold of a job *)
(* entails for its record and its result.  Most of it is about deliveries  *)
(* without a lost acknowledgement: a job then has at most one holder, for  *)
(* ever.  One lemma shows that a step keeps one part.                      *)
(***************************************************************************)
EXTENDS ArchCloudJobs_proofs

(***************************************************************************)
(* The invariant.                                                          *)
(***************************************************************************)
\* Job j is delivered or still to be, and its result is not stored yet.
Unfinished(j) ==
    \/ j \in queue
    \/ \E d \in Daemons :
        /\ cur[d] = j
        /\ dpc[d] \in {"check", "grab", "grab_put", "run", "recheck",
                       "bundle", "write_result"}

\* One daemon at most has job j in job_id, also after it is done with it, and
\* the message is not in the subscription as well.
OneHolder ==
    /\ \A j \in Jobs : BeforePublish(j) =>
           j \notin queue /\ \A d \in Daemons : cur[d] # j
    /\ spent["ack"] = 0 =>
           \A j \in Jobs, d1 \in Daemons : cur[d1] = j =>
               j \notin queue /\ \A d2 \in Daemons : cur[d2] = j => d1 = d2

\* What the client's place and answer say of the record and the result.
Answered ==
    \A j \in Jobs :
        /\ cpc[j] # "done" => answer[j] = Unset
        /\ answer[j] = "result" => result[j] # Unset
        /\ cpc[j] \in {"new", "write_file", "push"} => store[j] = None
        /\ answer[j] # "killed" /\ cpc[j] = "done" => store[j] # None
        /\ kjob = j => store[j] # None

\* A daemon that has yet to store its result finds none there, and what it
\* stores stays until it records the outcome.
RunOnce ==
    spent["ack"] = 0 =>
        /\ \A j \in Jobs :
               BeforePublish(j) \/ Unfinished(j) => result[j] = Unset
        /\ \A d \in Daemons : dpc[d] \in {"finish", "finish_put"} =>
               result[cur[d]] = dres[d]

\* While a daemon may still work on a job, only a cancellation settles it or
\* makes its client believe so.
OpenCancelled ==
    spent["ack"] = 0 =>
        \A j \in Jobs :
            /\ BeforePublish(j) \/ Open(j)
            /\ Settled(j) \/ cpc[j] \in {"confirm", "confirm_put"}
            => j \in cancelled \/ answer[j] = "timeout"

\* RecordAgreesWithResult, also just before the client publishes.
Agrees ==
    \A j \in Jobs :
        /\ spent["ack"] = 0
        /\ IsStatus(j, Completed)
        /\ j \notin cancelled
        /\ cpc[j] \in {"publish", "appear", "poll", "confirm", "cancel"}
        => store[j].submission_status = result[j]

\* Who will change a record that is not settled: the subscription or a daemon
\* before its first update if it is SUBMITTED, one after it if it is STARTED.
Kept ==
    /\ \A j \in Jobs : cpc[j] # "new" => subscribed
    /\ spent["fault"] = 0 /\ spent["crash"] = 0 =>
        \A j \in Jobs :
            /\ /\ IsStatus(j, Submitted)
               /\ ~BeforePublish(j) /\ answer[j] # "killed"
               => \/ j \in queue
                  \/ \E d \in Daemons :
                      /\ cur[d] = j
                      /\ dpc[d] \in {"check", "grab", "grab_put",
                                     "error", "error_put"}
            /\ IsStatus(j, Started)
               => \E d \in Daemons :
                   /\ cur[d] = j
                   /\ dpc[d] \in {"run", "recheck", "bundle", "write_result",
                                  "finish", "finish_put",
                                  "error", "error_put"}

\* A daemon holds no other outcome than one that run_job reports.
OutcomesOnly == \A d \in Daemons : dres[d] \in Outcomes \cup {Unset}

JobsInv ==
    /\ IndInv
    /\ OneHolder
    /\ Answered
    /\ RunOnce
    /\ OpenCancelled
    /\ Agrees
    /\ Kept
    /\ OutcomesOnly

(***************************************************************************)
(* One lemma for each part of the invariant.                               *)
(***************************************************************************)
\* The last update of the daemon records the outcome of the run.
LEMMA FinishedOutcome ==
    ASSUME NEW r \in Record, NEW how \in RunStatus
    PROVE  MarkFinished(r, how).submission_status = how
BY DEF MarkFinished, Record

\* Every step keeps OneHolder: job_id only changes in a pull, which takes the
\* message out of the subscription unless the acknowledgement is lost.
LEMMA HolderStep ==
    ASSUME TypeOK, OneDelivery, OneHolder, [Next]_vars
    PROVE  OneHolder'
<1> USE ConstantsAssumption
    DEF TypeOK, Put, Go, Finish, Trouble, TroubleKinds,
        blobs, topicVars, clientVars, daemonVars, cleanupVars,
        OneHolder, BeforePublish, Open, Runs, OneDelivery
<1>1. ASSUME NEW j \in Jobs, ClientStep(j) PROVE OneHolder'
  <2>1. CASE Subscribe(j) BY <2>1 DEF Subscribe
  <2>2. CASE WriteSubmission(j) BY <2>2 DEF WriteSubmission
  <2>3. CASE Push(j) BY <2>3 DEF Push
  <2>4. CASE Publish(j) BY <2>4 DEF Publish
  <2>5. CASE Appear(j) BY <2>5 DEF Appear
  <2>6. CASE PollTimeout(j) BY <2>6 DEF PollTimeout
  <2>7. CASE PollCompleted(j) BY <2>7 DEF PollCompleted
  <2>8. CASE PollError(j) BY <2>8 DEF PollError
  <2>9. CASE ClientUpdatePull(j) BY <2>9 DEF ClientUpdatePull
  <2>10. CASE CancelPut(j) BY <2>10 DEF CancelPut
  <2>11. CASE ConfirmPut(j) BY <2>11 DEF ConfirmPut
  <2>12. CASE Fetch(j) BY <2>12 DEF Fetch
  <2> QED
    BY <1>1, <2>1, <2>2, <2>3, <2>4, <2>5, <2>6, <2>7, <2>8, <2>9, <2>10,
       <2>11, <2>12
      DEF ClientStep
<1>2. ASSUME NEW j \in Jobs, KillClient(j) PROVE OneHolder'
  BY <1>2 DEF KillClient
<1>3. ASSUME NEW j \in Jobs, Tick(j) PROVE OneHolder'
  BY <1>3 DEF Tick
<1>4. ASSUME NEW d \in Daemons, DaemonStep(d) PROVE OneHolder'
  <2>1. CASE Boot(d) BY <2>1 DEF Boot
  <2>2. CASE Pull(d) BY <2>2 DEF Pull
  <2>3. CASE PullNothing(d) BY <2>3 DEF PullNothing
  <2>4. CASE Check(d) BY <2>4 DEF Check
  <2>5. CASE DaemonUpdatePull(d) BY <2>5 DEF DaemonUpdatePull
  <2>6. CASE GrabPut(d) BY <2>6 DEF GrabPut
  <2>7. CASE RunJob(d) BY <2>7 DEF RunJob
  <2>8. CASE Recheck(d) BY <2>8 DEF Recheck
  <2>9. CASE Bundle(d) BY <2>9 DEF Bundle
  <2>10. CASE WriteResult(d) BY <2>10 DEF WriteResult
  <2>11. CASE FinishPut(d) BY <2>11 DEF FinishPut
  <2>12. CASE ErrorPut(d) BY <2>12 DEF ErrorPut
  <2> QED
    BY <1>4, <2>1, <2>2, <2>3, <2>4, <2>5, <2>6, <2>7, <2>8, <2>9, <2>10,
       <2>11, <2>12
      DEF DaemonStep
<1>5. ASSUME NEW d \in Daemons, PullRaises(d) PROVE OneHolder'
  BY <1>5 DEF PullRaises
<1>6. ASSUME NEW d \in Daemons, Fault(d) PROVE OneHolder'
  BY <1>6 DEF Fault
<1>7. ASSUME NEW d \in Daemons, Exit(d) \/ Crash(d) PROVE OneHolder'
  BY <1>7 DEF Exit, Crash, Restart
<1>8. ASSUME CleanupStep PROVE OneHolder'
  <2>1. CASE StartCleanup BY <2>1 DEF StartCleanup
  <2>2. CASE Query BY <2>2 DEF Query
  <2>3. CASE NextStale BY <2>3 DEF NextStale
  <2>4. CASE CleanupPut BY <2>4 DEF CleanupPut
  <2>5. CASE EndCleanup BY <2>5 DEF EndCleanup
  <2> QED
    BY <1>8, <2>1, <2>2, <2>3, <2>4, <2>5
      DEF CleanupStep
<1>9. CASE UNCHANGED vars BY <1>9 DEF vars
<1> QED
  BY <1>1, <1>2, <1>3, <1>4, <1>5, <1>6, <1>7, <1>8, <1>9 DEF Next

\* Every step keeps Answered: an answer is the client's last step.
LEMMA AnsweredStep ==
    ASSUME TypeOK, RecordsExist, ResultsHeld, Answered, TypeOK', [Next]_vars
    PROVE  Answered'
<1> USE ConstantsAssumption
    DEF TypeOK, Put, Go, Finish, Trouble, TroubleKinds,
        blobs, topicVars, clientVars, daemonVars, cleanupVars,
        Answered, Unset
<1>1. ASSUME NEW j \in Jobs, ClientStep(j) PROVE Answered'
  <2>1. CASE Subscribe(j) BY <2>1 DEF Subscribe
  <2>2. CASE WriteSubmission(j) BY <2>2 DEF WriteSubmission
  <2>3. CASE Push(j)
    BY <2>3, NewRecordFacts DEF Push
  <2>4. CASE Publish(j) BY <2>4 DEF Publish
  <2>5. CASE Appear(j) BY <2>5 DEF Appear
  <2>6. CASE PollTimeout(j) BY <2>6 DEF PollTimeout
  <2>7. CASE PollCompleted(j) BY <2>7 DEF PollCompleted
  <2>8. CASE PollError(j)
    BY <2>8 DEF PollError, RecordsExist
  <2>9. CASE ClientUpdatePull(j) BY <2>9 DEF ClientUpdatePull
  <2>10. CASE CancelPut(j)
    <3>1. cbuf[j] \in Record
       /\ store' = [store EXCEPT ![j] = MarkSettled(cbuf[j], "timeout")]
      BY <2>10 DEF RecordsExist, CancelPut
    <3>2. /\ MarkSettled(cbuf[j], "timeout") # None
          /\ MarkSettled(cbuf[j], "timeout").status = Completed
      BY <3>1, SettledFacts DEF RunStatus
    <3> QED BY <2>10, <3>1, <3>2 DEF CancelPut
  <2>11. CASE ConfirmPut(j)
    <3>1. cbuf[j] \in Record
       /\ store' = [store EXCEPT ![j] = MarkSettled(cbuf[j], "success")]
      BY <2>11 DEF RecordsExist, ConfirmPut
    <3>2. /\ MarkSettled(cbuf[j], "success") # None
          /\ MarkSettled(cbuf[j], "success").status = Completed
      BY <3>1, SettledFacts DEF RunStatus
    <3> QED BY <2>11, <3>1, <3>2 DEF ConfirmPut
  <2>12. CASE Fetch(j)
    BY <2>12 DEF Fetch, RecordsExist
  <2> QED
    BY <1>1, <2>1, <2>2, <2>3, <2>4, <2>5, <2>6, <2>7, <2>8, <2>9, <2>10,
       <2>11, <2>12
      DEF ClientStep
<1>2. ASSUME NEW j \in Jobs, KillClient(j) PROVE Answered'
  BY <1>2 DEF KillClient
<1>3. ASSUME NEW j \in Jobs, Tick(j) PROVE Answered'
  BY <1>3 DEF Tick
<1>4. ASSUME NEW d \in Daemons, DaemonStep(d) PROVE Answered'
  <2>1. CASE Boot(d) BY <2>1 DEF Boot
  <2>2. CASE Pull(d) BY <2>2 DEF Pull
  <2>3. CASE PullNothing(d) BY <2>3 DEF PullNothing
  <2>4. CASE Check(d) BY <2>4 DEF Check
  <2>5. CASE DaemonUpdatePull(d) BY <2>5 DEF DaemonUpdatePull
  <2>6. CASE GrabPut(d)
    <3>1. dbuf[d] \in Record /\ cur[d] \in Jobs /\ store[cur[d]] # None
      BY <2>6 DEF RecordsExist, GrabPut
    <3>2. /\ MarkStarted(dbuf[d], d) # None
          /\ MarkStarted(dbuf[d], d).status = Started
      BY <3>1, StartedFacts
    <3> QED BY <2>6, <3>1, <3>2 DEF GrabPut
  <2>7. CASE RunJob(d) BY <2>7 DEF RunJob
  <2>8. CASE Recheck(d) BY <2>8 DEF Recheck
  <2>9. CASE Bundle(d) BY <2>9 DEF Bundle
  <2>10. CASE WriteResult(d)
    BY <2>10 DEF WriteResult, ResultsHeld, RecordsExist
  <2>11. CASE FinishPut(d)
    <3>1. dbuf[d] \in Record /\ cur[d] \in Jobs /\ dres[d] \in RunStatus
       /\ store[cur[d]] # None
      BY <2>11 DEF RecordsExist, ResultsHeld, FinishPut
    <3>2. /\ MarkFinished(dbuf[d], dres[d]) # None
          /\ MarkFinished(dbuf[d], dres[d]).status = Completed
      BY <3>1, FinishedFacts
    <3> QED BY <2>11, <3>1, <3>2 DEF FinishPut
  <2>12. CASE ErrorPut(d)
    <3>1. dbuf[d] \in Record /\ cur[d] \in Jobs /\ store[cur[d]] # None
      BY <2>12 DEF RecordsExist, ErrorPut
    <3>2. /\ MarkError(dbuf[d]) # None
          /\ MarkError(dbuf[d]).status = Error
      BY <3>1, ErrorFacts
    <3> QED BY <2>12, <3>1, <3>2 DEF ErrorPut
  <2> QED
    BY <1>4, <2>1, <2>2, <2>3, <2>4, <2>5, <2>6, <2>7, <2>8, <2>9, <2>10,
       <2>11, <2>12
      DEF DaemonStep
<1>5. ASSUME NEW d \in Daemons, PullRaises(d) PROVE Answered'
  BY <1>5 DEF PullRaises
<1>6. ASSUME NEW d \in Daemons, Fault(d) PROVE Answered'
  BY <1>6 DEF Fault
<1>7. ASSUME NEW d \in Daemons, Exit(d) \/ Crash(d) PROVE Answered'
  BY <1>7 DEF Exit, Crash, Restart
<1>8. ASSUME CleanupStep PROVE Answered'
  <2>1. CASE StartCleanup BY <2>1 DEF StartCleanup
  <2>2. CASE Query BY <2>2 DEF Query
  <2>3. CASE NextStale
    BY <2>3 DEF NextStale, RecordsExist
  <2>4. CASE CleanupPut
    <3>1. kbuf \in Record /\ kjob \in Jobs
      BY <2>4 DEF RecordsExist, CleanupPut
    <3>2. /\ MarkSettled(kbuf, "timeout") # None
          /\ MarkSettled(kbuf, "timeout").status = Completed
      BY <3>1, SettledFacts DEF RunStatus
    <3> QED BY <2>4, <3>1, <3>2 DEF CleanupPut
  <2>5. CASE EndCleanup BY <2>5 DEF EndCleanup
  <2> QED
    BY <1>8, <2>1, <2>2, <2>3, <2>4, <2>5
      DEF CleanupStep
<1>9. CASE UNCHANGED vars BY <1>9 DEF vars
<1> QED
  BY <1>1, <1>2, <1>3, <1>4, <1>5, <1>6, <1>7, <1>8, <1>9 DEF Next

\* Every step keeps RunOnce: a result has one writer, which writes once.
LEMMA RunOnceStep ==
    ASSUME TypeOK, RecordsExist, ResultsHeld, OneHolder, RunOnce, [Next]_vars
    PROVE  RunOnce'
<1> USE ConstantsAssumption
    DEF TypeOK, Put, Go, Finish, Trouble, TroubleKinds,
        blobs, topicVars, clientVars, daemonVars, cleanupVars,
        RunOnce, OneHolder, Unfinished, BeforePublish, RecordsExist
<1>1. ASSUME NEW j \in Jobs, ClientStep(j) PROVE RunOnce'
  <2>1. CASE Subscribe(j) BY <2>1 DEF Subscribe
  <2>2. CASE WriteSubmission(j) BY <2>2 DEF WriteSubmission
  <2>3. CASE Push(j) BY <2>3 DEF Push
  <2>4. CASE Publish(j) BY <2>4 DEF Publish
  <2>5. CASE Appear(j) BY <2>5 DEF Appear
  <2>6. CASE PollTimeout(j) BY <2>6 DEF PollTimeout
  <2>7. CASE PollCompleted(j) BY <2>7 DEF PollCompleted
  <2>8. CASE PollError(j) BY <2>8 DEF PollError
  <2>9. CASE ClientUpdatePull(j) BY <2>9 DEF ClientUpdatePull
  <2>10. CASE CancelPut(j) BY <2>10 DEF CancelPut
  <2>11. CASE ConfirmPut(j) BY <2>11 DEF ConfirmPut
  <2>12. CASE Fetch(j) BY <2>12 DEF Fetch
  <2> QED
    BY <1>1, <2>1, <2>2, <2>3, <2>4, <2>5, <2>6, <2>7, <2>8, <2>9, <2>10,
       <2>11, <2>12
      DEF ClientStep
<1>2. ASSUME NEW j \in Jobs, KillClient(j) PROVE RunOnce'
  BY <1>2 DEF KillClient
<1>3. ASSUME NEW j \in Jobs, Tick(j) PROVE RunOnce'
  BY <1>3 DEF Tick
<1>4. ASSUME NEW d \in Daemons, DaemonStep(d) PROVE RunOnce'
  <2>1. CASE Boot(d) BY <2>1 DEF Boot
  <2>2. CASE Pull(d) BY <2>2 DEF Pull
  <2>3. CASE PullNothing(d) BY <2>3 DEF PullNothing
  <2>4. CASE Check(d) BY <2>4 DEF Check
  <2>5. CASE DaemonUpdatePull(d) BY <2>5 DEF DaemonUpdatePull
  <2>6. CASE GrabPut(d) BY <2>6 DEF GrabPut
  <2>7. CASE RunJob(d) BY <2>7 DEF RunJob
  <2>8. CASE Recheck(d) BY <2>8 DEF Recheck
  <2>9. CASE Bundle(d) BY <2>9 DEF Bundle
  <2>10. CASE WriteResult(d) BY <2>10 DEF WriteResult
  <2>11. CASE FinishPut(d) BY <2>11 DEF FinishPut
  <2>12. CASE ErrorPut(d) BY <2>12 DEF ErrorPut
  <2> QED
    BY <1>4, <2>1, <2>2, <2>3, <2>4, <2>5, <2>6, <2>7, <2>8, <2>9, <2>10,
       <2>11, <2>12
      DEF DaemonStep
<1>5. ASSUME NEW d \in Daemons, PullRaises(d) PROVE RunOnce'
  BY <1>5 DEF PullRaises
<1>6. ASSUME NEW d \in Daemons, Fault(d) PROVE RunOnce'
  BY <1>6 DEF Fault
<1>7. ASSUME NEW d \in Daemons, Exit(d) \/ Crash(d) PROVE RunOnce'
  BY <1>7 DEF Exit, Crash, Restart
<1>8. ASSUME CleanupStep PROVE RunOnce'
  <2>1. CASE StartCleanup BY <2>1 DEF StartCleanup
  <2>2. CASE Query BY <2>2 DEF Query
  <2>3. CASE NextStale BY <2>3 DEF NextStale
  <2>4. CASE CleanupPut BY <2>4 DEF CleanupPut
  <2>5. CASE EndCleanup BY <2>5 DEF EndCleanup
  <2> QED
    BY <1>8, <2>1, <2>2, <2>3, <2>4, <2>5
      DEF CleanupStep
<1>9. CASE UNCHANGED vars BY <1>9 DEF vars
<1> QED
  BY <1>1, <1>2, <1>3, <1>4, <1>5, <1>6, <1>7, <1>8, <1>9 DEF Next

\* Every step keeps OpenCancelled: a daemon that settles a record is done with
\* the job, and nobody else has it.
LEMMA OpenStep ==
    ASSUME TypeOK, RecordsExist, ResultsHeld, OneHolder, Answered,
       OpenCancelled, [Next]_vars
    PROVE  OpenCancelled'
<1> USE ConstantsAssumption
    DEF TypeOK, Put, Go, Finish, Trouble, TroubleKinds,
        blobs, topicVars, clientVars, daemonVars, cleanupVars,
        OpenCancelled, OneHolder, Answered, Open, Runs, BeforePublish,
        Settled, IsStatus, Unset
<1>1. ASSUME NEW j \in Jobs, ClientStep(j) PROVE OpenCancelled'
  <2>1. CASE Subscribe(j) BY <2>1 DEF Subscribe
  <2>2. CASE WriteSubmission(j) BY <2>2 DEF WriteSubmission
  <2>3. CASE Push(j)
    <3>1. store' = [store EXCEPT ![j] = NewRecord] BY <2>3 DEF Push
    <3>2. NewRecord.status \notin {Completed, Error}
      BY NewRecordFacts DEF Submitted, Completed, Error
    <3> QED BY <2>3, <3>1, <3>2 DEF Push
  <2>4. CASE Publish(j) BY <2>4 DEF Publish
  <2>5. CASE Appear(j) BY <2>5 DEF Appear
  <2>6. CASE PollTimeout(j) BY <2>6 DEF PollTimeout
  <2>7. CASE PollCompleted(j) BY <2>7 DEF PollCompleted
  <2>8. CASE PollError(j) BY <2>8 DEF PollError
  <2>9. CASE ClientUpdatePull(j) BY <2>9 DEF ClientUpdatePull
  <2>10. CASE CancelPut(j) BY <2>10 DEF CancelPut
  <2>11. CASE ConfirmPut(j) BY <2>11 DEF ConfirmPut
  <2>12. CASE Fetch(j) BY <2>12 DEF Fetch
  <2> QED
    BY <1>1, <2>1, <2>2, <2>3, <2>4, <2>5, <2>6, <2>7, <2>8, <2>9, <2>10,
       <2>11, <2>12
      DEF ClientStep
<1>2. ASSUME NEW j \in Jobs, KillClient(j) PROVE OpenCancelled'
  BY <1>2 DEF KillClient
<1>3. ASSUME NEW j \in Jobs, Tick(j) PROVE OpenCancelled'
  BY <1>3 DEF Tick
<1>4. ASSUME NEW d \in Daemons, DaemonStep(d) PROVE OpenCancelled'
  <2>1. CASE Boot(d) BY <2>1 DEF Boot
  <2>2. CASE Pull(d) BY <2>2 DEF Pull
  <2>3. CASE PullNothing(d) BY <2>3 DEF PullNothing
  <2>4. CASE Check(d) BY <2>4 DEF Check
  <2>5. CASE DaemonUpdatePull(d) BY <2>5 DEF DaemonUpdatePull
  <2>6. CASE GrabPut(d)
    <3>1. dbuf[d] \in Record /\ cur[d] \in Jobs /\ store[cur[d]] # None
      BY <2>6 DEF RecordsExist, GrabPut
    <3>2. /\ MarkStarted(dbuf[d], d) # None
          /\ MarkStarted(dbuf[d], d).status = Started
      BY <3>1, StartedFacts
    <3>3. Started \notin {Completed, Error}
      BY DEF Started, Completed, Error
    <3> QED BY <2>6, <3>1, <3>2, <3>3 DEF GrabPut
  <2>7. CASE RunJob(d) BY <2>7 DEF RunJob
  <2>8. CASE Recheck(d) BY <2>8 DEF Recheck
  <2>9. CASE Bundle(d) BY <2>9 DEF Bundle
  <2>10. CASE WriteResult(d) BY <2>10 DEF WriteResult
  <2>11. CASE FinishPut(d) BY <2>11 DEF FinishPut
  <2>12. CASE ErrorPut(d) BY <2>12 DEF ErrorPut
  <2> QED
    BY <1>4, <2>1, <2>2, <2>3, <2>4, <2>5, <2>6, <2>7, <2>8, <2>9, <2>10,
       <2>11, <2>12
      DEF DaemonStep
<1>5. ASSUME NEW d \in Daemons, PullRaises(d) PROVE OpenCancelled'
  BY <1>5 DEF PullRaises
<1>6. ASSUME NEW d \in Daemons, Fault(d) PROVE OpenCancelled'
  BY <1>6 DEF Fault
<1>7. ASSUME NEW d \in Daemons, Exit(d) \/ Crash(d) PROVE OpenCancelled'
  BY <1>7 DEF Exit, Crash, Restart
<1>8. ASSUME CleanupStep PROVE OpenCancelled'
  <2>1. CASE StartCleanup BY <2>1 DEF StartCleanup
  <2>2. CASE Query BY <2>2 DEF Query
  <2>3. CASE NextStale BY <2>3 DEF NextStale
  <2>4. CASE CleanupPut BY <2>4 DEF CleanupPut
  <2>5. CASE EndCleanup BY <2>5 DEF EndCleanup
  <2> QED
    BY <1>8, <2>1, <2>2, <2>3, <2>4, <2>5
      DEF CleanupStep
<1>9. CASE UNCHANGED vars BY <1>9 DEF vars
<1> QED
  BY <1>1, <1>2, <1>3, <1>4, <1>5, <1>6, <1>7, <1>8, <1>9 DEF Next

\* Every step keeps Agrees: nobody stores a result under a COMPLETED record,
\* and FinishPut records the outcome that WriteResult stored.
LEMMA AgreesStep ==
    ASSUME TypeOK, RecordsExist, ResultsHeld, OneHolder, RunOnce,
           OpenCancelled, Agrees, Answered, [Next]_vars
    PROVE  Agrees'
<1> USE ConstantsAssumption
    DEF TypeOK, Put, Go, Finish, Trouble, TroubleKinds,
        blobs, topicVars, clientVars, daemonVars, cleanupVars,
        Agrees, IsStatus, Submitted, Started, Completed, Error
<1>1. ASSUME NEW j \in Jobs, ClientStep(j) PROVE Agrees'
  <2>1. CASE Subscribe(j) BY <2>1 DEF Subscribe
  <2>2. CASE WriteSubmission(j) BY <2>2 DEF WriteSubmission
  <2>3. CASE Push(j)
    BY <2>3, NewRecordFacts DEF Push
  <2>4. CASE Publish(j) BY <2>4 DEF Publish
  <2>5. CASE Appear(j) BY <2>5 DEF Appear
  <2>6. CASE PollTimeout(j) BY <2>6 DEF PollTimeout
  <2>7. CASE PollCompleted(j) BY <2>7 DEF PollCompleted
  <2>8. CASE PollError(j) BY <2>8 DEF PollError
  <2>9. CASE ClientUpdatePull(j) BY <2>9 DEF ClientUpdatePull
  <2>10. CASE CancelPut(j) BY <2>10 DEF CancelPut
  <2>11. CASE ConfirmPut(j) BY <2>11 DEF ConfirmPut
  <2>12. CASE Fetch(j) BY <2>12 DEF Fetch
  <2> QED
    BY <1>1, <2>1, <2>2, <2>3, <2>4, <2>5, <2>6, <2>7, <2>8, <2>9, <2>10,
       <2>11, <2>12
      DEF ClientStep
<1>2. ASSUME NEW j \in Jobs, KillClient(j) PROVE Agrees'
  BY <1>2 DEF KillClient
<1>3. ASSUME NEW j \in Jobs, Tick(j) PROVE Agrees'
  BY <1>3 DEF Tick
<1>4. ASSUME NEW d \in Daemons, DaemonStep(d) PROVE Agrees'
  <2>1. CASE Boot(d) BY <2>1 DEF Boot
  <2>2. CASE Pull(d) BY <2>2 DEF Pull
  <2>3. CASE PullNothing(d) BY <2>3 DEF PullNothing
  <2>4. CASE Check(d) BY <2>4 DEF Check
  <2>5. CASE DaemonUpdatePull(d) BY <2>5 DEF DaemonUpdatePull
  <2>6. CASE GrabPut(d)
    <3>1. dbuf[d] \in Record /\ cur[d] \in Jobs /\ store[cur[d]] # None
      BY <2>6 DEF RecordsExist, GrabPut
    <3>2. /\ MarkStarted(dbuf[d], d) # None
          /\ MarkStarted(dbuf[d], d).status = Started
      BY <3>1, StartedFacts
    <3> QED BY <2>6, <3>1, <3>2 DEF GrabPut
  <2>7. CASE RunJob(d) BY <2>7 DEF RunJob
  <2>8. CASE Recheck(d) BY <2>8 DEF Recheck
  <2>9. CASE Bundle(d) BY <2>9 DEF Bundle
  <2>10. CASE WriteResult(d)
    <3>1. cur[d] \in Jobs BY <2>10 DEF WriteResult, RecordsExist
    <3>2. /\ spent["ack"] = 0 /\ IsStatus(cur[d], Completed)
          /\ cur[d] \notin cancelled
          => cpc[cur[d]] = "done"
      BY <2>10, <3>1
         DEF WriteResult, OpenCancelled, Open, Runs, Settled, Answered, Unset
    <3> QED BY <2>10, <3>1, <3>2 DEF WriteResult
  <2>11. CASE FinishPut(d)
    <3>1. dbuf[d] \in Record /\ cur[d] \in Jobs /\ dres[d] \in RunStatus
       /\ store[cur[d]] # None
      BY <2>11 DEF RecordsExist, ResultsHeld, FinishPut
    <3>2. /\ MarkFinished(dbuf[d], dres[d]) # None
          /\ MarkFinished(dbuf[d], dres[d]).status = Completed
      BY <3>1, FinishedFacts
    <3>3. MarkFinished(dbuf[d], dres[d]).submission_status = dres[d]
      BY <3>1, FinishedOutcome
    <3>4. spent["ack"] = 0 => result[cur[d]] = dres[d]
      BY <2>11 DEF FinishPut, RunOnce
    <3> QED BY <2>11, <3>1, <3>2, <3>3, <3>4 DEF FinishPut
  <2>12. CASE ErrorPut(d)
    <3>1. dbuf[d] \in Record /\ cur[d] \in Jobs /\ store[cur[d]] # None
      BY <2>12 DEF RecordsExist, ErrorPut
    <3>2. /\ MarkError(dbuf[d]) # None
          /\ MarkError(dbuf[d]).status = Error
      BY <3>1, ErrorFacts
    <3> QED BY <2>12, <3>1, <3>2 DEF ErrorPut
  <2> QED
    BY <1>4, <2>1, <2>2, <2>3, <2>4, <2>5, <2>6, <2>7, <2>8, <2>9, <2>10,
       <2>11, <2>12
      DEF DaemonStep
<1>5. ASSUME NEW d \in Daemons, PullRaises(d) PROVE Agrees'
  BY <1>5 DEF PullRaises
<1>6. ASSUME NEW d \in Daemons, Fault(d) PROVE Agrees'
  BY <1>6 DEF Fault
<1>7. ASSUME NEW d \in Daemons, Exit(d) \/ Crash(d) PROVE Agrees'
  BY <1>7 DEF Exit, Crash, Restart
<1>8. ASSUME CleanupStep PROVE Agrees'
  <2>1. CASE StartCleanup BY <2>1 DEF StartCleanup
  <2>2. CASE Query BY <2>2 DEF Query
  <2>3. CASE NextStale BY <2>3 DEF NextStale
  <2>4. CASE CleanupPut BY <2>4 DEF CleanupPut
  <2>5. CASE EndCleanup BY <2>5 DEF EndCleanup
  <2> QED
    BY <1>8, <2>1, <2>2, <2>3, <2>4, <2>5
      DEF CleanupStep
<1>9. CASE UNCHANGED vars BY <1>9 DEF vars
<1> QED
  BY <1>1, <1>2, <1>3, <1>4, <1>5, <1>6, <1>7, <1>8, <1>9 DEF Next

\* Every step keeps Kept: a daemon leaves a job only when its record is not
\* what the daemon's next update needs, which somebody else has changed then.
LEMMA KeptStep ==
    ASSUME TypeOK, RecordsExist, ResultsHeld, OneHolder, Answered, Kept,
       [Next]_vars
    PROVE  Kept'
<1> USE ConstantsAssumption
    DEF TypeOK, Put, Go, Finish, Trouble, TroubleKinds,
        blobs, topicVars, clientVars, daemonVars, cleanupVars,
        Kept, BeforePublish, IsStatus, Submitted, Started, Completed, Error
<1>1. ASSUME NEW j \in Jobs, ClientStep(j) PROVE Kept'
  <2>1. CASE Subscribe(j) BY <2>1 DEF Subscribe
  <2>2. CASE WriteSubmission(j) BY <2>2 DEF WriteSubmission
  <2>3. CASE Push(j)
    BY <2>3, NewRecordFacts DEF Push
  <2>4. CASE Publish(j) BY <2>4 DEF Publish
  <2>5. CASE Appear(j) BY <2>5 DEF Appear
  <2>6. CASE PollTimeout(j) BY <2>6 DEF PollTimeout
  <2>7. CASE PollCompleted(j) BY <2>7 DEF PollCompleted
  <2>8. CASE PollError(j) BY <2>8 DEF PollError
  <2>9. CASE ClientUpdatePull(j) BY <2>9 DEF ClientUpdatePull
  <2>10. CASE CancelPut(j)
    <3>1. cbuf[j] \in Record
       /\ store' = [store EXCEPT ![j] = MarkSettled(cbuf[j], "timeout")]
      BY <2>10 DEF RecordsExist, CancelPut
    <3>2. /\ MarkSettled(cbuf[j], "timeout") # None
          /\ MarkSettled(cbuf[j], "timeout").status = Completed
      BY <3>1, SettledFacts DEF RunStatus
    <3> QED BY <2>10, <3>1, <3>2 DEF CancelPut
  <2>11. CASE ConfirmPut(j)
    <3>1. cbuf[j] \in Record
       /\ store' = [store EXCEPT ![j] = MarkSettled(cbuf[j], "success")]
      BY <2>11 DEF RecordsExist, ConfirmPut
    <3>2. /\ MarkSettled(cbuf[j], "success") # None
          /\ MarkSettled(cbuf[j], "success").status = Completed
      BY <3>1, SettledFacts DEF RunStatus
    <3> QED BY <2>11, <3>1, <3>2 DEF ConfirmPut
  <2>12. CASE Fetch(j)
    BY <2>12 DEF Fetch, Answered, Unset
  <2> QED
    BY <1>1, <2>1, <2>2, <2>3, <2>4, <2>5, <2>6, <2>7, <2>8, <2>9, <2>10,
       <2>11, <2>12
      DEF ClientStep
<1>2. ASSUME NEW j \in Jobs, KillClient(j) PROVE Kept'
  BY <1>2 DEF KillClient
<1>3. ASSUME NEW j \in Jobs, Tick(j) PROVE Kept'
  BY <1>3 DEF Tick
<1>4. ASSUME NEW d \in Daemons, DaemonStep(d) PROVE Kept'
  <2>1. CASE Boot(d) BY <2>1 DEF Boot
  <2>2. CASE Pull(d) BY <2>2 DEF Pull
  <2>3. CASE PullNothing(d) BY <2>3 DEF PullNothing
  <2>4. CASE Check(d) BY <2>4 DEF Check
  <2>5. CASE DaemonUpdatePull(d) BY <2>5 DEF DaemonUpdatePull
  <2>6. CASE GrabPut(d)
    <3>1. dbuf[d] \in Record /\ cur[d] \in Jobs /\ store[cur[d]] # None
      BY <2>6 DEF RecordsExist, GrabPut
    <3>2. /\ MarkStarted(dbuf[d], d) # None
          /\ MarkStarted(dbuf[d], d).status = Started
      BY <3>1, StartedFacts
    <3> QED BY <2>6, <3>1, <3>2 DEF GrabPut
  <2>7. CASE RunJob(d) BY <2>7 DEF RunJob
  <2>8. CASE Recheck(d) BY <2>8 DEF Recheck
  <2>9. CASE Bundle(d) BY <2>9 DEF Bundle
  <2>10. CASE WriteResult(d) BY <2>10 DEF WriteResult
  <2>11. CASE FinishPut(d)
    <3>1. dbuf[d] \in Record /\ cur[d] \in Jobs /\ dres[d] \in RunStatus
       /\ store[cur[d]] # None
      BY <2>11 DEF RecordsExist, ResultsHeld, FinishPut
    <3>2. /\ MarkFinished(dbuf[d], dres[d]) # None
          /\ MarkFinished(dbuf[d], dres[d]).status = Completed
      BY <3>1, FinishedFacts
    <3> QED BY <2>11, <3>1, <3>2 DEF FinishPut
  <2>12. CASE ErrorPut(d)
    <3>1. dbuf[d] \in Record /\ cur[d] \in Jobs /\ store[cur[d]] # None
      BY <2>12 DEF RecordsExist, ErrorPut
    <3>2. /\ MarkError(dbuf[d]) # None
          /\ MarkError(dbuf[d]).status = Error
      BY <3>1, ErrorFacts
    <3> QED BY <2>12, <3>1, <3>2 DEF ErrorPut
  <2> QED
    BY <1>4, <2>1, <2>2, <2>3, <2>4, <2>5, <2>6, <2>7, <2>8, <2>9, <2>10,
       <2>11, <2>12
      DEF DaemonStep
<1>5. ASSUME NEW d \in Daemons, PullRaises(d) PROVE Kept'
  BY <1>5 DEF PullRaises
<1>6. ASSUME NEW d \in Daemons, Fault(d) PROVE Kept'
  BY <1>6 DEF Fault
<1>7. ASSUME NEW d \in Daemons, Exit(d) \/ Crash(d) PROVE Kept'
  BY <1>7 DEF Exit, Crash, Restart
<1>8. ASSUME CleanupStep PROVE Kept'
  <2>1. CASE StartCleanup BY <2>1 DEF StartCleanup
  <2>2. CASE Query BY <2>2 DEF Query
  <2>3. CASE NextStale BY <2>3 DEF NextStale
  <2>4. CASE CleanupPut
    <3>1. kbuf \in Record /\ kjob \in Jobs
      BY <2>4 DEF RecordsExist, CleanupPut
    <3>2. /\ MarkSettled(kbuf, "timeout") # None
          /\ MarkSettled(kbuf, "timeout").status = Completed
      BY <3>1, SettledFacts DEF RunStatus
    <3> QED BY <2>4, <3>1, <3>2 DEF CleanupPut
  <2>5. CASE EndCleanup BY <2>5 DEF EndCleanup
  <2> QED
    BY <1>8, <2>1, <2>2, <2>3, <2>4, <2>5
      DEF CleanupStep
<1>9. CASE UNCHANGED vars BY <1>9 DEF vars
<1> QED
  BY <1>1, <1>2, <1>3, <1>4, <1>5, <1>6, <1>7, <1>8, <1>9 DEF Next

\* Every step keeps OutcomesOnly.
LEMMA OutcomesStep ==
    ASSUME TypeOK, OutcomesOnly, [Next]_vars
    PROVE  OutcomesOnly'
<1> USE ConstantsAssumption
    DEF TypeOK, Put, Go, Finish, Trouble, TroubleKinds,
        blobs, topicVars, clientVars, daemonVars, cleanupVars,
        OutcomesOnly
<1>1. ASSUME NEW j \in Jobs, ClientStep(j) PROVE OutcomesOnly'
  <2>1. CASE Subscribe(j) BY <2>1 DEF Subscribe
  <2>2. CASE WriteSubmission(j) BY <2>2 DEF WriteSubmission
  <2>3. CASE Push(j) BY <2>3 DEF Push
  <2>4. CASE Publish(j) BY <2>4 DEF Publish
  <2>5. CASE Appear(j) BY <2>5 DEF Appear
  <2>6. CASE PollTimeout(j) BY <2>6 DEF PollTimeout
  <2>7. CASE PollCompleted(j) BY <2>7 DEF PollCompleted
  <2>8. CASE PollError(j) BY <2>8 DEF PollError
  <2>9. CASE ClientUpdatePull(j) BY <2>9 DEF ClientUpdatePull
  <2>10. CASE CancelPut(j) BY <2>10 DEF CancelPut
  <2>11. CASE ConfirmPut(j) BY <2>11 DEF ConfirmPut
  <2>12. CASE Fetch(j) BY <2>12 DEF Fetch
  <2> QED
    BY <1>1, <2>1, <2>2, <2>3, <2>4, <2>5, <2>6, <2>7, <2>8, <2>9, <2>10,
       <2>11, <2>12
      DEF ClientStep
<1>2. ASSUME NEW j \in Jobs, KillClient(j) PROVE OutcomesOnly'
  BY <1>2 DEF KillClient
<1>3. ASSUME NEW j \in Jobs, Tick(j) PROVE OutcomesOnly'
  BY <1>3 DEF Tick
<1>4. ASSUME NEW d \in Daemons, DaemonStep(d) PROVE OutcomesOnly'
  <2>1. CASE Boot(d) BY <2>1 DEF Boot
  <2>2. CASE Pull(d) BY <2>2 DEF Pull
  <2>3. CASE PullNothing(d) BY <2>3 DEF PullNothing
  <2>4. CASE Check(d) BY <2>4 DEF Check
  <2>5. CASE DaemonUpdatePull(d) BY <2>5 DEF DaemonUpdatePull
  <2>6. CASE GrabPut(d) BY <2>6 DEF GrabPut
  <2>7. CASE RunJob(d) BY <2>7 DEF RunJob
  <2>8. CASE Recheck(d) BY <2>8 DEF Recheck
  <2>9. CASE Bundle(d) BY <2>9 DEF Bundle
  <2>10. CASE WriteResult(d) BY <2>10 DEF WriteResult
  <2>11. CASE FinishPut(d) BY <2>11 DEF FinishPut
  <2>12. CASE ErrorPut(d) BY <2>12 DEF ErrorPut
  <2> QED
    BY <1>4, <2>1, <2>2, <2>3, <2>4, <2>5, <2>6, <2>7, <2>8, <2>9, <2>10,
       <2>11, <2>12
      DEF DaemonStep
<1>5. ASSUME NEW d \in Daemons, PullRaises(d) PROVE OutcomesOnly'
  BY <1>5 DEF PullRaises
<1>6. ASSUME NEW d \in Daemons, Fault(d) PROVE OutcomesOnly'
  BY <1>6 DEF Fault
<1>7. ASSUME NEW d \in Daemons, Exit(d) \/ Crash(d) PROVE OutcomesOnly'
  BY <1>7 DEF Exit, Crash, Restart
<1>8. ASSUME CleanupStep PROVE OutcomesOnly'
  <2>1. CASE StartCleanup BY <2>1 DEF StartCleanup
  <2>2. CASE Query BY <2>2 DEF Query
  <2>3. CASE NextStale BY <2>3 DEF NextStale
  <2>4. CASE CleanupPut BY <2>4 DEF CleanupPut
  <2>5. CASE EndCleanup BY <2>5 DEF EndCleanup
  <2> QED
    BY <1>8, <2>1, <2>2, <2>3, <2>4, <2>5
      DEF CleanupStep
<1>9. CASE UNCHANGED vars BY <1>9 DEF vars
<1> QED
  BY <1>1, <1>2, <1>3, <1>4, <1>5, <1>6, <1>7, <1>8, <1>9 DEF Next

\* The initial state, in which nobody has published anything.
LEMMA InitJobsInv == Init => JobsInv
<1> SUFFICES ASSUME Init PROVE JobsInv
  OBVIOUS
<1>1. IndInv BY InitInv
<1> USE ConstantsAssumption DEF ConstantsAssumption, Init
<1>2. OneHolder BY DEF OneHolder
<1>3. Answered BY DEF Answered, Unset
<1>4. RunOnce BY DEF RunOnce
<1>5. OpenCancelled BY DEF OpenCancelled, Settled, IsStatus
<1>6. Agrees BY DEF Agrees, IsStatus
<1>7. Kept BY DEF Kept, IsStatus
<1>8. OutcomesOnly BY DEF OutcomesOnly
<1> QED BY <1>1, <1>2, <1>3, <1>4, <1>5, <1>6, <1>7, <1>8 DEF JobsInv

\* Each part of JobsInv is kept by a step that starts with all of them.
LEMMA JobsInvStep == JobsInv /\ [Next]_vars => JobsInv'
<1> SUFFICES ASSUME JobsInv, [Next]_vars PROVE JobsInv'
  OBVIOUS
<1>1. IndInv' BY IndInvStep DEF JobsInv
<1> USE DEF JobsInv, IndInv
<1>2. OneHolder' BY HolderStep
<1>3. Answered' BY <1>1, AnsweredStep
<1>4. RunOnce' BY RunOnceStep
<1>5. OpenCancelled' BY OpenStep
<1>6. Agrees' BY AgreesStep
<1>7. Kept' BY KeptStep
<1>8. OutcomesOnly' BY OutcomesStep
<1> QED BY <1>1, <1>2, <1>3, <1>4, <1>5, <1>6, <1>7, <1>8

\* JobsInv holds in every reachable state, whatever trouble there is.
THEOREM JobsInvariance == Spec => []JobsInv
BY InitJobsInv, JobsInvStep, PTL DEF Spec

(***************************************************************************)
(* The safety properties.                                                  *)
(***************************************************************************)
\* Only a daemon's WriteResult writes a result blob.
LEMMA ResultWriter ==
    [Next]_vars => result' = result \/ \E d \in Daemons : WriteResult(d)
BY DEF Next, vars, blobs, ClientStep, Subscribe, WriteSubmission,
       Push, Publish, Appear,
       PollTimeout, PollCompleted, PollError, ClientUpdatePull, CancelPut,
       ConfirmPut, Fetch, KillClient, Tick, DaemonStep, Boot, Pull,
       PullNothing, Check, DaemonUpdatePull, GrabPut, RunJob, Recheck, Bundle,
       WriteResult, FinishPut, ErrorPut, PullRaises, Fault, Exit, Crash,
       Restart, CleanupStep, StartCleanup, Query, NextStale, CleanupPut,
       EndCleanup

\* The seven puts in the system.
LEMMA Puts ==
    [Next]_vars =>
        \/ store' = store
        \/ \E j \in Jobs : Push(j) \/ CancelPut(j) \/ ConfirmPut(j)
        \/ \E d \in Daemons : GrabPut(d) \/ FinishPut(d) \/ ErrorPut(d)
        \/ CleanupPut
BY DEF Next, vars, ClientStep, Subscribe, WriteSubmission, Push,
       Publish, Appear,
       PollTimeout, PollCompleted, PollError, ClientUpdatePull, CancelPut,
       ConfirmPut, Fetch, KillClient, Tick, DaemonStep, Boot, Pull,
       PullNothing, Check, DaemonUpdatePull, GrabPut, RunJob, Recheck, Bundle,
       WriteResult, FinishPut, ErrorPut, PullRaises, Fault, Exit, Crash,
       Restart, CleanupStep, StartCleanup, Query, NextStale, CleanupPut,
       EndCleanup

\* A settled record is only reopened by its client's push or by a daemon that
\* has yet to start the job.
LEMMA ReopenStep ==
    ASSUME TypeOK, RecordsExist, ResultsHeld, [Next]_vars,
           NEW i \in Jobs, Settled(i), ~Settled(i)'
    PROVE  BeforePublish(i) \/ Open(i)
<1> USE DEF TypeOK, Put, Settled, IsStatus
<1>1. store' # store OBVIOUS
<1>2. ASSUME NEW j \in Jobs, Push(j) \/ CancelPut(j) \/ ConfirmPut(j)
      PROVE  BeforePublish(i)
  <2>1. CASE Push(j) BY <2>1 DEF Push, BeforePublish
  <2>2. CASE CancelPut(j)
    <3>1. cbuf[j] \in Record BY <2>2 DEF RecordsExist, CancelPut
    <3> QED BY <2>2, <3>1, SettledFacts DEF CancelPut, RunStatus
  <2>3. CASE ConfirmPut(j)
    <3>1. cbuf[j] \in Record BY <2>3 DEF RecordsExist, ConfirmPut
    <3> QED BY <2>3, <3>1, SettledFacts DEF ConfirmPut, RunStatus
  <2> QED BY <1>2, <2>1, <2>2, <2>3
<1>3. ASSUME NEW d \in Daemons, GrabPut(d) \/ FinishPut(d) \/ ErrorPut(d)
      PROVE  Open(i)
  <2>1. CASE GrabPut(d)
    <3>1. cur[d] = i BY <2>1 DEF GrabPut
    <3> QED BY <2>1, <3>1 DEF GrabPut, Open, Runs
  <2>2. CASE FinishPut(d)
    <3>1. dbuf[d] \in Record /\ dres[d] \in RunStatus
      BY <2>2 DEF RecordsExist, ResultsHeld, FinishPut
    <3> QED BY <2>2, <3>1, FinishedFacts DEF FinishPut
  <2>3. CASE ErrorPut(d)
    <3>1. dbuf[d] \in Record BY <2>3 DEF RecordsExist, ErrorPut
    <3> QED BY <2>3, <3>1, ErrorFacts DEF ErrorPut
  <2> QED BY <1>3, <2>1, <2>2, <2>3
<1>4. ASSUME CleanupPut PROVE FALSE
  <2>1. kbuf \in Record BY <1>4 DEF RecordsExist, CleanupPut
  <2> QED BY <1>4, <2>1, SettledFacts DEF CleanupPut, RunStatus
<1> QED BY <1>1, <1>2, <1>3, <1>4, Puts

\* Without crashes and faults, a published job whose record is SUBMITTED or
\* STARTED is in the subscription or in the hands of a daemon, also when
\* messages are delivered twice and operators cancel jobs.
THEOREM NoJobAbandonedCorrect == Spec => []NoJobAbandoned
<1>1. JobsInv => NoJobAbandoned
  <2> SUFFICES ASSUME JobsInv, spent["fault"] = 0, spent["crash"] = 0,
                      NEW j \in Jobs, ~BeforePublish(j),
                      answer[j] # "killed", ~Settled(j)
               PROVE  j \in queue \/ \E d \in Daemons : Handles(d, j)
    BY DEF NoJobAbandoned
  <2> USE DEF JobsInv, IndInv
  <2>1. store[j] # None
    BY DEF RecordsExist, Answered, BeforePublish, TypeOK
  <2>2. IsStatus(j, Submitted) \/ IsStatus(j, Started)
    BY <2>1 DEF TypeOK, Record, Status, Settled, IsStatus
  <2>3. CASE IsStatus(j, Submitted)
    BY <2>3 DEF Kept, Handles
  <2>4. CASE IsStatus(j, Started)
    BY <2>4 DEF Kept, Handles
  <2> QED BY <2>2, <2>3, <2>4
<1> QED BY <1>1, JobsInvariance, PTL

\* With at-most-once delivery a COMPLETED record and the stored result report
\* the same outcome until the client confirms or somebody cancels.
THEOREM RecordAgreesCorrect == Spec => []RecordAgreesWithResult
<1>1. JobsInv => RecordAgreesWithResult
  BY DEF JobsInv, Agrees, RecordAgreesWithResult
<1> QED BY <1>1, JobsInvariance, PTL

\* With at-most-once delivery only the record of a cancelled job is reopened:
\* the one update that writes STARTED is by a daemon that still has the job.
THEOREM NoRevivalCorrect == Spec => NoRevival
<1> DEFINE Reopens == \A j \in Jobs :
                        spent["ack"] = 0 /\ Settled(j) /\ ~Settled(j)'
                            => j \in cancelled \/ answer[j] = "timeout"
<1>1. JobsInv /\ [Next]_vars => [Reopens]_vars
  <2> SUFFICES ASSUME JobsInv, [Next]_vars, NEW j \in Jobs,
                      spent["ack"] = 0, Settled(j), ~Settled(j)'
               PROVE  j \in cancelled \/ answer[j] = "timeout"
    OBVIOUS
  <2> USE DEF JobsInv, IndInv
  <2>1. BeforePublish(j) \/ Open(j)
    BY ReopenStep
  <2> QED BY <2>1 DEF OpenCancelled
<1> QED BY <1>1, JobsInvariance, PTL DEF Spec, NoRevival

\* With at-most-once delivery the result that a client was given is never
\* overwritten: whoever stores a result finds none there.
THEOREM ResultFinalCorrect == Spec => ResultFinal
<1> DEFINE Final == \A j \in Jobs :
                      spent'["ack"] = 0 /\ answer[j] = "result"
                          => result'[j] = result[j]
<1>1. JobsInv /\ [Next]_vars => [Final]_vars
  <2> SUFFICES ASSUME JobsInv, [Next]_vars, NEW j \in Jobs,
                      spent'["ack"] = 0, answer[j] = "result"
               PROVE  result'[j] = result[j]
    OBVIOUS
  <2> USE DEF JobsInv, IndInv
  <2>1. result[j] # Unset BY DEF Answered
  <2>2. ASSUME NEW d \in Daemons, WriteResult(d), cur[d] = j PROVE FALSE
    <3>1. spent["ack"] = 0 BY <2>2 DEF WriteResult
    <3>2. Unfinished(j) BY <2>2 DEF WriteResult, Unfinished
    <3> QED BY <2>1, <3>1, <3>2 DEF RunOnce
  <2>3. CASE result' = result BY <2>3
  <2>4. ASSUME NEW d \in Daemons, WriteResult(d)
        PROVE  result'[j] = result[j]
    BY <2>2, <2>4 DEF WriteResult, TypeOK
  <2> QED BY <2>3, <2>4, ResultWriter
<1> QED BY <1>1, JobsInvariance, PTL DEF Spec, ResultFinal

(***************************************************************************)
(* The refinement of JobService.                                           *)
(***************************************************************************)
\* Job i is where it was for its user.
Same(i) == /\ Phase(i)' = Phase(i) /\ result'[i] = result[i]
           /\ ReplyOf(i)' = ReplyOf(i)

\* A step that changes one job, in one of the service's ways, is a step of the
\* service.
LEMMA ServiceStep ==
    ASSUME TypeOK, TypeOK', NEW j \in Jobs, \A i \in Jobs \ {j} : Same(i),
           \/ Same(j)
           \/ /\ Phase(j) = "unsubmitted" /\ Phase(j)' = "waiting"
              /\ result'[j] = result[j] /\ ReplyOf(j)' = ReplyOf(j)
           \/ /\ Phase(j) = "waiting" /\ Phase(j)' = "running"
              /\ result'[j] = result[j] /\ ReplyOf(j)' = ReplyOf(j)
           \/ /\ Phase(j) = "running" /\ Phase(j)' = "finished"
              /\ result'[j] \in Outcomes /\ ReplyOf(j)' = ReplyOf(j)
           \/ /\ Phase(j) \in {"unsubmitted", "waiting", "running"}
              /\ Phase(j)' = "lost" /\ result'[j] = result[j]
              /\ \/ ReplyOf(j)' = ReplyOf(j)
                 \/ ReplyOf(j) = "pending" /\ ReplyOf(j)' = "refused"
           \/ /\ ReplyOf(j) = "pending"
              /\ Phase(j)' = Phase(j) /\ result'[j] = result[j]
              /\ \/ ReplyOf(j)' = "refused"
                 \/ Phase(j) = "finished" /\ ReplyOf(j)' = "result"
    PROVE  [Service!Next]_(Service!vars)
<1> DEFINE P == [i \in Jobs |-> Phase(i)]
           R == [i \in Jobs |-> ReplyOf(i)]
<1>1. P' = [P EXCEPT ![j] = Phase(j)'] BY DEF Same
<1>2. R' = [R EXCEPT ![j] = ReplyOf(j)'] BY DEF Same
<1>3. result' = [result EXCEPT ![j] = result'[j]] BY DEF Same, TypeOK
<1>4. P[j] = Phase(j) /\ R[j] = ReplyOf(j) OBVIOUS
<1>5. /\ Phase(j)' = Phase(j) => P' = P
      /\ ReplyOf(j)' = ReplyOf(j) => R' = R
      /\ result'[j] = result[j] => result' = result
  BY DEF Same, TypeOK
<1> HIDE DEF P, R
<1>6. CASE Same(j)
  BY <1>5, <1>6 DEF Same, Service!vars, P, R
<1>7. CASE /\ Phase(j) = "unsubmitted" /\ Phase(j)' = "waiting"
           /\ result'[j] = result[j] /\ ReplyOf(j)' = ReplyOf(j)
  <2>1. Service!Submit(j)
    BY <1>1, <1>4, <1>5, <1>7 DEF Service!Submit, Service!Move, P, R
  <2> QED BY <2>1 DEF Service!Next
<1>8. CASE /\ Phase(j) = "waiting" /\ Phase(j)' = "running"
           /\ result'[j] = result[j] /\ ReplyOf(j)' = ReplyOf(j)
  <2>1. Service!Take(j)
    BY <1>1, <1>4, <1>5, <1>8 DEF Service!Take, Service!Move, P, R
  <2> QED BY <2>1 DEF Service!Next
<1>9. CASE /\ Phase(j) = "running" /\ Phase(j)' = "finished"
           /\ result'[j] \in Outcomes /\ ReplyOf(j)' = ReplyOf(j)
  <2>1. Service!Finish(j)
    BY <1>1, <1>3, <1>4, <1>5, <1>9 DEF Service!Finish, Service!Move, P, R
  <2> QED BY <2>1 DEF Service!Next
<1>10. CASE /\ Phase(j) \in {"unsubmitted", "waiting", "running"}
            /\ Phase(j)' = "lost" /\ result'[j] = result[j]
            /\ \/ ReplyOf(j)' = ReplyOf(j)
               \/ ReplyOf(j) = "pending" /\ ReplyOf(j)' = "refused"
  <2>1. Service!Lose(j)
    BY <1>1, <1>2, <1>4, <1>5, <1>10 DEF Service!Lose, Service!Move, P, R
  <2> QED BY <2>1 DEF Service!Next
<1>11. CASE /\ ReplyOf(j) = "pending"
            /\ Phase(j)' = Phase(j) /\ result'[j] = result[j]
            /\ \/ ReplyOf(j)' = "refused"
               \/ Phase(j) = "finished" /\ ReplyOf(j)' = "result"
  <2>1. Service!Reply(j)
    BY <1>2, <1>4, <1>5, <1>11 DEF Service!Reply, P, R
  <2> QED BY <2>1 DEF Service!Next
<1> QED BY <1>6, <1>7, <1>8, <1>9, <1>10, <1>11

\* A step that moves no message, takes or drops no job and answers nobody
\* leaves the service as it is.
LEMMA QuietStep ==
    ASSUME UNCHANGED <<queue, result, answer>>,
           \A i \in Jobs : BeforePublish(i)' <=> BeforePublish(i),
           \A i \in Jobs, d \in Daemons : Runs(d, i)' <=> Runs(d, i)
    PROVE  [Service!Next]_(Service!vars)
<1>1. ASSUME NEW i \in Jobs PROVE Same(i)
  BY <1>1 DEF Same, Phase, ReplyOf
<1> QED BY <1>1 DEF Same, Service!vars

\* A step of a daemon that neither pulls a message nor stores a result leaves
\* the service as it is, or loses the job that the daemon drops.
LEMMA DaemonQuiet ==
    ASSUME TypeOK, TypeOK', OneHolder, RunOnce, spent["ack"] = 0,
           NEW d \in Daemons, UNCHANGED <<queue, result, answer, cpc>>,
           \A e \in Daemons \ {d} : cur'[e] = cur[e] /\ dpc'[e] = dpc[e],
           \A i \in Jobs : Runs(d, i)' => Runs(d, i)
    PROVE  [Service!Next]_(Service!vars)
<1>1. \A i \in Jobs, e \in Daemons \ {d} : Runs(e, i)' <=> Runs(e, i)
  BY DEF Runs
<1>2. \A i \in Jobs : BeforePublish(i)' <=> BeforePublish(i)
  BY DEF BeforePublish
<1>3. CASE \A i \in Jobs : Runs(d, i) => Runs(d, i)'
  BY <1>1, <1>2, <1>3, QuietStep
<1>4. ASSUME NEW j \in Jobs, Runs(d, j), ~Runs(d, j)'
      PROVE  [Service!Next]_(Service!vars)
  <2>1. ASSUME NEW i \in Jobs \ {j} PROVE Same(i)
    <3>1. ~Runs(d, i) /\ ~Runs(d, i)' BY <1>4 DEF Runs
    <3> QED BY <1>1, <1>2, <3>1 DEF Same, Phase, ReplyOf
  <2>2. j \notin queue /\ ~BeforePublish(j) /\ \A e \in Daemons : ~Runs(e, j)'
    BY <1>1, <1>4 DEF OneHolder, Runs
  <2>3. CASE result[j] # Unset
    BY <2>1, <2>3, ServiceStep DEF Same, Phase, ReplyOf
  <2>4. CASE result[j] = Unset
    <3>1. Phase(j) = "running" /\ Phase(j)' = "lost"
      BY <1>2, <1>4, <2>2, <2>4 DEF Phase
    <3> QED BY <2>1, <3>1, ServiceStep DEF ReplyOf
  <2> QED BY <2>3, <2>4
<1> QED BY <1>3, <1>4

\* Every step of the pipeline is a step of the service or none.
LEMMA ImplementsStep ==
    ASSUME TypeOK, TypeOK', RecordsExist, ResultsHeld, OneHolder, Answered,
           RunOnce, Kept, OutcomesOnly,
           spent["ack"] = 0, spent'["ack"] = 0, [Next]_vars
    PROVE  [Service!Next]_(Service!vars)
<1> USE ConstantsAssumption
    DEF TypeOK, Put, Go, Finish, Trouble, TroubleKinds,
        blobs, topicVars, clientVars, daemonVars, cleanupVars
<1>1. ASSUME NEW j \in Jobs, ClientStep(j)
      PROVE  [Service!Next]_(Service!vars)
  <2>1. CASE Subscribe(j)
    <3>1. /\ UNCHANGED <<queue, result, answer>>
          /\ \A i \in Jobs : BeforePublish(i)' <=> BeforePublish(i)
          /\ \A i \in Jobs, d \in Daemons : Runs(d, i)' <=> Runs(d, i)
      BY <2>1 DEF Subscribe, BeforePublish, Runs
    <3> QED BY <3>1, QuietStep
  <2>2. CASE WriteSubmission(j)
    <3>1. /\ UNCHANGED <<queue, result, answer>>
          /\ \A i \in Jobs : BeforePublish(i)' <=> BeforePublish(i)
          /\ \A i \in Jobs, d \in Daemons : Runs(d, i)' <=> Runs(d, i)
      BY <2>2 DEF WriteSubmission, BeforePublish, Runs
    <3> QED BY <3>1, QuietStep
  <2>3. CASE Push(j)
    <3>1. /\ UNCHANGED <<queue, result, answer>>
          /\ \A i \in Jobs : BeforePublish(i)' <=> BeforePublish(i)
          /\ \A i \in Jobs, d \in Daemons : Runs(d, i)' <=> Runs(d, i)
      BY <2>3 DEF Push, BeforePublish, Runs
    <3> QED BY <3>1, QuietStep
  <2>4. CASE Publish(j)
    <3>1. \A i \in Jobs \ {j} : Same(i)
      BY <2>4 DEF Publish, Same, Phase, ReplyOf, BeforePublish, Runs
    <3>2. /\ Phase(j) = "unsubmitted" /\ Phase(j)' = "waiting"
          /\ result'[j] = result[j] /\ ReplyOf(j)' = ReplyOf(j)
      BY <2>4 DEF Publish, Phase, ReplyOf, BeforePublish, Runs, OneHolder,
         RunOnce, Kept
    <3> QED BY <3>1, <3>2, ServiceStep
  <2>5. CASE Appear(j)
    <3>1. /\ UNCHANGED <<queue, result, answer>>
          /\ \A i \in Jobs : BeforePublish(i)' <=> BeforePublish(i)
          /\ \A i \in Jobs, d \in Daemons : Runs(d, i)' <=> Runs(d, i)
      BY <2>5 DEF Appear, BeforePublish, Runs
    <3> QED BY <3>1, QuietStep
  <2>6. CASE PollTimeout(j)
    <3>1. /\ UNCHANGED <<queue, result, answer>>
          /\ \A i \in Jobs : BeforePublish(i)' <=> BeforePublish(i)
          /\ \A i \in Jobs, d \in Daemons : Runs(d, i)' <=> Runs(d, i)
      BY <2>6 DEF PollTimeout, BeforePublish, Runs
    <3> QED BY <3>1, QuietStep
  <2>7. CASE PollCompleted(j)
    <3>1. /\ UNCHANGED <<queue, result, answer>>
          /\ \A i \in Jobs : BeforePublish(i)' <=> BeforePublish(i)
          /\ \A i \in Jobs, d \in Daemons : Runs(d, i)' <=> Runs(d, i)
      BY <2>7 DEF PollCompleted, BeforePublish, Runs
    <3> QED BY <3>1, QuietStep
  <2>8. CASE PollError(j)
    <3>1. \A i \in Jobs \ {j} : Same(i)
      BY <2>8 DEF PollError, Same, Phase, ReplyOf, BeforePublish, Runs
    <3>2. Phase(j)' = Phase(j) /\ result'[j] = result[j]
      BY <2>8 DEF PollError, Phase, BeforePublish, Runs
    <3>3. ReplyOf(j) = "pending" /\ ReplyOf(j)' = "refused"
      BY <2>8 DEF PollError, ReplyOf, Answered, Unset
    <3> QED BY <3>1, <3>2, <3>3, ServiceStep
  <2>9. CASE ClientUpdatePull(j)
    <3>1. /\ UNCHANGED <<queue, result, answer>>
          /\ \A i \in Jobs : BeforePublish(i)' <=> BeforePublish(i)
          /\ \A i \in Jobs, d \in Daemons : Runs(d, i)' <=> Runs(d, i)
      BY <2>9 DEF ClientUpdatePull, BeforePublish, Runs
    <3> QED BY <3>1, QuietStep
  <2>10. CASE CancelPut(j)
    <3>1. \A i \in Jobs \ {j} : Same(i)
      BY <2>10 DEF CancelPut, Same, Phase, ReplyOf, BeforePublish, Runs
    <3>2. Phase(j)' = Phase(j) /\ result'[j] = result[j]
      BY <2>10 DEF CancelPut, Phase, BeforePublish, Runs
    <3>3. ReplyOf(j) = "pending" /\ ReplyOf(j)' = "refused"
      BY <2>10 DEF CancelPut, ReplyOf, Answered, Unset
    <3> QED BY <3>1, <3>2, <3>3, ServiceStep
  <2>11. CASE ConfirmPut(j)
    <3>1. /\ UNCHANGED <<queue, result, answer>>
          /\ \A i \in Jobs : BeforePublish(i)' <=> BeforePublish(i)
          /\ \A i \in Jobs, d \in Daemons : Runs(d, i)' <=> Runs(d, i)
      BY <2>11 DEF ConfirmPut, BeforePublish, Runs
    <3> QED BY <3>1, QuietStep
  <2>12. CASE Fetch(j)
    <3>1. \A i \in Jobs \ {j} : Same(i)
      BY <2>12 DEF Fetch, Same, Phase, ReplyOf, BeforePublish, Runs
    <3>2. Phase(j)' = Phase(j) /\ result'[j] = result[j]
      BY <2>12 DEF Fetch, Phase, BeforePublish, Runs
    <3>3. /\ ReplyOf(j) = "pending"
          /\ \/ ReplyOf(j)' = "refused"
             \/ Phase(j) = "finished" /\ ReplyOf(j)' = "result"
      BY <2>12 DEF Fetch, ReplyOf, Phase, Answered, Unset
    <3> QED BY <3>1, <3>2, <3>3, ServiceStep
  <2> QED
    BY <1>1, <2>1, <2>2, <2>3, <2>4, <2>5, <2>6, <2>7, <2>8, <2>9, <2>10,
       <2>11, <2>12
      DEF ClientStep
<1>2. ASSUME NEW j \in Jobs, KillClient(j)
      PROVE  [Service!Next]_(Service!vars)
  <2>1. \A i \in Jobs \ {j} : Same(i)
    BY <1>2 DEF KillClient, Same, Phase, ReplyOf, BeforePublish, Runs
  <2>2. ReplyOf(j) = "pending" /\ ReplyOf(j)' = "refused"
    BY <1>2 DEF KillClient, ReplyOf, Answered, Unset
  <2>3. result'[j] = result[j]
    BY <1>2 DEF KillClient
  <2>4. CASE BeforePublish(j)
    <3>1. Phase(j) = "unsubmitted"
      BY <2>4 DEF Phase, OneHolder, RunOnce, Runs
    <3>2. Phase(j)' = "lost"
      BY <1>2, <2>4 DEF KillClient, Phase, OneHolder, RunOnce, Runs,
         BeforePublish
    <3> QED BY <2>1, <2>2, <2>3, <3>1, <3>2, ServiceStep
  <2>5. CASE ~BeforePublish(j)
    <3>1. Phase(j)' = Phase(j)
      BY <1>2, <2>5 DEF KillClient, Phase, Runs, BeforePublish
    <3> QED BY <2>1, <2>2, <2>3, <3>1, ServiceStep
  <2> QED BY <2>4, <2>5
<1>3. ASSUME NEW j \in Jobs, Tick(j)
      PROVE  [Service!Next]_(Service!vars)
  <2>1. /\ UNCHANGED <<queue, result, answer>>
        /\ \A i \in Jobs : BeforePublish(i)' <=> BeforePublish(i)
        /\ \A i \in Jobs, d \in Daemons : Runs(d, i)' <=> Runs(d, i)
    BY <1>3 DEF Tick, BeforePublish, Runs
  <2> QED BY <2>1, QuietStep
<1>4. ASSUME NEW d \in Daemons, DaemonStep(d)
      PROVE  [Service!Next]_(Service!vars)
  <2>1. CASE Boot(d)
    <3>1. /\ UNCHANGED <<queue, result, answer, cpc>>
          /\ \A e \in Daemons \ {d} :
                cur'[e] = cur[e] /\ dpc'[e] = dpc[e]
          /\ \A i \in Jobs : Runs(d, i)' => Runs(d, i)
      BY <2>1 DEF Boot, Runs
    <3> QED BY <3>1, DaemonQuiet
  <2>2. CASE Pull(d)
    <3>1. PICK j \in queue :
            /\ cur' = [cur EXCEPT ![d] = j]
            /\ \/ queue' = queue \ {j} /\ UNCHANGED spent
               \/ UNCHANGED queue /\ Trouble("ack")
      BY <2>2 DEF Pull
    <3>2. queue' = queue \ {j}
      BY <3>1
    <3>3. /\ dpc[d] = "idle" /\ dpc' = [dpc EXCEPT ![d] = "check"]
          /\ UNCHANGED <<result, cpc, answer>>
      BY <2>2 DEF Pull
    <3>4. \A i \in Jobs \ {j} : Same(i)
      BY <3>1, <3>2, <3>3 DEF Same, Phase, ReplyOf, BeforePublish, Runs
    <3>5. result[j] = Unset /\ ~BeforePublish(j)
      BY DEF RunOnce, Unfinished, OneHolder
    <3>6. \A e \in Daemons : ~Runs(e, j)
      BY DEF OneHolder, Runs
    <3>7. Runs(d, j)'
      BY <3>1, <3>3 DEF Runs
    <3>8. Phase(j) = "waiting" /\ Phase(j)' = "running"
      BY <3>3, <3>5, <3>6, <3>7 DEF Phase
    <3> QED BY <3>3, <3>4, <3>8, ServiceStep DEF ReplyOf
  <2>3. CASE PullNothing(d)
    <3>1. /\ UNCHANGED <<queue, result, answer, cpc>>
          /\ \A e \in Daemons \ {d} :
                cur'[e] = cur[e] /\ dpc'[e] = dpc[e]
          /\ \A i \in Jobs : Runs(d, i)' => Runs(d, i)
      BY <2>3 DEF PullNothing, Runs
    <3> QED BY <3>1, DaemonQuiet
  <2>4. CASE Check(d)
    <3>1. /\ UNCHANGED <<queue, result, answer, cpc>>
          /\ \A e \in Daemons \ {d} :
                cur'[e] = cur[e] /\ dpc'[e] = dpc[e]
          /\ \A i \in Jobs : Runs(d, i)' => Runs(d, i)
      BY <2>4 DEF Check, Runs
    <3> QED BY <3>1, DaemonQuiet
  <2>5. CASE DaemonUpdatePull(d)
    <3>1. /\ UNCHANGED <<queue, result, answer, cpc>>
          /\ \A e \in Daemons \ {d} :
                cur'[e] = cur[e] /\ dpc'[e] = dpc[e]
          /\ \A i \in Jobs : Runs(d, i)' => Runs(d, i)
      BY <2>5 DEF DaemonUpdatePull, Runs
    <3> QED BY <3>1, DaemonQuiet
  <2>6. CASE GrabPut(d)
    <3>1. /\ UNCHANGED <<queue, result, answer, cpc>>
          /\ \A e \in Daemons \ {d} :
                cur'[e] = cur[e] /\ dpc'[e] = dpc[e]
          /\ \A i \in Jobs : Runs(d, i)' => Runs(d, i)
      BY <2>6 DEF GrabPut, Runs
    <3> QED BY <3>1, DaemonQuiet
  <2>7. CASE RunJob(d)
    <3>1. /\ UNCHANGED <<queue, result, answer, cpc>>
          /\ \A e \in Daemons \ {d} :
                cur'[e] = cur[e] /\ dpc'[e] = dpc[e]
          /\ \A i \in Jobs : Runs(d, i)' => Runs(d, i)
      BY <2>7 DEF RunJob, Runs
    <3> QED BY <3>1, DaemonQuiet
  <2>8. CASE Recheck(d)
    <3>1. /\ UNCHANGED <<queue, result, answer, cpc>>
          /\ \A e \in Daemons \ {d} :
                cur'[e] = cur[e] /\ dpc'[e] = dpc[e]
          /\ \A i \in Jobs : Runs(d, i)' => Runs(d, i)
      BY <2>8 DEF Recheck, Runs
    <3> QED BY <3>1, DaemonQuiet
  <2>9. CASE Bundle(d)
    <3>1. /\ UNCHANGED <<queue, result, answer, cpc>>
          /\ \A e \in Daemons \ {d} :
                cur'[e] = cur[e] /\ dpc'[e] = dpc[e]
          /\ \A i \in Jobs : Runs(d, i)' => Runs(d, i)
      BY <2>9 DEF Bundle, Runs
    <3> QED BY <3>1, DaemonQuiet
  <2>10. CASE WriteResult(d)
    <3>1. PICK j \in Jobs : j = cur[d]
      BY <2>10 DEF WriteResult, RecordsExist
    <3>2. Runs(d, j) /\ Runs(d, j)' /\ Unfinished(j)
      BY <2>10, <3>1 DEF WriteResult, Runs, Unfinished
    <3>3. result[j] = Unset /\ result'[j] = dres[d] /\ dres[d] # Unset
      BY <2>10, <3>1, <3>2 DEF WriteResult, RunOnce, ResultsHeld
    <3>4. \A i \in Jobs \ {j} : Same(i)
      BY <2>10, <3>1 DEF WriteResult, Same, Phase, ReplyOf, BeforePublish,
         Runs
    <3>5. Phase(j) = "running" /\ Phase(j)' = "finished"
      BY <3>2, <3>3 DEF Phase
    <3>6. ReplyOf(j)' = ReplyOf(j) BY <2>10 DEF WriteResult, ReplyOf
    <3>7. result'[j] \in Outcomes BY <3>3 DEF OutcomesOnly
    <3> QED BY <3>4, <3>5, <3>6, <3>7, ServiceStep
  <2>11. CASE FinishPut(d)
    <3>1. /\ UNCHANGED <<queue, result, answer, cpc>>
          /\ \A e \in Daemons \ {d} :
                cur'[e] = cur[e] /\ dpc'[e] = dpc[e]
          /\ \A i \in Jobs : Runs(d, i)' => Runs(d, i)
      BY <2>11 DEF FinishPut, Runs
    <3> QED BY <3>1, DaemonQuiet
  <2>12. CASE ErrorPut(d)
    <3>1. /\ UNCHANGED <<queue, result, answer, cpc>>
          /\ \A e \in Daemons \ {d} :
                cur'[e] = cur[e] /\ dpc'[e] = dpc[e]
          /\ \A i \in Jobs : Runs(d, i)' => Runs(d, i)
      BY <2>12 DEF ErrorPut, Runs
    <3> QED BY <3>1, DaemonQuiet
  <2> QED
    BY <1>4, <2>1, <2>2, <2>3, <2>4, <2>5, <2>6, <2>7, <2>8, <2>9, <2>10,
       <2>11, <2>12
      DEF DaemonStep
<1>5. ASSUME NEW d \in Daemons, PullRaises(d)
      PROVE  [Service!Next]_(Service!vars)
  <2>1. /\ UNCHANGED <<queue, result, answer, cpc>>
        /\ \A e \in Daemons \ {d} :
              cur'[e] = cur[e] /\ dpc'[e] = dpc[e]
        /\ \A i \in Jobs : Runs(d, i)' => Runs(d, i)
    BY <1>5 DEF PullRaises, Runs
  <2> QED BY <2>1, DaemonQuiet
<1>6. ASSUME NEW d \in Daemons, Fault(d)
      PROVE  [Service!Next]_(Service!vars)
  <2>1. /\ UNCHANGED <<queue, result, answer, cpc>>
        /\ \A e \in Daemons \ {d} :
              cur'[e] = cur[e] /\ dpc'[e] = dpc[e]
        /\ \A i \in Jobs : Runs(d, i)' => Runs(d, i)
    BY <1>6 DEF Fault, Runs
  <2> QED BY <2>1, DaemonQuiet
<1>7. ASSUME NEW d \in Daemons, Exit(d) \/ Crash(d)
      PROVE  [Service!Next]_(Service!vars)
  <2>1. /\ UNCHANGED <<queue, result, answer, cpc>>
        /\ \A e \in Daemons \ {d} :
              cur'[e] = cur[e] /\ dpc'[e] = dpc[e]
        /\ \A i \in Jobs : Runs(d, i)' => Runs(d, i)
    BY <1>7 DEF Exit, Crash, Restart, Runs
  <2> QED BY <2>1, DaemonQuiet
<1>8. ASSUME CleanupStep PROVE [Service!Next]_(Service!vars)
  <2>1. CASE StartCleanup
    <3>1. /\ UNCHANGED <<queue, result, answer>>
          /\ \A i \in Jobs : BeforePublish(i)' <=> BeforePublish(i)
          /\ \A i \in Jobs, d \in Daemons : Runs(d, i)' <=> Runs(d, i)
      BY <2>1 DEF StartCleanup, BeforePublish, Runs
    <3> QED BY <3>1, QuietStep
  <2>2. CASE Query
    <3>1. /\ UNCHANGED <<queue, result, answer>>
          /\ \A i \in Jobs : BeforePublish(i)' <=> BeforePublish(i)
          /\ \A i \in Jobs, d \in Daemons : Runs(d, i)' <=> Runs(d, i)
      BY <2>2 DEF Query, BeforePublish, Runs
    <3> QED BY <3>1, QuietStep
  <2>3. CASE NextStale
    <3>1. /\ UNCHANGED <<queue, result, answer>>
          /\ \A i \in Jobs : BeforePublish(i)' <=> BeforePublish(i)
          /\ \A i \in Jobs, d \in Daemons : Runs(d, i)' <=> Runs(d, i)
      BY <2>3 DEF NextStale, BeforePublish, Runs
    <3> QED BY <3>1, QuietStep
  <2>4. CASE CleanupPut
    <3>1. /\ UNCHANGED <<queue, result, answer>>
          /\ \A i \in Jobs : BeforePublish(i)' <=> BeforePublish(i)
          /\ \A i \in Jobs, d \in Daemons : Runs(d, i)' <=> Runs(d, i)
      BY <2>4 DEF CleanupPut, BeforePublish, Runs
    <3> QED BY <3>1, QuietStep
  <2>5. CASE EndCleanup
    <3>1. /\ UNCHANGED <<queue, result, answer>>
          /\ \A i \in Jobs : BeforePublish(i)' <=> BeforePublish(i)
          /\ \A i \in Jobs, d \in Daemons : Runs(d, i)' <=> Runs(d, i)
      BY <2>5 DEF EndCleanup, BeforePublish, Runs
    <3> QED BY <3>1, QuietStep
  <2> QED
    BY <1>8, <2>1, <2>2, <2>3, <2>4, <2>5
      DEF CleanupStep
<1>9. CASE UNCHANGED vars
  <2>1. /\ UNCHANGED <<queue, result, answer>>
        /\ \A i \in Jobs : BeforePublish(i)' <=> BeforePublish(i)
        /\ \A i \in Jobs, d \in Daemons : Runs(d, i)' <=> Runs(d, i)
    BY <1>9 DEF vars, BeforePublish, Runs
  <2> QED BY <2>1, QuietStep
<1> QED
  BY <1>1, <1>2, <1>3, <1>4, <1>5, <1>6, <1>7, <1>8, <1>9 DEF Next

\* The pipeline before anybody has done anything is the service's first state.
LEMMA ImplementsInit == Init => Service!Init
<1> SUFFICES ASSUME Init PROVE Service!Init
  OBVIOUS
<1> USE DEF Init
<1>1. \A j \in Jobs : Phase(j) = "unsubmitted" /\ ReplyOf(j) = "pending"
  BY DEF Phase, ReplyOf, Runs, BeforePublish
<1> QED BY <1>1 DEF Service!Init

\* As long as acknowledgements are not lost, the pipeline implements the
\* service, under faults, crashes, kills and cancellations: no job is run
\* twice, and a user is only ever handed the one result of the job.
THEOREM ImplementsServiceCorrect ==
    ASSUME "ack" \notin Troubles
    PROVE  Spec => ImplementsService
<1> DEFINE NoneLost == spent["ack"] = 0
<1>1. Init => NoneLost
  BY DEF Init, TroubleKinds
<1>2. JobsInv /\ NoneLost /\ [Next]_vars => NoneLost'
  <2> SUFFICES ASSUME JobsInv, NoneLost, [Next]_vars PROVE NoneLost'
    OBVIOUS
  <2> USE DEF JobsInv, IndInv, TypeOK, Trouble, TroubleKinds
  <2> QED
    BY DEF Next, vars, ClientStep, Subscribe, WriteSubmission, Push,
       Publish, Appear,
         PollTimeout, PollCompleted, PollError, ClientUpdatePull, CancelPut,
         ConfirmPut, Fetch, KillClient, Tick, DaemonStep, Boot, Pull,
         PullNothing, Check, DaemonUpdatePull, GrabPut, RunJob, Recheck,
         Bundle,
         WriteResult, FinishPut, ErrorPut, PullRaises, Fault, Exit, Crash,
         Restart, CleanupStep, StartCleanup, Query, NextStale, CleanupPut,
         EndCleanup
<1>3. JobsInv /\ JobsInv' /\ NoneLost /\ NoneLost' /\ [Next]_vars
      => [Service!Next]_(Service!vars)
  BY ImplementsStep DEF JobsInv, IndInv
<1> QED
  <2> HIDE DEF NoneLost
  <2> QED
    BY <1>1, <1>2, <1>3, ImplementsInit, JobsInvariance, PTL
       DEF Spec, ImplementsService, Service!Spec
=============================================================================
