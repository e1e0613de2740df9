--------------------------- MODULE ArchCloudJobs ---------------------------
(***************************************************************************)
(* The life of a job in the ArchLab cloud service.                         *)
(*                                                                         *)
(* A client (run_submission_remotely in Runner.py) stores a submission as  *)
(* a blob, creates a record for the job in the datastore and publishes the *)
(* job's id; a runner daemon (main in runlab_daemon.py) pulls the id, marks*)
(* the record STARTED, runs the job, stores the result as a blob and marks *)
(* the record COMPLETED; the client polls the record and fetches the blob. *)
(* "labtool cleanup" cancels stale jobs.  Nothing locks the record: every  *)
(* change is a pull followed by a put of the whole record                  *)
(* (BaseDataStore.update), so the two halves of each update are separate   *)
(* steps here, and the steps of all processes interleave.                  *)
(*                                                                         *)
(* A client submits one job under a fresh id, so a client and its job      *)
(* share a name in Jobs.                                                   *)
(***************************************************************************)
EXTENDS Naturals, FiniteSets

CONSTANTS
    Jobs,          \* the jobs, one per client
    Daemons,       \* the runner daemons
    DebugDaemons,  \* the daemons started with --debug, which exit on errors
    None,          \* "no job", "no host" and "no record"
    Outcomes,      \* what runs may report, a set of RunStatus
    Troubles,      \* the kinds of trouble that may happen
    MaxTroubles,   \* bound: how often trouble happens
    MaxAge         \* bound: how far a job may age, at most Expired

Submitted == "SUBMITTED"
Started   == "STARTED"
Completed == "COMPLETED"
Error     == "ERROR"
Status    == {Submitted, Started, Completed, Error}

\* What a run reports in its result; Runner.py also has "missing_output",
\* which no code path treats differently from "error".
RunStatus == {"success", "timeout", "error"}

\* The empty string that push leaves in submission_status.
Unset == "unset"

\* The fields of a record that some step reads or some property relates.
\* zip_archive stands for "the key zip_archive is present".
Record ==
    [ status            : Status,
      submission_status : RunStatus \cup {Unset},
      runner_host       : Daemons \cup {None},
      zip_archive       : BOOLEAN ]

\* How long ago a job was submitted: Old once UNIVERSAL_TIMEOUT_SEC have
\* passed since its submitted_utc, Expired once they have passed since its
\* client began to poll, which is later.
Fresh   == 0
Old     == 1
Expired == 2

\* Acknowledgements that are lost, exceptions that a cloud service raises to a
\* daemon, daemons and clients killed in the middle of something, and runs of
\* "labtool cleanup".
TroubleKinds == {"ack", "fault", "crash", "kill", "cleanup"}

ASSUME ConstantsAssumption ==
    /\ None \notin Jobs \cup Daemons \cup Record
    /\ DebugDaemons \subseteq Daemons
    /\ Outcomes \subseteq RunStatus
    /\ Troubles \subseteq TroubleKinds /\ MaxTroubles \in Nat
    /\ MaxAge \in Fresh .. Expired

VARIABLES
    store,       \* datastore: job -> its record, or None
    submission,  \* blob store: job -> is the submission's blob written
    result,      \* blob store: job -> the stored result's status, or Unset
    subscribed,  \* does the subscription of the job topic exist
    queue,       \* jobs whose id is waiting in the subscription
    age,         \* job -> Fresh, Old or Expired
    cpc,         \* client -> its next step
    cseen,       \* client -> the record it pulled when it saw COMPLETED
    cbuf,        \* client -> the record its ds.update pulled
    answer,      \* client -> how run_submission_remotely ended
    dpc,         \* daemon -> its next step
    cur,         \* daemon -> job_id, kept from one iteration to the next
    dres,        \* daemon -> the status of the result it holds
    dbuf,        \* daemon -> the record its ds.update pulled
    kpc,         \* cleanup -> its next step
    ktodo,       \* cleanup -> the query's answer, pairs of job and status
    kjob,        \* cleanup -> the job being cancelled
    kbuf,        \* cleanup -> the record its ds.update pulled
    cancelled,   \* history: jobs that cleanup has cancelled
    spent        \* how often each kind of trouble has happened

blobs       == <<submission, result>>
topicVars   == <<subscribed, queue>>
clientVars  == <<cpc, cseen, cbuf, answer>>
daemonVars  == <<dpc, cur, dres, dbuf>>
cleanupVars == <<kpc, ktodo, kjob, kbuf, cancelled>>
vars == <<store, blobs, topicVars, age, clientVars, daemonVars, cleanupVars,
          spent>>

ClientPc == {"new", "write_file", "push", "publish", "appear", "poll",
             "cancel", "cancel_put", "confirm", "confirm_put", "fetch",
             "done"}
Answers  == {Unset, "result", "timeout", "job_error", "no_result", "no_zip",
             "killed"}
DaemonPc == {"boot", "idle", "check", "grab", "grab_put", "run", "recheck",
             "bundle", "write_result", "finish", "finish_put",
             "error", "error_put"}
CleanupPc == {"off", "query_submitted", "query_started", "next", "put"}

TypeOK ==
    /\ store \in [Jobs -> Record \cup {None}]
    /\ submission \in [Jobs -> BOOLEAN]
    /\ result \in [Jobs -> RunStatus \cup {Unset}]
    /\ subscribed \in BOOLEAN
    /\ queue \subseteq Jobs
    /\ age \in [Jobs -> Fresh .. Expired]
    /\ cpc \in [Jobs -> ClientPc]
    /\ cseen \in [Jobs -> Record \cup {None}]
    /\ cbuf \in [Jobs -> Record \cup {None}]
    /\ answer \in [Jobs -> Answers]
    /\ dpc \in [Daemons -> DaemonPc]
    /\ cur \in [Daemons -> Jobs \cup {None}]
    /\ dres \in [Daemons -> RunStatus \cup {Unset}]
    /\ dbuf \in [Daemons -> Record \cup {None}]
    /\ kpc \in CleanupPc
    /\ ktodo \subseteq Jobs \X {Submitted, Started}
    /\ kjob \in Jobs \cup {None}
    /\ kbuf \in Record \cup {None}
    /\ cancelled \subseteq Jobs
    /\ spent \in [TroubleKinds -> Nat]

Init ==
    /\ store = [j \in Jobs |-> None]
    /\ submission = [j \in Jobs |-> FALSE]
    /\ result = [j \in Jobs |-> Unset]
    /\ subscribed = FALSE
    /\ queue = {}
    /\ age = [j \in Jobs |-> Fresh]
    /\ cpc = [j \in Jobs |-> "new"]
    /\ cseen = [j \in Jobs |-> None]
    /\ cbuf = [j \in Jobs |-> None]
    /\ answer = [j \in Jobs |-> Unset]
    /\ dpc = [d \in Daemons |-> "boot"]
    /\ cur = [d \in Daemons |-> None]
    /\ dres = [d \in Daemons |-> Unset]
    /\ dbuf = [d \in Daemons |-> None]
    /\ kpc = "off"
    /\ ktodo = {}
    /\ kjob = None
    /\ kbuf = None
    /\ cancelled = {}
    /\ spent = [b \in TroubleKinds |-> 0]

Trouble(kind) ==
    /\ kind \in Troubles
    /\ spent["ack"] + spent["fault"] + spent["crash"] + spent["kill"]
           + spent["cleanup"] < MaxTroubles
    /\ spent' = [spent EXCEPT ![kind] = @ + 1]

(***************************************************************************)
(* The datastore.  An update (BaseDataStore.update) is a pull and, later,  *)
(* a Put: the record as pulled, with the new fields over it, replaces the  *)
(* whole stored record, whatever happened to it in between.                *)
(***************************************************************************)
NewRecord == [status |-> Submitted, submission_status |-> Unset,
              runner_host |-> None, zip_archive |-> FALSE]

\* The new fields of each update in the system.
MarkStarted(rec, d)   == [rec EXCEPT !.status = Started, !.runner_host = d]
MarkSettled(rec, how) == [rec EXCEPT !.status = Completed,
                                     !.submission_status = how]
\* Mutant of MarkFinished: the outcome of the run is not recorded.
MarkFinishedNoOutcome(rec, how) ==
    [rec EXCEPT !.status = Completed, !.zip_archive = TRUE]

MarkFinished(rec, how) == [rec EXCEPT !.status = Completed,
                                      !.submission_status = how,
                                      !.zip_archive = TRUE]
MarkError(rec)        == [rec EXCEPT !.status = Error]

Put(j, rec) == store' = [store EXCEPT ![j] = rec]

IsStatus(j, s) == store[j] # None /\ store[j].status = s

(***************************************************************************)
(* The client, run_submission_remotely.                                    *)
(***************************************************************************)
\* Mutant of Subscribe: the client relies on a daemon's subscription.
SubscribeNothing(j) ==
    /\ cpc[j] = "new"
    /\ cpc' = [cpc EXCEPT ![j] = "write_file"]
    /\ UNCHANGED <<store, blobs, topicVars, age, cseen, cbuf, answer,
                   daemonVars, cleanupVars, spent>>

\* Lines 537-546: the topic and the subscription exist before publishing.
Subscribe(j) ==
    /\ cpc[j] = "new"
    /\ cpc' = [cpc EXCEPT ![j] = "write_file"]
    /\ subscribed' = TRUE
    /\ UNCHANGED <<store, blobs, queue, age, cseen, cbuf, answer, daemonVars,
                   cleanupVars, spent>>

WriteSubmission(j) ==
    /\ cpc[j] = "write_file"
    /\ cpc' = [cpc EXCEPT ![j] = "push"]
    /\ submission' = [submission EXCEPT ![j] = TRUE]
    /\ UNCHANGED <<store, result, topicVars, age, cseen, cbuf, answer,
                   daemonVars, cleanupVars, spent>>

Push(j) ==
    /\ cpc[j] = "push"
    /\ cpc' = [cpc EXCEPT ![j] = "publish"]
    /\ Put(j, NewRecord)
    /\ UNCHANGED <<blobs, topicVars, age, cseen, cbuf, answer, daemonVars,
                   cleanupVars, spent>>

\* A message published to a topic without subscriptions reaches nobody.
Publish(j) ==
    /\ cpc[j] = "publish"
    /\ cpc' = [cpc EXCEPT ![j] = "appear"]
    /\ queue' = IF subscribed THEN queue \cup {j} ELSE queue
    /\ UNCHANGED <<store, blobs, subscribed, age, cseen, cbuf, answer,
                   daemonVars, cleanupVars, spent>>

\* Lines 565-580.  The record was pushed by this client, so it is there, and the
\* error after 20 vain pulls is left out.
Appear(j) ==
    /\ cpc[j] = "appear"
    /\ store[j] # None
    /\ cpc' = [cpc EXCEPT ![j] = "poll"]
    /\ UNCHANGED <<store, blobs, topicVars, age, cseen, cbuf, answer,
                   daemonVars, cleanupVars, spent>>

\* Mutant of PollTimeout: only a job that is running can time out.
PollTimeoutStarted(j) ==
    /\ cpc[j] = "poll" /\ age[j] = Expired
    /\ IsStatus(j, Started)
    /\ cpc' = [cpc EXCEPT ![j] = "cancel"]
    /\ UNCHANGED <<store, blobs, topicVars, age, cseen, cbuf, answer,
                   daemonVars, cleanupVars, spent>>

\* The poll that finds the time is up, whatever the record says.
PollTimeout(j) ==
    /\ cpc[j] = "poll" /\ age[j] = Expired
    /\ cpc' = [cpc EXCEPT ![j] = "cancel"]
    /\ UNCHANGED <<store, blobs, topicVars, age, cseen, cbuf, answer,
                   daemonVars, cleanupVars, spent>>

PollCompleted(j) ==
    /\ cpc[j] = "poll" /\ age[j] # Expired
    /\ IsStatus(j, Completed)
    /\ cpc' = [cpc EXCEPT ![j] = "confirm"]
    /\ cseen' = [cseen EXCEPT ![j] = store[j]]
    /\ UNCHANGED <<store, blobs, topicVars, age, cbuf, answer, daemonVars,
                   cleanupVars, spent>>

Finish(j, how) ==
    /\ cpc' = [cpc EXCEPT ![j] = "done"]
    /\ answer' = [answer EXCEPT ![j] = how]

PollError(j) ==
    /\ cpc[j] = "poll" /\ age[j] # Expired
    /\ IsStatus(j, Error)
    /\ Finish(j, "job_error")
    /\ UNCHANGED <<store, blobs, topicVars, age, cseen, cbuf, daemonVars,
                   cleanupVars, spent>>

\* The pull half of the client's two updates, lines 594 and 608.
ClientUpdatePull(j) ==
    /\ \/ cpc[j] = "cancel"  /\ cpc' = [cpc EXCEPT ![j] = "cancel_put"]
       \/ cpc[j] = "confirm" /\ cpc' = [cpc EXCEPT ![j] = "confirm_put"]
    /\ cbuf' = [cbuf EXCEPT ![j] = store[j]]
    /\ UNCHANGED <<store, blobs, topicVars, age, cseen, answer, daemonVars,
                   cleanupVars, spent>>

CancelPut(j) ==
    /\ cpc[j] = "cancel_put"
    /\ Put(j, MarkSettled(cbuf[j], "timeout"))
    /\ cbuf' = [cbuf EXCEPT ![j] = None]
    /\ Finish(j, "timeout")
    /\ UNCHANGED <<blobs, topicVars, age, cseen, daemonVars, cleanupVars,
                   spent>>

ConfirmPut(j) ==
    /\ cpc[j] = "confirm_put"
    /\ Put(j, MarkSettled(cbuf[j], "success"))
    /\ cbuf' = [cbuf EXCEPT ![j] = None]
    /\ cpc' = [cpc EXCEPT ![j] = "fetch"]
    /\ UNCHANGED <<blobs, topicVars, age, cseen, answer, daemonVars,
                   cleanupVars, spent>>

\* Lines 613-617: NotFound without a result blob, KeyError when the record
\* polled at line 585 has no zip_archive.
Fetch(j) ==
    /\ cpc[j] = "fetch"
    /\ Finish(j, IF result[j] = Unset THEN "no_result"
                 ELSE IF ~cseen[j].zip_archive THEN "no_zip"
                 ELSE "result")
    /\ cseen' = [cseen EXCEPT ![j] = None]
    /\ UNCHANGED <<store, blobs, topicVars, age, cbuf, daemonVars,
                   cleanupVars, spent>>

ClientStep(j) ==
    \/ Subscribe(j) \/ WriteSubmission(j) \/ Push(j) \/ Publish(j)
    \/ Appear(j) \/ PollTimeout(j) \/ PollCompleted(j) \/ PollError(j)
    \/ ClientUpdatePull(j) \/ CancelPut(j) \/ ConfirmPut(j) \/ Fetch(j)

\* The client process dies; its job lives on.
KillClient(j) ==
    /\ cpc[j] \notin {"new", "done"}
    /\ Trouble("kill")
    /\ Finish(j, "killed")
    /\ cseen' = [cseen EXCEPT ![j] = None]
    /\ cbuf' = [cbuf EXCEPT ![j] = None]
    /\ UNCHANGED <<store, blobs, topicVars, age, daemonVars, cleanupVars>>

(***************************************************************************)
(* Time.                                                                   *)
(***************************************************************************)
Tick(j) ==
    /\ \/ age[j] = Fresh /\ store[j] # None
       \/ age[j] = Old /\ cpc[j] \notin {"publish", "appear"}
    /\ age[j] < MaxAge
    /\ age' = [age EXCEPT ![j] = @ + 1]
    /\ UNCHANGED <<store, blobs, topicVars, clientVars, daemonVars,
                   cleanupVars, spent>>

(***************************************************************************)
(* The daemon, main in runlab_daemon.py.                                   *)
(***************************************************************************)
Go(d, pc) == dpc' = [dpc EXCEPT ![d] = pc]

\* Lines 185-198.
Boot(d) ==
    /\ dpc[d] = "boot"
    /\ Go(d, "idle")
    /\ subscribed' = TRUE
    /\ UNCHANGED <<store, blobs, queue, age, clientVars, cur, dres, dbuf,
                   cleanupVars, spent>>

\* Mutant of Pull: the acknowledgement is forgotten.
PullKeepingMessage(d) ==
    /\ dpc[d] = "idle"
    /\ \E j \in queue : cur' = [cur EXCEPT ![d] = j]
    /\ Go(d, "check")
    /\ UNCHANGED <<store, blobs, topicVars, age, clientVars, dres, dbuf,
                   cleanupVars, spent>>

\* subscriber.pull: a message is acknowledged as it is pulled, before the
\* job runs.  When the acknowledgement is lost (GoogleSubscriber swallows
\* its failure) the service delivers the message again.
Pull(d) ==
    /\ dpc[d] = "idle"
    /\ \E j \in queue :
        /\ cur' = [cur EXCEPT ![d] = j]
        /\ \/ queue' = queue \ {j} /\ UNCHANGED spent
           \/ UNCHANGED queue /\ Trouble("ack")
    /\ Go(d, "check")
    /\ UNCHANGED <<store, blobs, subscribed, age, clientVars, dres, dbuf,
                   cleanupVars>>

\* A pull that delivers nothing leaves the empty list in job_id.
PullNothing(d) ==
    /\ dpc[d] = "idle" /\ cur[d] # None
    /\ cur' = [cur EXCEPT ![d] = None]
    /\ UNCHANGED <<store, blobs, topicVars, age, clientVars, dpc, dres, dbuf,
                   cleanupVars, spent>>

\* A pull that raises leaves job_id as the last iteration left it; the
\* handler at line 301 does nothing when that is the empty list.
PullRaises(d) ==
    /\ dpc[d] = "idle" /\ cur[d] # None
    /\ Trouble("fault")
    /\ Go(d, "error")
    /\ UNCHANGED <<store, blobs, topicVars, age, clientVars, cur, dres, dbuf,
                   cleanupVars>>

\* Lines 215-225: skip a job that is missing or not SUBMITTED.
Check(d) ==
    /\ dpc[d] = "check"
    /\ Go(d, IF ~IsStatus(cur[d], Submitted) THEN "idle"
             ELSE IF submission[cur[d]] THEN "grab" ELSE "error")
    /\ UNCHANGED <<store, blobs, topicVars, age, clientVars, cur, dres, dbuf,
                   cleanupVars, spent>>

\* The pull half of the daemon's three updates, lines 227, 281 and 291/303.
DaemonUpdatePull(d) ==
    /\ \/ dpc[d] = "grab"   /\ Go(d, "grab_put")
       \/ dpc[d] = "finish" /\ Go(d, "finish_put")
       \/ dpc[d] = "error"  /\ store[cur[d]] # None /\ Go(d, "error_put")
    /\ dbuf' = [dbuf EXCEPT ![d] = store[cur[d]]]
    /\ UNCHANGED <<store, blobs, topicVars, age, clientVars, cur, dres,
                   cleanupVars, spent>>

GrabPut(d) ==
    /\ dpc[d] = "grab_put"
    /\ Put(cur[d], MarkStarted(dbuf[d], d))
    /\ dbuf' = [dbuf EXCEPT ![d] = None]
    /\ Go(d, "run")
    /\ UNCHANGED <<blobs, topicVars, age, clientVars, cur, dres, cleanupVars,
                   spent>>

\* run_submission_locally turns the errors of a run and its own timeout into a
\* result, but for a TypeError, which it raises again: that is a Fault.
RunJob(d) ==
    /\ dpc[d] = "run"
    /\ \E s \in Outcomes : dres' = [dres EXCEPT ![d] = s]
    /\ Go(d, "recheck")
    /\ UNCHANGED <<store, blobs, topicVars, age, clientVars, cur, dbuf,
                   cleanupVars, spent>>

\* Lines 245-248: give up when somebody else completed the job.
Recheck(d) ==
    /\ dpc[d] = "recheck"
    /\ IF IsStatus(cur[d], Started)
       THEN Go(d, "bundle") /\ UNCHANGED dres
       ELSE Go(d, "idle") /\ dres' = [dres EXCEPT ![d] = Unset]
    /\ UNCHANGED <<store, blobs, topicVars, age, clientVars, cur, dbuf,
                   cleanupVars, spent>>

\* Mutants of Bundle: no result blob is written; a UserError is swallowed.
BundleOnly(d) ==
    /\ dpc[d] = "bundle"
    /\ Go(d, "finish")
    /\ UNCHANGED <<store, blobs, topicVars, age, clientVars, cur, dres, dbuf,
                   cleanupVars, spent>>

BundleSwallowing(d) ==
    /\ dpc[d] = "bundle"
    /\ \E pc \in {"write_result", "idle"} : Go(d, pc)
    /\ UNCHANGED <<store, blobs, topicVars, age, clientVars, cur, dres, dbuf,
                   cleanupVars, spent>>

\* Lines 252-274: store the zip file; its owner may be unknown to the blob
\* store, which is a UserError.
Bundle(d) ==
    /\ dpc[d] = "bundle"
    /\ \/ Go(d, "write_result") /\ UNCHANGED dres
       \/ Go(d, "error") /\ dres' = [dres EXCEPT ![d] = Unset]
    /\ UNCHANGED <<store, blobs, topicVars, age, clientVars, cur, dbuf,
                   cleanupVars, spent>>

WriteResult(d) ==
    /\ dpc[d] = "write_result"
    /\ result' = [result EXCEPT ![cur[d]] = dres[d]]
    /\ Go(d, "finish")
    /\ UNCHANGED <<store, submission, topicVars, age, clientVars, cur, dres,
                   dbuf, cleanupVars, spent>>

FinishPut(d) ==
    /\ dpc[d] = "finish_put"
    /\ Put(cur[d], MarkFinished(dbuf[d], dres[d]))
    /\ dbuf' = [dbuf EXCEPT ![d] = None]
    /\ dres' = [dres EXCEPT ![d] = Unset]
    /\ Go(d, "idle")
    /\ UNCHANGED <<blobs, topicVars, age, clientVars, cur, cleanupVars, spent>>

\* Both handlers, lines 289-311, mark the job ERROR whatever its status is;
\* with --debug they raise again, which ends the daemon.
ErrorPut(d) ==
    /\ dpc[d] = "error_put"
    /\ Put(cur[d], MarkError(dbuf[d]))
    /\ dbuf' = [dbuf EXCEPT ![d] = None]
    /\ IF d \in DebugDaemons
       THEN Go(d, "boot") /\ cur' = [cur EXCEPT ![d] = None]
       ELSE Go(d, "idle") /\ UNCHANGED cur
    /\ UNCHANGED <<blobs, topicVars, age, clientVars, dres, cleanupVars,
                   spent>>

\* Mutant of Fault: the handler puts the message back for another daemon.
FaultRequeues(d) ==
    /\ dpc[d] \notin {"boot", "idle", "error", "error_put"}
    /\ Trouble("fault")
    /\ dbuf' = [dbuf EXCEPT ![d] = None]
    /\ dres' = [dres EXCEPT ![d] = Unset]
    /\ queue' = queue \cup {cur[d]}
    /\ Go(d, "idle")
    /\ UNCHANGED <<store, blobs, subscribed, age, clientVars, cur,
                   cleanupVars>>

\* A service raises in the body of the try (line 301 catches) or in a
\* handler (line 322 catches, unless --debug).
Fault(d) ==
    /\ dpc[d] \notin {"boot", "idle"}
    /\ Trouble("fault")
    /\ dbuf' = [dbuf EXCEPT ![d] = None]
    /\ dres' = [dres EXCEPT ![d] = Unset]
    /\ IF dpc[d] \notin {"error", "error_put"}
       THEN Go(d, "error") /\ UNCHANGED cur
       ELSE IF d \in DebugDaemons
            THEN Go(d, "boot") /\ cur' = [cur EXCEPT ![d] = None]
            ELSE Go(d, "idle") /\ UNCHANGED cur
    /\ UNCHANGED <<store, blobs, topicVars, age, clientVars, cleanupVars>>

DaemonStep(d) ==
    \/ Boot(d) \/ Pull(d) \/ PullNothing(d) \/ Check(d)
    \/ DaemonUpdatePull(d) \/ GrabPut(d) \/ RunJob(d) \/ Recheck(d)
    \/ Bundle(d) \/ WriteResult(d) \/ FinishPut(d) \/ ErrorPut(d)

Restart(d) ==
    /\ Go(d, "boot")
    /\ cur' = [cur EXCEPT ![d] = None]
    /\ dres' = [dres EXCEPT ![d] = Unset]
    /\ dbuf' = [dbuf EXCEPT ![d] = None]
    /\ UNCHANGED <<store, blobs, topicVars, age, clientVars, cleanupVars>>

\* keep_running() is false after a command to reload or to shut down; the
\* daemon leaves its loop between two jobs.
Exit(d) == dpc[d] = "idle" /\ Restart(d) /\ UNCHANGED spent

\* The daemon's host dies.
Crash(d) == dpc[d] # "boot" /\ Trouble("crash") /\ Restart(d)

(***************************************************************************)
(* "labtool cleanup": Cleanup.run in labtool.py.                           *)
(***************************************************************************)
StartCleanup ==
    /\ kpc = "off"
    /\ Trouble("cleanup")
    /\ kpc' = "query_submitted"
    /\ UNCHANGED <<store, blobs, topicVars, age, clientVars, daemonVars,
                   ktodo, kjob, kbuf, cancelled>>

\* The two queries of line 181, one after the other.
Query ==
    /\ \/ /\ kpc = "query_submitted" /\ kpc' = "query_started"
          /\ ktodo' = {j \in Jobs : IsStatus(j, Submitted)} \X {Submitted}
       \/ /\ kpc = "query_started" /\ kpc' = "next"
          /\ ktodo' = ktodo \cup
                 ({j \in Jobs : IsStatus(j, Started)} \X {Started})
    /\ UNCHANGED <<store, blobs, topicVars, age, clientVars, daemonVars,
                   kjob, kbuf, cancelled, spent>>

\* The next job of the answer: skip it, or pull its record to cancel it.
NextStale ==
    /\ kpc = "next"
    /\ \E e \in ktodo :
        /\ ktodo' = ktodo \ {e}
        /\ \/ age[e[1]] = Fresh /\ UNCHANGED <<kpc, kjob, kbuf>>
           \/ /\ age[e[1]] # Fresh
              /\ kpc' = "put" /\ kjob' = e[1] /\ kbuf' = store[e[1]]
    /\ UNCHANGED <<store, blobs, topicVars, age, clientVars, daemonVars,
                   cancelled, spent>>

CleanupPut ==
    /\ kpc = "put"
    /\ Put(kjob, MarkSettled(kbuf, "timeout"))
    /\ cancelled' = cancelled \cup {kjob}
    /\ kpc' = "next" /\ kjob' = None /\ kbuf' = None
    /\ UNCHANGED <<blobs, topicVars, age, clientVars, daemonVars, ktodo,
                   spent>>

EndCleanup ==
    /\ kpc = "next" /\ ktodo = {}
    /\ kpc' = "off"
    /\ UNCHANGED <<store, blobs, topicVars, age, clientVars, daemonVars,
                   ktodo, kjob, kbuf, cancelled, spent>>

CleanupStep ==
    StartCleanup \/ Query \/ NextStale \/ CleanupPut \/ EndCleanup

(***************************************************************************)
(* The system.                                                             *)
(***************************************************************************)
Next ==
    \/ \E j \in Jobs : ClientStep(j) \/ KillClient(j) \/ Tick(j)
    \/ \E d \in Daemons : DaemonStep(d) \/ PullRaises(d) \/ Fault(d)
                          \/ Exit(d) \/ Crash(d)
    \/ CleanupStep

Spec == Init /\ [][Next]_vars

\* The scheduler runs every started client, and time passes.
ClientFairness == \A j \in Jobs : WF_vars(ClientStep(j)) /\ WF_vars(Tick(j))

\* A daemon that has taken a job goes on with it.  Nothing is assumed of a
\* daemon that is down, or of an idle one's pulls.
DaemonFairness ==
    \A d \in Daemons : WF_vars(dpc[d] \notin {"boot", "idle"} /\ DaemonStep(d))

FairSpec == Spec /\ ClientFairness /\ DaemonFairness

-----------------------------------------------------------------------------
(***************************************************************************)
(* Properties.                                                             *)
(***************************************************************************)
\* Daemon d is between pulling job j and finishing with it.
Runs(d, j) == /\ cur[d] = j
              /\ dpc[d] \in {"check", "grab", "grab_put", "run", "recheck",
                             "bundle", "write_result", "finish", "finish_put"}

\* Daemon d still has an update of job j's record to make.
Handles(d, j) == cur[d] = j /\ dpc[d] \notin {"boot", "idle"}

\* The client of job j has not published it yet.
BeforePublish(j) == cpc[j] \in {"new", "write_file", "push", "publish"}

Settled(j) == IsStatus(j, Completed) \/ IsStatus(j, Error)

\* As long as no message is delivered twice, two daemons never work on the
\* same job: the message is in the subscription or in one daemon's hands,
\* whatever crashes, faults and cancellations do (runlab_daemon.py:205-235).
OneRunner ==
    spent["ack"] = 0 =>
        \A d1, d2 \in Daemons, j \in Jobs :
            Runs(d1, j) /\ Runs(d2, j) => d1 = d2

\* Without crashes and faults no published job is forgotten: while its
\* record says SUBMITTED or STARTED, its message waits in the subscription
\* or a daemon still has its record to update.  The order of the client's
\* lines 543, 556 and 563 and of the daemon's lines 205-289 matters here.
NoJobAbandoned ==
    spent["fault"] = 0 /\ spent["crash"] = 0 =>
        \A j \in Jobs :
            /\ ~BeforePublish(j) /\ answer[j] # "killed"
            /\ ~Settled(j)
            => j \in queue \/ \E d \in Daemons : Handles(d, j)

\* The client's call ends in NotFound or KeyError (Runner.py:613-616), an
\* exception nobody expects, only if an operator cancelled the job.  It
\* needs the result blob stored before the record says COMPLETED, through
\* every interleaving of the pull-then-put updates.
LostResultOnlyIfCancelled ==
    \A j \in Jobs : answer[j] \in {"no_result", "no_zip"} => j \in cancelled

\* Until the client confirms, cancels or an operator cancels, a COMPLETED
\* record reports the status that the stored result reports
\* (runlab_daemon.py:277-288).
RecordAgreesWithResult ==
    \A j \in Jobs :
        /\ spent["ack"] = 0
        /\ IsStatus(j, Completed)
        /\ j \notin cancelled
        /\ cpc[j] \in {"appear", "poll", "confirm", "cancel"}
        => store[j].submission_status = result[j]

\* A record that reached COMPLETED or ERROR is only ever reopened after the
\* client or an operator cancelled the job: a daemon that pulled the record
\* before can still write STARTED over the cancellation.
NoRevival ==
    [][\A j \in Jobs :
        spent["ack"] = 0 /\ Settled(j) /\ ~Settled(j)'
            => j \in cancelled \/ answer[j] = "timeout"]_vars

\* What the client was given is final: the result blob it returned is not
\* overwritten later, unless the job was delivered twice.
ResultFinal ==
    [][\A j \in Jobs :
        spent'["ack"] = 0 /\ answer[j] = "result"
            => result'[j] = result[j]]_vars

\* Every call of run_submission_remotely ends, even if every daemon is dead:
\* the client's own clock ends it (Runner.py:591-598).
ClientEnds == \A j \in Jobs : cpc[j] = "poll" ~> cpc[j] = "done"

\* If its client lives and no daemon crashes or meets a fault, every record
\* is settled for good in the end, also when STARTED was written over a
\* cancellation.
JobSettles ==
    \A j \in Jobs :
        (cpc[j] = "poll") ~> \/ [](Settled(j))
                             \/ answer[j] = "killed"
                             \/ spent["crash"] + spent["fault"] > 0

(***************************************************************************)
(* What the repository says of the code, and the code does not do.         *)
(***************************************************************************)
\* "Something went wrong and {job_id} failed.  Job failed"
\* (runlab_daemon.py:302): a job marked ERROR had not been completed.
FailedMeansFailed ==
    [][\A d \in Daemons : ErrorPut(d) => ~IsStatus(cur[d], Completed)]_vars

(***************************************************************************)
(* The abstract service.  A job is finished when its result is stored.     *)
(***************************************************************************)
Phase(j) ==
    IF result[j] # Unset THEN "finished"
    ELSE IF \E d \in Daemons : Runs(d, j) THEN "running"
    ELSE IF j \in queue THEN "waiting"
    ELSE IF BeforePublish(j) THEN "unsubmitted"
    ELSE "lost"

ReplyOf(j) == IF answer[j] = Unset THEN "pending"
              ELSE IF answer[j] = "result" THEN "result" ELSE "refused"

Service == INSTANCE JobService WITH
    NoOutcome <- Unset,
    phase <- [j \in Jobs |-> Phase(j)],
    outcome <- result,
    reply <- [j \in Jobs |-> ReplyOf(j)]

\* With at-most-once delivery the pipeline implements the service: no job is
\* run twice, and a user is only handed the one result of the job.
ImplementsService == Service!Spec

-----------------------------------------------------------------------------
(***************************************************************************)
(* The inductive invariant behind the safety properties.                   *)
(***************************************************************************)
\* Some daemon may still grab, run or finish job j.
Open(j) == j \in queue \/ \E d \in Daemons : Runs(d, j)

\* A process about to put a record has one to put, and a job that a daemon,
\* the subscription or cleanup knows of has a record.
RecordsExist ==
    /\ \A j \in Jobs :
        /\ cpc[j] \notin {"new", "write_file", "push", "done"}
               => store[j] # None
        /\ cpc[j] \in {"cancel_put", "confirm_put"} => cbuf[j] # None
        /\ cpc[j] \in {"confirm", "confirm_put", "fetch"} => cseen[j] # None
        /\ j \in queue => store[j] # None
    /\ \A d \in Daemons :
        /\ dpc[d] \notin {"boot", "idle"} => cur[d] # None
        /\ cur[d] # None => store[cur[d]] # None
        /\ dpc[d] \in {"grab_put", "finish_put", "error_put"}
               <=> dbuf[d] # None
    /\ \A e \in ktodo : store[e[1]] # None
    /\ kpc = "put" => kjob # None /\ kbuf # None

\* Each message is in one place only, and nowhere before it is published.
OneDelivery ==
    /\ \A j \in Jobs : BeforePublish(j) => ~Open(j)
    /\ spent["ack"] = 0 =>
        \A j \in Jobs, d1 \in Daemons : Runs(d1, j) =>
            j \notin queue /\ \A d2 \in Daemons : Runs(d2, j) => d1 = d2

\* A record that claims an archive belongs to a job with a stored result.
Backed(j, rec) == rec # None => (rec.zip_archive => result[j] # Unset)

ArchivesBacked ==
    /\ \A j \in Jobs : /\ Backed(j, store[j])
                       /\ Backed(j, cseen[j])
                       /\ Backed(j, cbuf[j])
    /\ \A d \in Daemons : cur[d] # None => Backed(cur[d], dbuf[d])
    /\ kjob # None => Backed(kjob, kbuf)

\* A daemon past its run holds a result, and past WriteResult has stored one.
ResultsHeld ==
    \A d \in Daemons :
        /\ dpc[d] \in {"recheck", "bundle", "write_result", "finish",
                       "finish_put"} => dres[d] # Unset
        /\ dpc[d] \in {"finish", "finish_put"} => result[cur[d]] # Unset

\* COMPLETED comes with an archive, from a cancellation, or from the client.
CompletedHasArchive ==
    \A j \in Jobs :
        /\ IsStatus(j, Completed)
               => \/ store[j].zip_archive \/ j \in cancelled
                  \/ cpc[j] \in {"fetch", "done"}
        /\ cpc[j] \in {"confirm", "confirm_put", "fetch"} /\ cseen[j] # None
               => cseen[j].zip_archive \/ j \in cancelled

\* What the safety properties need: all of the above and the property itself.
IndInv ==
    /\ TypeOK
    /\ RecordsExist
    /\ OneDelivery
    /\ ArchivesBacked
    /\ ResultsHeld
    /\ CompletedHasArchive
    /\ LostResultOnlyIfCancelled
=============================================================================
