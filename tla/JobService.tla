---------------------------- MODULE JobService ----------------------------
(***************************************************************************)
(* What the job pipeline promises to a user when the message queue         *)
(* delivers every message at most once: a job is run at most once, a run   *)
(* leaves at most one result, the result never changes, and a user who is  *)
(* handed a result is handed that one.  A job may be lost instead, at any  *)
(* time, and a user may be refused at any time.                            *)
(*                                                                         *)
(* ArchCloudJobs implements this module; see Service there.                *)
(***************************************************************************)
CONSTANTS
    Jobs,       \* the jobs, one per user
    Outcomes,   \* what a run can report
    NoOutcome   \* the outcome of a job without a result

VARIABLES
    phase,      \* job -> how far the service has come with it
    outcome,    \* job -> the stored result, or NoOutcome
    reply       \* job -> what its user has been told

vars == <<phase, outcome, reply>>

Init ==
    /\ phase = [j \in Jobs |-> "unsubmitted"]
    /\ outcome = [j \in Jobs |-> NoOutcome]
    /\ reply = [j \in Jobs |-> "pending"]

Move(j, from, to) ==
    /\ phase[j] \in from
    /\ phase' = [phase EXCEPT ![j] = to]

Submit(j) == /\ Move(j, {"unsubmitted"}, "waiting")
             /\ UNCHANGED <<outcome, reply>>

Take(j) == Move(j, {"waiting"}, "running") /\ UNCHANGED <<outcome, reply>>

Finish(j) ==
    /\ Move(j, {"running"}, "finished")
    /\ \E o \in Outcomes : outcome' = [outcome EXCEPT ![j] = o]
    /\ UNCHANGED reply

\* The service forgets the job; its user may be gone as well.
Lose(j) ==
    /\ Move(j, {"unsubmitted", "waiting", "running"}, "lost")
    /\ \/ UNCHANGED reply
       \/ reply[j] = "pending" /\ reply' = [reply EXCEPT ![j] = "refused"]
    /\ UNCHANGED outcome

Reply(j) ==
    /\ reply[j] = "pending"
    /\ \/ reply' = [reply EXCEPT ![j] = "refused"]
       \/ phase[j] = "finished" /\ reply' = [reply EXCEPT ![j] = "result"]
    /\ UNCHANGED <<phase, outcome>>

Next == \E j \in Jobs :
            Submit(j) \/ Take(j) \/ Finish(j) \/ Lose(j) \/ Reply(j)

Spec == Init /\ [][Next]_vars
=============================================================================
