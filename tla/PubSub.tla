------------------------------- MODULE PubSub -------------------------------
(***************************************************************************)
(* What publish/subscribe promises when nothing is delivered again: each   *)
(* subscription of the topic gets a message once or not at all; a reader   *)
(* takes messages of its subscription one by one, up to a limit, and then  *)
(* returns all it took.  A message is lost only with the reader that took  *)
(* it, or with the subscription, if it is one that its owner takes down.   *)
(* Nothing is said of order.                                               *)
(*                                                                         *)
(* LocalPubSub implements this module; see Promise there.                  *)
(***************************************************************************)
EXTENDS Naturals, FiniteSets

CONSTANTS
    Subs,       \* the subscriptions of the topic
    Owned,      \* those that are taken down
    Senders,    \* publishers, of a message each
    Readers,
    SubOf,      \* reader -> its subscription
    Limit       \* reader -> how many messages it returns at most

VARIABLES
    queued,     \* pairs of subscription and sender: the message waits there,
    taken,      \* reader -> those it has taken,
    delivered,  \* was returned,
    lost        \* or never will be

vars == <<queued, taken, delivered, lost>>

Known == queued \cup delivered \cup lost \cup UNION {taken[r] : r \in Readers}

Init ==
    /\ queued = {} /\ delivered = {} /\ lost = {}
    /\ taken = [r \in Readers |-> {}]

Send(m) ==
    /\ m \notin Known
    /\ queued' = queued \cup {m}
    /\ UNCHANGED <<taken, delivered, lost>>

Take(r, m) ==
    /\ m \in queued /\ m[1] = SubOf[r]
    /\ Cardinality(taken[r]) < Limit[r]
    /\ queued' = queued \ {m}
    /\ taken' = [taken EXCEPT ![r] = @ \cup {m}]
    /\ UNCHANGED <<delivered, lost>>

Return(r) ==
    /\ delivered' = delivered \cup taken[r]
    /\ taken' = [taken EXCEPT ![r] = {}]
    /\ UNCHANGED <<queued, lost>>

\* The reader is killed.
Die(r) ==
    /\ lost' = lost \cup taken[r]
    /\ taken' = [taken EXCEPT ![r] = {}]
    /\ UNCHANGED <<queued, delivered>>

TakeDown(sub) ==
    /\ queued' = {m \in queued : m[1] # sub}
    /\ lost' = lost \cup {m \in queued : m[1] = sub}
    /\ UNCHANGED <<taken, delivered>>

Next ==
    \/ \E m \in Subs \X Senders : Send(m)
    \/ \E r \in Readers : \/ Return(r) \/ Die(r)
                          \/ \E m \in queued : Take(r, m)
    \/ \E sub \in Owned : TakeDown(sub)

Spec == Init /\ [][Next]_vars
=============================================================================
