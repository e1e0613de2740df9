---------------------------- MODULE LocalPubSub ----------------------------
(***************************************************************************)
(* The emulation of Google's publish/subscribe service in a file system    *)
(* (LocalPubSub.py with the constructors and pull of BasePubSub.py).       *)
(*                                                                         *)
(* A subscription is a directory that holds a file "topic" with the name   *)
(* of its topic, and one file per message.  Publishing walks over all the  *)
(* directories, reads "topic" and creates a file in those that match.      *)
(* Pulling lists the directory and claims each message by renaming its     *)
(* file to a fresh "tmp_" name, then reads it and removes it.  The listing *)
(* includes the tmp_ files of others, so a claim can be taken over.  There *)
(* are no locks: every system call below is a step of its own.             *)
(*                                                                         *)
(* A file is a triple <<subscription, message, n>> where n counts the      *)
(* renames the file went through: tmp_ names are fresh, so the pair of     *)
(* message and n stands for the name.                                      *)
(***************************************************************************)
EXTENDS Naturals, FiniteSets

CONSTANTS
    Subs,         \* the subscription directories that may come to exist
    OtherTopic,   \* those of a topic that nobody in the model publishes to
    Pullers,      \* processes that subscribe and pull
    Private,      \* the pullers that delete their subscription on leaving
    Publishers,   \* processes that subscribe and publish one message each
    SubOf,        \* process -> the subscription it constructs
    None,         \* no subscription, no file
    MaxMessages,  \* puller -> the argument max_messages of its pulls
    MaxRenames,   \* bound: renames of one file
    MaxCrashes    \* bound: processes killed

Agents == Pullers \cup Publishers
Slots  == Subs \X Publishers
Files  == Subs \X Publishers \X Nat

ASSUME ConstantsAssumption ==
    /\ OtherTopic \subseteq Subs
    /\ Private \subseteq Pullers
    /\ Pullers \cap Publishers = {}
    /\ SubOf \in [Agents -> Subs]
    /\ None \notin Subs \cup Files
    /\ MaxMessages \in [Pullers -> Nat \ {0}]
    /\ MaxRenames \in Nat /\ MaxCrashes \in Nat

\* A private subscription is named by a uuid (BasePubSub.py:85), and those of
\* a shared one pull a message at a time, the default (BasePubSub.py:114).
ASSUME SharingAssumption ==
    /\ \A p \in Private : \A a \in Agents \ {p} : SubOf[a] # SubOf[p]
    /\ \A p \in Pullers \ Private : MaxMessages[p] = 1

VARIABLES
    dir,        \* subscription -> is there a directory, and its topic file
    files,      \* the message files in all directories
    written,    \* the slots whose file has its contents
    made,       \* history: the slots whose file was created
    pc,         \* process -> its next step
    todo,       \* publisher -> directories of its listing left to visit
    at,         \* publisher -> the directory it is writing to
    items,      \* puller -> files of its listing left to claim
    hold,       \* puller -> the file it has claimed
    whole,      \* puller -> had the file it just read its contents
    got,        \* puller -> what this pull has removed, <<slot, whole>>
    delivered,  \* history: slot -> how often pull returned it
    killed,     \* history: the slots removed by pullers that were killed
    owed,       \* history: publisher -> the complete subscriptions of the
                \* topic when its publication began
    crashes     \* how many processes were killed

diskVars    == <<dir, files, written, made>>
pubVars     == <<todo, at>>
pullVars    == <<items, hold, whole, got>>
pullHistory == <<delivered, killed>>
historyVars == <<pullHistory, owed>>
vars == <<diskVars, pc, pubVars, pullVars, historyVars, crashes>>

DirState == {"none", "bare", "empty", "topic"}
PcState  == {"new", "create", "mkdir", "open_topic", "write_topic", "ready",
             "failed", "publish", "create_file", "write_file", "done",
             "grab", "open", "remove", "return", "rmdir", "left"}

TypeOK ==
    /\ dir \in [Subs -> DirState]
    /\ files \subseteq Files
    /\ written \subseteq Slots
    /\ made \subseteq Slots
    /\ pc \in [Agents -> PcState]
    /\ todo \in [Publishers -> SUBSET Subs]
    /\ at \in [Publishers -> Subs \cup {None}]
    /\ items \in [Pullers -> SUBSET Files]
    /\ hold \in [Pullers -> Files \cup {None}]
    /\ whole \in [Pullers -> BOOLEAN]
    /\ got \in [Pullers -> SUBSET (Slots \X BOOLEAN)]
    /\ delivered \in [Slots -> Nat]
    /\ killed \subseteq Slots
    /\ owed \in [Publishers -> SUBSET Subs]
    /\ crashes \in Nat

Init ==
    /\ dir = [s \in Subs |-> "none"]
    /\ files = {} /\ written = {} /\ made = {}
    /\ pc = [a \in Agents |-> "new"]
    /\ todo = [b \in Publishers |-> {}]
    /\ at = [b \in Publishers |-> None]
    /\ items = [p \in Pullers |-> {}]
    /\ hold = [p \in Pullers |-> None]
    /\ whole = [p \in Pullers |-> FALSE]
    /\ got = [p \in Pullers |-> {}]
    /\ delivered = [s \in Slots |-> 0]
    /\ killed = {} /\ crashes = 0
    /\ owed = [b \in Publishers |-> {}]

Go(a, to) == pc' = [pc EXCEPT ![a] = to]

(***************************************************************************)
(* Constructing a subscriber, which creates a missing subscription.        *)
(***************************************************************************)
CheckExists(a) ==
    /\ pc[a] = "new"
    /\ Go(a, IF dir[SubOf[a]] = "none" THEN "create" ELSE "ready")
    /\ UNCHANGED <<diskVars, pubVars, pullVars, historyVars, crashes>>

\* AlreadyExists leads to get_subscription, which LocalSubscriber lacks.
CheckAgain(a) ==
    /\ pc[a] = "create"
    /\ Go(a, IF dir[SubOf[a]] = "none" THEN "mkdir" ELSE "failed")
    /\ UNCHANGED <<diskVars, pubVars, pullVars, historyVars, crashes>>

\* Mutant: mkdir accepts a directory that exists.
MakeDirectoryAnyway(a) ==
    /\ pc[a] = "mkdir"
    /\ Go(a, "open_topic")
    /\ dir' = [dir EXCEPT ![SubOf[a]] = IF @ = "none" THEN "bare" ELSE @]
    /\ UNCHANGED <<files, written, made, pubVars, pullVars, historyVars,
                   crashes>>

\* mkdir raises FileExistsError, which nobody catches.
MakeDirectory(a) ==
    /\ pc[a] = "mkdir"
    /\ IF dir[SubOf[a]] = "none"
       THEN Go(a, "open_topic") /\ dir' = [dir EXCEPT ![SubOf[a]] = "bare"]
       ELSE Go(a, "failed") /\ UNCHANGED dir
    /\ UNCHANGED <<files, written, made, pubVars, pullVars, historyVars,
                   crashes>>

\* Opening "topic" for writing creates it empty; closing it fills it.
WriteTopic(a) ==
    /\ \/ /\ pc[a] = "open_topic" /\ Go(a, "write_topic")
          /\ dir' = [dir EXCEPT ![SubOf[a]] = "empty"]
       \/ /\ pc[a] = "write_topic" /\ Go(a, "ready")
          /\ dir' = [dir EXCEPT ![SubOf[a]] = "topic"]
    /\ UNCHANGED <<files, written, made, pubVars, pullVars, historyVars,
                   crashes>>

Construct(a) ==
    CheckExists(a) \/ CheckAgain(a) \/ MakeDirectory(a) \/ WriteTopic(a)

(***************************************************************************)
(* Publishing.                                                             *)
(***************************************************************************)
ListSubscriptions(b) ==
    /\ pc[b] = "ready"
    /\ Go(b, "publish")
    /\ todo' = [todo EXCEPT ![b] = {s \in Subs : dir[s] # "none"}]
    /\ owed' = [owed EXCEPT ![b] =
                    {s \in Subs \ OtherTopic : dir[s] = "topic"}]
    /\ UNCHANGED <<diskVars, at, pullVars, pullHistory, crashes>>

\* Mutant: the publication ends at the first directory of another topic.
ReadTopicBreaking(b) ==
    /\ pc[b] = "publish"
    /\ \E s \in todo[b] :
        \/ /\ dir[s] = "topic" /\ s \notin OtherTopic
           /\ todo' = [todo EXCEPT ![b] = @ \ {s}]
           /\ Go(b, "create_file") /\ at' = [at EXCEPT ![b] = s]
        \/ /\ dir[s] # "topic" \/ s \in OtherTopic
           /\ todo' = [todo EXCEPT ![b] = {}]
           /\ UNCHANGED <<pc, at>>
    /\ UNCHANGED <<diskVars, pullVars, historyVars, crashes>>

\* The next directory: skipped when it is gone or its topic differs, and
\* FileNotFoundError, which ends the publication, when it has no topic file
\* or goes after the test that it is there.
ReadTopic(b) ==
    /\ pc[b] = "publish"
    /\ \E s \in todo[b] :
        /\ todo' = [todo EXCEPT ![b] = @ \ {s}]
        /\ \/ /\ dir[s] = "topic" /\ s \notin OtherTopic
              /\ Go(b, "create_file") /\ at' = [at EXCEPT ![b] = s]
           \/ /\ dir[s] \in {"none", "bare"}
              /\ Go(b, "failed") /\ UNCHANGED at
           \/ /\ dir[s] \in {"none", "empty"} \/ s \in OtherTopic
              /\ dir[s] # "bare"
              /\ UNCHANGED <<pc, at>>
    /\ UNCHANGED <<diskVars, pullVars, historyVars, crashes>>

CreateFile(b) ==
    /\ pc[b] = "create_file"
    /\ IF dir[at[b]] = "none"
       THEN Go(b, "failed") /\ UNCHANGED <<files, made>>
       ELSE /\ Go(b, "write_file")
            /\ files' = files \cup {<<at[b], b, 0>>}
            /\ made' = made \cup {<<at[b], b>>}
    /\ UNCHANGED <<dir, written, pubVars, pullVars, historyVars, crashes>>

\* Closing the file fills it, under whatever name it has by then.
WriteFile(b) ==
    /\ pc[b] = "write_file"
    /\ Go(b, "publish")
    /\ written' = written \cup {<<at[b], b>>}
    /\ at' = [at EXCEPT ![b] = None]
    /\ UNCHANGED <<dir, files, made, todo, pullVars, historyVars, crashes>>

EndPublish(b) ==
    /\ pc[b] = "publish" /\ todo[b] = {}
    /\ Go(b, "done")
    /\ UNCHANGED <<diskVars, pubVars, pullVars, historyVars, crashes>>

Publish(b) ==
    \/ ListSubscriptions(b) \/ ReadTopic(b) \/ CreateFile(b) \/ WriteFile(b)
    \/ EndPublish(b)

(***************************************************************************)
(* Pulling.                                                                *)
(***************************************************************************)
ListFiles(p) ==
    /\ pc[p] = "ready"
    /\ Go(p, "grab")
    /\ items' = [items EXCEPT ![p] = {f \in files : f[1] = SubOf[p]}]
    /\ UNCHANGED <<diskVars, pubVars, hold, whole, got, historyVars, crashes>>

\* Rename the next file of the listing, or miss it: someone else got it.
Grab(p) ==
    /\ pc[p] = "grab"
    /\ \E f \in items[p] :
        /\ items' = [items EXCEPT ![p] = @ \ {f}]
        /\ \/ f \notin files /\ UNCHANGED <<pc, files, hold>>
           \/ LET t == <<f[1], f[2], f[3] + 1>> IN
              /\ f \in files /\ f[3] < MaxRenames
              /\ files' = (files \ {f}) \cup {t}
              /\ hold' = [hold EXCEPT ![p] = t]
              /\ Go(p, "open")
    /\ UNCHANGED <<dir, written, made, pubVars, whole, got, historyVars,
                   crashes>>

Slot(f) == <<f[1], f[2]>>

\* The slots that p has removed and not returned yet.
Removed(p) == {g[1] : g \in got[p]}

\* The pull raises: what it had read is forgotten.  The callers go on.
Raise(p) ==
    /\ Go(p, "ready")
    /\ items' = [items EXCEPT ![p] = {}]
    /\ hold' = [hold EXCEPT ![p] = None]
    /\ got' = [got EXCEPT ![p] = {}]
    /\ UNCHANGED files

\* Someone may have renamed the file since; then open raises.
Open(p) ==
    /\ pc[p] = "open"
    /\ IF hold[p] \in files
       THEN /\ Go(p, "remove")
            /\ whole' = [whole EXCEPT ![p] = Slot(hold[p]) \in written]
            /\ UNCHANGED <<files, items, hold, got>>
       ELSE Raise(p) /\ UNCHANGED whole
    /\ UNCHANGED <<dir, written, made, pubVars, historyVars, crashes>>

\* Mutant: the pull does not stop at max_messages.
CountUnlimited(p) ==
    /\ got' = [got EXCEPT ![p] = @ \cup {<<Slot(hold[p]), whole[p]>>}]
    /\ hold' = [hold EXCEPT ![p] = None]
    /\ Go(p, "grab")
    /\ UNCHANGED items

\* Counting a message: the pull ends at max_messages.
Count(p) ==
    /\ got' = [got EXCEPT ![p] = @ \cup {<<Slot(hold[p]), whole[p]>>}]
    /\ hold' = [hold EXCEPT ![p] = None]
    /\ Go(p, IF Cardinality(got[p]) + 1 = MaxMessages[p]
             THEN "return" ELSE "grab")
    /\ UNCHANGED items

\* Mutant: a file that is gone already counts as removed.
RemoveForgiving(p) ==
    /\ pc[p] = "remove"
    /\ files' = files \ {hold[p]}
    /\ Count(p)
    /\ UNCHANGED <<dir, written, made, pubVars, whole, historyVars, crashes>>

Remove(p) ==
    /\ pc[p] = "remove"
    /\ IF hold[p] \in files
       THEN files' = files \ {hold[p]} /\ Count(p)
       ELSE Raise(p)
    /\ UNCHANGED <<dir, written, made, pubVars, whole, historyVars, crashes>>

Return(p) ==
    /\ pc[p] = "return" \/ (pc[p] = "grab" /\ items[p] = {})
    /\ Go(p, "ready")
    /\ delivered' = [s \in Slots |->
           IF s \in Removed(p) THEN delivered[s] + 1 ELSE delivered[s]]
    /\ items' = [items EXCEPT ![p] = {}]
    /\ got' = [got EXCEPT ![p] = {}]
    /\ UNCHANGED <<diskVars, pubVars, hold, whole, killed, owed, crashes>>

\* __exit__ of a private subscriber: rmtree first removes the files that it
\* lists, the topic among them.  A shared subscription is only deleted by force,
\* which a client does to the namespace of its own local daemon after that has
\* ended, and no step here: TopicStands and NothingLost rest on that.
Leave(p) ==
    /\ p \in Private /\ pc[p] = "ready"
    /\ Go(p, "rmdir")
    /\ dir' = [dir EXCEPT ![SubOf[p]] = "bare"]
    /\ files' = {f \in files : f[1] # SubOf[p]}
    /\ UNCHANGED <<written, made, pubVars, pullVars, historyVars, crashes>>

\* and then the directory, which fails when a message has come in between.
RemoveDirectory(p) ==
    /\ p \in Private /\ pc[p] = "rmdir"
    /\ IF \E f \in files : f[1] = SubOf[p]
       THEN Go(p, "failed") /\ UNCHANGED dir
       ELSE Go(p, "left") /\ dir' = [dir EXCEPT ![SubOf[p]] = "none"]
    /\ UNCHANGED <<files, written, made, pubVars, pullVars, historyVars,
                   crashes>>

Pull(p) ==
    \/ ListFiles(p) \/ Grab(p) \/ Open(p) \/ Remove(p) \/ Return(p)
    \/ Leave(p) \/ RemoveDirectory(p)

\* A puller is killed.  It starts again, a private one under a new name that
\* is none of the model's.
Crash(p) ==
    /\ crashes < MaxCrashes
    /\ pc[p] \notin {"new", "failed", "left"}
    /\ crashes' = crashes + 1
    /\ Go(p, IF p \in Private THEN "left" ELSE "new")
    /\ killed' = killed \cup Removed(p)
    /\ items' = [items EXCEPT ![p] = {}]
    /\ hold' = [hold EXCEPT ![p] = None]
    /\ got' = [got EXCEPT ![p] = {}]
    /\ UNCHANGED <<diskVars, pubVars, whole, delivered, owed>>

Next ==
    \/ \E a \in Agents : Construct(a)
    \/ \E b \in Publishers : Publish(b)
    \/ \E p \in Pullers : Pull(p) \/ Crash(p)

Spec == Init /\ [][Next]_vars

-----------------------------------------------------------------------------
(***************************************************************************)
(* Properties.                                                             *)
(***************************************************************************)
OnDisk(s) == \E f \in files : Slot(f) = s

\* No subscription delivers a message twice, though a listing shows the tmp_
\* files of other pullers and one can take over what another has claimed or
\* even read: whoever removes the file delivers it (LocalPubSub.py:115-129).
AtMostOnce == \A s \in Slots : delivered[s] <= 1

\* Every message a subscription received is in its directory, delivered, in
\* the hands of a puller that will return it, or went with a puller that was
\* killed or with a private subscription whose owner left.  A pull that
\* raises because another took over its claim loses nothing: shared
\* subscriptions are pulled one message at a time (LocalPubSub.py:124-132).
NothingLost ==
    \A s \in made :
        \/ OnDisk(s) \/ delivered[s] > 0 \/ s \in killed
        \/ \E p \in Pullers : s \in Removed(p)
        \/ \E p \in Private : SubOf[p] = s[1]
                              /\ pc[p] \in {"rmdir", "left", "failed"}

SharedSubs == Subs \ {SubOf[p] : p \in Private}

\* The topic of a shared subscription, once written, is never touched again,
\* whoever else constructs a subscriber of the same name at the same time: a
\* truncated topic file would hide the subscription from publishers
\* (LocalPubSub.py:100-106).
TopicStands ==
    [][\A s \in SharedSubs : dir[s] = "topic" => dir'[s] = "topic"]_vars

\* A publication that ends without an exception reached every subscription of
\* its topic that was complete when it began, unless its owner has deleted it
\* since (LocalPubSub.py:67-80).
ReachesAll ==
    \A b \in Publishers : pc[b] = "done" =>
        \A s \in owed[b] : <<s, b>> \in made \/ dir[s] # "topic"

-----------------------------------------------------------------------------
(***************************************************************************)
(* What the emulation promises: the abstract service.                      *)
(***************************************************************************)
Waiting  == {s \in Slots : OnDisk(s)}
Returned == {s \in Slots : delivered[s] > 0}
Vanished == {s \in made : /\ ~OnDisk(s) /\ delivered[s] = 0
                          /\ \A p \in Pullers : s \notin Removed(p)}

Promise == INSTANCE PubSub WITH
    Subs <- Subs \ OtherTopic,
    Owned <- {SubOf[p] : p \in Private},
    Senders <- Publishers,
    Readers <- Pullers,
    Limit <- MaxMessages,
    queued <- Waiting,
    taken <- [p \in Pullers |-> Removed(p)],
    delivered <- Returned,
    lost <- Vanished

\* Whoever lists, renames and removes files at the same time: a message that
\* was put into a subscription of its topic is in one place at any time, is
\* removed by one puller of that subscription, and is then returned by the
\* pull that removed it, which returns no more than it was asked for; it is
\* lost only with a puller that was killed or a directory that was taken down
\* (LocalPubSub.py:64-80, 109-135).
ImplementsPubSub == Promise!Spec

-----------------------------------------------------------------------------
(***************************************************************************)
(* The inductive invariant behind AtMostOnce and TopicStands.              *)
(***************************************************************************)
\* A message has one file per subscription, whatever its name is by now.
OneFile == \A f, g \in files : Slot(f) = Slot(g) => f = g

\* A publisher has not written to the directories it has yet to visit.
Unvisited ==
    \A b \in Publishers :
        /\ pc[b] \notin {"publish", "create_file", "write_file", "done",
                         "failed"} => \A s \in Subs : <<s, b>> \notin made
        /\ pc[b] \in {"publish", "create_file", "write_file"} =>
              \A s \in todo[b] : <<s, b>> \notin made
        /\ pc[b] \in {"create_file", "write_file"} =>
              at[b] \in Subs /\ at[b] \notin todo[b]
        /\ pc[b] = "create_file" => <<at[b], b>> \notin made

\* A message is in one place: its file, one puller, or delivered.
OnePlace ==
    \A s \in Slots :
        /\ s \notin made => /\ ~OnDisk(s) /\ delivered[s] = 0
                            /\ \A p \in Pullers : s \notin Removed(p)
        /\ OnDisk(s) => /\ delivered[s] = 0
                        /\ \A p \in Pullers : s \notin Removed(p)
        /\ \A p, q \in Pullers :
              s \in Removed(p) => /\ delivered[s] = 0
                                  /\ s \in Removed(q) => p = q

\* Only the process whose mkdir succeeded is writing a shared topic file.
OneCreator ==
    \A a \in Agents :
        pc[a] \in {"open_topic", "write_topic"} /\ SubOf[a] \in SharedSubs =>
            /\ dir[SubOf[a]] \in {"bare", "empty"}
            /\ \A c \in Agents :
                  pc[c] \in {"open_topic", "write_topic"}
                  /\ SubOf[c] = SubOf[a] => c = a

HoldsFile ==
    \A p \in Pullers : pc[p] \in {"open", "remove"} => hold[p] \in Files

IndInv ==
    /\ TypeOK /\ OneFile /\ Unvisited /\ OnePlace /\ HoldsFile
    /\ OneCreator /\ AtMostOnce
=============================================================================
