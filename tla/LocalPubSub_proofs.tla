------------------------ MODULE LocalPubSub_proofs -------------------------
(***************************************************************************)
(* Proofs that the emulated subscription delivers each message at most     *)
(* once and loses none, and that publications reach every complete         *)
(* subscription, for any set of publishers, pullers and subscriptions and  *)
(* any number of crashes; and that the directories implement the abstract  *)
(* service of PubSub.                                                      *)
(*                                                                         *)
(* The argument: a message has at most one file in a subscription (OneFile *)
(* -- publishers visit a directory once, and a rename replaces the name),  *)
(* so of the pullers that hold a name of the file, one succeeds to remove  *)
(* it; from then on the message is in that puller's hands only (OnePlace). *)
(* For the service, a message waits while its file exists under any name;  *)
(* creating the file sends it, removing the file takes it, and the system  *)
(* calls in between (listing, renaming, opening) are no step of the        *)
(* service at all.                                                         *)
(***************************************************************************)
EXTENDS LocalPubSub, FiniteSetTheorems, TLAPS

\* The initial state satisfies the inductive invariant.
LEMMA InitInv == Init => IndInv
<1> SUFFICES ASSUME Init PROVE IndInv OBVIOUS
<1> USE ConstantsAssumption DEF Init
<1>1. TypeOK BY DEF TypeOK, Slots, Agents, DirState, PcState
<1>2. OneFile BY DEF OneFile
<1>3. Unvisited BY DEF Unvisited, Agents
<1>4. \A p \in Pullers : Removed(p) = {} BY DEF Removed
<1>5. OnePlace BY <1>4 DEF OnePlace, OnDisk
<1>6. HoldsFile BY DEF HoldsFile, Agents
<1>7. AtMostOnce BY DEF AtMostOnce
<1>8. OneCreator BY DEF OneCreator
<1> QED BY <1>1, <1>2, <1>3, <1>5, <1>6, <1>7, <1>8 DEF IndInv

\* Every step preserves the types.
LEMMA TypeStep == TypeOK /\ Unvisited /\ HoldsFile /\ [Next]_vars => TypeOK'
<1> SUFFICES ASSUME TypeOK, Unvisited, HoldsFile, [Next]_vars PROVE TypeOK'
    OBVIOUS
<1> USE ConstantsAssumption
    DEF TypeOK, Agents, Slots, Files, DirState, PcState, Go, Slot,
        diskVars, pubVars, pullVars, pullHistory, historyVars
<1>0. ASSUME NEW a \in Agents, NEW to \in PcState, Go(a, to)
      PROVE  pc' \in [Agents -> PcState]
  BY <1>0
<1>1. ASSUME NEW a \in Agents, Construct(a) PROVE TypeOK'
  <2>1. CASE CheckExists(a)
    BY <2>1 DEF CheckExists
  <2>2. CASE CheckAgain(a)
    BY <2>2 DEF CheckAgain
  <2>3. CASE MakeDirectory(a)
    <3>1. SubOf[a] \in Subs BY <1>1
    <3>2. dir' \in [Subs -> DirState]
      BY <2>3, <3>1 DEF MakeDirectory
    <3>3. pc' \in [Agents -> PcState]
      BY <2>3 DEF MakeDirectory
    <3> QED BY <2>3, <3>2, <3>3 DEF MakeDirectory
  <2>4. CASE WriteTopic(a)
    BY <2>4 DEF WriteTopic
  <2> QED BY <1>1, <2>1, <2>2, <2>3, <2>4 DEF Construct
<1>2. ASSUME NEW b \in Publishers, Publish(b) PROVE TypeOK'
  <2>1. CASE ListSubscriptions(b)
    BY <2>1 DEF ListSubscriptions
  <2>2. CASE ReadTopic(b)
    <3>1. PICK s \in todo[b] :
              /\ todo' = [todo EXCEPT ![b] = @ \ {s}]
              /\ \/ Go(b, "create_file") /\ at' = [at EXCEPT ![b] = s]
                 \/ Go(b, "failed") /\ UNCHANGED at
                 \/ UNCHANGED <<pc, at>>
      BY <2>2 DEF ReadTopic
    <3>2. s \in Subs OBVIOUS
    <3>3. todo' \in [Publishers -> SUBSET Subs] BY <3>1
    <3>4. pc' \in [Agents -> PcState] BY <3>1
    <3>5. at' \in [Publishers -> Subs \cup {None}] BY <3>1, <3>2
    <3>6. UNCHANGED <<diskVars, pullVars, historyVars, crashes>>
      BY <2>2 DEF ReadTopic
    <3> QED BY <3>3, <3>4, <3>5, <3>6
  <2>3. CASE CreateFile(b)
    <3>1. <<at[b], b>> \in Slots /\ <<at[b], b, 0>> \in Files
      BY <2>3 DEF CreateFile, Unvisited
    <3>2. /\ files' \subseteq files \cup {<<at[b], b, 0>>}
          /\ made' \subseteq made \cup {<<at[b], b>>}
      BY <2>3 DEF CreateFile
    <3>3. pc' \in [Agents -> PcState]
      <4>1. Go(b, "failed") \/ Go(b, "write_file") BY <2>3 DEF CreateFile
      <4> QED BY <4>1, <1>0
    <3> HIDE DEF Files, Slots
    <3>4. files' \subseteq Files /\ made' \subseteq Slots
      BY <3>1, <3>2
    <3>5. UNCHANGED <<dir, written, pubVars, pullVars, historyVars, crashes>>
      BY <2>3 DEF CreateFile
    <3> QED BY <3>3, <3>4, <3>5
  <2>4. CASE WriteFile(b)
    BY <2>4 DEF WriteFile, Unvisited
  <2>5. CASE EndPublish(b)
    BY <2>5 DEF EndPublish
  <2> QED BY <1>2, <2>1, <2>2, <2>3, <2>4, <2>5 DEF Publish
<1>3. ASSUME NEW p \in Pullers, Pull(p) \/ Crash(p) PROVE TypeOK'
  <2>1. CASE ListFiles(p)
    BY <2>1 DEF ListFiles
  <2>2. CASE Grab(p)
    <3>1. PICK f \in items[p] :
              /\ items' = [items EXCEPT ![p] = @ \ {f}]
              /\ \/ UNCHANGED <<pc, files, hold>>
                 \/ /\ f[3] < MaxRenames
                    /\ files' = (files \ {f}) \cup {<<f[1], f[2], f[3] + 1>>}
                    /\ hold' = [hold EXCEPT ![p] = <<f[1], f[2], f[3] + 1>>]
                    /\ Go(p, "open")
      BY <2>2 DEF Grab
    <3>2. f \in Files OBVIOUS
    <3>3. f[3] < MaxRenames => <<f[1], f[2], f[3] + 1>> \in Files BY <3>2
    <3>4. items' \in [Pullers -> SUBSET Files] BY <3>1
    <3>5. files' \subseteq Files BY <3>1, <3>3
    <3>6. hold' \in [Pullers -> Files \cup {None}] BY <3>1, <3>3
    <3>7. pc' \in [Agents -> PcState] BY <3>1
    <3> QED BY <2>2, <3>4, <3>5, <3>6, <3>7 DEF Grab
  <2>3. CASE Open(p)
    <3>1. CASE hold[p] \in files
      <4> DEFINE w == Slot(hold[p]) \in written
      <4>1. w \in BOOLEAN OBVIOUS
      <4>2. whole' = [whole EXCEPT ![p] = w]
        BY <2>3, <3>1 DEF Open
      <4> HIDE DEF w
      <4>3. whole' \in [Pullers -> BOOLEAN] BY <4>1, <4>2
      <4>4. pc' \in [Agents -> PcState] BY <3>1, <2>3 DEF Open
      <4>5. /\ UNCHANGED <<files, items, hold, got>>
            /\ UNCHANGED <<dir, written, made, pubVars, historyVars, crashes>>
        BY <3>1, <2>3 DEF Open
      <4> QED BY <4>3, <4>4, <4>5
    <3>2. CASE hold[p] \notin files
      <4>1. Raise(p) /\ UNCHANGED whole BY <2>3, <3>2 DEF Open
      <4> QED BY <4>1, <2>3 DEF Open, Raise
    <3> QED BY <3>1, <3>2
  <2>4. CASE Remove(p)
    <3>1. <<Slot(hold[p]), whole[p]>> \in Slots \X BOOLEAN
      BY <2>4 DEF Remove, HoldsFile
    <3>2. got' \in [Pullers -> SUBSET (Slots \X BOOLEAN)]
      BY <2>4, <3>1 DEF Remove, Raise, Count
    <3>3. pc' \in [Agents -> PcState]
      <4>1. Go(p, "ready") \/ Go(p, "return") \/ Go(p, "grab")
        BY <2>4 DEF Remove, Raise, Count
      <4> QED BY <4>1, <1>0
    <3>4. hold' \in [Pullers -> Files \cup {None}]
      <4>1. hold' = [hold EXCEPT ![p] = None] BY <2>4 DEF Remove, Raise, Count
      <4> QED BY <4>1
    <3>5. items' \in [Pullers -> SUBSET Files]
      <4>1. UNCHANGED items \/ items' = [items EXCEPT ![p] = {}]
        BY <2>4 DEF Remove, Raise, Count
      <4> QED BY <4>1
    <3>6. files' \subseteq files
      BY <2>4 DEF Remove, Raise
    <3> HIDE DEF Files, Slots
    <3>7. files' \subseteq Files
      BY <3>6
    <3> QED BY <3>2, <3>3, <3>7, <3>4, <3>5, <2>4 DEF Remove
  <2>5. CASE Return(p)
    <3>1. delivered' \in [Slots -> Nat]
      BY <2>5 DEF Return
    <3>2. pc' \in [Agents -> PcState]
          /\ items' \in [Pullers -> SUBSET Files]
          /\ got' \in [Pullers -> SUBSET (Slots \X BOOLEAN)]
      BY <2>5 DEF Return
    <3> QED BY <3>1, <3>2, <2>5 DEF Return
  <2>6. CASE Leave(p)
    BY <2>6 DEF Leave
  <2>7. CASE RemoveDirectory(p)
    BY <2>7 DEF RemoveDirectory
  <2>8. CASE Crash(p)
    BY <2>8 DEF Crash, Removed
  <2> QED BY <1>3, <2>1, <2>2, <2>3, <2>4, <2>5, <2>6, <2>7, <2>8 DEF Pull
<1>4. CASE UNCHANGED vars BY <1>4 DEF vars
<1> QED BY <1>1, <1>2, <1>3, <1>4 DEF Next

\* A puller that is reading or removing has a file name.
LEMMA HoldsFileStep == TypeOK /\ HoldsFile /\ [Next]_vars => HoldsFile'
<1> SUFFICES ASSUME TypeOK, HoldsFile, [Next]_vars PROVE HoldsFile'
    OBVIOUS
<1> USE ConstantsAssumption
    DEF TypeOK, Agents, Slots, Files, Go, Slot, HoldsFile,
        diskVars, pubVars, pullVars, pullHistory, historyVars
<1>1. ASSUME NEW a \in Agents, Construct(a) PROVE HoldsFile'
  <2>1. CASE CheckExists(a)
    BY <2>1 DEF CheckExists
  <2>2. CASE CheckAgain(a)
    BY <2>2 DEF CheckAgain
  <2>3. CASE MakeDirectory(a)
    BY <2>3 DEF MakeDirectory
  <2>4. CASE WriteTopic(a)
    BY <2>4 DEF WriteTopic
  <2> QED BY <1>1, <2>1, <2>2, <2>3, <2>4 DEF Construct
<1>2. ASSUME NEW b \in Publishers, Publish(b) PROVE HoldsFile'
  <2>1. CASE ListSubscriptions(b)
    BY <2>1 DEF ListSubscriptions
  <2>2. CASE ReadTopic(b)
    BY <2>2 DEF ReadTopic
  <2>3. CASE CreateFile(b)
    BY <2>3 DEF CreateFile
  <2>4. CASE WriteFile(b)
    BY <2>4 DEF WriteFile
  <2>5. CASE EndPublish(b)
    BY <2>5 DEF EndPublish
  <2> QED BY <1>2, <2>1, <2>2, <2>3, <2>4, <2>5 DEF Publish
<1>3. ASSUME NEW p \in Pullers, Pull(p) \/ Crash(p) PROVE HoldsFile'
  <2>1. CASE ListFiles(p)
    BY <2>1 DEF ListFiles
  <2>2. CASE Grab(p)
    <3>1. PICK f \in items[p] :
              \/ UNCHANGED <<pc, hold>>
              \/ hold' = [hold EXCEPT ![p] = <<f[1], f[2], f[3] + 1>>]
                 /\ Go(p, "open")
      BY <2>2 DEF Grab
    <3>2. <<f[1], f[2], f[3] + 1>> \in Files OBVIOUS
    <3> QED BY <3>1, <3>2
  <2>3. CASE Open(p)
    BY <2>3 DEF Open, Raise
  <2>4. CASE Remove(p)
    BY <2>4 DEF Remove, Raise, Count
  <2>5. CASE Return(p)
    BY <2>5 DEF Return
  <2>6. CASE Leave(p)
    BY <2>6 DEF Leave
  <2>7. CASE RemoveDirectory(p)
    BY <2>7 DEF RemoveDirectory
  <2>8. CASE Crash(p)
    BY <2>8 DEF Crash
  <2> QED BY <1>3, <2>1, <2>2, <2>3, <2>4, <2>5, <2>6, <2>7, <2>8 DEF Pull
<1>4. CASE UNCHANGED vars BY <1>4 DEF vars
<1> QED BY <1>1, <1>2, <1>3, <1>4 DEF Next

\* Publishers visit a directory at most once.
LEMMA UnvisitedStep == TypeOK /\ Unvisited /\ [Next]_vars => Unvisited'
<1> SUFFICES ASSUME TypeOK, Unvisited, [Next]_vars PROVE Unvisited'
    OBVIOUS
<1> USE ConstantsAssumption
    DEF TypeOK, Agents, Slots, Files, Go, Slot, Unvisited,
        diskVars, pubVars, pullVars, pullHistory, historyVars
<1>1. ASSUME NEW a \in Agents, Construct(a) PROVE Unvisited'
  <2>1. CASE CheckExists(a)
    BY <2>1 DEF CheckExists
  <2>2. CASE CheckAgain(a)
    BY <2>2 DEF CheckAgain
  <2>3. CASE MakeDirectory(a)
    BY <2>3 DEF MakeDirectory
  <2>4. CASE WriteTopic(a)
    BY <2>4 DEF WriteTopic
  <2> QED BY <1>1, <2>1, <2>2, <2>3, <2>4 DEF Construct
<1>2. ASSUME NEW b \in Publishers, Publish(b) PROVE Unvisited'
  <2>1. CASE ListSubscriptions(b)
    BY <2>1 DEF ListSubscriptions
  <2>2. CASE ReadTopic(b)
    <3>1. PICK s \in todo[b] :
              /\ todo' = [todo EXCEPT ![b] = @ \ {s}]
              /\ \/ Go(b, "create_file") /\ at' = [at EXCEPT ![b] = s]
                 \/ Go(b, "failed") /\ UNCHANGED at
                 \/ UNCHANGED <<pc, at>>
      BY <2>2 DEF ReadTopic
    <3>2. s \in Subs /\ UNCHANGED made /\ pc[b] = "publish"
      BY <2>2 DEF ReadTopic
    <3>3. \A c \in Publishers \ {b} :
            pc'[c] = pc[c] /\ todo'[c] = todo[c] /\ at'[c] = at[c]
      BY <3>1
    <3>4. /\ todo'[b] = todo[b] \ {s}
          /\ \/ pc'[b] = "create_file" /\ at'[b] = s
             \/ pc'[b] = "failed"
             \/ pc'[b] = "publish"
      BY <3>1, <3>2
    <3>5. \A r \in todo[b] : <<r, b>> \notin made BY <3>2
    <3> QED BY <3>2, <3>3, <3>4, <3>5
  <2>3. CASE CreateFile(b)
    <3>1. CASE pc'[b] = "failed" /\ UNCHANGED made
      BY <2>3, <3>1 DEF CreateFile
    <3>2. CASE pc'[b] = "write_file" /\ made' = made \cup {<<at[b], b>>}
      BY <2>3, <3>2 DEF CreateFile
    <3> QED BY <2>3, <3>1, <3>2 DEF CreateFile
  <2>4. CASE WriteFile(b)
    BY <2>4 DEF WriteFile
  <2>5. CASE EndPublish(b)
    BY <2>5 DEF EndPublish
  <2> QED BY <1>2, <2>1, <2>2, <2>3, <2>4, <2>5 DEF Publish
<1>3. ASSUME NEW p \in Pullers, Pull(p) \/ Crash(p) PROVE Unvisited'
  <2>1. CASE ListFiles(p)
    BY <2>1 DEF ListFiles
  <2>2. CASE Grab(p)
    BY <2>2 DEF Grab
  <2>3. CASE Open(p)
    BY <2>3 DEF Open, Raise
  <2>4. CASE Remove(p)
    BY <2>4 DEF Remove, Raise, Count
  <2>5. CASE Return(p)
    BY <2>5 DEF Return
  <2>6. CASE Leave(p)
    BY <2>6 DEF Leave
  <2>7. CASE RemoveDirectory(p)
    BY <2>7 DEF RemoveDirectory
  <2>8. CASE Crash(p)
    BY <2>8 DEF Crash
  <2> QED BY <1>3, <2>1, <2>2, <2>3, <2>4, <2>5, <2>6, <2>7, <2>8 DEF Pull
<1>4. CASE UNCHANGED vars BY <1>4 DEF vars
<1> QED BY <1>1, <1>2, <1>3, <1>4 DEF Next

\* A rename replaces the name of a file, so a message keeps a single one.
LEMMA OneFileStep ==
    TypeOK /\ OneFile /\ Unvisited /\ OnePlace /\ [Next]_vars => OneFile'
<1> SUFFICES ASSUME TypeOK, OneFile, Unvisited, OnePlace, [Next]_vars
             PROVE  OneFile'
    OBVIOUS
<1> USE ConstantsAssumption
    DEF TypeOK, Agents, Slots, Files, Go, Slot, OneFile,
        diskVars, pubVars, pullVars, pullHistory, historyVars
<1>1. ASSUME NEW a \in Agents, Construct(a) PROVE OneFile'
  <2>1. CASE CheckExists(a)
    BY <2>1 DEF CheckExists
  <2>2. CASE CheckAgain(a)
    BY <2>2 DEF CheckAgain
  <2>3. CASE MakeDirectory(a)
    BY <2>3 DEF MakeDirectory
  <2>4. CASE WriteTopic(a)
    BY <2>4 DEF WriteTopic
  <2> QED BY <1>1, <2>1, <2>2, <2>3, <2>4 DEF Construct
<1>2. ASSUME NEW b \in Publishers, Publish(b) PROVE OneFile'
  <2>1. CASE ListSubscriptions(b)
    BY <2>1 DEF ListSubscriptions
  <2>2. CASE ReadTopic(b)
    BY <2>2 DEF ReadTopic
  <2>3. CASE CreateFile(b)
    <3>1. \A f \in files : Slot(f) # <<at[b], b>>
      <4>1. <<at[b], b>> \in Slots /\ <<at[b], b>> \notin made
        BY <2>3 DEF CreateFile, Unvisited
      <4> QED BY <4>1 DEF OnePlace, OnDisk
    <3>2. files' \subseteq files \cup {<<at[b], b, 0>>}
      BY <2>3 DEF CreateFile
    <3>3. Slot(<<at[b], b, 0>>) = <<at[b], b>> OBVIOUS
    <3> QED BY <3>1, <3>2, <3>3
  <2>4. CASE WriteFile(b)
    BY <2>4 DEF WriteFile
  <2>5. CASE EndPublish(b)
    BY <2>5 DEF EndPublish
  <2> QED BY <1>2, <2>1, <2>2, <2>3, <2>4, <2>5 DEF Publish
<1>3. ASSUME NEW p \in Pullers, Pull(p) \/ Crash(p) PROVE OneFile'
  <2>1. CASE ListFiles(p)
    BY <2>1 DEF ListFiles
  <2>2. CASE Grab(p)
    <3>1. PICK f \in items[p] :
              \/ UNCHANGED files
              \/ /\ f \in files
                 /\ files' = (files \ {f}) \cup {<<f[1], f[2], f[3] + 1>>}
      BY <2>2 DEF Grab
    <3>2. Slot(<<f[1], f[2], f[3] + 1>>) = Slot(f) OBVIOUS
    <3>3. ASSUME NEW g \in files', NEW h \in files', Slot(g) = Slot(h)
          PROVE  g = h
      <4>1. CASE UNCHANGED files BY <4>1, <3>3
      <4>2. CASE f \in files
                 /\ files' = (files \ {f}) \cup {<<f[1], f[2], f[3] + 1>>}
        <5> DEFINE t == <<f[1], f[2], f[3] + 1>>
        <5>1. \A k \in files' : k = t \/ k \in files \ {f} BY <4>2
        <5>2. \A k \in files \ {f} : Slot(k) # Slot(f) BY <4>2
        <5>3. Slot(t) = Slot(f) BY <3>2
        <5> HIDE DEF t, Slot
        <5> QED BY <5>1, <5>2, <5>3, <3>3
      <4> QED BY <3>1, <4>1, <4>2
    <3> QED BY <3>3
  <2>3. CASE Open(p)
    BY <2>3 DEF Open, Raise
  <2>4. CASE Remove(p)
    BY <2>4 DEF Remove, Raise, Count
  <2>5. CASE Return(p)
    BY <2>5 DEF Return
  <2>6. CASE Leave(p)
    BY <2>6 DEF Leave
  <2>7. CASE RemoveDirectory(p)
    BY <2>7 DEF RemoveDirectory
  <2>8. CASE Crash(p)
    BY <2>8 DEF Crash
  <2> QED BY <1>3, <2>1, <2>2, <2>3, <2>4, <2>5, <2>6, <2>7, <2>8 DEF Pull
<1>4. CASE UNCHANGED vars BY <1>4 DEF vars
<1> QED BY <1>1, <1>2, <1>3, <1>4 DEF Next

\* A step that makes no message and only takes messages out of files and out
\* of hands keeps every message in one place.
LEMMA FewerPlaces ==
    ASSUME OnePlace, made' = made, delivered' = delivered,
           \A s \in Slots : OnDisk(s)' => OnDisk(s),
           \A p \in Pullers : Removed(p)' \subseteq Removed(p)
    PROVE  OnePlace'
BY DEF OnePlace

\* Whoever removes the file of a message is the only one to have it.
LEMMA OnePlaceStep ==
    /\ TypeOK /\ OneFile /\ Unvisited /\ HoldsFile /\ OnePlace
    /\ [Next]_vars
    => OnePlace'
<1> SUFFICES ASSUME TypeOK, OneFile, Unvisited, HoldsFile, OnePlace,
                    [Next]_vars
             PROVE  OnePlace'
    OBVIOUS
<1> USE ConstantsAssumption
    DEF TypeOK, Agents, Slots, Files, Go, Slot,
        diskVars, pubVars, pullVars, pullHistory, historyVars
<1>1. ASSUME NEW a \in Agents, Construct(a) PROVE OnePlace'
  <2>1. CASE CheckExists(a)
    BY <2>1, FewerPlaces DEF CheckExists, OnDisk, Removed
  <2>2. CASE CheckAgain(a)
    BY <2>2, FewerPlaces DEF CheckAgain, OnDisk, Removed
  <2>3. CASE MakeDirectory(a)
    BY <2>3, FewerPlaces DEF MakeDirectory, OnDisk, Removed
  <2>4. CASE WriteTopic(a)
    BY <2>4, FewerPlaces DEF WriteTopic, OnDisk, Removed
  <2> QED BY <1>1, <2>1, <2>2, <2>3, <2>4 DEF Construct
<1>2. ASSUME NEW b \in Publishers, Publish(b) PROVE OnePlace'
  <2>1. CASE ListSubscriptions(b)
    BY <2>1, FewerPlaces DEF ListSubscriptions, OnDisk, Removed
  <2>2. CASE ReadTopic(b)
    BY <2>2, FewerPlaces DEF ReadTopic, OnDisk, Removed
  <2>3. CASE CreateFile(b)
    <3> DEFINE s0 == <<at[b], b>>
    <3>1. UNCHANGED <<got, delivered>> BY <2>3 DEF CreateFile
    <3>2. CASE UNCHANGED <<files, made>>
      BY <3>1, <3>2, FewerPlaces DEF OnDisk, Removed
    <3>3. CASE /\ files' = files \cup {<<at[b], b, 0>>}
               /\ made' = made \cup {s0}
      <4>1. s0 \in Slots /\ s0 \notin made
        BY <2>3 DEF CreateFile, Unvisited
      <4>2. \A s \in Slots : OnDisk(s)' => OnDisk(s) \/ s = s0
        BY <3>3 DEF OnDisk
      <4>3. \A p \in Pullers : Removed(p)' = Removed(p)
        BY <3>1 DEF Removed
      <4>4. delivered[s0] = 0 /\ \A p \in Pullers : s0 \notin Removed(p)
        BY <4>1 DEF OnePlace
      <4> HIDE DEF s0
      <4> QED BY <3>1, <3>3, <4>1, <4>2, <4>3, <4>4 DEF OnePlace
    <3> QED BY <2>3, <3>2, <3>3 DEF CreateFile
  <2>4. CASE WriteFile(b)
    BY <2>4, FewerPlaces DEF WriteFile, OnDisk, Removed
  <2>5. CASE EndPublish(b)
    BY <2>5, FewerPlaces DEF EndPublish, OnDisk, Removed
  <2> QED BY <1>2, <2>1, <2>2, <2>3, <2>4, <2>5 DEF Publish
<1>3. ASSUME NEW p \in Pullers, Pull(p) \/ Crash(p) PROVE OnePlace'
  <2>1. CASE ListFiles(p)
    BY <2>1, FewerPlaces DEF ListFiles, OnDisk, Removed
  <2>2. CASE Grab(p)
    <3>1. PICK f \in items[p] :
              \/ UNCHANGED files
              \/ /\ f \in files
                 /\ files' = (files \ {f}) \cup {<<f[1], f[2], f[3] + 1>>}
      BY <2>2 DEF Grab
    <3>2. Slot(<<f[1], f[2], f[3] + 1>>) = Slot(f) OBVIOUS
    <3>3. \A s \in Slots : OnDisk(s)' => OnDisk(s)
      BY <3>1, <3>2 DEF OnDisk
    <3>4. \A q \in Pullers : Removed(q)' = Removed(q)
      BY <2>2 DEF Grab, Removed
    <3> QED BY <2>2, <3>3, <3>4, FewerPlaces DEF Grab
  <2>3. CASE Open(p)
    <3>1. got' = got \/ got' = [got EXCEPT ![p] = {}]
      BY <2>3 DEF Open, Raise
    <3>2. \A q \in Pullers : Removed(q)' \subseteq Removed(q)
      BY <3>1 DEF Removed
    <3>3. UNCHANGED <<files, made, delivered>> BY <2>3 DEF Open, Raise
    <3> QED BY <3>2, <3>3, FewerPlaces DEF OnDisk
  <2>4. CASE Remove(p)
    <3>1. CASE Raise(p)
      <4>1. \A q \in Pullers : Removed(q)' \subseteq Removed(q)
        BY <3>1 DEF Raise, Removed
      <4> QED BY <2>4, <3>1, <4>1, FewerPlaces DEF Remove, Raise, OnDisk
    <3>2. CASE hold[p] \in files /\ files' = files \ {hold[p]} /\ Count(p)
      <4> DEFINE s0 == Slot(hold[p])
      <4>1. s0 \in Slots /\ OnDisk(s0) BY <3>2 DEF OnDisk
      <4>2. \A s \in Slots : OnDisk(s)' => OnDisk(s) /\ s # s0
        BY <3>2 DEF OnDisk, OneFile
      <4>3. got' = [got EXCEPT ![p] = @ \cup {<<s0, whole[p]>>}]
        BY <3>2 DEF Count
      <4> HIDE DEF s0
      <4>4. \A s \in Slots :
                s \in Removed(p)' <=> s \in Removed(p) \/ s = s0
        <5>1. got'[p] = got[p] \cup {<<s0, whole[p]>>} BY <4>3
        <5>2. <<s0, whole[p]>>[1] = s0 OBVIOUS
        <5> QED BY <5>1, <5>2 DEF Removed
      <4>5. \A q \in Pullers \ {p} : Removed(q)' = Removed(q)
        BY <4>3 DEF Removed
      <4>6. UNCHANGED <<made, delivered>> BY <2>4 DEF Remove
      <4>7. s0 \in made /\ delivered[s0] = 0
            /\ \A q \in Pullers : s0 \notin Removed(q)
        BY <4>1 DEF OnePlace
      <4>8. ASSUME NEW s \in Slots
            PROVE  /\ s \notin made' =>
                        /\ ~OnDisk(s)' /\ delivered'[s] = 0
                        /\ \A q \in Pullers : s \notin Removed(q)'
                   /\ OnDisk(s)' =>
                        /\ delivered'[s] = 0
                        /\ \A q \in Pullers : s \notin Removed(q)'
        <5>1. \A q \in Pullers :
                  s \in Removed(q)' => s \in Removed(q) \/ s = s0
          BY <4>4, <4>5
        <5>2. CASE s = s0 BY <5>2, <4>2, <4>6, <4>7
        <5>3. CASE s # s0 BY <5>3, <5>1, <4>2, <4>6 DEF OnePlace
        <5> QED BY <5>2, <5>3
      <4>9. ASSUME NEW s \in Slots, NEW q \in Pullers, NEW r \in Pullers,
                   s \in Removed(q)'
            PROVE  delivered'[s] = 0 /\ (s \in Removed(r)' => q = r)
        <5>1. CASE s = s0 BY <4>4, <4>5, <4>6, <4>7, <4>9, <5>1
        <5>2. CASE s # s0
          <6>1. s \in Removed(q) /\ (s \in Removed(r)' => s \in Removed(r))
            BY <4>4, <4>5, <4>9, <5>2
          <6> QED BY <6>1, <4>6 DEF OnePlace
        <5> QED BY <5>1, <5>2
      <4> QED BY <4>8, <4>9 DEF OnePlace
    <3> QED BY <2>4, <3>1, <3>2 DEF Remove
  <2>5. CASE Return(p)
    <3>1. UNCHANGED <<files, made>> BY <2>5 DEF Return
    <3>2. Removed(p)' = {} BY <2>5 DEF Return, Removed
    <3>3. \A q \in Pullers \ {p} : Removed(q)' = Removed(q)
      BY <2>5 DEF Return, Removed
    <3>4. \A s \in Slots : s \notin Removed(p) => delivered'[s] = delivered[s]
      BY <2>5 DEF Return
    <3>5. \A s \in Slots : OnDisk(s)' = OnDisk(s) BY <3>1 DEF OnDisk
    <3>6. ASSUME NEW s \in Slots
          PROVE  /\ s \notin made' =>
                      /\ ~OnDisk(s)' /\ delivered'[s] = 0
                      /\ \A q \in Pullers : s \notin Removed(q)'
                 /\ OnDisk(s)' =>
                      /\ delivered'[s] = 0
                      /\ \A q \in Pullers : s \notin Removed(q)'
      <4>1. \A q \in Pullers : s \in Removed(q)' => s \in Removed(q)
        BY <3>2, <3>3
      <4>2. CASE s \in Removed(p)
        BY <4>2, <3>1, <3>5 DEF OnePlace
      <4>3. CASE s \notin Removed(p)
        <5>1. delivered'[s] = delivered[s] BY <4>3, <3>4
        <5> QED BY <5>1, <4>1, <3>1, <3>5 DEF OnePlace
      <4> QED BY <4>2, <4>3
    <3>7. ASSUME NEW s \in Slots, NEW q \in Pullers, NEW r \in Pullers,
                 s \in Removed(q)'
          PROVE  delivered'[s] = 0 /\ (s \in Removed(r)' => q = r)
      <4>1. q # p /\ s \in Removed(q) BY <3>2, <3>3, <3>7
      <4>2. s \notin Removed(p) BY <4>1 DEF OnePlace
      <4>3. delivered'[s] = 0 BY <4>1, <4>2, <3>4 DEF OnePlace
      <4>4. s \in Removed(r)' => s \in Removed(r) BY <3>2, <3>3
      <4> QED BY <4>1, <4>3, <4>4 DEF OnePlace
    <3> QED BY <3>6, <3>7 DEF OnePlace
  <2>6. CASE Leave(p)
    <3>1. \A s \in Slots : OnDisk(s)' => OnDisk(s) BY <2>6 DEF Leave, OnDisk
    <3>2. \A q \in Pullers : Removed(q)' = Removed(q)
      BY <2>6 DEF Leave, Removed
    <3> QED BY <2>6, <3>1, <3>2, FewerPlaces DEF Leave
  <2>7. CASE RemoveDirectory(p)
    BY <2>7, FewerPlaces DEF RemoveDirectory, OnDisk, Removed
  <2>8. CASE Crash(p)
    <3>1. \A q \in Pullers : Removed(q)' \subseteq Removed(q)
      BY <2>8 DEF Crash, Removed
    <3> QED BY <2>8, <3>1, FewerPlaces DEF Crash, OnDisk
  <2> QED BY <1>3, <2>1, <2>2, <2>3, <2>4, <2>5, <2>6, <2>7, <2>8 DEF Pull
<1>4. CASE UNCHANGED vars
  BY <1>4, FewerPlaces DEF vars, OnDisk, Removed
<1> QED BY <1>1, <1>2, <1>3, <1>4 DEF Next

\* A message is returned only by the one puller that has it.
LEMMA AtMostOnceStep ==
    TypeOK /\ OnePlace /\ AtMostOnce /\ [Next]_vars => AtMostOnce'
<1> SUFFICES ASSUME TypeOK, OnePlace, AtMostOnce, [Next]_vars
             PROVE  AtMostOnce'
    OBVIOUS
<1> USE ConstantsAssumption
    DEF TypeOK, Agents, Slots, AtMostOnce,
        diskVars, pubVars, pullVars, pullHistory, historyVars
<1>1. ASSUME NEW a \in Agents, Construct(a) PROVE AtMostOnce'
  <2>1. CASE CheckExists(a)
    BY <2>1 DEF CheckExists
  <2>2. CASE CheckAgain(a)
    BY <2>2 DEF CheckAgain
  <2>3. CASE MakeDirectory(a)
    BY <2>3 DEF MakeDirectory
  <2>4. CASE WriteTopic(a)
    BY <2>4 DEF WriteTopic
  <2> QED BY <1>1, <2>1, <2>2, <2>3, <2>4 DEF Construct
<1>2. ASSUME NEW b \in Publishers, Publish(b) PROVE AtMostOnce'
  <2>1. CASE ListSubscriptions(b)
    BY <2>1 DEF ListSubscriptions
  <2>2. CASE ReadTopic(b)
    BY <2>2 DEF ReadTopic
  <2>3. CASE CreateFile(b)
    BY <2>3 DEF CreateFile
  <2>4. CASE WriteFile(b)
    BY <2>4 DEF WriteFile
  <2>5. CASE EndPublish(b)
    BY <2>5 DEF EndPublish
  <2> QED BY <1>2, <2>1, <2>2, <2>3, <2>4, <2>5 DEF Publish
<1>3. ASSUME NEW p \in Pullers, Pull(p) \/ Crash(p) PROVE AtMostOnce'
  <2>1. CASE ListFiles(p)
    BY <2>1 DEF ListFiles
  <2>2. CASE Grab(p)
    BY <2>2 DEF Grab
  <2>3. CASE Open(p)
    BY <2>3 DEF Open, Raise
  <2>4. CASE Remove(p)
    BY <2>4 DEF Remove, Raise, Count
  <2>5. CASE Return(p)
    <3>1. \A s \in Slots :
              \/ delivered'[s] = delivered[s]
              \/ s \in Removed(p) /\ delivered'[s] = delivered[s] + 1
      BY <2>5 DEF Return
    <3>2. ASSUME NEW s \in Slots PROVE delivered'[s] <= 1
      <4>1. delivered[s] \in Nat /\ delivered[s] <= 1 OBVIOUS
      <4>2. s \in Removed(p) => delivered[s] = 0 BY DEF OnePlace
      <4> QED BY <3>1, <4>1, <4>2
    <3> QED BY <3>2
  <2>6. CASE Leave(p)
    BY <2>6 DEF Leave
  <2>7. CASE RemoveDirectory(p)
    BY <2>7 DEF RemoveDirectory
  <2>8. CASE Crash(p)
    BY <2>8 DEF Crash
  <2> QED BY <1>3, <2>1, <2>2, <2>3, <2>4, <2>5, <2>6, <2>7, <2>8 DEF Pull
<1>4. CASE UNCHANGED vars BY <1>4 DEF vars
<1> QED BY <1>1, <1>2, <1>3, <1>4 DEF Next

\* Only one process gets past mkdir, and only it writes the topic.
LEMMA OneCreatorStep == TypeOK /\ OneCreator /\ [Next]_vars => OneCreator'
<1> SUFFICES ASSUME TypeOK, OneCreator, [Next]_vars PROVE OneCreator'
    OBVIOUS
<1> USE ConstantsAssumption
    DEF TypeOK, Agents, Go, OneCreator, SharedSubs,
        diskVars, pubVars, pullVars, pullHistory, historyVars
<1>1. ASSUME NEW a \in Agents, Construct(a) PROVE OneCreator'
  <2>1. CASE CheckExists(a)
    BY <2>1 DEF CheckExists
  <2>2. CASE CheckAgain(a)
    BY <2>2 DEF CheckAgain
  <2>3. CASE MakeDirectory(a)
    BY <2>3 DEF MakeDirectory
  <2>4. CASE WriteTopic(a)
    BY <2>4 DEF WriteTopic
  <2> QED BY <1>1, <2>1, <2>2, <2>3, <2>4 DEF Construct
<1>2. ASSUME NEW b \in Publishers, Publish(b) PROVE OneCreator'
  <2>1. CASE ListSubscriptions(b)
    BY <2>1 DEF ListSubscriptions
  <2>2. CASE ReadTopic(b)
    BY <2>2 DEF ReadTopic
  <2>3. CASE CreateFile(b)
    BY <2>3 DEF CreateFile
  <2>4. CASE WriteFile(b)
    BY <2>4 DEF WriteFile
  <2>5. CASE EndPublish(b)
    BY <2>5 DEF EndPublish
  <2> QED BY <1>2, <2>1, <2>2, <2>3, <2>4, <2>5 DEF Publish
<1>3. ASSUME NEW p \in Pullers, Pull(p) \/ Crash(p) PROVE OneCreator'
  <2>1. CASE ListFiles(p)
    BY <2>1 DEF ListFiles
  <2>2. CASE Grab(p)
    BY <2>2 DEF Grab
  <2>3. CASE Open(p)
    BY <2>3 DEF Open, Raise
  <2>4. CASE Remove(p)
    BY <2>4 DEF Remove, Raise, Count
  <2>5. CASE Return(p)
    BY <2>5 DEF Return
  <2>6. CASE Leave(p)
    BY <2>6 DEF Leave
  <2>7. CASE RemoveDirectory(p)
    BY <2>7 DEF RemoveDirectory
  <2>8. CASE Crash(p)
    BY <2>8 DEF Crash
  <2> QED BY <1>3, <2>1, <2>2, <2>3, <2>4, <2>5, <2>6, <2>7, <2>8 DEF Pull
<1>4. CASE UNCHANGED vars BY <1>4 DEF vars
<1> QED BY <1>1, <1>2, <1>3, <1>4 DEF Next

\* The conjunction of the above.
LEMMA IndInvStep == IndInv /\ [Next]_vars => IndInv'
BY TypeStep, HoldsFileStep, UnvisitedStep, OneFileStep, OnePlaceStep,
   OneCreatorStep, AtMostOnceStep DEF IndInv

\* The inductive invariant holds in every reachable state.
THEOREM Invariance == Spec => []IndInv
BY InitInv, IndInvStep, PTL DEF Spec

\* Types are preserved by every interleaving of publishers and pullers.
THEOREM TypeCorrect == Spec => []TypeOK
<1>1. IndInv => TypeOK BY DEF IndInv
<1> QED BY <1>1, Invariance, PTL

\* No subscription delivers a message twice, although pullers can take over
\* each other's claims and are killed at any point (LocalPubSub.py:109-135).
THEOREM AtMostOnceCorrect == Spec => []AtMostOnce
<1>1. IndInv => AtMostOnce BY DEF IndInv
<1> QED BY <1>1, Invariance, PTL

\* Once complete, a shared subscription stays visible to publishers, whoever
\* constructs a subscriber of the same name at the same time
\* (LocalPubSub.py:97-106).
THEOREM TopicStandsCorrect == Spec => TopicStands
<1> DEFINE Stands ==
        \A s \in SharedSubs : dir[s] = "topic" => dir'[s] = "topic"
<1>0. ASSUME IndInv, [Next]_vars PROVE [Stands]_vars
  <2> SUFFICES ASSUME Next PROVE Stands BY <1>0
  <2> USE <1>0, ConstantsAssumption
      DEF IndInv, TypeOK, Agents, Go, OneCreator, SharedSubs,
          diskVars, pubVars, pullVars, pullHistory, historyVars
  <2>1. ASSUME NEW a \in Agents, Construct(a) PROVE Stands
    <3>1. CASE CheckExists(a)
      BY <3>1 DEF CheckExists
    <3>2. CASE CheckAgain(a)
      BY <3>2 DEF CheckAgain
    <3>3. CASE MakeDirectory(a)
      BY <3>3 DEF MakeDirectory
    <3>4. CASE WriteTopic(a)
      BY <3>4 DEF WriteTopic
    <3> QED BY <2>1, <3>1, <3>2, <3>3, <3>4 DEF Construct
  <2>2. ASSUME NEW b \in Publishers, Publish(b) PROVE Stands
    <3>1. CASE ListSubscriptions(b)
      BY <3>1 DEF ListSubscriptions
    <3>2. CASE ReadTopic(b)
      BY <3>2 DEF ReadTopic
    <3>3. CASE CreateFile(b)
      BY <3>3 DEF CreateFile
    <3>4. CASE WriteFile(b)
      BY <3>4 DEF WriteFile
    <3>5. CASE EndPublish(b)
      BY <3>5 DEF EndPublish
    <3> QED BY <2>2, <3>1, <3>2, <3>3, <3>4, <3>5 DEF Publish
  <2>3. ASSUME NEW p \in Pullers, Pull(p) \/ Crash(p) PROVE Stands
    <3>1. CASE ListFiles(p)
      BY <3>1 DEF ListFiles
    <3>2. CASE Grab(p)
      BY <3>2 DEF Grab
    <3>3. CASE Open(p)
      BY <3>3 DEF Open, Raise
    <3>4. CASE Remove(p)
      BY <3>4 DEF Remove, Raise, Count
    <3>5. CASE Return(p)
      BY <3>5 DEF Return
    <3>6. CASE Leave(p)
      BY <3>6 DEF Leave
    <3>7. CASE RemoveDirectory(p)
      BY <3>7 DEF RemoveDirectory
    <3>8. CASE Crash(p)
      BY <3>8 DEF Crash
    <3> QED BY <2>3, <3>1, <3>2, <3>3, <3>4, <3>5, <3>6, <3>7, <3>8 DEF Pull
  <2> QED BY <2>1, <2>2, <2>3 DEF Next
<1> QED BY <1>0, Invariance, PTL DEF Spec, TopicStands

(***************************************************************************)
(* Nothing is lost, and every complete subscription is reached.            *)
(* A message is lost only with the pull that has removed its file, and a   *)
(* subscription is missed only if its topic file was not there.            *)
(***************************************************************************)

\* The owner of a private subscription has gone, for good.
Gone(sub) == \E p \in Private : SubOf[p] = sub
                               /\ pc[p] \in {"rmdir", "left", "failed"}

\* Pullers see and claim files of their own subscription only.
Claims ==
    \A p \in Pullers :
        /\ \A f \in items[p] : f[1] = SubOf[p]
        /\ pc[p] \in {"open", "remove"} => hold[p][1] = SubOf[p]

\* A pull that may raise has removed nothing, and that of a private
\* subscription does not raise.
Undisturbed ==
    \A p \in Pullers :
        /\ p \notin Private /\ pc[p] # "return" => got[p] = {}
        /\ p \in Private /\ pc[p] \in {"open", "remove"} => hold[p] \in files

\* Only its owner writes a private topic file.
OwnerWrites ==
    \A p \in Private :
        pc[p] \in {"open_topic", "write_topic"} =>
            dir[SubOf[p]] \in {"bare", "empty"}

\* What is owed to a publication is still complete, or its owner has gone.
StillOwed ==
    \A b \in Publishers : \A s \in owed[b] :
        s \in Subs \ OtherTopic /\ (dir[s] = "topic" \/ Gone(s))

\* What is owed is ahead, or reached, or gone.
Ahead ==
    \A b \in Publishers :
        pc[b] \in {"publish", "create_file", "write_file", "done"} =>
            \A s \in owed[b] : \/ pc[b] # "done" /\ s \in todo[b]
                               \/ pc[b] = "create_file" /\ at[b] = s
                               \/ <<s, b>> \in made
                               \/ dir[s] # "topic"

DeliveryInv ==
    /\ Claims /\ Undisturbed /\ NothingLost
    /\ OwnerWrites /\ StillOwed /\ Ahead

\* An owner that has gone does not come back.
LEMMA GoneStays ==
    ASSUME TypeOK, [Next]_vars, NEW sub, Gone(sub) PROVE Gone(sub)'
<1> PICK o \in Private :
        SubOf[o] = sub /\ pc[o] \in {"rmdir", "left", "failed"}
    BY DEF Gone
<1> SUFFICES pc'[o] \in {"rmdir", "left", "failed"} BY DEF Gone
<1> USE ConstantsAssumption DEF TypeOK, Agents, Go
<1>1. ASSUME NEW a \in Agents, Construct(a) PROVE pc'[o] \in {"rmdir", "left", "failed"}
  <2>1. CASE CheckExists(a)
    BY <2>1 DEF CheckExists
  <2>2. CASE CheckAgain(a)
    BY <2>2 DEF CheckAgain
  <2>3. CASE MakeDirectory(a)
    BY <2>3 DEF MakeDirectory
  <2>4. CASE WriteTopic(a)
    BY <2>4 DEF WriteTopic
  <2> QED BY <1>1, <2>1, <2>2, <2>3, <2>4 DEF Construct
<1>2. ASSUME NEW b \in Publishers, Publish(b) PROVE pc'[o] \in {"rmdir", "left", "failed"}
  <2>1. CASE ListSubscriptions(b)
    BY <2>1 DEF ListSubscriptions
  <2>2. CASE ReadTopic(b)
    BY <2>2 DEF ReadTopic
  <2>3. CASE CreateFile(b)
    BY <2>3 DEF CreateFile
  <2>4. CASE WriteFile(b)
    BY <2>4 DEF WriteFile
  <2>5. CASE EndPublish(b)
    BY <2>5 DEF EndPublish
  <2> QED BY <1>2, <2>1, <2>2, <2>3, <2>4, <2>5 DEF Publish
<1>3. ASSUME NEW p \in Pullers, Pull(p) \/ Crash(p)
      PROVE  pc'[o] \in {"rmdir", "left", "failed"}
  <2>1. CASE ListFiles(p)
    BY <2>1 DEF ListFiles
  <2>2. CASE Grab(p)
    BY <2>2 DEF Grab
  <2>3. CASE Open(p)
    BY <2>3 DEF Open, Raise
  <2>4. CASE Remove(p)
    BY <2>4 DEF Remove, Raise, Count
  <2>5. CASE Return(p)
    BY <2>5 DEF Return
  <2>6. CASE Leave(p)
    BY <2>6 DEF Leave
  <2>7. CASE RemoveDirectory(p)
    BY <2>7 DEF RemoveDirectory
  <2>8. CASE Crash(p)
    BY <2>8 DEF Crash
  <2> QED BY <1>3, <2>1, <2>2, <2>3, <2>4, <2>5, <2>6, <2>7, <2>8 DEF Pull
<1>4. CASE UNCHANGED vars BY <1>4 DEF vars
<1> QED BY <1>1, <1>2, <1>3, <1>4 DEF Next

\* Listings and claims are of the puller's own subscription.
LEMMA ClaimsStep == TypeOK /\ HoldsFile /\ Claims /\ [Next]_vars => Claims'
<1> SUFFICES ASSUME TypeOK, HoldsFile, Claims, [Next]_vars PROVE Claims'
    OBVIOUS
<1> USE ConstantsAssumption
    DEF TypeOK, Agents, Go, Claims,
        diskVars, pubVars, pullVars, pullHistory, historyVars
<1>1. ASSUME NEW a \in Agents, Construct(a) PROVE Claims'
  <2>1. CASE CheckExists(a)
    BY <2>1 DEF CheckExists
  <2>2. CASE CheckAgain(a)
    BY <2>2 DEF CheckAgain
  <2>3. CASE MakeDirectory(a)
    BY <2>3 DEF MakeDirectory
  <2>4. CASE WriteTopic(a)
    BY <2>4 DEF WriteTopic
  <2> QED BY <1>1, <2>1, <2>2, <2>3, <2>4 DEF Construct
<1>2. ASSUME NEW b \in Publishers, Publish(b) PROVE Claims'
  <2>1. CASE ListSubscriptions(b)
    BY <2>1 DEF ListSubscriptions
  <2>2. CASE ReadTopic(b)
    BY <2>2 DEF ReadTopic
  <2>3. CASE CreateFile(b)
    BY <2>3 DEF CreateFile
  <2>4. CASE WriteFile(b)
    BY <2>4 DEF WriteFile
  <2>5. CASE EndPublish(b)
    BY <2>5 DEF EndPublish
  <2> QED BY <1>2, <2>1, <2>2, <2>3, <2>4, <2>5 DEF Publish
<1>3. ASSUME NEW p \in Pullers, Pull(p) \/ Crash(p) PROVE Claims'
  <2>1. CASE ListFiles(p)
    BY <2>1 DEF ListFiles
  <2>2. CASE Grab(p)
    <3>1. PICK f \in items[p] :
              /\ items' = [items EXCEPT ![p] = @ \ {f}]
              /\ \/ UNCHANGED <<pc, hold>>
                 \/ hold' = [hold EXCEPT ![p] = <<f[1], f[2], f[3] + 1>>]
                    /\ Go(p, "open")
      BY <2>2 DEF Grab
    <3>2. <<f[1], f[2], f[3] + 1>>[1] = SubOf[p] OBVIOUS
    <3> QED BY <3>1, <3>2
  <2>3. CASE Open(p)
    BY <2>3 DEF Open, Raise
  <2>4. CASE Remove(p)
    BY <2>4 DEF Remove, Raise, Count
  <2>5. CASE Return(p)
    BY <2>5 DEF Return
  <2>6. CASE Leave(p)
    BY <2>6 DEF Leave
  <2>7. CASE RemoveDirectory(p)
    BY <2>7 DEF RemoveDirectory
  <2>8. CASE Crash(p)
    BY <2>8 DEF Crash
  <2> QED BY <1>3, <2>1, <2>2, <2>3, <2>4, <2>5, <2>6, <2>7, <2>8 DEF Pull
<1>4. CASE UNCHANGED vars BY <1>4 DEF vars
<1> QED BY <1>1, <1>2, <1>3, <1>4 DEF Next

\* A shared pull is of one message; nobody else claims a private one's files.
LEMMA UndisturbedStep ==
    TypeOK /\ HoldsFile /\ Claims /\ Undisturbed /\ [Next]_vars => Undisturbed'
<1> SUFFICES ASSUME TypeOK, HoldsFile, Claims, Undisturbed, [Next]_vars
             PROVE  Undisturbed'
    OBVIOUS
<1> USE ConstantsAssumption, SharingAssumption
    DEF TypeOK, Agents, Go, Undisturbed,
        diskVars, pubVars, pullVars, pullHistory, historyVars
<1>1. ASSUME NEW a \in Agents, Construct(a) PROVE Undisturbed'
  <2>1. CASE CheckExists(a)
    BY <2>1 DEF CheckExists
  <2>2. CASE CheckAgain(a)
    BY <2>2 DEF CheckAgain
  <2>3. CASE MakeDirectory(a)
    BY <2>3 DEF MakeDirectory
  <2>4. CASE WriteTopic(a)
    BY <2>4 DEF WriteTopic
  <2> QED BY <1>1, <2>1, <2>2, <2>3, <2>4 DEF Construct
<1>2. ASSUME NEW b \in Publishers, Publish(b) PROVE Undisturbed'
  <2>1. CASE ListSubscriptions(b)
    BY <2>1 DEF ListSubscriptions
  <2>2. CASE ReadTopic(b)
    BY <2>2 DEF ReadTopic
  <2>3. CASE CreateFile(b)
    <3>1. files \subseteq files' BY <2>3 DEF CreateFile
    <3> QED BY <2>3, <3>1 DEF CreateFile
  <2>4. CASE WriteFile(b)
    BY <2>4 DEF WriteFile
  <2>5. CASE EndPublish(b)
    BY <2>5 DEF EndPublish
  <2> QED BY <1>2, <2>1, <2>2, <2>3, <2>4, <2>5 DEF Publish
<1>3. ASSUME NEW p \in Pullers, Pull(p) \/ Crash(p) PROVE Undisturbed'
  <2>1. CASE ListFiles(p)
    BY <2>1 DEF ListFiles
  <2>2. CASE Grab(p)
    <3>1. PICK f \in items[p] :
              \/ UNCHANGED <<pc, hold, files>>
              \/ /\ f \in files
                 /\ files' = (files \ {f}) \cup {<<f[1], f[2], f[3] + 1>>}
                 /\ hold' = [hold EXCEPT ![p] = <<f[1], f[2], f[3] + 1>>]
                 /\ Go(p, "open")
      BY <2>2 DEF Grab
    <3>2. f[1] = SubOf[p] BY DEF Claims
    <3>3. got' = got /\ pc[p] = "grab" BY <2>2 DEF Grab
    <3>4. ASSUME NEW q \in Pullers, q # p
          PROVE  /\ pc'[q] = pc[q] /\ hold'[q] = hold[q]
                 /\ q \in Private /\ pc[q] \in {"open", "remove"} /\ hold[q] \in files
                      => hold[q] \in files'
      BY <3>1, <3>2, <3>4 DEF Claims
    <3>5. \/ pc'[p] = pc[p]
          \/ pc'[p] = "open" /\ hold'[p] \in files'
      BY <3>1
    <3> QED BY <3>3, <3>4, <3>5
  <2>3. CASE Open(p)
    <3>1. got' = got \/ got' = [got EXCEPT ![p] = {}]
      BY <2>3 DEF Open, Raise
    <3>2. /\ files' = files /\ pc[p] = "open"
          /\ \A q \in Pullers \ {p} : pc'[q] = pc[q] /\ hold'[q] = hold[q]
          /\ \/ pc'[p] = "remove" /\ hold'[p] \in files
             \/ pc'[p] = "ready"
      BY <2>3 DEF Open, Raise
    <3> QED BY <3>1, <3>2
  <2>4. CASE Remove(p)
    <3>1. CASE Raise(p)
      <4>1. /\ files' = files /\ got' = [got EXCEPT ![p] = {}]
            /\ pc' = [pc EXCEPT ![p] = "ready"]
            /\ hold' = [hold EXCEPT ![p] = None]
        BY <3>1 DEF Raise
      <4> QED BY <4>1
    <3>2. CASE hold[p] \in files /\ files' = files \ {hold[p]} /\ Count(p)
      <4>1. hold[p][1] = SubOf[p] /\ pc[p] = "remove"
        BY <2>4 DEF Claims, Remove
      <4>2. ASSUME NEW q \in Pullers, q # p
            PROVE  /\ pc'[q] = pc[q] /\ hold'[q] = hold[q] /\ got'[q] = got[q]
                   /\ q \in Private /\ pc[q] \in {"open", "remove"}
                        /\ hold[q] \in files => hold[q] \in files'
        BY <3>2, <4>1, <4>2 DEF Claims, Count
      <4>3. pc'[p] \in {"return", "grab"} BY <3>2 DEF Count
      <4>4. p \notin Private => pc'[p] = "return"
        <5>1. p \notin Private => got[p] = {} /\ MaxMessages[p] = 1 BY <4>1
        <5>2. Cardinality({}) + 1 = 1 BY FS_EmptySet
        <5> QED BY <3>2, <5>1, <5>2 DEF Count
      <4> QED BY <4>2, <4>3, <4>4
    <3> QED BY <2>4, <3>1, <3>2 DEF Remove
  <2>5. CASE Return(p)
    BY <2>5 DEF Return
  <2>6. CASE Leave(p)
    <3>1. /\ files' = {f \in files : f[1] # SubOf[p]} /\ UNCHANGED <<hold, got>>
          /\ pc' = [pc EXCEPT ![p] = "rmdir"] /\ p \in Private /\ pc[p] = "ready"
      BY <2>6 DEF Leave
    <3>2. ASSUME NEW q \in Pullers, q # p
          PROVE  q \in Private /\ pc[q] \in {"open", "remove"}
                   /\ hold[q] \in files => hold[q] \in files'
      BY <3>1, <3>2 DEF Claims
    <3> QED BY <3>1, <3>2
  <2>7. CASE RemoveDirectory(p)
    BY <2>7 DEF RemoveDirectory
  <2>8. CASE Crash(p)
    BY <2>8 DEF Crash
  <2> QED BY <1>3, <2>1, <2>2, <2>3, <2>4, <2>5, <2>6, <2>7, <2>8 DEF Pull
<1>4. CASE UNCHANGED vars BY <1>4 DEF vars
<1> QED BY <1>1, <1>2, <1>3, <1>4 DEF Next

\* Where message and subscription s may be, for NothingLost.
Accounted(s) ==
    \/ OnDisk(s) \/ delivered[s] > 0 \/ s \in killed
    \/ \E p \in Pullers : s \in Removed(p)
    \/ Gone(s[1])

\* A step that makes nothing and accounts for what it moves loses nothing.
LEMMA NothingMoved ==
    ASSUME TypeOK, NothingLost, [Next]_vars, made' = made,
           \A s \in made : OnDisk(s) => Accounted(s)',
           \A s \in made : delivered[s] > 0 => delivered'[s] > 0,
           killed \subseteq killed',
           \A s \in made : \A p \in Pullers : s \in Removed(p) => Accounted(s)'
    PROVE  NothingLost'
<1>1. ASSUME NEW s \in made PROVE Accounted(s)'
  <2>1. Accounted(s) BY DEF NothingLost, Accounted, Gone
  <2>2. Gone(s[1]) => Gone(s[1])' BY GoneStays
  <2> QED BY <2>1, <2>2 DEF Accounted
<1> QED BY <1>1 DEF NothingLost, Accounted, Gone

\* No step loses a message.
LEMMA NothingLostStep ==
    /\ TypeOK /\ HoldsFile /\ Undisturbed /\ NothingLost
    /\ [Next]_vars
    => NothingLost'
<1> SUFFICES ASSUME TypeOK, HoldsFile, Undisturbed, NothingLost, [Next]_vars
             PROVE  NothingLost'
    OBVIOUS
<1>0. ASSUME UNCHANGED <<files, made, delivered, killed, got>>
      PROVE  NothingLost'
  <2>1. \A s : OnDisk(s)' = OnDisk(s) BY <1>0 DEF OnDisk
  <2>2. \A p : Removed(p)' = Removed(p) BY <1>0 DEF Removed
  <2> QED BY <1>0, <2>1, <2>2, NothingMoved DEF Accounted
<1> USE ConstantsAssumption
    DEF Agents, diskVars, pubVars, pullVars, pullHistory, historyVars
<1>1. ASSUME NEW a \in Agents, Construct(a) PROVE NothingLost'
  <2>1. CASE CheckExists(a)
    BY <2>1, <1>0 DEF CheckExists
  <2>2. CASE CheckAgain(a)
    BY <2>2, <1>0 DEF CheckAgain
  <2>3. CASE MakeDirectory(a)
    BY <2>3, <1>0 DEF MakeDirectory
  <2>4. CASE WriteTopic(a)
    BY <2>4, <1>0 DEF WriteTopic
  <2> QED BY <1>1, <2>1, <2>2, <2>3, <2>4 DEF Construct
<1>2. ASSUME NEW b \in Publishers, Publish(b) PROVE NothingLost'
  <2>1. CASE ListSubscriptions(b)
    BY <2>1, <1>0 DEF ListSubscriptions
  <2>2. CASE ReadTopic(b)
    BY <2>2, <1>0 DEF ReadTopic
  <2>3. CASE CreateFile(b)
    <3>1. CASE UNCHANGED <<files, made>>
      BY <2>3, <3>1, <1>0 DEF CreateFile
    <3>2. CASE /\ files' = files \cup {<<at[b], b, 0>>}
               /\ made' = made \cup {<<at[b], b>>}
      <4>1. \A s : OnDisk(s) => OnDisk(s)' BY <3>2 DEF OnDisk
      <4>2. PICK s0 : s0 = <<at[b], b>> OBVIOUS
      <4>3. <<at[b], b, 0>> \in files' BY <3>2
      <4>4. Slot(<<at[b], b, 0>>) = s0 BY <4>2 DEF Slot
      <4>5. OnDisk(s0)' BY <4>3, <4>4 DEF OnDisk, Slot
      <4>6. \A p : Removed(p)' = Removed(p) BY <2>3 DEF CreateFile, Removed
      <4>7. UNCHANGED <<delivered, killed>> BY <2>3 DEF CreateFile
      <4>8. ASSUME NEW s \in made' PROVE Accounted(s)'
        <5>1. CASE s = s0 BY <4>5, <5>1 DEF Accounted
        <5>2. CASE s \in made
          <6>1. Accounted(s) BY <5>2 DEF NothingLost, Accounted, Gone
          <6>2. Gone(s[1]) => Gone(s[1])' BY GoneStays
          <6> QED BY <4>1, <4>6, <4>7, <6>1, <6>2 DEF Accounted
        <5> QED BY <3>2, <4>2, <5>1, <5>2
      <4> QED BY <4>8 DEF NothingLost, Accounted, Gone
    <3> QED BY <2>3, <3>1, <3>2 DEF CreateFile
  <2>4. CASE WriteFile(b)
    BY <2>4, <1>0 DEF WriteFile
  <2>5. CASE EndPublish(b)
    BY <2>5, <1>0 DEF EndPublish
  <2> QED BY <1>2, <2>1, <2>2, <2>3, <2>4, <2>5 DEF Publish
<1>3. ASSUME NEW p \in Pullers, Pull(p) \/ Crash(p) PROVE NothingLost'
  <2>1. CASE ListFiles(p)
    BY <2>1, <1>0 DEF ListFiles
  <2>2. CASE Grab(p)
    <3>1. PICK f \in items[p] :
              \/ UNCHANGED files
              \/ /\ f \in files
                 /\ files' = (files \ {f}) \cup {<<f[1], f[2], f[3] + 1>>}
      BY <2>2 DEF Grab
    <3>2. Slot(<<f[1], f[2], f[3] + 1>>) = Slot(f) BY DEF Slot
    <3>3. \A s : OnDisk(s) => OnDisk(s)' BY <3>1, <3>2 DEF OnDisk
    <3>4. UNCHANGED <<made, delivered, killed, got>> BY <2>2 DEF Grab
    <3>5. \A q : Removed(q)' = Removed(q) BY <3>4 DEF Removed
    <3> QED BY <3>3, <3>4, <3>5, NothingMoved DEF Accounted
  <2>3. CASE Open(p)
    <3>1. UNCHANGED <<files, made, delivered, killed>>
      BY <2>3 DEF Open, Raise
    <3>2. got' = got
      <4>1. CASE p \in Private
        <5>1. hold[p] \in files BY <2>3, <4>1 DEF Open, Undisturbed
        <5> QED BY <2>3, <5>1 DEF Open
      <4>2. CASE p \notin Private
        <5>1. got[p] = {} BY <2>3, <4>2 DEF Open, Undisturbed
        <5>2. got' = got \/ got' = [got EXCEPT ![p] = {}]
          BY <2>3 DEF Open, Raise
        <5>3. got \in [Pullers -> SUBSET (Slots \X BOOLEAN)] BY DEF TypeOK
        <5> QED BY <5>1, <5>2, <5>3
      <4> QED BY <4>1, <4>2
    <3> QED BY <3>1, <3>2, <1>0
  <2>4. CASE Remove(p)
    <3>0. got \in [Pullers -> SUBSET (Slots \X BOOLEAN)] /\ pc[p] = "remove"
      BY <2>4 DEF TypeOK, Remove
    <3>1. CASE hold[p] \notin files
      <4>1. got[p] = {} BY <3>0, <3>1 DEF Undisturbed
      <4>2. got' = [got EXCEPT ![p] = {}] /\ UNCHANGED files
        BY <2>4, <3>1 DEF Remove, Raise
      <4>3. got' = got BY <3>0, <4>1, <4>2
      <4>4. UNCHANGED <<made, delivered, killed>> BY <2>4 DEF Remove
      <4> QED BY <4>2, <4>3, <4>4, <1>0
    <3>2. CASE hold[p] \in files
      <4> DEFINE s0 == Slot(hold[p])
      <4>1. /\ files' = files \ {hold[p]}
            /\ got' = [got EXCEPT ![p] = @ \cup {<<s0, whole[p]>>}]
            /\ UNCHANGED <<made, delivered, killed>>
        BY <2>4, <3>2 DEF Remove, Count
      <4> HIDE DEF s0
      <4>2. got'[p] = got[p] \cup {<<s0, whole[p]>>} BY <3>0, <4>1
      <4>3. s0 \in Removed(p)'
        <5>1. <<s0, whole[p]>>[1] = s0 OBVIOUS
        <5> QED BY <4>2, <5>1 DEF Removed
      <4>4. \A q \in Pullers : Removed(q) \subseteq Removed(q)'
        BY <3>0, <4>1, <4>2 DEF Removed
      <4>5. \A s : OnDisk(s) => OnDisk(s)' \/ s = s0
        BY <4>1 DEF OnDisk, s0
      <4>6. \A s \in made : OnDisk(s) => Accounted(s)'
        BY <4>3, <4>5 DEF Accounted
      <4>7. \A s \in made : \A q \in Pullers : s \in Removed(q) => Accounted(s)'
        BY <4>4 DEF Accounted
      <4> QED BY <4>1, <4>6, <4>7, NothingMoved
    <3> QED BY <3>1, <3>2
  <2>5. CASE Return(p)
    <3>1. UNCHANGED <<files, made, killed>> BY <2>5 DEF Return
    <3>2. /\ delivered \in [Slots -> Nat] /\ made \subseteq Slots
          /\ got \in [Pullers -> SUBSET (Slots \X BOOLEAN)]
      BY DEF TypeOK
    <3>3. ASSUME NEW s \in made
          PROVE  /\ delivered[s] > 0 => delivered'[s] > 0
                 /\ s \in Removed(p) => delivered'[s] > 0
      <4>1. delivered[s] \in Nat /\ s \in Slots BY <3>2
      <4>2. delivered'[s] = IF s \in Removed(p) THEN delivered[s] + 1
                                               ELSE delivered[s]
        BY <2>5, <4>1 DEF Return
      <4> QED BY <4>1, <4>2
    <3>4. \A q \in Pullers \ {p} : Removed(q)' = Removed(q)
      BY <2>5, <3>2 DEF Return, Removed
    <3>5. \A s : OnDisk(s)' = OnDisk(s) BY <3>1 DEF OnDisk
    <3>6. \A s \in made : OnDisk(s) => Accounted(s)' BY <3>5 DEF Accounted
    <3>7. \A s \in made : \A q \in Pullers : s \in Removed(q) => Accounted(s)'
      BY <3>3, <3>4 DEF Accounted
    <3> QED BY <3>1, <3>3, <3>6, <3>7, NothingMoved
  <2>6. CASE Leave(p)
    <3>1. /\ UNCHANGED <<made, delivered, killed, got>>
          /\ files' = {f \in files : f[1] # SubOf[p]}
          /\ p \in Private /\ pc' = [pc EXCEPT ![p] = "rmdir"]
      BY <2>6 DEF Leave, Go
    <3>2. Gone(SubOf[p])' BY <3>1 DEF Gone, TypeOK
    <3>3. ASSUME NEW s \in made, OnDisk(s) PROVE Accounted(s)'
      <4>1. PICK f \in files : Slot(f) = s BY <3>3 DEF OnDisk
      <4>2. f[1] = s[1] BY <4>1 DEF Slot
      <4>3. f[1] # SubOf[p] => OnDisk(s)' BY <3>1, <4>1 DEF OnDisk
      <4> QED BY <3>2, <4>2, <4>3 DEF Accounted
    <3>4. \A q : Removed(q)' = Removed(q) BY <3>1 DEF Removed
    <3> QED BY <3>1, <3>3, <3>4, NothingMoved DEF Accounted
  <2>7. CASE RemoveDirectory(p)
    BY <2>7, <1>0 DEF RemoveDirectory
  <2>8. CASE Crash(p)
    <3>1. /\ UNCHANGED <<files, made, delivered>>
          /\ killed' = killed \cup Removed(p)
          /\ got' = [got EXCEPT ![p] = {}]
      BY <2>8 DEF Crash
    <3>2. \A q \in Pullers \ {p} : Removed(q)' = Removed(q)
      BY <3>1 DEF Removed, TypeOK
    <3>3. \A s : OnDisk(s)' = OnDisk(s) BY <3>1 DEF OnDisk
    <3>4. \A s \in made : \A q \in Pullers : s \in Removed(q) => Accounted(s)'
      BY <3>1, <3>2 DEF Accounted
    <3> QED BY <3>1, <3>3, <3>4, NothingMoved DEF Accounted
  <2> QED BY <1>3, <2>1, <2>2, <2>3, <2>4, <2>5, <2>6, <2>7, <2>8 DEF Pull
<1>4. CASE UNCHANGED vars BY <1>4, <1>0 DEF vars
<1> QED BY <1>1, <1>2, <1>3, <1>4 DEF Next

\* Nobody but its owner constructs a private subscription.
LEMMA OwnerWritesStep ==
    TypeOK /\ OwnerWrites /\ [Next]_vars => OwnerWrites'
<1> SUFFICES ASSUME TypeOK, OwnerWrites, [Next]_vars PROVE OwnerWrites'
    OBVIOUS
<1> USE ConstantsAssumption, SharingAssumption
    DEF TypeOK, Agents, Go, OwnerWrites,
        diskVars, pubVars, pullVars, pullHistory, historyVars
<1>1. ASSUME NEW a \in Agents, Construct(a) PROVE OwnerWrites'
  <2>1. CASE CheckExists(a)
    BY <2>1 DEF CheckExists
  <2>2. CASE CheckAgain(a)
    BY <2>2 DEF CheckAgain
  <2>3. CASE MakeDirectory(a)
    BY <2>3 DEF MakeDirectory
  <2>4. CASE WriteTopic(a)
    BY <2>4 DEF WriteTopic
  <2> QED BY <1>1, <2>1, <2>2, <2>3, <2>4 DEF Construct
<1>2. ASSUME NEW b \in Publishers, Publish(b) PROVE OwnerWrites'
  <2>1. CASE ListSubscriptions(b)
    BY <2>1 DEF ListSubscriptions
  <2>2. CASE ReadTopic(b)
    BY <2>2 DEF ReadTopic
  <2>3. CASE CreateFile(b)
    BY <2>3 DEF CreateFile
  <2>4. CASE WriteFile(b)
    BY <2>4 DEF WriteFile
  <2>5. CASE EndPublish(b)
    BY <2>5 DEF EndPublish
  <2> QED BY <1>2, <2>1, <2>2, <2>3, <2>4, <2>5 DEF Publish
<1>3. ASSUME NEW p \in Pullers, Pull(p) \/ Crash(p) PROVE OwnerWrites'
  <2>1. CASE ListFiles(p)
    BY <2>1 DEF ListFiles
  <2>2. CASE Grab(p)
    BY <2>2 DEF Grab
  <2>3. CASE Open(p)
    BY <2>3 DEF Open, Raise
  <2>4. CASE Remove(p)
    BY <2>4 DEF Remove, Raise, Count
  <2>5. CASE Return(p)
    BY <2>5 DEF Return
  <2>6. CASE Leave(p)
    BY <2>6 DEF Leave
  <2>7. CASE RemoveDirectory(p)
    BY <2>7 DEF RemoveDirectory
  <2>8. CASE Crash(p)
    BY <2>8 DEF Crash
  <2> QED BY <1>3, <2>1, <2>2, <2>3, <2>4, <2>5, <2>6, <2>7, <2>8 DEF Pull
<1>4. CASE UNCHANGED vars BY <1>4 DEF vars
<1> QED BY <1>1, <1>2, <1>3, <1>4 DEF Next

\* A complete subscription is not truncated.
LEMMA CompleteStays ==
    ASSUME TypeOK, OneCreator, OwnerWrites, [Next]_vars,
           NEW s \in Subs, dir[s] = "topic"
    PROVE  dir'[s] = "topic" \/ Gone(s)'
<1> USE ConstantsAssumption, SharingAssumption
    DEF TypeOK, Agents, Go,
        diskVars, pubVars, pullVars, pullHistory, historyVars
<1>1. ASSUME NEW a \in Agents, Construct(a) PROVE dir'[s] = "topic" \/ Gone(s)'
  <2>1. CASE CheckExists(a)
    BY <2>1 DEF CheckExists
  <2>2. CASE CheckAgain(a)
    BY <2>2 DEF CheckAgain
  <2>3. CASE MakeDirectory(a)
    BY <2>3 DEF MakeDirectory
  <2>4. CASE WriteTopic(a)
    <3>1. s = SubOf[a] => pc[a] # "open_topic"
      <4>1. CASE s \in SharedSubs BY <4>1 DEF OneCreator
      <4>2. CASE s \notin SharedSubs
        <5>1. PICK o \in Private : SubOf[o] = s BY <4>2 DEF SharedSubs
        <5>2. s = SubOf[a] => a = o BY <5>1
        <5> QED BY <5>1, <5>2 DEF OwnerWrites
      <4> QED BY <4>1, <4>2
    <3> QED BY <2>4, <3>1 DEF WriteTopic
  <2> QED BY <1>1, <2>1, <2>2, <2>3, <2>4 DEF Construct
<1>2. ASSUME NEW b \in Publishers, Publish(b) PROVE dir'[s] = "topic" \/ Gone(s)'
  <2>1. CASE ListSubscriptions(b)
    BY <2>1 DEF ListSubscriptions
  <2>2. CASE ReadTopic(b)
    BY <2>2 DEF ReadTopic
  <2>3. CASE CreateFile(b)
    BY <2>3 DEF CreateFile
  <2>4. CASE WriteFile(b)
    BY <2>4 DEF WriteFile
  <2>5. CASE EndPublish(b)
    BY <2>5 DEF EndPublish
  <2> QED BY <1>2, <2>1, <2>2, <2>3, <2>4, <2>5 DEF Publish
<1>3. ASSUME NEW p \in Pullers, Pull(p) \/ Crash(p) PROVE dir'[s] = "topic" \/ Gone(s)'
  <2>1. CASE ListFiles(p)
    BY <2>1 DEF ListFiles
  <2>2. CASE Grab(p)
    BY <2>2 DEF Grab
  <2>3. CASE Open(p)
    BY <2>3 DEF Open, Raise
  <2>4. CASE Remove(p)
    BY <2>4 DEF Remove, Raise, Count
  <2>5. CASE Return(p)
    BY <2>5 DEF Return
  <2>6. CASE Leave(p)
    <3>1. CASE s = SubOf[p] BY <2>6, <3>1 DEF Leave, Gone
    <3>2. CASE s # SubOf[p] BY <2>6, <3>2 DEF Leave
    <3> QED BY <3>1, <3>2
  <2>7. CASE RemoveDirectory(p)
    <3>1. CASE s = SubOf[p]
      <4>1. pc'[p] \in {"failed", "left"} /\ p \in Private
        BY <2>7 DEF RemoveDirectory
      <4> QED BY <3>1, <4>1 DEF Gone
    <3>2. CASE s # SubOf[p] BY <2>7, <3>2 DEF RemoveDirectory
    <3> QED BY <3>1, <3>2
  <2>8. CASE Crash(p)
    BY <2>8 DEF Crash
  <2> QED BY <1>3, <2>1, <2>2, <2>3, <2>4, <2>5, <2>6, <2>7, <2>8 DEF Pull
<1>4. CASE UNCHANGED vars BY <1>4 DEF vars
<1> QED BY <1>1, <1>2, <1>3, <1>4 DEF Next

\* The subscription of an owner that has gone is not completed again.
LEMMA GoneStaysGone ==
    ASSUME TypeOK, [Next]_vars, NEW s \in Subs, Gone(s), dir[s] # "topic"
    PROVE  dir'[s] # "topic"
<1> PICK o \in Private :
        SubOf[o] = s /\ pc[o] \in {"rmdir", "left", "failed"}
    BY DEF Gone
<1> USE ConstantsAssumption, SharingAssumption
    DEF TypeOK, Agents, Go,
        diskVars, pubVars, pullVars, pullHistory, historyVars
<1>1. ASSUME NEW a \in Agents, Construct(a) PROVE dir'[s] # "topic"
  <2>1. CASE CheckExists(a)
    BY <2>1 DEF CheckExists
  <2>2. CASE CheckAgain(a)
    BY <2>2 DEF CheckAgain
  <2>3. CASE MakeDirectory(a)
    BY <2>3 DEF MakeDirectory
  <2>4. CASE WriteTopic(a)
    <3>1. SubOf[a] # s \/ a = o OBVIOUS
    <3> QED BY <2>4, <3>1 DEF WriteTopic
  <2> QED BY <1>1, <2>1, <2>2, <2>3, <2>4 DEF Construct
<1>2. ASSUME NEW b \in Publishers, Publish(b) PROVE dir'[s] # "topic"
  <2>1. CASE ListSubscriptions(b)
    BY <2>1 DEF ListSubscriptions
  <2>2. CASE ReadTopic(b)
    BY <2>2 DEF ReadTopic
  <2>3. CASE CreateFile(b)
    BY <2>3 DEF CreateFile
  <2>4. CASE WriteFile(b)
    BY <2>4 DEF WriteFile
  <2>5. CASE EndPublish(b)
    BY <2>5 DEF EndPublish
  <2> QED BY <1>2, <2>1, <2>2, <2>3, <2>4, <2>5 DEF Publish
<1>3. ASSUME NEW p \in Pullers, Pull(p) \/ Crash(p) PROVE dir'[s] # "topic"
  <2>1. CASE ListFiles(p)
    BY <2>1 DEF ListFiles
  <2>2. CASE Grab(p)
    BY <2>2 DEF Grab
  <2>3. CASE Open(p)
    BY <2>3 DEF Open, Raise
  <2>4. CASE Remove(p)
    BY <2>4 DEF Remove, Raise, Count
  <2>5. CASE Return(p)
    BY <2>5 DEF Return
  <2>6. CASE Leave(p)
    BY <2>6 DEF Leave
  <2>7. CASE RemoveDirectory(p)
    BY <2>7 DEF RemoveDirectory
  <2>8. CASE Crash(p)
    BY <2>8 DEF Crash
  <2> QED BY <1>3, <2>1, <2>2, <2>3, <2>4, <2>5, <2>6, <2>7, <2>8 DEF Pull
<1>4. CASE UNCHANGED vars BY <1>4 DEF vars
<1> QED BY <1>1, <1>2, <1>3, <1>4 DEF Next

\* What is owed stays complete, or its owner goes.
LEMMA StillOwedStep ==
    TypeOK /\ OneCreator /\ OwnerWrites /\ StillOwed /\ [Next]_vars
    => StillOwed'
<1> SUFFICES ASSUME TypeOK, OneCreator, OwnerWrites, StillOwed, [Next]_vars,
                    NEW b \in Publishers, NEW s \in owed'[b]
             PROVE  s \in Subs \ OtherTopic /\ (dir'[s] = "topic" \/ Gone(s)')
    BY DEF StillOwed
<1>1. CASE s \in owed[b]
  <2>1. s \in Subs \ OtherTopic /\ (dir[s] = "topic" \/ Gone(s))
    BY <1>1 DEF StillOwed
  <2>2. Gone(s) => Gone(s)' BY GoneStays
  <2> QED BY <2>1, <2>2, CompleteStays
<1>2. CASE s \notin owed[b]
  <2>1. ListSubscriptions(b)
    BY <1>2 DEF Next, Construct, CheckExists, CheckAgain, MakeDirectory,
       WriteTopic, Publish, ListSubscriptions, ReadTopic, CreateFile, WriteFile,
       EndPublish, Pull, ListFiles, Grab, Open, Remove, Return, Leave,
       RemoveDirectory, Crash, historyVars, vars, TypeOK
  <2>2. owed'[b] = {t \in Subs \ OtherTopic : dir[t] = "topic"}
    BY <2>1 DEF ListSubscriptions, TypeOK
  <2>3. dir' = dir BY <2>1 DEF ListSubscriptions, diskVars
  <2> QED BY <2>2, <2>3
<1> QED BY <1>1, <1>2

\* A publication leaves nothing behind that it owes.
LEMMA AheadStep ==
    TypeOK /\ StillOwed /\ Ahead /\ [Next]_vars => Ahead'
<1> SUFFICES ASSUME TypeOK, StillOwed, Ahead, [Next]_vars PROVE Ahead'
    OBVIOUS
<1>0. \A c \in Publishers : \A s \in owed[c] :
        dir'[s] = "topic" => dir[s] = "topic"
  <2> SUFFICES ASSUME NEW c \in Publishers, NEW s \in owed[c], dir[s] # "topic"
               PROVE  dir'[s] # "topic"
      OBVIOUS
  <2>1. s \in Subs /\ Gone(s) BY DEF StillOwed
  <2> QED BY <2>1, GoneStaysGone
<1> USE ConstantsAssumption, <1>0
    DEF TypeOK, Agents, Go, Ahead,
        diskVars, pubVars, pullVars, pullHistory, historyVars
<1>1. ASSUME NEW a \in Agents, Construct(a) PROVE Ahead'
  <2>1. CASE CheckExists(a)
    BY <2>1 DEF CheckExists
  <2>2. CASE CheckAgain(a)
    BY <2>2 DEF CheckAgain
  <2>3. CASE MakeDirectory(a)
    BY <2>3 DEF MakeDirectory
  <2>4. CASE WriteTopic(a)
    BY <2>4 DEF WriteTopic
  <2> QED BY <1>1, <2>1, <2>2, <2>3, <2>4 DEF Construct
<1>2. ASSUME NEW b \in Publishers, Publish(b) PROVE Ahead'
  <2>1. CASE ListSubscriptions(b)
    <3>1. /\ todo'[b] = {s \in Subs : dir[s] # "none"}
          /\ owed'[b] = {s \in Subs \ OtherTopic : dir[s] = "topic"}
          /\ pc'[b] = "publish" /\ UNCHANGED <<dir, made, at>>
          /\ \A c \in Publishers \ {b} :
                todo'[c] = todo[c] /\ owed'[c] = owed[c] /\ pc'[c] = pc[c]
      BY <2>1 DEF ListSubscriptions
    <3>2. owed'[b] \subseteq todo'[b] BY <3>1
    <3> QED BY <3>1, <3>2
  <2>2. CASE ReadTopic(b)
    <3>1. PICK s \in todo[b] :
              /\ todo' = [todo EXCEPT ![b] = @ \ {s}]
              /\ \/ Go(b, "create_file") /\ at' = [at EXCEPT ![b] = s]
                 \/ Go(b, "failed") /\ UNCHANGED at
                 \/ (dir[s] # "topic" \/ s \in OtherTopic)
                    /\ UNCHANGED <<pc, at>>
      BY <2>2 DEF ReadTopic
    <3>2. pc[b] = "publish" /\ UNCHANGED <<dir, made, owed>>
      BY <2>2 DEF ReadTopic
    <3>3. \A c \in Publishers \ {b} :
            todo'[c] = todo[c] /\ at'[c] = at[c] /\ pc'[c] = pc[c]
      BY <3>1
    <3>4. s \in owed[b] => s \notin OtherTopic BY DEF StillOwed
    <3>5. ASSUME NEW r \in owed[b], pc'[b] # "failed"
          PROVE  \/ pc'[b] # "done" /\ r \in todo'[b]
                 \/ pc'[b] = "create_file" /\ at'[b] = r
                 \/ <<r, b>> \in made'
                 \/ dir'[r] # "topic"
      BY <3>1, <3>2, <3>4, <3>5
    <3> QED BY <3>2, <3>3, <3>5
  <2>3. CASE CreateFile(b)
    <3>1. /\ UNCHANGED <<dir, todo, at, owed>> /\ pc[b] = "create_file"
          /\ \A c \in Publishers \ {b} : pc'[c] = pc[c]
          /\ made \subseteq made'
          /\ pc'[b] = "write_file" => <<at[b], b>> \in made'
          /\ pc'[b] \in {"write_file", "failed"}
      BY <2>3 DEF CreateFile
    <3> QED BY <3>1
  <2>4. CASE WriteFile(b)
    BY <2>4 DEF WriteFile
  <2>5. CASE EndPublish(b)
    BY <2>5 DEF EndPublish
  <2> QED BY <1>2, <2>1, <2>2, <2>3, <2>4, <2>5 DEF Publish
<1>3. ASSUME NEW p \in Pullers, Pull(p) \/ Crash(p) PROVE Ahead'
  <2>1. CASE ListFiles(p)
    BY <2>1 DEF ListFiles
  <2>2. CASE Grab(p)
    BY <2>2 DEF Grab
  <2>3. CASE Open(p)
    BY <2>3 DEF Open, Raise
  <2>4. CASE Remove(p)
    BY <2>4 DEF Remove, Raise, Count
  <2>5. CASE Return(p)
    BY <2>5 DEF Return
  <2>6. CASE Leave(p)
    BY <2>6 DEF Leave
  <2>7. CASE RemoveDirectory(p)
    BY <2>7 DEF RemoveDirectory
  <2>8. CASE Crash(p)
    BY <2>8 DEF Crash
  <2> QED BY <1>3, <2>1, <2>2, <2>3, <2>4, <2>5, <2>6, <2>7, <2>8 DEF Pull
<1>4. CASE UNCHANGED vars BY <1>4 DEF vars
<1> QED BY <1>1, <1>2, <1>3, <1>4 DEF Next

\* The invariant that both rest on is inductive.
LEMMA DeliveryStep ==
    IndInv /\ DeliveryInv /\ [Next]_vars => DeliveryInv'
BY ClaimsStep, UndisturbedStep, NothingLostStep, OwnerWritesStep,
   StillOwedStep, AheadStep DEF IndInv, DeliveryInv

\* It holds initially.
LEMMA DeliveryInit == Init => DeliveryInv
<1> SUFFICES ASSUME Init PROVE DeliveryInv OBVIOUS
<1> USE ConstantsAssumption DEF Init
<1>1. Claims BY DEF Claims, Agents
<1>2. Undisturbed BY DEF Undisturbed, Agents
<1>3. NothingLost BY DEF NothingLost
<1>4. OwnerWrites BY DEF OwnerWrites, Agents
<1>5. StillOwed BY DEF StillOwed
<1>6. Ahead BY DEF Ahead
<1> QED BY <1>1, <1>2, <1>3, <1>4, <1>5, <1>6 DEF DeliveryInv

\* So it holds in every reachable state.
THEOREM DeliveryInvariance == Spec => []DeliveryInv
BY DeliveryInit, DeliveryStep, Invariance, PTL DEF Spec

\* A message that a subscription received is in its directory, delivered, in
\* the hands of the puller that will return it, or went with a puller that was
\* killed or an owner that left; a pull that raises loses none
\* (LocalPubSub.py:109-135).
THEOREM NothingLostCorrect == Spec => []NothingLost
<1>1. DeliveryInv => NothingLost BY DEF DeliveryInv
<1> QED BY <1>1, DeliveryInvariance, PTL

\* A publication that ends without an exception reached every subscription
\* that was complete when it began and was not deleted since
\* (LocalPubSub.py:67-80).
THEOREM ReachesAllCorrect == Spec => []ReachesAll
<1>1. DeliveryInv => ReachesAll BY DEF DeliveryInv, Ahead, ReachesAll
<1> QED BY <1>1, DeliveryInvariance, PTL

(***************************************************************************)
(* The emulation implements the abstract service.  What is needed besides  *)
(* the invariants above: publishers write where their topic is, and a pull *)
(* that goes on has not removed as much as it was asked for.               *)
(***************************************************************************)

\* A publisher is at a subscription of its topic.
Addressed ==
    \A b \in Publishers :
        pc[b] \in {"create_file", "write_file"} => at[b] \in Subs \ OtherTopic

\* A pull that goes on is below its limit; between pulls nothing is kept.
Batch ==
    \A p \in Pullers :
        /\ IsFiniteSet(got[p])
        /\ pc[p] \in {"grab", "open", "remove"} =>
             Cardinality(got[p]) < MaxMessages[p]
        /\ pc[p] \notin {"grab", "open", "remove", "return"} => got[p] = {}

\* Only ReadTopic leads a publisher to a directory.
LEMMA AddressedStep == TypeOK /\ Addressed /\ [Next]_vars => Addressed'
<1> SUFFICES ASSUME TypeOK, Addressed, [Next]_vars PROVE Addressed'
    OBVIOUS
<1> USE ConstantsAssumption
    DEF TypeOK, Agents, Go, Addressed,
        diskVars, pubVars, pullVars, pullHistory, historyVars
<1>1. ASSUME NEW a \in Agents, Construct(a) PROVE Addressed'
  <2>1. CASE CheckExists(a)
    BY <2>1 DEF CheckExists
  <2>2. CASE CheckAgain(a)
    BY <2>2 DEF CheckAgain
  <2>3. CASE MakeDirectory(a)
    BY <2>3 DEF MakeDirectory
  <2>4. CASE WriteTopic(a)
    BY <2>4 DEF WriteTopic
  <2> QED BY <1>1, <2>1, <2>2, <2>3, <2>4 DEF Construct
<1>2. ASSUME NEW b \in Publishers, Publish(b) PROVE Addressed'
  <2>1. CASE ListSubscriptions(b)
    BY <2>1 DEF ListSubscriptions
  <2>2. CASE ReadTopic(b)
    <3>1. PICK s \in todo[b] :
            \/ /\ s \notin OtherTopic
               /\ Go(b, "create_file") /\ at' = [at EXCEPT ![b] = s]
            \/ Go(b, "failed") /\ UNCHANGED at
            \/ UNCHANGED <<pc, at>>
      BY <2>2 DEF ReadTopic
    <3>2. s \in Subs OBVIOUS
    <3> QED BY <3>1, <3>2
  <2>3. CASE CreateFile(b)
    BY <2>3 DEF CreateFile
  <2>4. CASE WriteFile(b)
    BY <2>4 DEF WriteFile
  <2>5. CASE EndPublish(b)
    BY <2>5 DEF EndPublish
  <2> QED BY <1>2, <2>1, <2>2, <2>3, <2>4, <2>5 DEF Publish
<1>3. ASSUME NEW p \in Pullers, Pull(p) \/ Crash(p) PROVE Addressed'
  <2>1. UNCHANGED at /\ \A b \in Publishers : pc'[b] = pc[b]
    <3>1. CASE ListFiles(p)
      BY <3>1 DEF ListFiles
    <3>2. CASE Grab(p)
      BY <3>2 DEF Grab
    <3>3. CASE Open(p)
      BY <3>3 DEF Open, Raise
    <3>4. CASE Remove(p)
      BY <3>4 DEF Remove, Raise, Count
    <3>5. CASE Return(p)
      BY <3>5 DEF Return
    <3>6. CASE Leave(p)
      BY <3>6 DEF Leave
    <3>7. CASE RemoveDirectory(p)
      BY <3>7 DEF RemoveDirectory
    <3>8. CASE Crash(p)
      BY <3>8 DEF Crash
    <3> QED BY <1>3, <3>1, <3>2, <3>3, <3>4, <3>5, <3>6, <3>7, <3>8 DEF Pull
  <2> QED BY <2>1
<1>4. CASE UNCHANGED vars BY <1>4 DEF vars
<1> QED BY <1>1, <1>2, <1>3, <1>4 DEF Next

\* The pull ends as soon as the limit is reached, and removes one at a time.
LEMMA BatchStep == TypeOK /\ Batch /\ [Next]_vars => Batch'
<1> SUFFICES ASSUME TypeOK, Batch, [Next]_vars PROVE Batch'
    OBVIOUS
<1> USE ConstantsAssumption
    DEF TypeOK, Agents, Go, Batch,
        diskVars, pubVars, pullVars, pullHistory, historyVars
<1>1. ASSUME NEW a \in Agents, Construct(a) PROVE Batch'
  <2>1. CASE CheckExists(a)
    BY <2>1 DEF CheckExists
  <2>2. CASE CheckAgain(a)
    BY <2>2 DEF CheckAgain
  <2>3. CASE MakeDirectory(a)
    BY <2>3 DEF MakeDirectory
  <2>4. CASE WriteTopic(a)
    BY <2>4 DEF WriteTopic
  <2> QED BY <1>1, <2>1, <2>2, <2>3, <2>4 DEF Construct
<1>2. ASSUME NEW b \in Publishers, Publish(b) PROVE Batch'
  <2>1. UNCHANGED got /\ \A p \in Pullers : pc'[p] = pc[p]
    <3>1. CASE ListSubscriptions(b)
      BY <3>1 DEF ListSubscriptions
    <3>2. CASE ReadTopic(b)
      BY <3>2 DEF ReadTopic
    <3>3. CASE CreateFile(b)
      BY <3>3 DEF CreateFile
    <3>4. CASE WriteFile(b)
      BY <3>4 DEF WriteFile
    <3>5. CASE EndPublish(b)
      BY <3>5 DEF EndPublish
    <3> QED BY <1>2, <3>1, <3>2, <3>3, <3>4, <3>5 DEF Publish
  <2> QED BY <2>1
<1>3. ASSUME NEW p \in Pullers, Pull(p) \/ Crash(p) PROVE Batch'
  <2>0. IsFiniteSet({}) /\ Cardinality({}) = 0 /\ MaxMessages[p] \in Nat \ {0}
    BY FS_EmptySet
  <2>1. CASE ListFiles(p)
    <3>1. /\ UNCHANGED got /\ got[p] = {} /\ pc'[p] = "grab"
          /\ \A q \in Pullers \ {p} : pc'[q] = pc[q]
      BY <2>1 DEF ListFiles
    <3>2. Cardinality(got[p]) < MaxMessages[p] BY <2>0, <3>1
    <3> QED BY <3>1, <3>2
  <2>2. CASE Grab(p)
    <3>1. UNCHANGED got /\ pc[p] = "grab" /\ (pc' = pc \/ Go(p, "open"))
      BY <2>2 DEF Grab
    <3> QED BY <3>1
  <2>3. CASE Open(p)
    BY <2>0, <2>3 DEF Open, Raise
  <2>4. CASE Remove(p)
    <3>1. CASE Raise(p)
      BY <2>0, <3>1 DEF Raise
    <3>2. CASE Count(p)
      <4> DEFINE g == <<Slot(hold[p]), whole[p]>>
                 c == Cardinality(got[p])
      <4>1. pc[p] = "remove" /\ IsFiniteSet(got[p]) BY <2>4 DEF Remove
      <4>2. c \in Nat /\ c < MaxMessages[p] BY <4>1, FS_CardinalityType
      <4>3. /\ IsFiniteSet(got[p] \cup {g})
            /\ Cardinality(got[p] \cup {g}) \in {c, c + 1}
        BY <4>1, FS_AddElement
      <4>4. /\ got' = [got EXCEPT ![p] = got[p] \cup {g}]
            /\ pc' = [pc EXCEPT ![p] = IF c + 1 = MaxMessages[p]
                                       THEN "return" ELSE "grab"]
        BY <3>2 DEF Count
      <4> HIDE DEF g, c
      <4>5. Cardinality(got[p] \cup {g}) < MaxMessages[p]
              \/ c + 1 = MaxMessages[p]
        <5> DEFINE d == Cardinality(got[p] \cup {g})
        <5>1. d \in {c, c + 1} BY <4>3
        <5> HIDE DEF d
        <5>2. d < MaxMessages[p] \/ c + 1 = MaxMessages[p]
          BY <2>0, <4>2, <5>1
        <5> QED BY <5>2 DEF d
      <4>6. /\ got'[p] = got[p] \cup {g}
            /\ \A q \in Pullers \ {p} : got'[q] = got[q] /\ pc'[q] = pc[q]
            /\ pc'[p] = IF c + 1 = MaxMessages[p] THEN "return" ELSE "grab"
        BY <4>4
      <4>7. pc'[p] # "return" => Cardinality(got'[p]) < MaxMessages[p]
        BY <4>5, <4>6
      <4>8. pc'[p] \in {"return", "grab"} /\ IsFiniteSet(got'[p])
        BY <4>3, <4>6
      <4>9. ASSUME NEW q \in Pullers
            PROVE  /\ IsFiniteSet(got'[q])
                   /\ pc'[q] \in {"grab", "open", "remove"} =>
                        Cardinality(got'[q]) < MaxMessages[q]
                   /\ pc'[q] \notin {"grab", "open", "remove", "return"} =>
                        got'[q] = {}
        <5>1. CASE q = p BY <4>7, <4>8, <5>1
        <5>2. CASE q # p
          <6>1. got'[q] = got[q] /\ pc'[q] = pc[q] BY <4>6, <5>2
          <6> QED BY <6>1
        <5> QED BY <5>1, <5>2
      <4> QED BY <4>9
    <3> QED BY <2>4, <3>1, <3>2 DEF Remove
  <2>5. CASE Return(p)
    BY <2>0, <2>5 DEF Return
  <2>6. CASE Leave(p)
    BY <2>6 DEF Leave
  <2>7. CASE RemoveDirectory(p)
    BY <2>7 DEF RemoveDirectory
  <2>8. CASE Crash(p)
    BY <2>0, <2>8 DEF Crash
  <2> QED BY <1>3, <2>1, <2>2, <2>3, <2>4, <2>5, <2>6, <2>7, <2>8 DEF Pull
<1>4. CASE UNCHANGED vars BY <1>4 DEF vars
<1> QED BY <1>1, <1>2, <1>3, <1>4 DEF Next


\* Both hold in every reachable state.
THEOREM BatchInvariance == Spec => [](Addressed /\ Batch)
<1>1. Init => Addressed /\ Batch
  <2> SUFFICES ASSUME Init PROVE Addressed /\ Batch OBVIOUS
  <2>1. Addressed BY ConstantsAssumption DEF Init, Addressed, Agents
  <2>2. Batch BY ConstantsAssumption, FS_EmptySet DEF Init, Batch, Agents
  <2> QED BY <2>1, <2>2
<1>2. IndInv /\ Addressed /\ Batch /\ [Next]_vars => (Addressed /\ Batch)'
  BY AddressedStep, BatchStep DEF IndInv
<1> QED BY <1>1, <1>2, Invariance, PTL DEF Spec

\* A step that leaves every message where it is, is none of the service's.
LEMMA QuietStep ==
    ASSUME made' = made, delivered' = delivered,
           \A s : OnDisk(s)' <=> OnDisk(s),
           \A p \in Pullers : Removed(p)' = Removed(p)
    PROVE  UNCHANGED Promise!vars
<1>1. UNCHANGED <<Waiting, Returned, Vanished>>
  BY DEF Waiting, Returned, Vanished
<1>2. UNCHANGED [p \in Pullers |-> Removed(p)] OBVIOUS
<1> QED BY <1>1, <1>2 DEF Promise!vars

\* Creating the file of a message sends it.
LEMMA CreateSends ==
    ASSUME TypeOK, Unvisited, OnePlace, Addressed,
           NEW b \in Publishers, CreateFile(b)
    PROVE  [Promise!Next]_(Promise!vars)
<1> PICK s0 : s0 = <<at[b], b>> OBVIOUS
<1>1. UNCHANGED <<got, delivered>>
  BY DEF CreateFile, pullVars, historyVars, pullHistory
<1>2. \A p \in Pullers : Removed(p)' = Removed(p) BY <1>1 DEF Removed
<1>3. CASE UNCHANGED <<files, made>>
  BY <1>1, <1>2, <1>3, QuietStep DEF OnDisk
<1>4. CASE /\ files' = files \cup {<<at[b], b, 0>>}
           /\ made' = made \cup {s0}
  <2>1. pc[b] = "create_file" BY DEF CreateFile
  <2>2. s0 \in (Subs \ OtherTopic) \X Publishers BY <2>1 DEF Addressed
  <2>3. s0 \in Slots /\ s0 \notin made BY <2>1, <2>2 DEF Unvisited, Slots
  <2>4. Slot(<<at[b], b, 0>>) = s0 BY DEF Slot
  <2>5. \A s : OnDisk(s)' <=> OnDisk(s) \/ s = s0
    BY <1>4, <2>4 DEF OnDisk, Slot
  <2>6. /\ ~OnDisk(s0) /\ delivered[s0] = 0
        /\ \A p \in Pullers : s0 \notin Removed(p)
    BY <2>3 DEF OnePlace
  <2>7. Waiting' = Waiting \cup {s0} BY <2>3, <2>5 DEF Waiting
  <2>8. UNCHANGED <<Returned, Vanished>>
    <3>1. UNCHANGED Returned BY <1>1 DEF Returned
    <3>2. Vanished' = Vanished
      BY <1>1, <1>2, <1>4, <2>5, <2>3 DEF Vanished
    <3> QED BY <3>1, <3>2
  <2>9. UNCHANGED [p \in Pullers |-> Removed(p)] BY <1>2
  <2>10. s0 \notin Promise!Known
    BY <2>3, <2>6 DEF Promise!Known, Waiting, Returned, Vanished
  <2>11. Promise!Send(s0)
    BY <2>7, <2>8, <2>9, <2>10 DEF Promise!Send
  <2> QED BY <2>2, <2>11 DEF Promise!Next
<1> QED BY <1>3, <1>4 DEF CreateFile

\* The service counts as we do.
LEMMA SameCount == \A S : Promise!Cardinality(S) = Cardinality(S)
BY DEF Promise!Cardinality, Cardinality

\* Removing the file of a message takes it.
LEMMA RemoveTakes ==
    ASSUME TypeOK, OneFile, OnePlace, HoldsFile, Claims, Undisturbed, Batch,
           NEW p \in Pullers, Remove(p)
    PROVE  [Promise!Next]_(Promise!vars)
<1>0. /\ got \in [Pullers -> SUBSET (Slots \X BOOLEAN)] /\ pc[p] = "remove"
      /\ UNCHANGED <<made, delivered>>
  BY DEF TypeOK, Remove, historyVars, pullHistory
<1>1. CASE hold[p] \notin files
  <2>1. got[p] = {} BY <1>0, <1>1 DEF Undisturbed
  <2>2. got' = [got EXCEPT ![p] = {}] /\ UNCHANGED files
    BY <1>1 DEF Remove, Raise
  <2>3. got' = got BY <1>0, <2>1, <2>2
  <2> QED BY <1>0, <2>2, <2>3, QuietStep DEF OnDisk, Removed
<1>2. CASE hold[p] \in files
  <2> DEFINE s0 == Slot(hold[p])
  <2>1. /\ files' = files \ {hold[p]}
        /\ got' = [got EXCEPT ![p] = @ \cup {<<s0, whole[p]>>}]
    BY <1>2 DEF Remove, Count
  <2>2. s0 \in Slots /\ OnDisk(s0) /\ s0[1] = SubOf[p]
    BY <1>0, <1>2 DEF OnDisk, Claims, TypeOK, Slot, Slots, Files
  <2>3. \A s : OnDisk(s)' <=> OnDisk(s) /\ s # s0
    BY <1>2, <2>1 DEF OnDisk, OneFile
  <2> HIDE DEF s0
  <2>4. got'[p] = got[p] \cup {<<s0, whole[p]>>} BY <1>0, <2>1
  <2>5. Removed(p)' = Removed(p) \cup {s0}
    <3>1. <<s0, whole[p]>>[1] = s0 OBVIOUS
    <3> QED BY <2>4, <3>1 DEF Removed
  <2>6. \A q \in Pullers \ {p} : Removed(q)' = Removed(q)
    BY <1>0, <2>1 DEF Removed
  <2>7. Cardinality(Removed(p)) < MaxMessages[p]
    <3> DEFINE f == [g \in got[p] |-> g[1]]
    <3>1. IsFiniteSet(got[p]) /\ Cardinality(got[p]) < MaxMessages[p]
      BY <1>0 DEF Batch
    <3>2. f \in Surjection(got[p], Removed(p))
      BY DEF Surjection, Removed
    <3>3. /\ IsFiniteSet(Removed(p))
          /\ Cardinality(Removed(p)) <= Cardinality(got[p])
      BY <3>1, <3>2, FS_Surjection
    <3>4. Cardinality(Removed(p)) \in Nat /\ Cardinality(got[p]) \in Nat
      BY <3>1, <3>3, FS_CardinalityType
    <3>5. MaxMessages[p] \in Nat BY ConstantsAssumption
    <3> QED BY <3>1, <3>3, <3>4, <3>5
  <2>8. Waiting' = Waiting \ {s0} BY <2>3 DEF Waiting
  <2>9. UNCHANGED Returned BY <1>0 DEF Returned
  <2>10. UNCHANGED Vanished
    <3>1. \A s \in made : s \in Vanished' <=> s \in Vanished
      <4> TAKE s \in made
      <4>1. CASE s = s0
        <5>1. s \notin Vanished BY <2>2, <4>1 DEF Vanished
        <5>2. s \notin Vanished' BY <2>5, <4>1 DEF Vanished
        <5> QED BY <5>1, <5>2
      <4>2. CASE s # s0
        <5>1. \A q \in Pullers : s \in Removed(q)' <=> s \in Removed(q)
          BY <2>5, <2>6, <4>2
        <5> QED BY <1>0, <2>3, <4>2, <5>1 DEF Vanished
      <4> QED BY <4>1, <4>2
    <3> QED BY <1>0, <3>1 DEF Vanished
  <2>11. [q \in Pullers |-> Removed(q)]'
           = [[q \in Pullers |-> Removed(q)] EXCEPT ![p] = @ \cup {s0}]
    BY <2>5, <2>6
  <2>12. s0 \in Waiting BY <2>2 DEF Waiting
  <2>13. Promise!Take(p, s0)
    BY <2>2, <2>7, <2>8, <2>9, <2>10, <2>11, <2>12, SameCount
       DEF Promise!Take
  <2> QED BY <2>12, <2>13 DEF Promise!Next
<1> QED BY <1>1, <1>2

\* A pull that returns delivers what it removed.
LEMMA ReturnDelivers ==
    ASSUME TypeOK, OnePlace, NEW p \in Pullers, Return(p)
    PROVE  Promise!Return(p)
<1>1. /\ got \in [Pullers -> SUBSET (Slots \X BOOLEAN)]
      /\ delivered \in [Slots -> Nat] /\ made \subseteq Slots
      /\ UNCHANGED <<files, made>>
  BY DEF TypeOK, Return, diskVars
<1>2. Removed(p)' = {} BY <1>1 DEF Return, Removed
<1>3. \A q \in Pullers \ {p} : Removed(q)' = Removed(q)
  BY <1>1 DEF Return, Removed
<1>4. \A s : OnDisk(s)' <=> OnDisk(s) BY <1>1 DEF OnDisk
<1>5. \A s \in Slots : delivered'[s] = IF s \in Removed(p)
                                       THEN delivered[s] + 1 ELSE delivered[s]
  BY DEF Return
<1>6. Removed(p) \subseteq Slots BY <1>1 DEF Removed
<1>7. Waiting' = Waiting BY <1>4 DEF Waiting
<1>8. Returned' = Returned \cup Removed(p)
  <2>1. \A s \in Slots : delivered[s] \in Nat BY <1>1
  <2>2. \A s \in Slots :
            delivered'[s] > 0 <=> delivered[s] > 0 \/ s \in Removed(p)
    BY <1>5, <2>1
  <2> QED BY <1>6, <2>2 DEF Returned
<1>9. Vanished' = Vanished
  <2>1. ASSUME NEW s \in made PROVE s \in Vanished' <=> s \in Vanished
    <3>1. s \in Slots /\ delivered[s] \in Nat BY <1>1
    <3>2. CASE s \in Removed(p)
      <4>1. delivered'[s] # 0 BY <1>5, <3>1, <3>2
      <4> QED BY <3>2, <4>1 DEF Vanished
    <3>3. CASE s \notin Removed(p)
      <4>1. delivered'[s] = delivered[s] BY <1>5, <3>1, <3>3
      <4>2. \A q \in Pullers : s \in Removed(q)' <=> s \in Removed(q)
        BY <1>2, <1>3, <3>3
      <4> QED BY <1>1, <1>4, <4>1, <4>2 DEF Vanished
    <3> QED BY <3>2, <3>3
  <2> QED BY <1>1, <2>1 DEF Vanished
<1>10. [q \in Pullers |-> Removed(q)]'
         = [[q \in Pullers |-> Removed(q)] EXCEPT ![p] = {}]
  BY <1>2, <1>3
<1> QED BY <1>7, <1>8, <1>9, <1>10 DEF Promise!Return

\* With a puller that is killed goes what it removed.
LEMMA CrashLoses ==
    ASSUME TypeOK, OnePlace, NEW p \in Pullers, Crash(p)
    PROVE  Promise!Die(p)
<1>1. /\ got \in [Pullers -> SUBSET (Slots \X BOOLEAN)] /\ made \subseteq Slots
      /\ UNCHANGED <<files, made, delivered>>
  BY DEF TypeOK, Crash, diskVars
<1>2. Removed(p)' = {} BY <1>1 DEF Crash, Removed
<1>3. \A q \in Pullers \ {p} : Removed(q)' = Removed(q)
  BY <1>1 DEF Crash, Removed
<1>4. \A s : OnDisk(s)' <=> OnDisk(s) BY <1>1 DEF OnDisk
<1>5. Removed(p) \subseteq made
  <2>1. Removed(p) \subseteq Slots BY <1>1 DEF Removed
  <2> QED BY <2>1 DEF OnePlace
<1>6. UNCHANGED <<Waiting, Returned>> BY <1>1, <1>4 DEF Waiting, Returned
<1>7. Vanished' = Vanished \cup Removed(p)
  <2>1. ASSUME NEW s \in made
        PROVE  s \in Vanished' <=> s \in Vanished \/ s \in Removed(p)
    <3>1. CASE s \in Removed(p)
      <4>1. s \in Slots BY <1>1
      <4>2. ~OnDisk(s) /\ delivered[s] = 0
            /\ \A q \in Pullers \ {p} : s \notin Removed(q)
        BY <3>1, <4>1 DEF OnePlace
      <4>3. \A q \in Pullers : s \notin Removed(q)' BY <1>2, <1>3, <4>2
      <4> QED BY <1>1, <1>4, <3>1, <4>2, <4>3 DEF Vanished
    <3>2. CASE s \notin Removed(p)
      <4>1. \A q \in Pullers : s \in Removed(q)' <=> s \in Removed(q)
        BY <1>2, <1>3, <3>2
      <4> QED BY <1>1, <1>4, <3>2, <4>1 DEF Vanished
    <3> QED BY <3>1, <3>2
  <2> QED BY <1>1, <1>5, <2>1 DEF Vanished
<1>8. [q \in Pullers |-> Removed(q)]'
        = [[q \in Pullers |-> Removed(q)] EXCEPT ![p] = {}]
  BY <1>2, <1>3
<1> QED BY <1>6, <1>7, <1>8 DEF Promise!Die

\* An owner that leaves takes its subscription down.
LEMMA LeaveTakesDown ==
    ASSUME TypeOK, OnePlace, NEW p \in Pullers, Leave(p)
    PROVE  Promise!TakeDown(SubOf[p])
<1>1. /\ files' = {f \in files : f[1] # SubOf[p]} /\ made \subseteq Slots
      /\ UNCHANGED <<made, got, delivered>>
  BY DEF TypeOK, Leave, pullVars, historyVars, pullHistory
<1>2. \A q : Removed(q)' = Removed(q) BY <1>1 DEF Removed
<1>3. \A s \in Slots : OnDisk(s)' <=> OnDisk(s) /\ s[1] # SubOf[p]
  <2> TAKE s \in Slots
  <2>1. \A f : Slot(f)[1] = f[1] BY DEF Slot
  <2> QED BY <1>1, <2>1 DEF OnDisk, Slot
<1>4. Waiting' = {m \in Waiting : m[1] # SubOf[p]} BY <1>3 DEF Waiting
<1>5. UNCHANGED Returned BY <1>1 DEF Returned
<1>6. Vanished' = Vanished \cup {m \in Waiting : m[1] = SubOf[p]}
  <2>1. ASSUME NEW s \in made
        PROVE  s \in Vanished' <=>
                 s \in Vanished \/ (s \in Waiting /\ s[1] = SubOf[p])
    <3>1. s \in Slots BY <1>1
    <3>2. CASE OnDisk(s)
      <4>1. delivered[s] = 0 /\ \A q \in Pullers : s \notin Removed(q)
        BY <3>1, <3>2 DEF OnePlace
      <4> QED BY <1>1, <1>2, <1>3, <3>1, <3>2, <4>1 DEF Vanished, Waiting
    <3>3. CASE ~OnDisk(s)
      BY <1>1, <1>2, <1>3, <3>1, <3>3 DEF Vanished, Waiting
    <3> QED BY <3>2, <3>3
  <2>2. Waiting \subseteq made BY DEF Waiting, OnePlace
  <2> QED BY <1>1, <2>1, <2>2 DEF Vanished
<1>7. UNCHANGED [q \in Pullers |-> Removed(q)] BY <1>2
<1> QED BY <1>4, <1>5, <1>6, <1>7 DEF Promise!TakeDown

\* Every step of the emulation is a step of the service or none.
LEMMA PromiseStep ==
    ASSUME IndInv, DeliveryInv, Addressed, Batch, [Next]_vars
    PROVE  [Promise!Next]_(Promise!vars)
<1>0. ASSUME UNCHANGED <<files, made, delivered, got>>
      PROVE  [Promise!Next]_(Promise!vars)
  BY <1>0, QuietStep DEF OnDisk, Removed
<1> USE ConstantsAssumption
    DEF diskVars, pubVars, pullVars, pullHistory, historyVars
<1>1. ASSUME NEW a \in Agents, Construct(a)
      PROVE  [Promise!Next]_(Promise!vars)
  BY <1>0, <1>1
     DEF Construct, CheckExists, CheckAgain, MakeDirectory, WriteTopic
<1>2. ASSUME NEW b \in Publishers, Publish(b)
      PROVE  [Promise!Next]_(Promise!vars)
  <2>1. CASE CreateFile(b)
    BY <2>1, CreateSends DEF IndInv
  <2>2. CASE ~CreateFile(b)
    BY <1>0, <1>2, <2>2
       DEF Publish, ListSubscriptions, ReadTopic, WriteFile, EndPublish
  <2> QED BY <2>1, <2>2
<1>3. ASSUME NEW p \in Pullers, Pull(p) \/ Crash(p)
      PROVE  [Promise!Next]_(Promise!vars)
  <2>1. CASE ListFiles(p) BY <1>0, <2>1 DEF ListFiles
  <2>2. CASE Grab(p)
    <3>1. PICK f \in items[p] :
              \/ UNCHANGED files
              \/ /\ f \in files
                 /\ files' = (files \ {f}) \cup {<<f[1], f[2], f[3] + 1>>}
      BY <2>2 DEF Grab
    <3>2. Slot(<<f[1], f[2], f[3] + 1>>) = Slot(f) BY DEF Slot
    <3>3. \A s : OnDisk(s)' <=> OnDisk(s) BY <3>1, <3>2 DEF OnDisk, Slot
    <3>4. UNCHANGED <<made, delivered, got>> BY <2>2 DEF Grab
    <3> QED BY <3>3, <3>4, QuietStep DEF Removed
  <2>3. CASE Open(p)
    <3>1. UNCHANGED <<files, made, delivered>> BY <2>3 DEF Open, Raise
    <3>2. got' = got
      <4>1. CASE hold[p] \in files BY <2>3, <4>1 DEF Open
      <4>2. CASE hold[p] \notin files
        <5>1. got[p] = {} BY <2>3, <4>2 DEF Open, DeliveryInv, Undisturbed
        <5>2. got' = [got EXCEPT ![p] = {}] BY <2>3, <4>2 DEF Open, Raise
        <5>3. got \in [Pullers -> SUBSET (Slots \X BOOLEAN)]
          BY DEF IndInv, TypeOK
        <5> QED BY <5>1, <5>2, <5>3
      <4> QED BY <4>1, <4>2
    <3> QED BY <1>0, <3>1, <3>2
  <2>4. CASE Remove(p)
    BY <2>4, RemoveTakes DEF IndInv, DeliveryInv
  <2>5. CASE Return(p)
    BY <2>5, ReturnDelivers DEF IndInv, Promise!Next
  <2>6. CASE Leave(p)
    <3>1. SubOf[p] \in {SubOf[q] : q \in Private} BY <2>6 DEF Leave
    <3> QED BY <2>6, <3>1, LeaveTakesDown DEF IndInv, Promise!Next
  <2>7. CASE RemoveDirectory(p) BY <1>0, <2>7 DEF RemoveDirectory
  <2>8. CASE Crash(p)
    BY <2>8, CrashLoses DEF IndInv, Promise!Next
  <2> QED BY <1>3, <2>1, <2>2, <2>3, <2>4, <2>5, <2>6, <2>7, <2>8 DEF Pull
<1>4. CASE UNCHANGED vars BY <1>0, <1>4 DEF vars
<1> QED BY <1>1, <1>2, <1>3, <1>4 DEF Next

\* Empty directories are an empty service.
LEMMA PromiseInit == Init => Promise!Init
<1> SUFFICES ASSUME Init PROVE Promise!Init OBVIOUS
<1>1. Waiting = {} BY DEF Init, Waiting, OnDisk
<1>2. Returned = {} BY DEF Init, Returned
<1>3. Vanished = {} BY DEF Init, Vanished
<1>4. \A p \in Pullers : Removed(p) = {} BY DEF Init, Removed
<1> QED BY <1>1, <1>2, <1>3, <1>4 DEF Promise!Init

\* The directories implement the service: a message put into a subscription
\* is removed by one puller of that subscription and returned by the pull that
\* removed it, in batches as large as was asked for at most, or is lost with a
\* puller that was killed or a subscription that was taken down
\* (LocalPubSub.py:64-80, 109-135).
THEOREM ImplementsPubSubCorrect == Spec => ImplementsPubSub
BY PromiseInit, PromiseStep, Invariance, DeliveryInvariance, BatchInvariance,
   PTL DEF Spec, ImplementsPubSub, Promise!Spec
=============================================================================
