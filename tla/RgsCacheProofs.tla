--------------------------- MODULE RgsCacheProofs ---------------------------
(***************************************************************************)
(* Theorems about RgsCache for every number of loaders, every time to live *)
(* and every number of crashes.                                            *)
(***************************************************************************)
EXTENDS RgsCache, TLAPS

\* A snapshot in the file is as old as the file: what is written was fetched in the
\* same instant, since nothing waits between the answer and the write.
FileIsAsOldAsItsData == file \in File => file.data = file.age

\* A loader that is about to read has a file that may still be used: the file can only
\* have become younger since its age was looked at.
ReadersHaveAFile == \A l \in Loaders : pc[l] = "read" => file \in File /\ file.age <= TTL

\* What a loader has in memory, by the step it is at.
BytesFollowSteps ==
  \A l \in Loaders :
    /\ pc[l] \in {"off", "check", "read", "fetch"} => bytes[l] = None
    /\ pc[l] \in {"truncate", "fill"} =>
         bytes[l] \in Bytes /\ bytes[l].own /\ bytes[l].data = 0
           /\ bytes[l].content # "torn"
    /\ pc[l] = "apply" =>
         bytes[l] \in Bytes /\ bytes[l].data <= TTL
           /\ (bytes[l].own => bytes[l].content # "torn")
    /\ pc[l] = "failed" /\ bytes[l] # None =>
         bytes[l] \in Bytes /\ (bytes[l].own => bytes[l].content = "bad")

IInv == TypeOK /\ FileIsAsOldAsItsData /\ ReadersHaveAFile /\ BytesFollowSteps

LEMMA InitInvariant == Init => IInv
<1> SUFFICES ASSUME Init PROVE IInv
  OBVIOUS
<1>1. TypeOK
  <2>1. crashes \in 0..MaxCrashes
    BY ConstantsAssumption DEF Init
  <2>2. clock \in BOOLEAN
    BY DEF Init
  <2> QED BY <2>1, <2>2 DEF Init, TypeOK
<1>2. FileIsAsOldAsItsData
  BY NoneAssumption DEF Init, FileIsAsOldAsItsData
<1>3. ReadersHaveAFile /\ BytesFollowSteps
  BY DEF Init, ReadersHaveAFile, BytesFollowSteps
<1> QED BY <1>1, <1>2, <1>3 DEF IInv

-----------------------------------------------------------------------------
(* Every step of a loader preserves the invariant.                         *)

\* A torn file is one that was written now.
LEMMA TornIsAFile == Torn \in File /\ Torn.age = 0 /\ Torn.data = 0
BY ConstantsAssumption DEF Torn, File, Content, Age

\* What a step of a loader must keep to preserve the invariant: the rest is as before.
LEMMA LoaderStep ==
  ASSUME IInv, NEW l \in Loaders,
         NEW here \in {"off", "check", "read", "fetch", "truncate", "fill", "apply",
                       "loaded", "failed"},
         NEW b \in Bytes \cup {None},
         GoTo(l, here), bytes' = [bytes EXCEPT ![l] = b],
         UNCHANGED <<service, clock>>, crashes' \in 0..MaxCrashes,
         \/ UNCHANGED file
         \/ file' \in File /\ file'.age = 0 /\ file'.data = 0,
         here = "read" => file \in File /\ file.age <= TTL,
         here \in {"off", "check", "read", "fetch"} => b = None,
         here \in {"truncate", "fill"} =>
           b \in Bytes /\ b.own /\ b.data = 0 /\ b.content # "torn",
         here = "apply" =>
           b \in Bytes /\ b.data <= TTL /\ (b.own => b.content # "torn"),
         here = "failed" /\ b # None =>
           b \in Bytes /\ (b.own => b.content = "bad")
  PROVE  IInv'
<1> USE ConstantsAssumption DEF IInv
<1>1. TypeOK'
  BY DEF TypeOK, GoTo
<1>2. FileIsAsOldAsItsData'
  BY DEF FileIsAsOldAsItsData
<1>3. ReadersHaveAFile'
  BY DEF ReadersHaveAFile, TypeOK, GoTo
<1>4. BytesFollowSteps'
  BY DEF BytesFollowSteps, TypeOK, GoTo
<1> QED BY <1>1, <1>2, <1>3, <1>4

\* A step that leaves the memory of the loader alone.
LEMMA SameBytes ==
  ASSUME TypeOK, NEW l \in Loaders, UNCHANGED bytes
  PROVE  bytes' = [bytes EXCEPT ![l] = bytes[l]] /\ bytes[l] \in Bytes \cup {None}
BY DEF TypeOK

LEMMA LookupSteps ==
  ASSUME IInv, NEW l \in Loaders, Start(l) \/ Check(l) \/ ReadFile(l)
  PROVE  IInv'
<1> USE ConstantsAssumption DEF IInv
<1>1. CASE Start(l)
  BY <1>1, LoaderStep, SameBytes DEF Start, TypeOK, BytesFollowSteps
<1>2. CASE Check(l)
  <2>1. bytes[l] = None
    BY <1>2 DEF Check, BytesFollowSteps
  <2>2. CASE Usable(file)
    <3>1. file \in File /\ file.age <= TTL
      BY <2>2 DEF Usable, TypeOK
    <3> QED BY <1>2, <2>1, <2>2, <3>1, LoaderStep, SameBytes DEF Check, TypeOK
  <2>3. CASE ~Usable(file)
    BY <1>2, <2>1, <2>3, LoaderStep, SameBytes DEF Check, TypeOK
  <2> QED BY <2>2, <2>3
<1>3. CASE ReadFile(l)
  <2>1. bytes[l] = None /\ file \in File /\ file.age <= TTL /\ file.data = file.age
    BY <1>3 DEF ReadFile, BytesFollowSteps, ReadersHaveAFile, FileIsAsOldAsItsData
  <2> DEFINE b == [content |-> file.content, data |-> file.data, own |-> FALSE]
  <2>2. b \in Bytes /\ b.data <= TTL /\ ~b.own
    BY <2>1 DEF File, Bytes
  <2>3. CASE bytes' = [bytes EXCEPT ![l] = b] /\ GoTo(l, "apply")
    BY <1>3, <2>2, <2>3, LoaderStep DEF ReadFile, TypeOK
  <2>4. CASE GoTo(l, "fetch") /\ UNCHANGED bytes
    BY <1>3, <2>1, <2>4, LoaderStep, SameBytes DEF ReadFile, TypeOK
  <2> QED BY <1>3, <2>3, <2>4 DEF ReadFile
<1> QED BY <1>1, <1>2, <1>3

LEMMA FetchSteps ==
  ASSUME IInv, NEW l \in Loaders,
         Fetch(l) \/ FetchFails(l) \/ Truncate(l) \/ Fill(l) \/ Crash(l)
  PROVE  IInv'
<1> USE ConstantsAssumption DEF IInv
<1>1. CASE Fetch(l)
  <2> DEFINE b == [content |-> service, data |-> 0, own |-> TRUE]
  <2>1. b \in Bytes /\ b.own /\ b.data = 0 /\ b.content # "torn"
    BY <1>1 DEF Fetch, TypeOK, Bytes, Content, Age
  <2> QED BY <1>1, <2>1, LoaderStep DEF Fetch, TypeOK
<1>2. CASE FetchFails(l)
  <2>1. bytes[l] = None
    BY <1>2 DEF FetchFails, BytesFollowSteps
  <2> QED BY <1>2, <2>1, LoaderStep, SameBytes DEF FetchFails, TypeOK
<1>3. CASE Truncate(l)
  <2>1. bytes[l] \in Bytes /\ bytes[l].own /\ bytes[l].data = 0 /\ bytes[l].content # "torn"
    BY <1>3 DEF Truncate, BytesFollowSteps
  <2>2. CASE file' = Torn /\ GoTo(l, "fill")
    BY <1>3, <2>1, <2>2, TornIsAFile, LoaderStep, SameBytes DEF Truncate, TypeOK
  <2>3. CASE UNCHANGED file /\ GoTo(l, "apply")
    BY <1>3, <2>1, <2>3, LoaderStep, SameBytes DEF Truncate, TypeOK
  <2> QED BY <1>3, <2>2, <2>3 DEF Truncate
<1>4. CASE Fill(l)
  <2>1. bytes[l] \in Bytes /\ bytes[l].own /\ bytes[l].data = 0 /\ bytes[l].content # "torn"
    BY <1>4 DEF Fill, BytesFollowSteps
  <2>2. file' \in File /\ file'.age = 0 /\ file'.data = 0
    BY <1>4, <2>1, TornIsAFile DEF Fill, File, Bytes, Age
  <2> QED BY <1>4, <2>1, <2>2, LoaderStep, SameBytes DEF Fill, TypeOK
<1>5. CASE Crash(l)
  <2>1. GoTo(l, "off") /\ bytes' = [bytes EXCEPT ![l] = None]
    BY <1>5 DEF Crash
  <2>2. crashes' \in 0..MaxCrashes /\ UNCHANGED <<service, file, clock>>
    BY <1>5 DEF Crash, TypeOK
  <2> QED BY <2>1, <2>2, LoaderStep
<1> QED BY <1>1, <1>2, <1>3, <1>4, <1>5

LEMMA LastSteps ==
  ASSUME IInv, NEW l \in Loaders, Apply(l) \/ Exit(l)
  PROVE  IInv'
<1> USE ConstantsAssumption DEF IInv
<1>1. CASE Apply(l)
  <2>1. bytes[l] \in Bytes /\ (bytes[l].own => bytes[l].content # "torn")
    BY <1>1 DEF Apply, BytesFollowSteps
  <2>2. CASE bytes[l].content = "good"
    BY <1>1, <2>1, <2>2, LoaderStep, SameBytes DEF Apply, TypeOK
  <2>3. CASE bytes[l].content # "good"
    <3>1. bytes[l].own => bytes[l].content = "bad"
      BY <2>1, <2>3 DEF Bytes, Content
    <3> QED BY <1>1, <2>1, <2>3, <3>1, LoaderStep, SameBytes DEF Apply, TypeOK
  <2> QED BY <2>2, <2>3
<1>2. CASE Exit(l)
  BY <1>2, LoaderStep DEF Exit, TypeOK
<1> QED BY <1>1, <1>2

-----------------------------------------------------------------------------
(* So does time, and what the service does.                                *)

LEMMA TickStep ==
  ASSUME IInv, Tick
  PROVE  IInv'
<1> USE ConstantsAssumption DEF IInv
<1>1. \A a \in Age : Older(a) \in Age
  BY DEF Older, Age
<1>2. CASE file = None
  <2>1. file' = None /\ UNCHANGED <<service, pc, bytes, crashes>> /\ clock' \in BOOLEAN
    BY <1>2 DEF Tick, TypeOK
  <2> QED
    BY <1>2, <2>1 DEF TypeOK, FileIsAsOldAsItsData, ReadersHaveAFile, BytesFollowSteps
<1>3. CASE file # None
  <2>1. file \in File /\ file.data \in Age /\ file.age \in Age
    BY <1>3 DEF TypeOK, File
  <2> DEFINE older == [file EXCEPT !.data = Older(@), !.age = Older(@)]
  <2>2. older \in File /\ older.data = Older(file.data) /\ older.age = Older(file.age)
    BY <1>1, <2>1, Zenon DEF File
  <2>3. file' = older
    BY <1>3 DEF Tick
  <2>4. TypeOK'
    BY <2>2, <2>3 DEF Tick, TypeOK
  <2>5. FileIsAsOldAsItsData'
    BY <2>1, <2>2, <2>3 DEF FileIsAsOldAsItsData
  <2>6. ReadersHaveAFile' /\ BytesFollowSteps'
    BY DEF Tick, TypeOK, ReadersHaveAFile, BytesFollowSteps
  <2> QED BY <2>4, <2>5, <2>6
<1> QED BY <1>2, <1>3

LEMMA ServiceStep ==
  ASSUME IInv, ServiceChanges
  PROVE  IInv'
BY DEF IInv, ServiceChanges, TypeOK, FileIsAsOldAsItsData, ReadersHaveAFile,
       BytesFollowSteps

LEMMA NextInvariant == IInv /\ [Next]_vars => IInv'
<1> SUFFICES ASSUME IInv, [Next]_vars PROVE IInv'
  OBVIOUS
<1>1. ASSUME NEW l \in Loaders,
             Start(l) \/ Load(l) \/ Fetch(l) \/ FetchFails(l) \/ Crash(l) \/ Exit(l)
      PROVE  IInv'
  BY <1>1, LookupSteps, FetchSteps, LastSteps DEF Load
<1>2. CASE Tick
  BY <1>2, TickStep
<1>3. CASE ServiceChanges
  BY <1>3, ServiceStep
<1>4. CASE UNCHANGED vars
  BY <1>4 DEF IInv, vars, TypeOK, FileIsAsOldAsItsData, ReadersHaveAFile, BytesFollowSteps
<1> QED BY <1>1, <1>2, <1>3, <1>4 DEF Next

-----------------------------------------------------------------------------
(* The theorems.                                                           *)

THEOREM Invariance == Spec => []IInv
<1>1. Init => IInv
  BY InitInvariant
<1>2. IInv /\ [Next]_vars => IInv'
  BY NextInvariant
<1> QED BY <1>1, <1>2, PTL DEF Spec

\* The types of a loader's state hold however loaders overlap and crash.
THEOREM TypeCorrect == Spec => []TypeOK
<1>1. IInv => TypeOK
  BY DEF IInv
<1> QED BY <1>1, Invariance, PTL

\* No loader applies a snapshot that was fetched more than a day before, whichever
\* process fetched it and however many of them read and write the file at once
\* (rgs_graph.rs:147).
THEOREM SnapshotsAreRecent == Spec => []BoundedStaleness
<1>1. IInv => BoundedStaleness
  BY DEF IInv, BytesFollowSteps, BoundedStaleness
<1> QED BY <1>1, Invariance, PTL

\* A loader that fetched a whole snapshot never fails for what happens to the file
\* (rgs_graph.rs:97-109).
THEOREM FetchesAreUsed == Spec => []OwnFetchIsUsed
<1>1. IInv => OwnFetchIsUsed
  BY DEF IInv, BytesFollowSteps, OwnFetchIsUsed
<1> QED BY <1>1, Invariance, PTL
=============================================================================
