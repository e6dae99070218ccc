------------------------- MODULE AliasCacheProofs -------------------------
(* Proofs about AliasCache: its types, and how old an alias can be.        *)
EXTENDS AliasCache, TLAPS

LEMMA EmptyIsSound ==
  /\ Empty \in Contents
  /\ Sound(Empty)
BY DEF Empty, Contents, Sound

\* An entry cached now is sound if the directory gave its alias within this request.
LEMMA CachingIsSound ==
  ASSUME TypeOK, RequestsInTime,
         NEW contents \in Contents, Sound(contents),
         NEW c \in Callers, pc[c] = "answered"
  PROVE  LET new == [contents EXCEPT
                       ![key[c]] = [alias |-> fetched[c], cached_at |-> now]]
         IN new \in Contents /\ Sound(new)
<1> DEFINE e == [alias |-> fetched[c], cached_at |-> now]
           new == [contents EXCEPT ![key[c]] = e]
<1>1. /\ key[c] \in Keys
      /\ e \in AliasCacheEntry
      /\ e.alias = fetched[c] /\ e.cached_at = now
      /\ fetched[c] \in Nat /\ now \in Nat /\ started[c] \in Nat
  BY DEF TypeOK, AliasCacheEntry
<1>2. new \in Contents
  BY <1>1 DEF Contents
<1>3. fetched[c] <= now /\ now <= fetched[c] + FetchTimeout
  BY <1>1, ConstantsAssumption DEF RequestsInTime
<1>4. ASSUME NEW k \in Keys, new[k] # None
      PROVE  /\ new[k].alias <= new[k].cached_at
             /\ new[k].cached_at <= new[k].alias + FetchTimeout
             /\ new[k].cached_at <= now
  <2>1. CASE k = key[c]
    <3>1. new[k] = e
      BY <2>1 DEF Contents
    <3> QED BY <3>1, <1>1, <1>3
  <2>2. CASE k # key[c]
    <3>1. new[k] = contents[k]
      BY <2>2 DEF Contents
    <3> QED BY <3>1, <1>4 DEF Sound
  <2> QED BY <2>1, <2>2
<1> QED BY <1>2, <1>4 DEF Sound

-----------------------------------------------------------------------------
LEMMA InitInvariant == Init => IInv
<1> SUFFICES ASSUME Init PROVE IInv
  OBVIOUS
<1>1. TypeOK
  BY EmptyIsSound DEF Init, TypeOK
<1>2. SoundContents
  BY EmptyIsSound DEF Init, SoundContents
<1>3. RequestsInTime /\ BoundedStaleness
  BY DEF Init, RequestsInTime, BoundedStaleness
<1> QED BY <1>1, <1>2, <1>3 DEF IInv

LEMMA StepInvariant == IInv /\ [Next]_vars => IInv'
<1> SUFFICES ASSUME IInv, [Next]_vars PROVE IInv'
  OBVIOUS
<1> USE ConstantsAssumption DEF IInv
<1>0. \A p \in Processes, k \in Keys :
        cache[p][k] # None => /\ cache[p][k] \in AliasCacheEntry
                              /\ cache[p][k].alias \in Nat
                              /\ cache[p][k].cached_at \in Nat
  BY DEF TypeOK, Contents, AliasCacheEntry
<1>1. ASSUME NEW c \in Callers, NEW k \in Keys, Resolve(c, k) PROVE IInv'
  <2> DEFINE p == ProcessOf[c]
             entry == cache[p][k]
  <2>1. p \in Processes
    OBVIOUS
  <2>2. UNCHANGED <<now, running, cache, file, fetched, snapshot>>
    BY <1>1 DEF Resolve
  <2>3. CASE Fresh(entry)
    <3>1. age' = [age EXCEPT ![c] = now - entry.alias] /\ UNCHANGED <<pc, key, started>>
      BY <1>1, <2>3 DEF Resolve
    <3>2. /\ entry.alias \in Nat /\ entry.cached_at \in Nat
          /\ entry.alias <= entry.cached_at
          /\ entry.cached_at <= entry.alias + FetchTimeout
          /\ entry.cached_at <= now
          /\ now - entry.cached_at <= Ttl
      BY <1>0, <2>1, <2>3 DEF Fresh, SoundContents, Sound
    <3>3. now - entry.alias \in Nat /\ now - entry.alias <= Ttl + FetchTimeout
      BY <3>2 DEF TypeOK
    <3>4. TypeOK'
      BY <2>2, <3>1, <3>3 DEF TypeOK
    <3>5. BoundedStaleness'
      BY <3>1, <3>3 DEF BoundedStaleness, TypeOK
    <3>6. SoundContents' /\ RequestsInTime'
      BY <2>2, <3>1 DEF SoundContents, Sound, RequestsInTime
    <3> QED BY <3>4, <3>5, <3>6
  <2>4. CASE ~Fresh(entry)
    <3>1. /\ pc' = [pc EXCEPT ![c] = "fetch"]
          /\ key' = [key EXCEPT ![c] = k]
          /\ started' = [started EXCEPT ![c] = now]
          /\ age' = [age EXCEPT ![c] = None]
      BY <1>1, <2>4 DEF Resolve, GoTo
    <3>2. TypeOK'
      BY <2>2, <3>1 DEF TypeOK
    <3>3. BoundedStaleness'
      BY <3>1 DEF BoundedStaleness, TypeOK
    <3>4. SoundContents'
      BY <2>2 DEF SoundContents, Sound
    <3>5. RequestsInTime'
      BY <2>2, <3>1 DEF RequestsInTime, TypeOK
    <3> QED BY <3>2, <3>3, <3>4, <3>5
  <2> QED BY <2>3, <2>4
<1>2. ASSUME NEW c \in Callers, DirectoryAnswers(c) PROVE IInv'
  <2>1. TypeOK'
    BY <1>2 DEF DirectoryAnswers, GoTo, TypeOK
  <2>2. SoundContents' /\ BoundedStaleness'
    BY <1>2 DEF DirectoryAnswers, SoundContents, Sound, BoundedStaleness
  <2>3. RequestsInTime'
    BY <1>2 DEF DirectoryAnswers, GoTo, RequestsInTime, TypeOK
  <2> QED BY <2>1, <2>2, <2>3
<1>3. ASSUME NEW c \in Callers, Return(c), UNCHANGED <<now, cache, age>>,
             file' \in {file, Torn, snapshot[c]}, UNCHANGED running
      PROVE  IInv'
  <2>1. TypeOK'
    BY <1>3, EmptyIsSound DEF Return, GoTo, TypeOK
  <2>2. BoundedStaleness'
    BY <1>3 DEF BoundedStaleness
  <2>3. RequestsInTime'
    BY <1>3 DEF Return, GoTo, RequestsInTime, TypeOK
  <2>4. ASSUME NEW f, Sound(f) PROVE Sound(f)'
    BY <1>3, <2>4 DEF Sound
  <2>5. \A d \in Callers : snapshot'[d] = snapshot[d] \/ snapshot'[d] = Empty
    BY <1>3 DEF Return, TypeOK
  <2>6. /\ \A p \in Processes : Sound(cache[p])'
        /\ file' # Torn => Sound(file)'
    BY <1>3 DEF SoundContents, Sound
  <2>7. \A d \in Callers : Sound(snapshot[d])'
    BY <1>3, <2>5, EmptyIsSound DEF SoundContents, Sound
  <2>8. SoundContents'
    BY <2>6, <2>7 DEF SoundContents
  <2> QED BY <2>1, <2>2, <2>3, <2>8
<1>4. ASSUME NEW c \in Callers, FetchFails(c) PROVE IInv'
  BY <1>4, <1>3 DEF FetchFails
<1>5. ASSUME NEW c \in Callers, CacheAlias(c) PROVE IInv'
  <2> DEFINE p == ProcessOf[c]
             new == [cache[p] EXCEPT
                       ![key[c]] = [alias |-> fetched[c], cached_at |-> now]]
  <2>1. /\ pc[c] = "answered" /\ p \in Processes
        /\ cache' = [cache EXCEPT ![p] = new]
        /\ snapshot' = [snapshot EXCEPT ![c] = new]
        /\ age' = [age EXCEPT ![c] = now - fetched[c]]
        /\ pc' = [pc EXCEPT ![c] = "write"]
        /\ UNCHANGED <<now, running, file, key, started, fetched>>
    BY <1>5 DEF CacheAlias, GoTo
  <2>2. cache[p] \in Contents /\ Sound(cache[p])
    BY <2>1 DEF TypeOK, SoundContents
  <2>3. new \in Contents /\ Sound(new)
    BY <2>1, <2>2, CachingIsSound
  <2>4. now - fetched[c] \in Nat /\ now - fetched[c] <= Ttl + FetchTimeout
    BY <2>1 DEF RequestsInTime, TypeOK
  <2>5. TypeOK'
    BY <2>1, <2>3, <2>4 DEF TypeOK
  <2>6. BoundedStaleness'
    BY <2>1, <2>4 DEF BoundedStaleness, TypeOK
  <2>7. RequestsInTime'
    BY <2>1 DEF RequestsInTime, TypeOK
  <2>8. /\ \A q \in Processes : cache'[q] = cache[q] \/ cache'[q] = new
        /\ \A d \in Callers : snapshot'[d] = snapshot[d] \/ snapshot'[d] = new
    BY <2>1 DEF TypeOK
  <2>9. SoundContents'
    BY <2>1, <2>3, <2>8 DEF SoundContents, Sound
  <2> QED BY <2>5, <2>6, <2>7, <2>9
<1>6. ASSUME NEW c \in Callers, TruncateFile(c) PROVE IInv'
  <2>1. CASE Return(c) /\ UNCHANGED file
    BY <2>1, <1>6, <1>3 DEF TruncateFile
  <2>2. CASE file' = Torn /\ GoTo(c, "writing") /\ UNCHANGED <<key, started, fetched, snapshot>>
    <3>1. UNCHANGED <<now, running, cache, age>>
      BY <1>6 DEF TruncateFile
    <3>2. TypeOK'
      BY <2>2, <3>1 DEF GoTo, TypeOK
    <3>3. SoundContents' /\ BoundedStaleness'
      BY <2>2, <3>1 DEF SoundContents, Sound, BoundedStaleness
    <3>4. RequestsInTime'
      BY <2>2, <3>1 DEF GoTo, RequestsInTime, TypeOK
    <3> QED BY <3>2, <3>3, <3>4
  <2> QED BY <2>1, <2>2, <1>6 DEF TruncateFile
<1>7. ASSUME NEW c \in Callers, WriteFile(c) PROVE IInv'
  BY <1>7, <1>3 DEF WriteFile
<1>8. ASSUME NEW p \in Processes, Start(p) PROVE IInv'
  <2> DEFINE new == IF file = Torn THEN Empty ELSE file
  <2>1. /\ running' = running \cup {p}
        /\ cache' = [cache EXCEPT ![p] = new]
        /\ UNCHANGED <<now, file, call>>
    BY <1>8 DEF Start
  <2>2. new \in Contents /\ Sound(new)
    BY EmptyIsSound DEF TypeOK, SoundContents
  <2>3. TypeOK'
    BY <2>1, <2>2 DEF TypeOK, call
  <2>4. \A q \in Processes : cache'[q] = cache[q] \/ cache'[q] = new
    BY <2>1 DEF TypeOK
  <2>5. SoundContents'
    BY <2>1, <2>2, <2>4 DEF SoundContents, Sound, call
  <2>6. RequestsInTime' /\ BoundedStaleness'
    BY <2>1 DEF RequestsInTime, BoundedStaleness, call
  <2> QED BY <2>3, <2>5, <2>6
<1>9. ASSUME NEW p \in Processes, Stop(p) PROVE IInv'
  <2>1. /\ running' = running \ {p}
        /\ cache' = [cache EXCEPT ![p] = Empty]
        /\ pc' = [c \in Callers |-> IF ProcessOf[c] = p THEN "idle" ELSE pc[c]]
        /\ started' = [c \in Callers |-> IF ProcessOf[c] = p THEN 0 ELSE started[c]]
        /\ fetched' = [c \in Callers |-> IF ProcessOf[c] = p THEN 0 ELSE fetched[c]]
        /\ snapshot' = [c \in Callers |-> IF ProcessOf[c] = p THEN Empty ELSE snapshot[c]]
        /\ age' = [c \in Callers |-> IF ProcessOf[c] = p THEN None ELSE age[c]]
        /\ UNCHANGED <<now, file, key>>
    BY <1>9 DEF Stop
  <2>2. TypeOK'
    BY <2>1, EmptyIsSound DEF TypeOK
  <2>3. /\ \A q \in Processes : cache'[q] = cache[q] \/ cache'[q] = Empty
        /\ \A c \in Callers : snapshot'[c] = snapshot[c] \/ snapshot'[c] = Empty
    BY <2>1 DEF TypeOK
  <2>4. SoundContents'
    BY <2>1, <2>3, EmptyIsSound DEF SoundContents, Sound
  <2>5. RequestsInTime'
    BY <2>1 DEF RequestsInTime
  <2>6. BoundedStaleness'
    BY <2>1 DEF BoundedStaleness
  <2> QED BY <2>2, <2>4, <2>5, <2>6
<1>10. CASE Tick
  <2>1. now' = now + 1 /\ UNCHANGED <<running, cache, file, call>>
    BY <1>10 DEF Tick
  <2>2. TypeOK'
    BY <2>1 DEF TypeOK, call
  <2>3. \A f \in Contents : Sound(f) => Sound(f)'
    BY <2>1 DEF Sound, Contents, AliasCacheEntry, TypeOK
  <2>4. SoundContents'
    <3>1. \A p \in Processes : Sound(cache[p])'
      BY <2>1, <2>3 DEF SoundContents, Sound, TypeOK
    <3>2. \A c \in Callers : Sound(snapshot[c])'
      BY <2>1, <2>3 DEF SoundContents, Sound, TypeOK, call
    <3>3. file' # Torn => Sound(file)'
      BY <2>1, <2>3 DEF SoundContents, Sound, TypeOK
    <3> QED BY <3>1, <3>2, <3>3 DEF SoundContents
  <2>5. RequestsInTime'
    BY <1>10 DEF Tick, RequestsInTime, TypeOK, call
  <2>6. BoundedStaleness'
    BY <2>1 DEF BoundedStaleness, call
  <2> QED BY <2>2, <2>4, <2>5, <2>6
<1>11. CASE UNCHANGED vars
  BY <1>11 DEF vars, call, TypeOK, SoundContents, Sound, RequestsInTime, BoundedStaleness
<1> QED
  BY <1>1, <1>2, <1>4, <1>5, <1>6, <1>7, <1>8, <1>9, <1>10, <1>11 DEF Next, Step

-----------------------------------------------------------------------------
\* The invariant behind the bound holds in every state of every system, however many
\* processes, callers and keys there are.
THEOREM Invariance == Spec => []IInv
<1>1. Init => IInv
  BY InitInvariant
<1>2. IInv /\ [Next]_vars => IInv'
  BY StepInvariant
<1> QED BY <1>1, <1>2, PTL DEF Spec

\* Every variable keeps its type.
THEOREM TypeCorrect == Spec => []TypeOK
<1>1. IInv => TypeOK
  BY DEF IInv
<1> QED BY <1>1, Invariance, PTL

\* No alias that resolve settles on is older than the time to live of an entry and
\* the timeout of a request together, in memory, after a restart, or after another
\* process has written the file.
THEOREM AliasesAreRecent == Spec => []BoundedStaleness
<1>1. IInv => BoundedStaleness
  BY DEF IInv
<1> QED BY <1>1, Invariance, PTL

\* A step replaces entries of a running process only by entries cached now.
LEMMA EntriesSurvive ==
  ASSUME IInv, [Next]_vars,
         NEW p \in running \cap running', NEW k \in Keys, cache[p][k] # None
  PROVE  /\ cache'[p][k] # None
         /\ cache'[p][k].cached_at >= cache[p][k].cached_at
<1> USE DEF IInv
<1>1. /\ p \in Processes /\ now \in Nat
      /\ cache[p] \in Contents
      /\ cache[p][k].cached_at \in Nat
      /\ cache[p][k].cached_at <= now
  BY DEF TypeOK, SoundContents, Sound, Contents, AliasCacheEntry
<1>2. CASE cache'[p] = cache[p]
  BY <1>1, <1>2
<1>3. ASSUME NEW c \in Callers, CacheAlias(c), ProcessOf[c] = p
      PROVE  /\ cache'[p][k] # None
             /\ cache'[p][k].cached_at >= cache[p][k].cached_at
  <2> DEFINE e == [alias |-> fetched[c], cached_at |-> now]
  <2>1. cache'[p] = [cache[p] EXCEPT ![key[c]] = e]
    BY <1>1, <1>3 DEF CacheAlias, TypeOK
  <2>2. e \in AliasCacheEntry /\ e.cached_at = now
    BY DEF TypeOK, AliasCacheEntry
  <2>3. cache'[p][k] = e \/ cache'[p][k] = cache[p][k]
    BY <1>1, <2>1 DEF Contents
  <2> QED BY <1>1, <2>2, <2>3, NoneAssumption
<1>4. ASSUME NEW c \in Callers, CacheAlias(c), ProcessOf[c] # p PROVE cache'[p] = cache[p]
  BY <1>1, <1>4 DEF CacheAlias, TypeOK
<1>5. ASSUME NEW c \in Callers, Step(c), ~CacheAlias(c) PROVE cache'[p] = cache[p]
  BY <1>5 DEF Step, DirectoryAnswers, FetchFails, TruncateFile, WriteFile
<1>6. ASSUME NEW c \in Callers, NEW k2 \in Keys, Resolve(c, k2) PROVE cache'[p] = cache[p]
  BY <1>6 DEF Resolve
<1>7. ASSUME NEW q \in Processes, Start(q) PROVE cache'[p] = cache[p]
  BY <1>1, <1>7 DEF Start, TypeOK
<1>8. ASSUME NEW q \in Processes, Stop(q) PROVE cache'[p] = cache[p]
  BY <1>1, <1>8 DEF Stop, TypeOK
<1>9. CASE Tick \/ UNCHANGED vars
  BY <1>9, <1>2 DEF Tick, vars
<1> QED
  BY <1>2, <1>3, <1>4, <1>5, <1>6, <1>7, <1>8, <1>9 DEF Next

\* In every run, whatever callers of a process do at the same time, none loses an
\* entry of another or puts one back in time.
THEOREM NoEntryIsLost == Spec => NoLostEntry
<1>1. IInv /\ [Next]_vars =>
        [\A p \in running \cap running', k \in Keys :
           cache[p][k] # None =>
             /\ cache'[p][k] # None
             /\ cache'[p][k].cached_at >= cache[p][k].cached_at]_vars
  BY EntriesSurvive
<1> QED BY <1>1, Invariance, PTL DEF Spec, NoLostEntry
=============================================================================
