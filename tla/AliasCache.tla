---------------------------- MODULE AliasCache ----------------------------
(***************************************************************************)
(* AliasResolver (detective/src/alias_resolver.rs): node aliases from      *)
(* mempool.space, kept for a week in memory and in a JSON file.  The       *)
(* server and every run of the CLI are processes that share the file; the  *)
(* requests a server works on call `resolve` concurrently.                 *)
(*                                                                         *)
(* An alias stands for the moment at which the directory gave it, so that  *)
(* its age can be told; "the directory knows no alias" is an alias too.    *)
(***************************************************************************)
EXTENDS Integers

CONSTANTS
  Processes,
  Callers,       \* tasks that call resolve, several in one process
  ProcessOf,     \* the process of a caller
  Keys,          \* public keys of nodes
  None,          \* "no value"
  Torn,          \* file contents that serde_json does not accept, or no file
  Ttl,           \* ALIAS_CACHE_TTL
  FetchTimeout,  \* timeout of the HTTP client
  MaxTime        \* bound of the clock

VARIABLES
  now,      \* unix_timestamp()
  running,  \* processes that are up
  cache,    \* AliasResolver::cache
  file,     \* contents of cache_path
  pc,       \* where a call of resolve stands
  key,      \* its argument
  started,  \* when its request was sent
  fetched,  \* what the directory answered
  snapshot, \* cache_snapshot of write_cached_alias
  age       \* how old the alias was that resolve settled on last

call == <<pc, key, started, fetched, snapshot, age>>
vars == <<now, running, cache, file, call>>

-----------------------------------------------------------------------------
ASSUME ConstantsAssumption ==
  /\ ProcessOf \in [Callers -> Processes]
  /\ Ttl \in Nat /\ FetchTimeout \in Nat /\ MaxTime \in Nat

AliasCacheEntry == [alias : Nat, cached_at : Nat]

ASSUME NoneAssumption == None \notin AliasCacheEntry \cup Nat

Contents == [Keys -> AliasCacheEntry \cup {None}]

Empty == [k \in Keys |-> None]

TypeOK ==
  /\ now \in Nat
  /\ running \subseteq Processes
  /\ cache \in [Processes -> Contents]
  /\ file \in Contents \cup {Torn}
  /\ pc \in [Callers -> {"idle", "fetch", "answered", "write", "writing"}]
  /\ key \in [Callers -> Keys]
  /\ started \in [Callers -> Nat]
  /\ fetched \in [Callers -> Nat]
  /\ snapshot \in [Callers -> Contents]
  /\ age \in [Callers -> Nat \cup {None}]

Init ==
  /\ now = 0
  /\ running = {}
  /\ cache = [p \in Processes |-> Empty]
  /\ file = Torn
  /\ pc = [c \in Callers |-> "idle"]
  /\ key \in [Callers -> Keys]
  /\ started = [c \in Callers |-> 0]
  /\ fetched = [c \in Callers |-> 0]
  /\ snapshot = [c \in Callers |-> Empty]
  /\ age = [c \in Callers |-> None]

-----------------------------------------------------------------------------
GoTo(c, l) == pc' = [pc EXCEPT ![c] = l]

\* A call ends and its locals go with it.
Return(c) ==
  /\ GoTo(c, "idle")
  /\ started' = [started EXCEPT ![c] = 0]
  /\ fetched' = [fetched EXCEPT ![c] = 0]
  /\ snapshot' = [snapshot EXCEPT ![c] = Empty]
  /\ UNCHANGED key

\* Mutant of Fresh: an entry that is there is good.
FreshUnchecked(entry) == entry # None

\* read_cached_alias.  The clock is not set back, so nothing saturates.
Fresh(entry) == entry # None /\ now - entry.cached_at <= Ttl

\* AliasResolver::resolve up to its first await.
Resolve(c, k) ==
  LET entry == cache[ProcessOf[c]][k] IN
  /\ ProcessOf[c] \in running
  /\ pc[c] = "idle"
  /\ IF Fresh(entry)
     THEN /\ age' = [age EXCEPT ![c] = now - entry.alias]
          /\ UNCHANGED <<pc, key, started>>
     ELSE /\ GoTo(c, "fetch")
          /\ key' = [key EXCEPT ![c] = k]
          /\ started' = [started EXCEPT ![c] = now]
          /\ age' = [age EXCEPT ![c] = None]
  /\ UNCHANGED <<now, running, cache, file, fetched, snapshot>>

\* The directory answers: with the node's alias, an empty one, or a 404.
DirectoryAnswers(c) ==
  /\ pc[c] = "fetch"
  /\ GoTo(c, "answered")
  /\ fetched' = [fetched EXCEPT ![c] = now]
  /\ UNCHANGED <<now, running, cache, file, key, started, snapshot, age>>

\* Mutant of FetchFails: a request without a timeout.
FetchFailsLate(c) ==
  /\ pc[c] = "answered"
  /\ Return(c)
  /\ UNCHANGED <<now, running, cache, file, age>>

\* Any Err of fetch_alias (no connection, a bad status, a timeout, no JSON): no
\* alias is returned, and none is cached.
FetchFails(c) ==
  /\ pc[c] \in {"fetch", "answered"}
  /\ Return(c)
  /\ UNCHANGED <<now, running, cache, file, age>>

\* Mutant of CacheAlias: a copy of the map the call has made before is changed and
\* put back.
CacheAliasInCopy(c) ==
  LET p == ProcessOf[c]
      contents == [snapshot[c] EXCEPT
                     ![key[c]] = [alias |-> fetched[c], cached_at |-> now]]
  IN /\ pc[c] = "answered"
     /\ cache' = [cache EXCEPT ![p] = contents]
     /\ snapshot' = [snapshot EXCEPT ![c] = contents]
     /\ age' = [age EXCEPT ![c] = now - fetched[c]]
     /\ GoTo(c, "write")
     /\ UNCHANGED <<now, running, file, key, started, fetched>>

\* write_cached_alias under the lock: the entry is inserted and the map is cloned.
CacheAlias(c) ==
  LET p == ProcessOf[c]
      contents == [cache[p] EXCEPT
                     ![key[c]] = [alias |-> fetched[c], cached_at |-> now]]
  IN /\ pc[c] = "answered"
     /\ cache' = [cache EXCEPT ![p] = contents]
     /\ snapshot' = [snapshot EXCEPT ![c] = contents]
     /\ age' = [age EXCEPT ![c] = now - fetched[c]]
     /\ GoTo(c, "write")
     /\ UNCHANGED <<now, running, file, key, started, fetched>>

\* fs::write truncates the file first, without the lock; it may fail to open it.
TruncateFile(c) ==
  /\ pc[c] = "write"
  /\ \/ /\ file' = Torn
        /\ GoTo(c, "writing")
        /\ UNCHANGED <<key, started, fetched, snapshot>>
     \/ Return(c) /\ UNCHANGED file
  /\ UNCHANGED <<now, running, cache, age>>

\* The bytes are written from offset 0.  What another writer put there meanwhile
\* may be longer, and the write itself may fail half way.
WriteFile(c) ==
  /\ pc[c] = "writing"
  /\ file' \in {snapshot[c], Torn}
  /\ Return(c)
  /\ UNCHANGED <<now, running, cache, age>>

-----------------------------------------------------------------------------
\* Mutants of Start: a file that cannot be read is taken for a map; entries of the
\* file count as cached when they are loaded.
StartUnparsed(p) ==
  /\ p \notin running
  /\ running' = running \cup {p}
  /\ cache' = [cache EXCEPT ![p] = file]
  /\ UNCHANGED <<now, file, call>>

StartRestamped(p) ==
  /\ p \notin running
  /\ running' = running \cup {p}
  /\ cache' = [cache EXCEPT ![p] =
                 IF file = Torn THEN Empty
                 ELSE [k \in Keys |-> IF file[k] = None THEN None
                                      ELSE [file[k] EXCEPT !.cached_at = now]]]
  /\ UNCHANGED <<now, file, call>>

\* AliasResolver::new.
Start(p) ==
  /\ p \notin running
  /\ running' = running \cup {p}
  /\ cache' = [cache EXCEPT ![p] = IF file = Torn THEN Empty ELSE file]
  /\ UNCHANGED <<now, file, call>>

\* A process ends, in the middle of its calls or after them.
Stop(p) ==
  LET Left(f, x) == [c \in Callers |-> IF ProcessOf[c] = p THEN x ELSE f[c]] IN
  /\ p \in running
  /\ running' = running \ {p}
  /\ cache' = [cache EXCEPT ![p] = Empty]
  /\ pc' = Left(pc, "idle")
  /\ started' = Left(started, 0)
  /\ fetched' = Left(fetched, 0)
  /\ snapshot' = Left(snapshot, Empty)
  /\ age' = Left(age, None)
  /\ UNCHANGED <<now, file, key>>

\* Time goes on while no request is older than its timeout.
Tick ==
  /\ now < MaxTime
  /\ \A c \in Callers :
       pc[c] \in {"fetch", "answered"} => now - started[c] < FetchTimeout
  /\ now' = now + 1
  /\ UNCHANGED <<running, cache, file, call>>

-----------------------------------------------------------------------------
Step(c) ==
  DirectoryAnswers(c) \/ FetchFails(c) \/ CacheAlias(c) \/ TruncateFile(c) \/ WriteFile(c)

Next ==
  \/ \E c \in Callers : Step(c) \/ \E k \in Keys : Resolve(c, k)
  \/ \E p \in Processes : Start(p) \/ Stop(p)
  \/ Tick

Spec == Init /\ [][Next]_vars

\* The runtime goes on with a call that is not waiting, and the HTTP client ends
\* a wait; the directory need not answer.
Fairness ==
  \A c \in Callers :
    WF_vars(FetchFails(c) \/ CacheAlias(c) \/ TruncateFile(c) \/ WriteFile(c))

FairSpec == Spec /\ Fairness

-----------------------------------------------------------------------------
(* Properties.                                                             *)

\* An alias that resolve settles on was the directory's at most a week and the
\* time of one request ago, also across restarts, torn files, two processes that write
\* the file and answers that are cached out of order (alias_resolver.rs:45-91).
BoundedStaleness ==
  \A c \in Callers : age[c] # None => age[c] <= Ttl + FetchTimeout

\* What makes it inductive: wherever an entry is, in a cache, a snapshot not yet
\* written or the file, it was cached within one request of the directory's answer.
Sound(contents) ==
  \A k \in Keys : contents[k] # None =>
    /\ contents[k].alias <= contents[k].cached_at
    /\ contents[k].cached_at <= contents[k].alias + FetchTimeout
    /\ contents[k].cached_at <= now

SoundContents ==
  /\ \A p \in Processes : Sound(cache[p])
  /\ \A c \in Callers : Sound(snapshot[c])
  /\ file # Torn => Sound(file)

RequestsInTime ==
  \A c \in Callers :
    /\ pc[c] \in {"fetch", "answered"} =>
         started[c] <= now /\ now <= started[c] + FetchTimeout
    /\ pc[c] = "answered" => started[c] <= fetched[c] /\ fetched[c] <= now

IInv == TypeOK /\ SoundContents /\ RequestsInTime /\ BoundedStaleness

\* Callers of one process do not undo each other: an entry is never lost while the
\* process runs, and never replaced by one that was cached earlier, whatever the
\* order in which answers come in (alias_resolver.rs:72-82).
NoLostEntry ==
  [][\A p \in running \cap running', k \in Keys :
       cache[p][k] # None =>
         /\ cache'[p][k] # None
         /\ cache'[p][k].cached_at >= cache[p][k].cached_at]_vars

\* Every call of resolve ends, whether the directory answers or not, and also when
\* the file cannot be written (alias_resolver.rs:30-33, 84-90).
ResolveEnds == \A c \in Callers : pc[c] # "idle" ~> pc[c] = "idle"
=============================================================================
