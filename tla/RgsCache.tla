------------------------------ MODULE RgsCache ------------------------------
(***************************************************************************)
(* The cached snapshot of the rapid gossip graph (rgs_graph.rs).  The      *)
(* server and each run of the command line load their graph once, when     *)
(* they start; every BOLT-12 request loads one of its own.  A loader takes *)
(* the file when it is not older than a day, or fetches a snapshot, puts   *)
(* it into the file, in place and before it knows whether the snapshot can *)
(* be applied, and applies it.  The graph is not loaded again.             *)
(*                                                                         *)
(* Time is in ages, so that it need not end.  Between two awaits a loader  *)
(* takes no time worth counting in hours.                                  *)
(***************************************************************************)
EXTENDS Integers, FiniteSets

CONSTANTS
  Loaders,     \* processes and requests that load a graph
  TTL,         \* the age up to which the file is used
  MaxCrashes,  \* bound: loaders that die while they write
  None         \* "no value"

ASSUME ConstantsAssumption == TTL \in Nat /\ MaxCrashes \in Nat

Age == 0..TTL + 1    \* TTL + 1 stands for everything older

VARIABLES
  service,  \* what the RGS server answers with at this time
  file,     \* the snapshot in RGS_CACHE_PATH, and the age of the file itself
  pc,       \* where a loader stands
  bytes,    \* the snapshot it has in memory, and whether it fetched it
  crashes,
  clock     \* changes whenever time passes

vars == <<service, file, pc, bytes, crashes, clock>>

\* "bad": an answer that is no snapshot; "torn": part of one, or parts of two.
Content == {"good", "bad", "torn"}
File  == [content : Content, data : Age, age : Age]
Bytes == [content : Content, data : Age, own : BOOLEAN]

ASSUME NoneAssumption == None \notin File

TypeOK ==
  /\ service \in {"good", "bad", "down"}
  /\ file \in File \cup {None}
  /\ pc \in [Loaders -> {"off", "check", "read", "fetch", "truncate", "fill", "apply",
                         "loaded", "failed"}]
  /\ bytes \in [Loaders -> Bytes \cup {None}]
  /\ crashes \in 0..MaxCrashes
  /\ clock \in BOOLEAN

Init ==
  /\ service = "good"
  /\ file = None
  /\ pc = [l \in Loaders |-> "off"]
  /\ bytes = [l \in Loaders |-> None]
  /\ crashes = 0
  /\ clock = FALSE

GoTo(l, place) == pc' = [pc EXCEPT ![l] = place]

Start(l) ==
  /\ pc[l] = "off"
  /\ GoTo(l, "check")
  /\ UNCHANGED <<service, file, bytes, crashes, clock>>

\* Mutant of Usable: the age is not looked at.
UsableAtAnyAge(f) == f # None

\* The metadata in read_cached_rgs_snapshot.
Usable(f) == f # None /\ f.age <= TTL

Check(l) ==
  /\ pc[l] = "check"
  /\ GoTo(l, IF Usable(file) THEN "read" ELSE "fetch")
  /\ UNCHANGED <<service, file, bytes, crashes, clock>>

\* fs::read, which sees what the file holds by now, or fails.
ReadFile(l) ==
  /\ pc[l] = "read"
  /\ \/ /\ bytes' = [bytes EXCEPT ![l] =
              [content |-> file.content, data |-> file.data, own |-> FALSE]]
        /\ GoTo(l, "apply")
     \/ GoTo(l, "fetch") /\ UNCHANGED bytes
  /\ UNCHANGED <<service, file, crashes, clock>>

\* reqwest::get has no time limit: nothing bounds the wait for an answer.
Fetch(l) ==
  /\ pc[l] = "fetch" /\ service # "down"
  /\ bytes' = [bytes EXCEPT ![l] = [content |-> service, data |-> 0, own |-> TRUE]]
  /\ GoTo(l, "truncate")
  /\ UNCHANGED <<service, file, crashes, clock>>

FetchFails(l) ==
  /\ pc[l] = "fetch" /\ service # "good"
  /\ GoTo(l, "failed")
  /\ UNCHANGED <<service, file, bytes, crashes, clock>>

Torn == [content |-> "torn", data |-> 0, age |-> 0]

\* fs::write opens the file, which empties it, and fills it; that it fails is only
\* logged.
Truncate(l) ==
  /\ pc[l] = "truncate"
  /\ \/ file' = Torn /\ GoTo(l, "fill")
     \/ UNCHANGED file /\ GoTo(l, "apply")
  /\ UNCHANGED <<service, bytes, crashes, clock>>

\* Mutant of Fill: what was written is read back and used.
FillAndReadBack(l) ==
  /\ pc[l] = "fill"
  /\ \/ file' = [content |-> bytes[l].content, data |-> bytes[l].data, age |-> 0]
     \/ file' = Torn
  /\ bytes' = [bytes EXCEPT ![l].content = file'.content]
  /\ GoTo(l, "apply")
  /\ UNCHANGED <<service, crashes, clock>>

\* Writing fails half way, or meets another loader that writes, or it is all there.
Fill(l) ==
  /\ pc[l] = "fill"
  /\ \/ file' = [content |-> bytes[l].content, data |-> bytes[l].data, age |-> 0]
     \/ file' = Torn
  /\ GoTo(l, "apply")
  /\ UNCHANGED <<service, bytes, crashes, clock>>

Crash(l) ==
  /\ pc[l] = "fill" /\ crashes < MaxCrashes
  /\ GoTo(l, "off")
  /\ bytes' = [bytes EXCEPT ![l] = None]
  /\ crashes' = crashes + 1
  /\ UNCHANGED <<service, file, clock>>

\* update_network_graph of LDK takes whole snapshots only.
Apply(l) ==
  /\ pc[l] = "apply"
  /\ GoTo(l, IF bytes[l].content = "good" THEN "loaded" ELSE "failed")
  /\ UNCHANGED <<service, file, bytes, crashes, clock>>

\* The process or the request ends, and comes again.
Exit(l) ==
  /\ pc[l] \in {"loaded", "failed"}
  /\ GoTo(l, "off")
  /\ bytes' = [bytes EXCEPT ![l] = None]
  /\ UNCHANGED <<service, file, crashes, clock>>

Older(a) == IF a > TTL THEN a ELSE a + 1

Tick ==
  /\ \A l \in Loaders : pc[l] \in {"off", "fetch", "loaded", "failed"}
  /\ file' = IF file = None THEN None
             ELSE [file EXCEPT !.data = Older(@), !.age = Older(@)]
  /\ clock' = ~clock
  /\ UNCHANGED <<service, pc, bytes, crashes>>

ServiceChanges ==
  /\ service' \in {"good", "bad", "down"} \ {service}
  /\ UNCHANGED <<file, pc, bytes, crashes, clock>>

Load(l) == Check(l) \/ ReadFile(l) \/ Truncate(l) \/ Fill(l) \/ Apply(l)

Next ==
  \/ \E l \in Loaders :
       \/ Start(l) \/ Load(l) \/ Fetch(l) \/ FetchFails(l) \/ Crash(l) \/ Exit(l)
  \/ Tick
  \/ ServiceChanges

Spec == Init /\ [][Next]_vars

\* Time goes on, also when loaders keep coming; a loader runs, is started again, and
\* is answered by a service that is up.  Nothing is said of how often it is down.
FairSpec ==
  /\ Spec
  /\ []<><<Tick>>_vars
  /\ \A l \in Loaders :
       WF_vars(Load(l)) /\ WF_vars(Start(l)) /\ WF_vars(Exit(l)) /\ WF_vars(Fetch(l))

-----------------------------------------------------------------------------
(* Properties.                                                             *)

\* No loader applies a snapshot that was fetched more than a day before, whichever
\* process fetched it and however they overlap (rgs_graph.rs:147).
BoundedStaleness ==
  \A l \in Loaders : pc[l] = "apply" => bytes[l].data <= TTL

\* A loader that fetched a whole snapshot has a graph, whatever happens to the file
\* (rgs_graph.rs:97-109).
OwnFetchIsUsed ==
  \A l \in Loaders :
    pc[l] = "failed" /\ bytes[l] # None /\ bytes[l].own => bytes[l].content = "bad"

\* A bad answer or a torn file is in the way for a day and not for ever: with the
\* service well from some time on, loaders get whole snapshots again and again
\* (rgs_graph.rs:97).
Recovers ==
  <>[](service = "good") => []<>(\E l \in Loaders : pc[l] = "loaded")
=============================================================================
