----------------------------- MODULE SharedCache ------------------------------
(***************************************************************************)
(* CacheCompartilhado: a cache whose readers share one build per key.      *)
(* Builds read what they cache while the data may change, can be overtaken *)
(* by an invalidation, fail or exceed their time limit; neither cancels    *)
(* them, so their result may come after a later build has started.         *)
(***************************************************************************)
EXTENDS Naturals, FiniteSets

CONSTANTS
  Keys,
  Readers,      (* requests for a value that can be waiting at the same time*)
  Builds,       (* bound: builds that can be running at the same time       *)
  MaxEntries,   (* maxEntradas                                              *)
  MaxWrites,    (* bound: changes of the data behind the cache              *)
  MaxReads,     (* bound: requests made                                     *)
  MaxFailures,  (* bound: builds that fail or exceed their time             *)
  None

ASSUME NoneAssumption == None \notin Keys \cup Builds
ASSUME BoundsAssumption ==
  /\ MaxEntries \in Nat \ {0}
  /\ MaxWrites \in Nat /\ MaxReads \in Nat /\ MaxFailures \in Nat

VARIABLES
  data,       (* the data behind each key, as the number of its changes       *)
  owed,       (* keys whose data changed and that were not invalidated since  *)
  known,      (* the data of each key when it was last invalidated            *)
  entry,      (* entradas: the version kept for a key, or None                *)
  flying,     (* emVoo: the build registered for a key, or None               *)
  build,      (* the builds that are running                                  *)
  reader,     (* what each request waits for                                  *)
  reads, failures   (* for the bounds only                                    *)

counts == <<reads, failures>>
vars == <<data, owed, known, entry, flying, build, reader, reads, failures>>

Version == 0..MaxWrites

(* A build waits for its own time limit (lost is FALSE) until it is over or  *)
(* has exceeded it (lost is TRUE: it goes on, but nobody listens).           *)
Build == [at : {"free"}]
    \cup [at : {"building"}, key : Keys, lost : BOOLEAN]
    \cup [at : {"built"}, key : Keys, lost : BOOLEAN, value : Version]

(* since is the data of the key when the last invalidation before the        *)
(* request took place: the least a correct answer may hold.                  *)
Reader == [at : {"idle", "refused"}]
     \cup [at : {"waiting"}, build : Builds, key : Keys, since : Version]
     \cup [at : {"answered"}, value : Version, since : Version]

TypeOK ==
  /\ data \in [Keys -> Version]
  /\ owed \subseteq Keys
  /\ known \in [Keys -> Version]
  /\ entry \in [Keys -> Version \cup {None}]
  /\ flying \in [Keys -> Builds \cup {None}]
  /\ build \in [Builds -> Build]
  /\ reader \in [Readers -> Reader]
  /\ reads \in 0..MaxReads
  /\ failures \in 0..MaxFailures

Free == [at |-> "free"]
Idle == [at |-> "idle"]

Init ==
  /\ data = [k \in Keys |-> 0]
  /\ owed = {}
  /\ known = [k \in Keys |-> 0]
  /\ entry = [k \in Keys |-> None]
  /\ flying = [k \in Keys |-> None]
  /\ build = [b \in Builds |-> Free]
  /\ reader = [r \in Readers |-> Idle]
  /\ reads = 0
  /\ failures = 0

-------------------------------------------------------------------------------
(* The data changes, and then the code that changed it invalidates the key.  *)

Write(k) ==
  /\ data[k] < MaxWrites
  /\ data' = [data EXCEPT ![k] = @ + 1]
  /\ owed' = owed \cup {k}
  /\ UNCHANGED <<known, entry, flying, build, reader, counts>>

(* The entries of keys S go, and the builds in flight are not theirs any more.*)
Unregistered_EntryOnly(S) == flying
Unregistered(S) == [k \in Keys |-> IF k \in S THEN None ELSE flying[k]]

Forget(S) ==
  /\ owed' = owed \ S
  /\ known' = [k \in Keys |-> IF k \in S THEN data[k] ELSE known[k]]
  /\ entry' = [k \in Keys |-> IF k \in S THEN None ELSE entry[k]]
  /\ flying' = Unregistered(S)
  /\ UNCHANGED <<data, build, reader, counts>>

(* invalidar, and limpar for all the keys.                                   *)
Invalidate(k) == k \in owed /\ Forget({k})
Clear == Forget(Keys)

(* The time of an entry is over.                                             *)
Expire(k) ==
  /\ entry[k] # None
  /\ entry' = [entry EXCEPT ![k] = None]
  /\ UNCHANGED <<data, owed, known, flying, build, reader, counts>>

-------------------------------------------------------------------------------
(* obter.                                                                    *)

Wait(r, b, k) ==
  reader' = [reader EXCEPT ![r] =
               [at |-> "waiting", build |-> b, key |-> k, since |-> known[k]]]

Hit(r, k) ==
  /\ entry[k] # None
  /\ reader' = [reader EXCEPT ![r] =
                  [at |-> "answered", value |-> entry[k], since |-> known[k]]]
  /\ UNCHANGED <<flying, build>>

Join(r, k) ==
  /\ entry[k] = None
  /\ flying[k] # None
  /\ Wait(r, flying[k], k)
  /\ UNCHANGED <<flying, build>>

StartBuild(r, k) ==
  /\ entry[k] = None
  /\ flying[k] = None
  /\ \E b \in Builds :
       /\ build[b] = Free
       /\ build' = [build EXCEPT ![b] = [at |-> "building", key |-> k, lost |-> FALSE]]
       /\ flying' = [flying EXCEPT ![k] = b]
       /\ Wait(r, b, k)

Get(r, k) ==
  /\ reader[r] = Idle
  /\ reads < MaxReads
  /\ reads' = reads + 1
  /\ Hit(r, k) \/ Join(r, k) \/ StartBuild(r, k)
  /\ UNCHANGED <<data, owed, known, entry, failures>>

(* The request is over and its place is free for another one.                *)
Leave(r) ==
  /\ reader[r].at \in {"answered", "refused"}
  /\ reader' = [reader EXCEPT ![r] = Idle]
  /\ UNCHANGED <<data, owed, known, entry, flying, build, counts>>

-------------------------------------------------------------------------------
(* A build.                                                                  *)

(* montar reads the data.                                                    *)
BuildReads(b) ==
  /\ build[b].at = "building"
  /\ build' = [build EXCEPT ![b] = [at |-> "built", key |-> build[b].key,
                                    lost |-> build[b].lost,
                                    value |-> data[build[b].key]]]
  /\ UNCHANGED <<data, owed, known, entry, flying, reader, counts>>

(* Those who wait for build b get the answer a; None is a refusal.           *)
Settled(b, a) ==
  [r \in Readers |->
     IF reader[r].at = "waiting" /\ reader[r].build = b
     THEN IF a = None THEN [at |-> "refused"]
                      ELSE [at |-> "answered", value |-> a, since |-> reader[r].since]
     ELSE reader[r]]

(* gravar: above maxEntradas another entry goes.                             *)
Keeping(k, value) ==
  LET kept == [entry EXCEPT ![k] = value]
  IN  IF Cardinality({x \in Keys : kept[x] # None}) <= MaxEntries
      THEN {kept}
      ELSE {[kept EXCEPT ![x] = None] : x \in {y \in Keys \ {k} : kept[y] # None}}

(* The value is kept only if the build is still the key's build.             *)
BuildAnswers(b) ==
  /\ build[b].at = "built"
  /\ ~build[b].lost
  /\ LET k == build[b].key  value == build[b].value
     IN /\ IF flying[k] = b
           THEN /\ flying' = [flying EXCEPT ![k] = None]
                /\ entry' \in Keeping(k, value)
           ELSE UNCHANGED <<flying, entry>>
        /\ reader' = Settled(b, value)
  /\ build' = [build EXCEPT ![b] = Free]
  /\ UNCHANGED <<data, owed, known, counts>>

(* A build that fails or exceeds its time refuses those who wait for it, and *)
(* the next request builds again.                                            *)
Withdrawn_StaysRegistered(b) == flying
Withdrawn(b) ==
  [k \in Keys |-> IF flying[k] = b THEN None ELSE flying[k]]

BuildFails(b) ==
  /\ build[b].at \in {"building", "built"}
  /\ ~build[b].lost
  /\ failures < MaxFailures
  /\ failures' = failures + 1
  /\ flying' = Withdrawn(b)
  /\ reader' = Settled(b, None)
  /\ build' = [build EXCEPT ![b] = Free]
  /\ UNCHANGED <<data, owed, known, entry, reads>>

(* comTimeout: the build goes on, but nothing comes of it.                   *)
TimesOut(b) ==
  /\ build[b].at \in {"building", "built"}
  /\ ~build[b].lost
  /\ failures < MaxFailures
  /\ failures' = failures + 1
  /\ flying' = Withdrawn(b)
  /\ reader' = Settled(b, None)
  /\ build' = [build EXCEPT ![b].lost = TRUE]
  /\ UNCHANGED <<data, owed, known, entry, reads>>

LateBuildEnds(b) ==
  /\ build[b].at \in {"building", "built"}
  /\ build[b].lost
  /\ build' = [build EXCEPT ![b] = Free]
  /\ UNCHANGED <<data, owed, known, entry, flying, reader, counts>>

-------------------------------------------------------------------------------
Next ==
  \/ \E k \in Keys : Write(k) \/ Invalidate(k) \/ Expire(k)
  \/ Clear
  \/ \E r \in Readers : Leave(r) \/ \E k \in Keys : Get(r, k)
  \/ \E b \in Builds :
       \/ BuildReads(b) \/ BuildAnswers(b) \/ BuildFails(b)
       \/ TimesOut(b) \/ LateBuildEnds(b)

Spec == Init /\ [][Next]_vars

(* A build ends or exceeds its time.                                         *)
Fairness ==
  \A b \in Builds : WF_vars(BuildAnswers(b) \/ BuildFails(b) \/ TimesOut(b))

-------------------------------------------------------------------------------
(* Properties.                                                               *)

(* What is kept was read after the last invalidation of its key: a build     *)
(* that an invalidation overtook is never kept (cache-compartilhado.ts,      *)
(* invalidar).                                                               *)
KeptIsNotStale == \A k \in Keys : entry[k] # None => entry[k] >= known[k]

(* Nobody who asks after an invalidation is answered with what was read      *)
(* before it, be it from an entry or from a build that others started.       *)
AnswerIsNotStale ==
  \A r \in Readers :
    reader[r].at = "answered" => reader[r].value >= reader[r].since

(* A request is answered or refused in the end: its build cannot be lost     *)
(* without the request hearing of it, and a failed build is not waited for.  *)
EveryRequestEnds ==
  \A r \in Readers : reader[r].at = "waiting" ~> reader[r].at # "waiting"

===============================================================================
