----------------------------- MODULE PanelProofs -----------------------------
(****************************************************************************)
(* Proofs about DeviceMapping for any set of trackers, owners and query     *)
(* slots, and about SharedCache for any keys, readers and builds, with any  *)
(* number of changes, requests, failures and restarts; and about the four   *)
(* memories of the panel that are checked together.                         *)
(*                                                                          *)
(* The cache.  FreshInv has three parts: the data only grows, so a key is   *)
(* never known better than it is; the build registered for a key has read, if *)
(* it has read at all, what the key is known to hold or more; and a reader  *)
(* that waits for a build will get what it is owed.  An invalidation raises *)
(* what is known of its key and takes the build out of the register, which  *)
(* keeps the second part.                                                   *)
(****************************************************************************)
EXTENDS MCPanel, LivePositionsProofs, VehicleListProofs, TLAPS

-------------------------------------------------------------------------------
(* DeviceMapping.                                                            *)

(* Asking leaves every query that is in flight where it is, adds one that    *)
(* has not read yet, and keeps the type.                                     *)
LEMMA AskSends ==
  ASSUME query \in [Slots -> Query], Ask
  PROVE  /\ query' \in [Slots -> Query]
         /\ \E q \in Slots : query'[q] = Sent
BY DEF Ask, Query, Sent

(* A row of the table and what a query finds have the same type.             *)
LEMMA ChangeTyped ==
  ASSUME MapTypeOK, NEW i \in Trackers, NEW o \in Owners \cup {Nobody}, Change(i, o),
         untold' \subseteq Trackers, unread' \subseteq Trackers
  PROVE  MapTypeOK'
<1>1. owner' \in Snapshot /\ changes' \in 0..MaxChanges
  BY MapBoundsAssumption DEF MapTypeOK, Change, Snapshot
<1>2. /\ window' \in BOOLEAN /\ waiting' \in BOOLEAN
      /\ waiting' => window'
  BY DEF MapTypeOK, Change
<1>3. /\ mapping' \in Snapshot /\ query' \in [Slots -> Query]
      /\ queryFailures' \in 0..MaxQueryFailures /\ restarts' \in 0..MaxRestarts
  BY DEF MapTypeOK, Change
<1> QED BY <1>1, <1>2, <1>3 DEF MapTypeOK

LEMMA RestartSends ==
  ASSUME Restart
  PROVE  /\ query' \in [Slots -> Query]
         /\ \E q \in Slots : query'[q] = Sent
BY DEF Restart, Query, Sent, FreeSlot

-------------------------------------------------------------------------------
LEMMA MapTypeStep ==
  ASSUME MapTypeOK, [MapNext]_mapVars
  PROVE  MapTypeOK'
<1> USE DEF mapCounts
<1>1. CASE \E i \in Trackers, o \in Owners : Install(i, o)
  BY <1>1, ChangeTyped DEF Install, Announced, MapTypeOK
<1>2. CASE \E i \in Trackers, o \in Owners : Transfer(i, o)
  BY <1>2, ChangeTyped DEF Transfer, MapTypeOK
<1>3. CASE \E i \in Trackers : Retire(i)
  BY <1>3, ChangeTyped DEF Retire, Announced, MapTypeOK
<1>4. CASE \E i \in Trackers : Notice(i)
  <2>1. query' \in [Slots -> Query]
    BY <1>4, AskSends DEF Notice, MapTypeOK
  <2> QED BY <1>4, <2>1 DEF Notice, MapTypeOK
<1>5. CASE WindowEnds
  <2>1. query' \in [Slots -> Query]
    BY <1>5, AskSends DEF WindowEnds, MapTypeOK
  <2> QED BY <1>5, <2>1 DEF WindowEnds, MapTypeOK
<1>6. CASE Periodic
  BY <1>6, AskSends DEF Periodic, MapTypeOK
<1>7. CASE \E q \in Slots : Read(q)
  <2>1. PICK q \in Slots : Read(q)
    BY <1>7
  <2>2. [at |-> "read", snap |-> owner] \in Query
    BY DEF MapTypeOK, Query
  <2> QED BY <2>1, <2>2 DEF Read, MapTypeOK
<1>8. CASE \E q \in Slots : Answer(q)
  <2>1. PICK q \in Slots : Answer(q)
    BY <1>8
  <2>2. query[q].snap \in Snapshot
    BY <2>1 DEF Answer, MapTypeOK, Query
  <2>3. FreeSlot \in Query
    BY DEF FreeSlot, Query
  <2> QED BY <2>1, <2>2, <2>3 DEF Answer, Filled, MapTypeOK
<1>9. CASE \E q \in Slots : Fail(q)
  <2>1. FreeSlot \in Query
    BY DEF FreeSlot, Query
  <2> QED BY <1>9, <2>1, MapBoundsAssumption DEF Fail, MapTypeOK
<1>10. CASE Restart
  <2>1. mapping' \in Snapshot
    BY <1>10 DEF Restart, NothingMapped, Snapshot
  <2>2. query' \in [Slots -> Query]
    BY <1>10, RestartSends
  <2>3. restarts' \in 0..MaxRestarts
    BY <1>10, MapBoundsAssumption DEF Restart, MapTypeOK
  <2> QED BY <1>10, <2>1, <2>2, <2>3 DEF Restart, MapTypeOK
<1>11. CASE UNCHANGED mapVars
  BY <1>11 DEF mapVars, MapTypeOK
<1>12. CASE \E i \in Trackers : NoticeNeverMade(i)
  BY <1>12, MapBoundsAssumption DEF NoticeNeverMade, MapTypeOK
<1> QED BY <1>1, <1>2, <1>3, <1>4, <1>5, <1>6, <1>7, <1>8, <1>9, <1>10, <1>11, <1>12 DEF MapNext

LEMMA MapTypeInit == MapInit => MapTypeOK
<1> SUFFICES ASSUME MapInit PROVE MapTypeOK
  OBVIOUS
<1>1. FreeSlot \in Query /\ Sent \in Query
  BY DEF FreeSlot, Sent, Query
<1>2. query \in [Slots -> Query]
  BY <1>1 DEF MapInit
<1>3. mapping \in Snapshot
  BY DEF MapInit, NothingMapped, Snapshot
<1>4. 0 \in 0..MaxChanges /\ 0 \in 0..MaxQueryFailures /\ 0 \in 0..MaxRestarts
  BY MapBoundsAssumption
<1> QED BY <1>2, <1>3, <1>4 DEF MapInit, MapTypeOK

(* Every reachable state of the gateway's memory is well typed.              *)
THEOREM MapTypeTheorem == MapSpec => []MapTypeOK
<1>1. MapTypeOK /\ [MapNext]_mapVars => MapTypeOK'
  BY MapTypeStep
<1> QED BY <1>1, MapTypeInit, PTL DEF MapSpec

-------------------------------------------------------------------------------
(* A query that has been sent and does not fail reads every change made      *)
(* before, so the only thing to keep is that a notice that finds the window  *)
(* open leaves a refresh due, and that this refresh is sent when the window  *)
(* closes.                                                                   *)
LEMMA ToldStep ==
  ASSUME MapTypeOK, ToldIsComing, [MapNext]_mapVars
  PROVE  ToldIsComing'
<1> USE DEF ToldIsComing, mapCounts
<1>1. CASE \E i \in Trackers, o \in Owners : Install(i, o)
  BY <1>1 DEF Install, Announced, Change
<1>2. CASE \E i \in Trackers, o \in Owners : Transfer(i, o)
  BY <1>2 DEF Transfer, Change
<1>3. CASE \E i \in Trackers : Retire(i)
  BY <1>3 DEF Retire, Announced, Change
<1>4. CASE \E i \in Trackers : Notice(i)
  <2>1. waiting' \/ \E q \in Slots : query'[q] = Sent
    BY <1>4, AskSends DEF Notice, MapTypeOK
  <2> QED BY <2>1
<1>5. CASE WindowEnds
  <2>1. CASE waiting
    <3>1. \E q \in Slots : query'[q] = Sent
      BY <1>5, <2>1, AskSends DEF WindowEnds, MapTypeOK
    <3> QED BY <3>1
  <2>2. CASE ~waiting
    BY <1>5, <2>2 DEF WindowEnds
  <2> QED BY <2>1, <2>2
<1>6. CASE Periodic
  <2>1. \E q \in Slots : query'[q] = Sent
    BY <1>6, AskSends DEF Periodic, MapTypeOK
  <2> QED BY <2>1
<1>7. CASE \E q \in Slots : Read(q)
  BY <1>7 DEF Read
<1>8. CASE \E q \in Slots : Answer(q)
  <2>1. PICK q \in Slots : Answer(q)
    BY <1>8
  <2>2. \A r \in Slots : query[r] = Sent => query'[r] = Sent
    BY <2>1 DEF Answer, MapTypeOK, Sent, FreeSlot
  <2> QED BY <2>1, <2>2 DEF Answer
<1>9. CASE \E q \in Slots : Fail(q)
  BY <1>9 DEF Fail, MapTypeOK
<1>10. CASE Restart
  <2>1. \E q \in Slots : query'[q] = Sent
    BY <1>10, RestartSends
  <2> QED BY <2>1
<1>11. CASE UNCHANGED mapVars
  BY <1>11 DEF mapVars
<1>12. CASE \E i \in Trackers : NoticeNeverMade(i)
  BY <1>12 DEF NoticeNeverMade, MapTypeOK
<1> QED BY <1>1, <1>2, <1>3, <1>4, <1>5, <1>6, <1>7, <1>8, <1>9, <1>10, <1>11, <1>12 DEF MapNext

(* While nothing has failed, no announced change is dropped on its way to    *)
(* the maps (traccar.gateway.ts, agendarRefreshMapping).                     *)
THEOREM ToldTheorem == MapSpec => []ToldIsComing
<1>1. MapInit => ToldIsComing
  BY DEF MapInit, ToldIsComing
<1>2. MapTypeOK /\ ToldIsComing /\ [MapNext]_mapVars => ToldIsComing'
  BY ToldStep
<1> QED BY <1>1, <1>2, MapTypeTheorem, PTL DEF MapSpec

-------------------------------------------------------------------------------
(* SharedCache.                                                              *)

KnownIsOld == \A k \in Keys : known[k] <= data[k]

FlyingReadsEnough ==
  \A k \in Keys, b \in Builds :
    flying[k] = b =>
      /\ build[b].at \in {"building", "built"}
      /\ ~build[b].lost
      /\ build[b].key = k
      /\ build[b].at = "built" => build[b].value >= known[k]

WaitersAreOwed ==
  \A r \in Readers, b \in Builds :
    reader[r].at = "waiting" /\ reader[r].build = b =>
      /\ build[b].at \in {"building", "built"}
      /\ ~build[b].lost
      /\ build[b].key = reader[r].key
      /\ build[b].at = "building" => reader[r].since <= known[reader[r].key]
      /\ build[b].at = "built" => build[b].value >= reader[r].since

FreshInv ==
  /\ TypeOK
  /\ KnownIsOld
  /\ FlyingReadsEnough
  /\ WaitersAreOwed
  /\ KeptIsNotStale
  /\ AnswerIsNotStale

-------------------------------------------------------------------------------
LEMMA BuildFields ==
  ASSUME NEW x \in Build
  PROVE  /\ x.at \in {"free", "building", "built"}
         /\ x.at \in {"building", "built"} => x.key \in Keys /\ x.lost \in BOOLEAN
         /\ x.at = "built" => x.value \in Version
BY DEF Build

LEMMA ReaderFields ==
  ASSUME NEW x \in Reader
  PROVE  /\ x.at \in {"idle", "refused", "waiting", "answered"}
         /\ x.at = "waiting" => x.build \in Builds /\ x.key \in Keys /\ x.since \in Version
         /\ x.at = "answered" => x.value \in Version /\ x.since \in Version
BY DEF Reader

LEMMA BuildsMade ==
  /\ Free \in Build
  /\ \A k \in Keys, l \in BOOLEAN :
       /\ [at |-> "building", key |-> k, lost |-> l] \in Build
       /\ \A v \in Version : [at |-> "built", key |-> k, lost |-> l, value |-> v] \in Build
BY DEF Free, Build

LEMMA ReadersMade ==
  /\ Idle \in Reader
  /\ [at |-> "refused"] \in Reader
  /\ \A b \in Builds, k \in Keys, s \in Version :
       [at |-> "waiting", build |-> b, key |-> k, since |-> s] \in Reader
  /\ \A v \in Version, s \in Version :
       [at |-> "answered", value |-> v, since |-> s] \in Reader
BY DEF Idle, Reader

(* Answering or refusing those who wait for a build.                         *)
LEMMA SettledTyped ==
  ASSUME TypeOK, NEW b, NEW a \in Version \cup {None}
  PROVE  Settled(b, a) \in [Readers -> Reader]
<1> SUFFICES ASSUME NEW r \in Readers PROVE Settled(b, a)[r] \in Reader
  BY DEF Settled
<1>1. reader[r] \in Reader
  BY DEF TypeOK
<1>2. reader[r].at = "waiting" => reader[r].since \in Version
  BY <1>1, ReaderFields
<1> QED BY <1>1, <1>2, ReadersMade DEF Settled

LEMMA TypeInit == Init => TypeOK
<1> SUFFICES ASSUME Init PROVE TypeOK
  OBVIOUS
<1>1. 0 \in Version /\ 0 \in 0..MaxReads /\ 0 \in 0..MaxFailures
  BY BoundsAssumption DEF Version
<1>2. build \in [Builds -> Build] /\ reader \in [Readers -> Reader]
  BY BuildsMade, ReadersMade DEF Init
<1> QED BY <1>1, <1>2 DEF Init, TypeOK

LEMMA GetTyped ==
  ASSUME TypeOK, NEW r \in Readers, NEW k \in Keys, Get(r, k)
  PROVE  TypeOK'
<1>1. known[k] \in Version
  BY DEF TypeOK
<1>2. reads' \in 0..MaxReads
  BY BoundsAssumption DEF Get, TypeOK
<1>3. CASE Hit(r, k)
  <2>1. entry[k] \in Version
    BY <1>3 DEF Hit, TypeOK
  <2>2. reader' \in [Readers -> Reader]
    BY <1>1, <1>3, <2>1, ReadersMade DEF Hit, TypeOK
  <2> QED BY <1>2, <1>3, <2>2 DEF Get, Hit, TypeOK
<1>4. CASE Join(r, k)
  <2>1. flying[k] \in Builds
    BY <1>4 DEF Join, TypeOK
  <2>2. reader' \in [Readers -> Reader]
    BY <1>1, <1>4, <2>1, ReadersMade DEF Join, Wait, TypeOK
  <2> QED BY <1>2, <1>4, <2>2 DEF Get, Join, TypeOK
<1>5. CASE StartBuild(r, k)
  <2>1. PICK b \in Builds :
          /\ build' = [build EXCEPT ![b] = [at |-> "building", key |-> k, lost |-> FALSE]]
          /\ flying' = [flying EXCEPT ![k] = b]
          /\ Wait(r, b, k)
    BY <1>5 DEF StartBuild
  <2>2. build' \in [Builds -> Build] /\ flying' \in [Keys -> Builds \cup {None}]
    BY <2>1, BuildsMade DEF TypeOK
  <2>3. reader' \in [Readers -> Reader]
    BY <1>1, <2>1, ReadersMade DEF Wait, TypeOK
  <2> QED BY <1>2, <2>2, <2>3 DEF Get, TypeOK
<1> QED BY <1>3, <1>4, <1>5 DEF Get

LEMMA WithdrawnTyped ==
  ASSUME TypeOK, NEW b
  PROVE  Withdrawn(b) \in [Keys -> Builds \cup {None}]
BY DEF TypeOK, Withdrawn

LEMMA TypeStep ==
  ASSUME TypeOK, [Next]_vars
  PROVE  TypeOK'
<1> USE DEF counts
<1>1. CASE \E k \in Keys : Write(k)
  BY <1>1, BoundsAssumption DEF Write, TypeOK, Version
<1>2. CASE \E k \in Keys : Invalidate(k)
  BY <1>2 DEF Invalidate, Forget, Unregistered, TypeOK
<1>3. CASE \E k \in Keys : Expire(k)
  BY <1>3 DEF Expire, TypeOK
<1>4. CASE \E r \in Readers : Leave(r)
  BY <1>4, ReadersMade DEF Leave, TypeOK
<1>5. CASE \E r \in Readers, k \in Keys : Get(r, k)
  BY <1>5, GetTyped
<1>6. ASSUME NEW b \in Builds, BuildReads(b) PROVE TypeOK'
  <2>1. build[b].key \in Keys /\ build[b].lost \in BOOLEAN
    BY <1>6, BuildFields DEF BuildReads, TypeOK
  <2>2. data[build[b].key] \in Version
    BY <2>1 DEF TypeOK
  <2>3. build' \in [Builds -> Build]
    BY <1>6, <2>1, <2>2, BuildsMade DEF BuildReads, TypeOK
  <2> QED BY <1>6, <2>3 DEF BuildReads, TypeOK
<1>7. ASSUME NEW b \in Builds, BuildAnswers(b) PROVE TypeOK'
  <2>1. build[b].key \in Keys /\ build[b].value \in Version
    BY <1>7, BuildFields DEF BuildAnswers, TypeOK
  <2>2. reader' \in [Readers -> Reader]
    BY <1>7, <2>1, SettledTyped DEF BuildAnswers
  <2>3. build' \in [Builds -> Build]
    BY <1>7, BuildsMade DEF BuildAnswers, TypeOK
  <2>4. /\ flying' \in [Keys -> Builds \cup {None}]
        /\ entry' \in [Keys -> Version \cup {None}]
    <3>1. CASE flying[build[b].key] = b
      BY <1>7, <2>1, <3>1 DEF BuildAnswers, Keeping, TypeOK
    <3>2. CASE flying[build[b].key] # b
      BY <1>7, <3>2 DEF BuildAnswers, TypeOK
    <3> QED BY <3>1, <3>2
  <2> QED BY <1>7, <2>2, <2>3, <2>4 DEF BuildAnswers, TypeOK
<1>8. ASSUME NEW b \in Builds, BuildFails(b) PROVE TypeOK'
  <2>1. failures' \in 0..MaxFailures
    BY <1>8, BoundsAssumption DEF BuildFails, TypeOK
  <2>2. build' \in [Builds -> Build]
    BY <1>8, BuildsMade DEF BuildFails, TypeOK
  <2>3. reader' \in [Readers -> Reader]
    BY <1>8, SettledTyped DEF BuildFails
  <2>4. flying' \in [Keys -> Builds \cup {None}]
    BY <1>8, WithdrawnTyped DEF BuildFails
  <2> QED BY <1>8, <2>1, <2>2, <2>3, <2>4 DEF BuildFails, TypeOK
<1>9. ASSUME NEW b \in Builds, TimesOut(b) PROVE TypeOK'
  <2>1. failures' \in 0..MaxFailures
    BY <1>9, BoundsAssumption DEF TimesOut, TypeOK
  <2>2. [build[b] EXCEPT !.lost = TRUE] \in Build
    <3>1. build[b] \in Build /\ build[b].at # "free"
      BY <1>9 DEF TimesOut, TypeOK
    <3>2. ASSUME NEW x \in Build, x.at # "free"
          PROVE  [x EXCEPT !.lost = TRUE] \in Build
      BY <3>2 DEF Build
    <3> QED BY <3>1, <3>2
  <2>3. build' \in [Builds -> Build]
    BY <1>9, <2>2 DEF TimesOut, TypeOK
  <2>4. reader' \in [Readers -> Reader]
    BY <1>9, SettledTyped DEF TimesOut
  <2>5. flying' \in [Keys -> Builds \cup {None}]
    BY <1>9, WithdrawnTyped DEF TimesOut
  <2> QED BY <1>9, <2>1, <2>3, <2>4, <2>5 DEF TimesOut, TypeOK
<1>10. CASE \E b \in Builds : LateBuildEnds(b)
  BY <1>10, BuildsMade DEF LateBuildEnds, TypeOK
<1>11. CASE UNCHANGED vars
  BY <1>11 DEF vars, TypeOK
<1>12. CASE Clear
  BY <1>12 DEF Clear, Forget, Unregistered, TypeOK
<1> QED BY <1>1, <1>2, <1>3, <1>4, <1>5, <1>6, <1>7, <1>8, <1>9, <1>10, <1>11, <1>12 DEF Next

(* Every reachable state of the cache is well typed.                         *)
THEOREM TypeTheorem == Spec => []TypeOK
<1>1. TypeOK /\ [Next]_vars => TypeOK'
  BY TypeStep
<1> QED BY <1>1, TypeInit, PTL DEF Spec

-------------------------------------------------------------------------------
LEMMA FreshInit == Init => FreshInv
<1> SUFFICES ASSUME Init PROVE FreshInv
  OBVIOUS
<1>1. TypeOK
  BY TypeInit
<1>2. KnownIsOld
  BY DEF Init, KnownIsOld
<1>3. FlyingReadsEnough
  BY NoneAssumption DEF Init, FlyingReadsEnough
<1>4. WaitersAreOwed /\ AnswerIsNotStale
  BY DEF Init, WaitersAreOwed, AnswerIsNotStale, Idle
<1>5. KeptIsNotStale
  BY DEF Init, KeptIsNotStale
<1> QED BY <1>1, <1>2, <1>3, <1>4, <1>5 DEF FreshInv

(* What FreshInv says but for the type and for what is known.                *)
Owed == FlyingReadsEnough /\ WaitersAreOwed /\ KeptIsNotStale /\ AnswerIsNotStale

LEMMA ForgetStep ==
  ASSUME FreshInv, NEW S, Forget(S)
  PROVE  KnownIsOld' /\ Owed'
<1> USE DEF FreshInv
<1>1. /\ \A x \in Keys : known'[x] = IF x \in S THEN data[x] ELSE known[x]
      /\ \A x \in Keys : entry'[x] = IF x \in S THEN None ELSE entry[x]
      /\ \A x \in Keys : flying'[x] = IF x \in S THEN None ELSE flying[x]
      /\ data' = data /\ build' = build /\ reader' = reader
  BY DEF Forget, Unregistered, TypeOK
<1>2. \A x \in Keys : known[x] <= known'[x] /\ known'[x] <= data[x]
  BY <1>1 DEF KnownIsOld, TypeOK, Version
<1>3. KnownIsOld'
  BY <1>1, <1>2 DEF KnownIsOld
<1>4. FlyingReadsEnough'
  BY <1>1, NoneAssumption DEF FlyingReadsEnough
<1>5. WaitersAreOwed'
  <2> SUFFICES ASSUME NEW r \in Readers, NEW b \in Builds,
                      reader[r].at = "waiting", reader[r].build = b,
                      build[b].at = "building"
               PROVE  reader[r].since <= known'[reader[r].key]
    BY <1>1 DEF WaitersAreOwed
  <2>1. reader[r].key \in Keys /\ reader[r].since \in Version
    BY ReaderFields DEF TypeOK
  <2>2. reader[r].since <= known[reader[r].key]
    BY DEF WaitersAreOwed
  <2>3. known[reader[r].key] \in Nat /\ known'[reader[r].key] \in Nat
    BY <1>1, <2>1 DEF TypeOK, Version
  <2> QED BY <1>2, <2>1, <2>2, <2>3 DEF Version
<1>6. KeptIsNotStale'
  BY <1>1 DEF KeptIsNotStale
<1>7. AnswerIsNotStale'
  BY <1>1 DEF AnswerIsNotStale
<1> QED BY <1>3, <1>4, <1>5, <1>6, <1>7 DEF Owed

LEMMA GetStep ==
  ASSUME FreshInv, NEW r \in Readers, NEW k \in Keys, Get(r, k)
  PROVE  Owed'
<1> USE DEF FreshInv
<1>0. entry' = entry /\ known' = known /\ known[k] \in Nat
  BY DEF Get, TypeOK, Version
<1>1. CASE Hit(r, k)
  <2>1. /\ flying' = flying /\ build' = build
        /\ reader' = [reader EXCEPT ![r] =
                        [at |-> "answered", value |-> entry[k], since |-> known[k]]]
        /\ entry[k] >= known[k]
    BY <1>1 DEF Hit, KeptIsNotStale
  <2>2. \A s \in Readers : s # r => reader'[s] = reader[s]
    BY <2>1 DEF TypeOK
  <2>3. reader'[r] = [at |-> "answered", value |-> entry[k], since |-> known[k]]
    BY <2>1 DEF TypeOK
  <2>4. AnswerIsNotStale'
    BY <2>1, <2>2, <2>3 DEF AnswerIsNotStale
  <2>5. WaitersAreOwed'
    BY <1>0, <2>1, <2>2, <2>3 DEF WaitersAreOwed
  <2>6. FlyingReadsEnough' /\ KeptIsNotStale'
    BY <1>0, <2>1 DEF FlyingReadsEnough, KeptIsNotStale
  <2> QED BY <2>4, <2>5, <2>6 DEF Owed
<1>2. CASE Join(r, k)
  <2> DEFINE b == flying[k]
  <2>1. b \in Builds
    BY <1>2 DEF Join, TypeOK
  <2>2. /\ flying' = flying /\ build' = build
        /\ \A s \in Readers : s # r => reader'[s] = reader[s]
        /\ reader'[r] = [at |-> "waiting", build |-> b, key |-> k, since |-> known[k]]
    BY <1>2 DEF Join, Wait, TypeOK
  <2>3. /\ build[b].at \in {"building", "built"}
        /\ ~build[b].lost
        /\ build[b].key = k
        /\ build[b].at = "built" => build[b].value >= known[k]
    BY <2>1 DEF FlyingReadsEnough
  <2> HIDE DEF b
  <2>4. WaitersAreOwed'
    BY <1>0, <2>2, <2>3 DEF WaitersAreOwed
  <2>5. AnswerIsNotStale'
    BY <2>2 DEF AnswerIsNotStale
  <2>6. FlyingReadsEnough' /\ KeptIsNotStale'
    BY <1>0, <2>2 DEF FlyingReadsEnough, KeptIsNotStale
  <2> QED BY <2>4, <2>5, <2>6 DEF Owed
<1>3. CASE StartBuild(r, k)
  <2>1. PICK b \in Builds :
          /\ build[b] = Free
          /\ build' = [build EXCEPT ![b] = [at |-> "building", key |-> k, lost |-> FALSE]]
          /\ flying' = [flying EXCEPT ![k] = b]
          /\ Wait(r, b, k)
    BY <1>3 DEF StartBuild
  <2>2. /\ \A c \in Builds : c # b => build'[c] = build[c]
        /\ build'[b] = [at |-> "building", key |-> k, lost |-> FALSE]
        /\ \A x \in Keys : flying'[x] = IF x = k THEN b ELSE flying[x]
        /\ \A s \in Readers : s # r => reader'[s] = reader[s]
        /\ reader'[r] = [at |-> "waiting", build |-> b, key |-> k, since |-> known[k]]
    BY <2>1 DEF Wait, TypeOK
  <2>3. build[b].at = "free"
    BY <2>1 DEF Free
  <2>4. FlyingReadsEnough'
    BY <1>0, <2>2, <2>3 DEF FlyingReadsEnough
  <2>5. WaitersAreOwed'
    BY <1>0, <2>2, <2>3 DEF WaitersAreOwed
  <2>6. AnswerIsNotStale' /\ KeptIsNotStale'
    BY <1>0, <2>2 DEF AnswerIsNotStale, KeptIsNotStale
  <2> QED BY <2>4, <2>5, <2>6 DEF Owed
<1> QED BY <1>1, <1>2, <1>3 DEF Get

LEMMA BuildReadsStep ==
  ASSUME FreshInv, NEW b \in Builds, BuildReads(b)
  PROVE  Owed'
<1> USE DEF FreshInv
<1> DEFINE k == build[b].key
<1>1. k \in Keys /\ build[b].at = "building"
  BY BuildFields DEF BuildReads, TypeOK
<1>2. /\ \A c \in Builds : c # b => build'[c] = build[c]
      /\ build'[b] = [at |-> "built", key |-> k, lost |-> build[b].lost, value |-> data[k]]
      /\ UNCHANGED <<known, entry, flying, reader>>
  BY DEF BuildReads, TypeOK
<1>3. known[k] <= data[k] /\ known[k] \in Nat /\ data[k] \in Nat
  BY <1>1 DEF KnownIsOld, TypeOK, Version
<1>4. FlyingReadsEnough'
  BY <1>1, <1>2, <1>3 DEF FlyingReadsEnough
<1>5. WaitersAreOwed'
  <2> SUFFICES ASSUME NEW r \in Readers, reader[r].at = "waiting", reader[r].build = b
               PROVE  ~build[b].lost /\ k = reader[r].key /\ data[k] >= reader[r].since
    BY <1>1, <1>2 DEF WaitersAreOwed
  <2>1. ~build[b].lost /\ k = reader[r].key /\ reader[r].since <= known[k]
    BY <1>1 DEF WaitersAreOwed
  <2>2. reader[r].since \in Nat
    BY ReaderFields DEF TypeOK, Version
  <2> HIDE DEF k
  <2> QED BY <1>3, <2>1, <2>2
<1>6. AnswerIsNotStale' /\ KeptIsNotStale'
  BY <1>2 DEF AnswerIsNotStale, KeptIsNotStale
<1> QED BY <1>4, <1>5, <1>6 DEF Owed

(* Once build b is out of the register and its readers have their answer,    *)
(* the others are where they were.                                           *)
LEMMA OverStep ==
  ASSUME FreshInv, NEW b \in Builds, NEW a \in Version \cup {None},
         known' = known,
         \A c \in Builds \ {b} : build'[c] = build[c],
         \A x \in Keys : flying'[x] \in {None, flying[x]} /\ flying'[x] # b,
         reader' = Settled(b, a),
         \A r \in Readers :
           reader[r].at = "waiting" /\ reader[r].build = b /\ a # None
             => a >= reader[r].since
  PROVE  FlyingReadsEnough' /\ WaitersAreOwed' /\ AnswerIsNotStale'
<1> USE DEF FreshInv
<1>1. FlyingReadsEnough'
  BY NoneAssumption DEF FlyingReadsEnough
<1>2. \A r \in Readers :
        IF reader[r].at = "waiting" /\ reader[r].build = b
        THEN \/ reader'[r].at = "refused"
             \/ /\ reader'[r].at = "answered"
                /\ a # None
                /\ reader'[r].value = a /\ reader'[r].since = reader[r].since
        ELSE reader'[r] = reader[r]
  BY DEF Settled
<1>3. WaitersAreOwed'
  <2> SUFFICES ASSUME NEW r \in Readers, NEW c \in Builds,
                      reader'[r].at = "waiting", reader'[r].build = c
               PROVE  WaitersAreOwed!(r, c)'
    BY DEF WaitersAreOwed
  <2>1. reader'[r] = reader[r] /\ c # b
    BY <1>2
  <2>2. build'[c] = build[c]
    BY <2>1
  <2> QED BY <2>1, <2>2 DEF WaitersAreOwed
<1>4. AnswerIsNotStale'
  <2> SUFFICES ASSUME NEW r \in Readers, reader'[r].at = "answered"
               PROVE  reader'[r].value >= reader'[r].since
    BY DEF AnswerIsNotStale
  <2>1. CASE reader[r].at = "waiting" /\ reader[r].build = b
    BY <1>2, <2>1
  <2>2. CASE ~(reader[r].at = "waiting" /\ reader[r].build = b)
    BY <1>2, <2>2 DEF AnswerIsNotStale
  <2> QED BY <2>1, <2>2
<1> QED BY <1>1, <1>3, <1>4

LEMMA BuildAnswersStep ==
  ASSUME FreshInv, NEW b \in Builds, BuildAnswers(b)
  PROVE  Owed'
<1> USE DEF FreshInv
<1> DEFINE k == build[b].key
           value == build[b].value
<1>1. k \in Keys /\ value \in Version /\ build[b].at = "built"
  BY BuildFields DEF BuildAnswers, TypeOK
<1>2. /\ \A c \in Builds \ {b} : build'[c] = build[c]
      /\ reader' = Settled(b, value)
      /\ known' = known
  BY DEF BuildAnswers, TypeOK
<1>3. \A x \in Keys : flying[x] = b => x = k
  BY <1>1 DEF FlyingReadsEnough
<1>4. \A x \in Keys : flying'[x] \in {None, flying[x]} /\ flying'[x] # b
  BY <1>1, <1>3, NoneAssumption DEF BuildAnswers, TypeOK
<1>5. \A r \in Readers :
        reader[r].at = "waiting" /\ reader[r].build = b => value >= reader[r].since
  BY <1>1 DEF WaitersAreOwed
<1>6. FlyingReadsEnough' /\ WaitersAreOwed' /\ AnswerIsNotStale'
  BY <1>1, <1>2, <1>4, <1>5, OverStep
<1>7. KeptIsNotStale'
  <2>1. CASE flying[k] = b
    <3>1. value >= known[k]
      BY <1>1, <2>1 DEF FlyingReadsEnough
    <3>2. /\ entry'[k] = value
          /\ \A x \in Keys \ {k} : entry'[x] = entry[x] \/ entry'[x] = None
      <4>1. entry' \in Keeping(k, value)
        BY <2>1 DEF BuildAnswers
      <4>2. entry \in [Keys -> Version \cup {None}]
        BY DEF TypeOK
      <4> HIDE DEF k, value
      <4> QED BY <1>1, <4>1, <4>2 DEF Keeping
    <3> HIDE DEF k, value
    <3> QED BY <1>2, <3>1, <3>2 DEF KeptIsNotStale
  <2>2. CASE flying[k] # b
    BY <1>2, <2>2 DEF BuildAnswers, KeptIsNotStale
  <2> QED BY <2>1, <2>2
<1> QED BY <1>6, <1>7 DEF Owed

LEMMA BuildLostStep ==
  ASSUME FreshInv, NEW b \in Builds, BuildFails(b) \/ TimesOut(b)
  PROVE  Owed'
<1> USE DEF FreshInv
<1>1. /\ \A c \in Builds \ {b} : build'[c] = build[c]
      /\ reader' = Settled(b, None)
      /\ known' = known /\ entry' = entry
      /\ flying' = Withdrawn(b)
  BY DEF BuildFails, TimesOut, TypeOK
<1>2. \A x \in Keys : flying'[x] \in {None, flying[x]} /\ flying'[x] # b
  BY <1>1, NoneAssumption DEF Withdrawn
<1>3. FlyingReadsEnough' /\ WaitersAreOwed' /\ AnswerIsNotStale'
  BY <1>1, <1>2, OverStep
<1>4. KeptIsNotStale'
  BY <1>1 DEF KeptIsNotStale
<1> QED BY <1>3, <1>4 DEF Owed

LEMMA FreshStep ==
  ASSUME FreshInv, [Next]_vars
  PROVE  FreshInv'
<1> USE DEF counts
<1>0. TypeOK'
  BY TypeStep DEF FreshInv
<1> SUFFICES KnownIsOld' /\ Owed'
  BY <1>0 DEF FreshInv, Owed
<1>1. CASE \E k \in Keys : Write(k)
  <2>1. PICK k \in Keys : Write(k)
    BY <1>1
  <2>2. KnownIsOld'
    BY <2>1 DEF Write, KnownIsOld, FreshInv, TypeOK, Version
  <2>3. Owed'
    BY <2>1 DEF Write, Owed, FreshInv, FlyingReadsEnough, WaitersAreOwed,
       KeptIsNotStale, AnswerIsNotStale
  <2> QED BY <2>2, <2>3
<1>2. CASE \E k \in Keys : Invalidate(k)
  BY <1>2, ForgetStep DEF Invalidate
<1>3. CASE \E k \in Keys : Expire(k)
  BY <1>3 DEF Expire, FreshInv, TypeOK, KnownIsOld, Owed, FlyingReadsEnough,
     WaitersAreOwed, KeptIsNotStale, AnswerIsNotStale
<1>4. CASE \E r \in Readers : Leave(r)
  <2>1. PICK r \in Readers : Leave(r)
    BY <1>4
  <2>2. /\ \A s \in Readers : reader'[s] = IF s = r THEN Idle ELSE reader[s]
        /\ UNCHANGED <<data, known, entry, flying, build>>
    BY <2>1 DEF Leave, FreshInv, TypeOK
  <2> QED BY <2>2 DEF FreshInv, KnownIsOld, Owed, FlyingReadsEnough, WaitersAreOwed,
             KeptIsNotStale, AnswerIsNotStale, Idle
<1>5. CASE \E r \in Readers, k \in Keys : Get(r, k)
  <2>1. KnownIsOld'
    BY <1>5 DEF Get, KnownIsOld, FreshInv
  <2> QED BY <1>5, <2>1, GetStep
<1>6. CASE \E b \in Builds : BuildReads(b)
  <2>1. KnownIsOld'
    BY <1>6 DEF BuildReads, KnownIsOld, FreshInv
  <2> QED BY <1>6, <2>1, BuildReadsStep
<1>7. CASE \E b \in Builds : BuildAnswers(b)
  <2>1. KnownIsOld'
    BY <1>7 DEF BuildAnswers, KnownIsOld, FreshInv
  <2> QED BY <1>7, <2>1, BuildAnswersStep
<1>8. CASE \E b \in Builds : BuildFails(b) \/ TimesOut(b)
  <2>1. KnownIsOld'
    BY <1>8 DEF BuildFails, TimesOut, KnownIsOld, FreshInv
  <2> QED BY <1>8, <2>1, BuildLostStep
<1>9. CASE \E b \in Builds : LateBuildEnds(b)
  <2>1. PICK b \in Builds : LateBuildEnds(b)
    BY <1>9
  <2>2. /\ build[b].lost
        /\ \A c \in Builds \ {b} : build'[c] = build[c]
        /\ UNCHANGED <<data, known, entry, flying, reader>>
    BY <2>1 DEF LateBuildEnds, FreshInv, TypeOK
  <2> QED BY <2>2 DEF FreshInv, KnownIsOld, Owed, FlyingReadsEnough, WaitersAreOwed,
             KeptIsNotStale, AnswerIsNotStale
<1>10. CASE UNCHANGED vars
  BY <1>10 DEF vars, FreshInv, KnownIsOld, Owed, FlyingReadsEnough, WaitersAreOwed,
     KeptIsNotStale, AnswerIsNotStale
<1>11. CASE Clear
  BY <1>11, ForgetStep DEF Clear
<1> QED BY <1>1, <1>2, <1>3, <1>4, <1>5, <1>6, <1>7, <1>8, <1>9, <1>10, <1>11 DEF Next

LEMMA FreshInvariant == Spec => []FreshInv
<1>1. FreshInv /\ [Next]_vars => FreshInv'
  BY FreshStep
<1> QED BY <1>1, FreshInit, PTL DEF Spec

(* Nothing read before the last invalidation of a key is kept for it.        *)
THEOREM KeptTheorem == Spec => []KeptIsNotStale
<1>1. FreshInv => KeptIsNotStale
  BY DEF FreshInv
<1> QED BY <1>1, FreshInvariant, PTL

(* Nothing read before an invalidation is given to who asks after it.        *)
THEOREM AnswerTheorem == Spec => []AnswerIsNotStale
<1>1. FreshInv => AnswerIsNotStale
  BY DEF FreshInv
<1> QED BY <1>1, FreshInvariant, PTL

-------------------------------------------------------------------------------
(* The four memories together.                                               *)

(* The owner maps, the list, the cache and the positions share nothing, so   *)
(* the composition that is checked keeps to the four specifications proved   *)
(* about.                                                                    *)
THEOREM PanelComposes == PanelSpec => MapSpec /\ ListSpec /\ Spec /\ LiveSpec
<1>1. PanelInit => MapInit /\ ListInit /\ Init /\ LiveInit
  BY DEF PanelInit
<1>2. [PanelNext]_All =>
        [MapNext]_mapVars /\ [ListNext]_listVars /\ [Next]_vars /\ [LiveNext]_liveVars
  BY Zenon DEF PanelNext, All
<1> QED BY <1>1, <1>2, PTL DEF PanelSpec, MapSpec, ListSpec, Spec, LiveSpec

(* The four memories keep their types.                                       *)
THEOREM PanelTypesTheorem == PanelSpec => []PanelTypesOK
<1>1. MapTypeOK /\ ListTypeOK /\ TypeOK /\ LiveTypeOK => PanelTypesOK
  BY DEF PanelTypesOK
<1> QED BY <1>1, PanelComposes, MapTypeTheorem, ListTypeTheorem, TypeTheorem,
           LiveTypeTheorem, PTL
===============================================================================
