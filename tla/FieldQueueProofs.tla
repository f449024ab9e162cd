--------------------------- MODULE FieldQueueProofs ----------------------------
(***************************************************************************)
(* Proofs about FieldQueue for any cars and routes.  What is promised of   *)
(* the queue, of the stops and of the routes is not inductive: each needs  *)
(* what the sync, the route that is being made or the installation has     *)
(* read and not yet acted upon.  QueueInv carries the rows a sync is about *)
(* to write, VisitInv the cars a route is about to visit, CloseInv the     *)
(* routes that are not empty, HoldInv the stops a sync is about to cancel. *)
(***************************************************************************)
EXTENDS FieldQueue, FiniteSetTheorems, TLAPS

QueueInv ==
  /\ InstalledLeavesQueue
  /\ sync.pc \in {"count", "write"} =>
       \A c \in sync.rows \cap installed : c \in sync.during

Unwritten ==
  /\ \A r \in Routes : build[r].pc # "written" =>
       status[r] = "none" /\ \A c \in Cars : stop[r][c] = "none"
  /\ \A r \in Held : build[r].pc = "written"

VisitInv ==
  /\ InstalledIsNotVisited
  /\ \A r \in Routes : build[r].pc = "checked" =>
       \A c \in build[r].cars \cap installed :
         tail[c].pc \in {"queue", "stops"} \/ <<r, c>> \in missed

CloseInv ==
  /\ LastStopClosesRoute
  /\ \A r \in Routes : build[r].pc = "checked" => build[r].cars # {}

SyncFacts ==
  /\ sync.stops # {} => sync.pc \in {"reads", "cancel"}
  /\ sync.pc = "cancel" => sync.unread = {}
  /\ \A p \in sync.stops : stop[p[1]][p[2]] = "DONE" =>
       p[2] \in sync.crossed \/ ("devices" \in sync.unread /\ p[2] \in installed)
  /\ \A p \in sync.stops : "devices" \notin sync.unread /\ p[2] \in installed =>
       p[2] \in sync.crossed

HoldInv ==
  /\ \A r \in Held : status[r] = "CANCELLED" => r \in overtaken
  /\ SyncFacts

SpareInv ==
  sync.pc = "write" => Believed(Cardinality(sync.rows), Cardinality(queue))

QueueStep ==
  \/ \E c \in Cars : SgaChanges(c)
  \/ \E c \in Cars : Install(c)
  \/ \E c \in Cars : Uninstall(c)
  \/ \E c \in Cars : LeaveQueue(c)
  \/ \E c \in Cars : ReadOwnStops(c)
  \/ \E c \in Cars : MarkOwnStops(c)
  \/ \E c \in Cars, r \in Routes : CloseOwnRoute(c, r)
  \/ \E c \in Cars : TailFails(c)
  \/ \E r \in Routes, cars \in SUBSET queue : BuildReads(r, cars)
  \/ \E r \in Routes : BuildChecks(r)
  \/ \E r \in Routes : BuildCreates(r)
  \/ \E r \in Routes : CancelRoute(r)
  \/ \E found \in SUBSET sga : SyncStarts(found)
  \/ SyncFilters
  \/ SyncCounts
  \/ SyncWrites
  \/ SyncReadsStops
  \/ SyncReadsQueue
  \/ SyncReadsDevices
  \/ SyncCancels
  \/ \E r \in Routes : SyncCloses(r)
  \/ SyncFails
  \/ Restart
  \/ UNCHANGED vars

LEMMA QueueNextIsAStep ==
  ASSUME [Next]_vars
  PROVE  QueueStep
BY Zenon DEF Next, TailStep, SyncStep, QueueStep

-------------------------------------------------------------------------------
(* Typing.                                                                   *)

BuildRow == [pc : {"free", "read", "checked", "written"}, cars : SUBSET Cars]
TailRow  == [pc : {"idle", "queue", "stops", "mark", "close"}, routes : SUBSET Routes]
SyncRow  == [pc : {"idle", "filter", "count", "write", "stops", "reads", "cancel", "close"},
             rows : SUBSET Cars, during : SUBSET Cars, stops : SUBSET Pairs,
             crossed : SUBSET Cars, unread : SUBSET {"queue", "devices"},
             routes : SUBSET Routes]
StopTable == [Routes -> [Cars -> States \cup {"none"}]]

SetsTyped ==
  /\ sga \subseteq Cars /\ installed \subseteq Cars /\ queue \subseteq Cars
  /\ slipped \subseteq Cars /\ missed \subseteq Pairs
  /\ adrift \subseteq Routes /\ overtaken \subseteq Routes
  /\ sgaChanges \in 0..MaxSgaChanges /\ installs \in 0..MaxInstalls
  /\ faults \in 0..MaxFaults
BuildTyped == build \in [Routes -> BuildRow]
RoutesTyped == status \in [Routes -> States \cup {"none"}] /\ stop \in StopTable
TailTyped ==
  /\ tail \in [Cars -> TailRow]
  /\ \A c \in Cars : tail[c].pc \in {"mark", "close"} <=> tail[c].routes # {}
SyncTyped ==
  /\ sync \in SyncRow
  /\ sync.pc = "close" <=> sync.routes # {}

LEMMA QueueTypedApart ==
  /\ TypeOK <=> SetsTyped /\ BuildTyped /\ RoutesTyped /\ TailTyped /\ SyncTyped
  /\ TypeOK' <=> SetsTyped' /\ BuildTyped' /\ RoutesTyped' /\ TailTyped' /\ SyncTyped'
BY DEF TypeOK, SetsTyped, BuildTyped, RoutesTyped, TailTyped, SyncTyped, BuildRow, TailRow,
       SyncRow, StopTable

LEMMA QueueIdles ==
  /\ IdleSync \in SyncRow /\ IdleSync.pc = "idle" /\ IdleSync.routes = {} /\ IdleSync.stops = {}
  /\ IdleSync.rows = {} /\ IdleSync.during = {} /\ IdleSync.crossed = {} /\ IdleSync.unread = {}
  /\ IdleTail \in TailRow /\ IdleTail.pc = "idle" /\ IdleTail.routes = {}
  /\ NoBuild \in BuildRow /\ NoBuild.pc = "free" /\ NoBuild.cars = {}
BY DEF IdleSync, IdleTail, NoBuild, SyncRow, TailRow, BuildRow

LEMMA TailOf ==
  ASSUME NEW pc \in {"mark", "close"}, NEW routes \in SUBSET Routes
  PROVE  /\ Tail(pc, routes) \in TailRow
         /\ Tail(pc, routes).routes = routes
         /\ Tail(pc, routes).pc = IF routes = {} THEN "idle" ELSE pc
BY QueueIdles DEF Tail, TailRow

(* What is noted for the properties changes nothing else of the sync.        *)
LEMMA NotedSync ==
  ASSUME TypeOK, NEW c \in Cars
  PROVE  /\ Noted(c) \in SyncRow
         /\ Noted(c).pc = sync.pc /\ Noted(c).rows = sync.rows /\ Noted(c).stops = sync.stops
         /\ Noted(c).unread = sync.unread /\ Noted(c).routes = sync.routes
         /\ Noted(c).crossed = IF sync.pc \in {"reads", "cancel"}
                               THEN sync.crossed \cup {c} ELSE sync.crossed
         /\ Noted(c).during = IF sync.pc \in {"count", "write"}
                              THEN sync.during \cup {c} ELSE sync.during
<1>1. sync \in SyncRow
  BY QueueTypedApart DEF SyncTyped
<1> QED BY <1>1 DEF Noted, SyncRow

(* An update of stops by their ids.                                          *)
LEMMA StopsSet ==
  ASSUME NEW pairs, NEW state \in States, stop \in StopTable, StopsSetTo(pairs, state)
  PROVE  /\ stop' \in StopTable
         /\ \A r \in Routes, c \in Cars :
              stop'[r][c] = IF <<r, c>> \in pairs THEN state ELSE stop[r][c]
BY DEF StopsSetTo, StopTable

LEMMA QueueTypeInit == Init => TypeOK
<1> SUFFICES ASSUME Init PROVE TypeOK
  OBVIOUS
<1>1. SetsTyped
  BY BoundsAssumption DEF Init, SetsTyped
<1>2. BuildTyped /\ RoutesTyped
  BY QueueIdles DEF Init, BuildTyped, RoutesTyped, StopTable
<1>3. TailTyped
  BY QueueIdles DEF Init, TailTyped
<1>4. SyncTyped
  BY QueueIdles DEF Init, SyncTyped
<1> QED BY <1>1, <1>2, <1>3, <1>4, QueueTypedApart

LEMMA BuildTypedStep ==
  ASSUME TypeOK, QueueStep
  PROVE  BuildTyped'
<1>1. build \in [Routes -> BuildRow] /\ queue \subseteq Cars
  BY QueueTypedApart DEF BuildTyped, SetsTyped
<1>2. CASE UNCHANGED build
  BY <1>1, <1>2 DEF BuildTyped
<1>3. CASE \E r \in Routes, cars \in SUBSET queue : BuildReads(r, cars)
  BY <1>1, <1>3 DEF BuildTyped, BuildReads, BuildRow
<1>4. CASE \E r \in Routes : BuildChecks(r)
  BY <1>1, <1>4, QueueIdles DEF BuildTyped, BuildChecks, BuildRow, NotInstalled
<1>5. CASE \E r \in Routes : BuildCreates(r)
  BY <1>1, <1>5 DEF BuildTyped, BuildCreates, BuildRow
<1>6. CASE Restart
  BY <1>1, <1>6, QueueIdles DEF BuildTyped, Restart
<1> QED BY <1>2, <1>3, <1>4, <1>5, <1>6
        DEF QueueStep, SgaChanges, Install, Uninstall, LeaveQueue, ReadOwnStops, MarkOwnStops,
            CloseOwnRoute, TailFails, CancelRoute, SyncStarts, SyncFilters, SyncCounts,
            SyncWrites, SyncReadsStops, SyncReadsQueue, SyncReadsDevices, SyncSpares,
            SyncCancels, SyncCloses, SyncFails, rows, vars

LEMMA RoutesTypedStep ==
  ASSUME TypeOK, QueueStep
  PROVE  RoutesTyped'
<1>1. RoutesTyped
  BY QueueTypedApart
<1>2. CASE UNCHANGED <<status, stop>>
  BY <1>1, <1>2 DEF RoutesTyped
<1>3. CASE \E c \in Cars : MarkOwnStops(c)
  <2> PICK c \in Cars : MarkOwnStops(c)
    BY <1>3
  <2> PICK pairs : pairs = tail[c].routes \X {c}
    OBVIOUS
  <2>1. StopsSetTo(pairs, "DONE") /\ status' = status
    BY DEF MarkOwnStops
  <2> QED BY <1>1, <2>1, StopsSet DEF RoutesTyped, States
<1>4. CASE SyncCancels
  <2> PICK pairs : pairs = sync.stops
    OBVIOUS
  <2>1. StopsSetTo(pairs, "CANCELLED") /\ status' = status
    BY <1>4 DEF SyncCancels
  <2> QED BY <1>1, <2>1, StopsSet DEF RoutesTyped, States
<1>5. CASE \E r \in Routes : CloseRoute(r) /\ stop' = stop
  BY <1>1, <1>5 DEF RoutesTyped, CloseRoute, States
<1>6. CASE \E r \in Routes : BuildCreates(r)
  BY <1>1, <1>6 DEF RoutesTyped, BuildCreates, States, StopTable
<1>7. CASE \E r \in Routes : CancelRoute(r)
  BY <1>1, <1>7 DEF RoutesTyped, CancelRoute, States
<1> QED BY <1>2, <1>3, <1>4, <1>5, <1>6, <1>7
        DEF QueueStep, SgaChanges, Install, Uninstall, LeaveQueue, ReadOwnStops,
            CloseOwnRoute, TailFails, BuildReads, BuildChecks, SyncStarts, SyncFilters,
            SyncCounts, SyncWrites, SyncReadsStops, SyncReadsQueue, SyncReadsDevices,
            SyncSpares, SyncCloses, SyncFails, Restart, rows, vars

LEMMA TailTypedStep ==
  ASSUME TypeOK, QueueStep
  PROVE  TailTyped'
<1>1. TailTyped
  BY QueueTypedApart
<1>2. CASE UNCHANGED tail
  BY <1>1, <1>2 DEF TailTyped
<1>3. CASE \E c \in Cars : Install(c) \/ LeaveQueue(c)
  BY <1>1, <1>3 DEF TailTyped, TailRow, Install, LeaveQueue
<1>4. CASE \E c \in Cars : ReadOwnStops(c)
  <2> PICK c \in Cars : ReadOwnStops(c)
    BY <1>4
  <2> PICK mine \in SUBSET Routes : mine = {r \in Routes : <<r, c>> \in OpenStops}
    OBVIOUS
  <2>1. tail' = [tail EXCEPT ![c] = Tail("mark", mine)]
    BY DEF ReadOwnStops
  <2> QED BY <1>1, <2>1, TailOf DEF TailTyped
<1>5. CASE \E c \in Cars : MarkOwnStops(c)
  BY <1>1, <1>5 DEF TailTyped, TailRow, MarkOwnStops
<1>6. CASE \E c \in Cars, r \in Routes : CloseOwnRoute(c, r)
  <2> PICK c \in Cars, r \in Routes : CloseOwnRoute(c, r)
    BY <1>6
  <2> PICK left \in SUBSET Routes : left = tail[c].routes \ {r}
    BY <1>1 DEF TailTyped, TailRow
  <2>1. tail' = [tail EXCEPT ![c] = Tail("close", left)]
    BY DEF CloseOwnRoute
  <2> QED BY <1>1, <2>1, TailOf DEF TailTyped
<1>7. CASE (\E c \in Cars : TailFails(c)) \/ Restart
  BY <1>1, <1>7, QueueIdles DEF TailTyped, TailFails, Restart
<1> QED BY <1>2, <1>3, <1>4, <1>5, <1>6, <1>7
        DEF QueueStep, SgaChanges, Uninstall, BuildReads, BuildChecks, BuildCreates, CancelRoute,
            SyncStarts, SyncFilters, SyncCounts, SyncWrites, SyncReadsStops, SyncReadsQueue,
            SyncReadsDevices, SyncSpares, SyncCancels, SyncCloses, SyncFails, vars

(* A sync that is going to cancel stops has some: what closes the routes of  *)
(* the stops would be typed wrongly otherwise.                               *)
SyncHolds == sync.pc = "cancel" => sync.stops # {}

LEMMA SyncHoldsStep ==
  ASSUME TypeOK, SyncHolds, QueueStep
  PROVE  SyncHolds'
<1>1. sync \in SyncRow
  BY QueueTypedApart DEF SyncTyped
<1>2. CASE UNCHANGED sync
  BY <1>2 DEF SyncHolds
<1>3. CASE \E c \in Cars : sync' = Noted(c)
  BY <1>3, NotedSync DEF SyncHolds
<1>4. CASE sync' = IdleSync
  BY <1>4, QueueIdles DEF SyncHolds
<1>5. CASE sync'.pc # "cancel"
  BY <1>5 DEF SyncHolds
<1>6. CASE SyncReadsQueue \/ SyncReadsDevices
  <2> PICK table, cars : table \in {"queue", "devices"} /\ SyncSpares(table, cars)
    BY <1>6 DEF SyncReadsQueue, SyncReadsDevices
  <2> PICK orphans : orphans = {p \in sync.stops : p[2] \notin cars}
    OBVIOUS
  <2> QED BY <1>1, <1>4 DEF SyncHolds, SyncSpares, SyncRow
<1>7. CASE \E found \in SUBSET sga : SyncStarts(found)
  BY <1>7 DEF SyncHolds, SyncStarts, IdleSync
<1>8. CASE SyncFilters \/ SyncCounts \/ SyncWrites \/ SyncReadsStops \/ SyncCancels
           \/ \E r \in Routes : SyncCloses(r)
  BY <1>1, <1>4, <1>5, <1>8
     DEF SyncFilters, SyncCounts, SyncWrites, SyncReadsStops, SyncCancels, SyncCloses,
         IdleSync, SyncRow
<1> QED BY <1>2, <1>3, <1>4, <1>6, <1>7, <1>8
        DEF QueueStep, SgaChanges, Install, Uninstall, LeaveQueue, ReadOwnStops, MarkOwnStops,
            CloseOwnRoute, TailFails, BuildReads, BuildChecks, BuildCreates, CancelRoute,
            SyncFails, Restart, vars

LEMMA SyncTypedStep ==
  ASSUME TypeOK, SyncHolds, QueueStep
  PROVE  SyncTyped'
<1>1. SyncTyped
  BY QueueTypedApart
<1>2. CASE UNCHANGED sync
  BY <1>1, <1>2 DEF SyncTyped
<1>3. CASE \E c \in Cars : sync' = Noted(c)
  BY <1>1, <1>3, NotedSync DEF SyncTyped
<1>4. CASE sync' = IdleSync
  BY <1>4, QueueIdles DEF SyncTyped
<1>5. CASE \E found \in SUBSET sga : SyncStarts(found)
  <2> PICK found \in SUBSET Cars : SyncStarts(found)
    BY <1>5, QueueTypedApart DEF SetsTyped
  <2>1. sync' = [IdleSync EXCEPT !.pc = "filter", !.rows = found]
    BY DEF SyncStarts
  <2> QED BY <2>1 DEF SyncTyped, IdleSync, SyncRow
<1>6. CASE SyncFilters \/ SyncCounts
  <2>1. CASE SyncFilters
    <3> PICK waiting \in SUBSET Cars : waiting = NotInstalled(sync.rows)
      BY <1>1 DEF SyncTyped, SyncRow, NotInstalled
    <3>1. sync' = [sync EXCEPT !.pc = "count", !.rows = waiting] /\ sync.pc = "filter"
      BY <2>1 DEF SyncFilters
    <3> QED BY <1>1, <3>1 DEF SyncTyped, SyncRow
  <2>2. CASE SyncCounts
    <3>1. \/ sync' = [sync EXCEPT !.pc = "write"] /\ sync.pc = "count"
          \/ sync' = IdleSync
      BY <2>2 DEF SyncCounts
    <3> QED BY <1>1, <1>4, <3>1 DEF SyncTyped, SyncRow
  <2> QED BY <1>6, <2>1, <2>2
<1>7. CASE SyncWrites
  BY <1>7 DEF SyncTyped, SyncWrites, IdleSync, SyncRow
<1>8. CASE SyncReadsStops
  BY <1>1, <1>4, <1>8 DEF SyncTyped, SyncRow, SyncReadsStops, OpenStops
<1>9. CASE SyncReadsQueue \/ SyncReadsDevices
  <2> PICK table, cars : table \in {"queue", "devices"} /\ SyncSpares(table, cars)
    BY <1>9 DEF SyncReadsQueue, SyncReadsDevices
  <2> PICK left \in SUBSET {"queue", "devices"} : left = sync.unread \ {table}
    BY <1>1 DEF SyncTyped, SyncRow
  <2> PICK orphans \in SUBSET Pairs : orphans = {p \in sync.stops : p[2] \notin cars}
    BY <1>1 DEF SyncTyped, SyncRow
  <2>1. \/ sync' = [sync EXCEPT !.unread = left, !.stops = orphans]
        \/ sync' = IdleSync
        \/ sync' = [sync EXCEPT !.unread = left, !.stops = orphans, !.pc = "cancel"]
    BY DEF SyncSpares
  <2>2. sync.pc = "reads"
    BY DEF SyncSpares
  <2> QED BY <1>1, <1>4, <2>1, <2>2 DEF SyncTyped, SyncRow
<1>10. CASE SyncCancels
  <2> PICK held : held = {p[1] : p \in sync.stops}
    OBVIOUS
  <2>1. held \in SUBSET Routes /\ held # {}
    BY <1>1, <1>10 DEF SyncTyped, SyncRow, Pairs, SyncHolds, SyncCancels
  <2>2. sync' = [IdleSync EXCEPT !.pc = "close", !.routes = held]
    BY <1>10 DEF SyncCancels
  <2> QED BY <2>1, <2>2 DEF SyncTyped, IdleSync, SyncRow
<1>11. CASE \E r \in Routes : SyncCloses(r)
  BY <1>1, <1>4, <1>11 DEF SyncTyped, SyncRow, SyncCloses
<1> QED BY <1>2, <1>3, <1>4, <1>5, <1>6, <1>7, <1>8, <1>9, <1>10, <1>11
        DEF QueueStep, SgaChanges, Install, Uninstall, LeaveQueue, ReadOwnStops, MarkOwnStops,
            CloseOwnRoute, TailFails, BuildReads, BuildChecks, BuildCreates, CancelRoute,
            SyncFails, Restart, vars

LEMMA SetsTypedStep ==
  ASSUME TypeOK, QueueStep
  PROVE  SetsTyped'
<1>1. SetsTyped /\ BuildTyped /\ TailTyped /\ SyncTyped
  BY QueueTypedApart
<1>2. /\ sgaChanges' \in 0..MaxSgaChanges /\ installs' \in 0..MaxInstalls
      /\ faults' \in 0..MaxFaults
  <2>1. \/ UNCHANGED counts
        \/ Fault
        \/ sgaChanges < MaxSgaChanges /\ sgaChanges' = sgaChanges + 1
           /\ UNCHANGED <<installs, faults>>
        \/ installs < MaxInstalls /\ installs' = installs + 1
           /\ UNCHANGED <<sgaChanges, faults>>
    BY DEF QueueStep, SgaChanges, Install, Uninstall, LeaveQueue, ReadOwnStops, MarkOwnStops,
           CloseOwnRoute, TailFails, BuildReads, BuildChecks, BuildCreates, CancelRoute,
           SyncStarts, SyncFilters, SyncCounts, SyncWrites, SyncReadsStops, SyncReadsQueue,
           SyncReadsDevices, SyncSpares, SyncCancels, SyncCloses, SyncFails, Restart,
           counts, vars
  <2> QED BY <1>1, <2>1, BoundsAssumption DEF SetsTyped, Fault, counts
<1>3. sga' \subseteq Cars /\ installed' \subseteq Cars /\ overtaken' \subseteq Routes
  BY <1>1
     DEF SetsTyped, QueueStep, SgaChanges, Install, Uninstall, LeaveQueue, ReadOwnStops,
         MarkOwnStops, CloseOwnRoute, TailFails, BuildReads, BuildChecks, BuildCreates,
         CancelRoute, SyncStarts, SyncFilters, SyncCounts, SyncWrites, SyncReadsStops,
         SyncReadsQueue, SyncReadsDevices, SyncSpares, SyncCancels, SyncCloses, SyncFails,
         Restart, history, vars
<1>4. queue' \subseteq Cars /\ slipped' \subseteq Cars
  <2>1. sync.rows \subseteq Cars /\ sync.during \subseteq Cars
    BY <1>1 DEF SyncTyped, SyncRow
  <2> QED BY <1>1, <2>1
     DEF SetsTyped, QueueStep, SgaChanges, Install, Uninstall, LeaveQueue, ReadOwnStops,
         MarkOwnStops, CloseOwnRoute, TailFails, BuildReads, BuildChecks, BuildCreates,
         CancelRoute, SyncStarts, SyncFilters, SyncCounts, SyncWrites, SyncReadsStops,
         SyncReadsQueue, SyncReadsDevices, SyncSpares, SyncCancels, SyncCloses, SyncFails,
         Restart, Rebuilt, rows, history, vars
<1>5. missed' \subseteq Pairs
  <2>1. \A c \in Cars : PassedBy(c) \subseteq Pairs
    BY DEF PassedBy, Pairs
  <2>2. CASE Restart
    BY <1>1, <2>1, <2>2 DEF SetsTyped, Restart
  <2>3. CASE \E c \in Cars : TailFails(c)
    BY <1>1, <2>1, <2>3 DEF SetsTyped, TailFails
  <2>4. CASE \E c \in Cars : ReadOwnStops(c)
    BY <1>1, <2>4 DEF SetsTyped, ReadOwnStops, Pairs
  <2>5. CASE \E r \in Routes : BuildChecks(r)
    BY <1>1, <2>5 DEF SetsTyped, BuildChecks
  <2>6. CASE UNCHANGED missed
    BY <1>1, <2>6 DEF SetsTyped
  <2> QED BY <2>2, <2>3, <2>4, <2>5, <2>6
     DEF QueueStep, SgaChanges, Install, Uninstall, LeaveQueue, MarkOwnStops, CloseOwnRoute,
         BuildReads, BuildCreates, CancelRoute, SyncStarts, SyncFilters, SyncCounts,
         SyncWrites, SyncReadsStops, SyncReadsQueue, SyncReadsDevices, SyncSpares,
         SyncCancels, SyncCloses, SyncFails, history, vars
<1>6. adrift' \subseteq Routes
  <2>1. sync.routes \subseteq Routes
    BY <1>1 DEF SyncTyped, SyncRow
  <2>2. \A c \in Cars : LeftOpen(c) \subseteq Routes
    BY <1>1 DEF TailTyped, TailRow, LeftOpen
  <2>3. CASE Restart
    BY <1>1, <2>1, <2>2, <2>3 DEF SetsTyped, Restart
  <2>4. CASE SyncFails \/ \E c \in Cars : TailFails(c)
    BY <1>1, <2>1, <2>2, <2>4 DEF SetsTyped, TailFails, SyncFails
  <2>5. CASE UNCHANGED adrift
    BY <1>1, <2>5 DEF SetsTyped
  <2> QED BY <2>3, <2>4, <2>5
     DEF QueueStep, SgaChanges, Install, Uninstall, LeaveQueue, ReadOwnStops, MarkOwnStops,
         CloseOwnRoute, BuildReads, BuildChecks, BuildCreates, CancelRoute, SyncStarts,
         SyncFilters, SyncCounts, SyncWrites, SyncReadsStops, SyncReadsQueue,
         SyncReadsDevices, SyncSpares, SyncCancels, SyncCloses, history, vars
<1> QED BY <1>2, <1>3, <1>4, <1>5, <1>6 DEF SetsTyped

LEMMA QueueTypes == Spec => [](TypeOK /\ SyncHolds)
<1>1. Init => TypeOK /\ SyncHolds
  BY QueueTypeInit, QueueIdles DEF Init, SyncHolds
<1>2. TypeOK /\ SyncHolds /\ [Next]_vars => TypeOK' /\ SyncHolds'
  BY QueueNextIsAStep, SetsTypedStep, BuildTypedStep, RoutesTypedStep, TailTypedStep,
     SyncTypedStep, SyncHoldsStep, QueueTypedApart
<1> QED BY <1>1, <1>2, PTL DEF Spec

(* Every reachable state is well typed: an installation or a sync holds      *)
(* routes exactly while it is about to close them.                           *)
THEOREM QueueTypeTheorem == Spec => []TypeOK
BY QueueTypes, PTL

-------------------------------------------------------------------------------
(* The queue.                                                                *)

LEMMA QueueInvStep ==
  ASSUME TypeOK, QueueInv, QueueStep
  PROVE  QueueInv'
<1>1. tail \in [Cars -> TailRow] /\ sync \in SyncRow /\ installed \subseteq Cars /\ queue \subseteq Cars
  BY QueueTypedApart DEF TailTyped, SyncTyped, SetsTyped
<1>2. ASSUME installed' \subseteq installed, queue' \subseteq queue, slipped \subseteq slipped',
             \A c \in Cars : tail[c].pc = "queue" => tail'[c].pc = "queue",
             sync' = sync
      PROVE  QueueInv'
  BY <1>1, <1>2 DEF QueueInv, InstalledLeavesQueue
<1>3. CASE \E c \in Cars : Install(c)
  <2> PICK c \in Cars : Install(c)
    BY <1>3
  <2>1. installed' = installed \cup {c} /\ UNCHANGED <<queue, slipped>>
    BY DEF Install, rows, history
  <2>2. tail'[c].pc = "queue" /\ \A d \in Cars \ {c} : tail'[d] = tail[d]
    BY <1>1 DEF Install, TailRow
  <2>3. /\ sync'.pc = sync.pc /\ sync'.rows = sync.rows /\ sync.during \subseteq sync'.during
        /\ sync.pc \in {"count", "write"} => c \in sync'.during
    BY NotedSync DEF Install
  <2> QED BY <1>1, <2>1, <2>2, <2>3 DEF QueueInv, InstalledLeavesQueue
<1>4. CASE \E c \in Cars : Uninstall(c)
  <2> PICK c \in Cars : Uninstall(c)
    BY <1>4
  <2>1. installed' \subseteq installed /\ UNCHANGED <<queue, slipped, tail>>
    BY DEF Uninstall, rows, history
  <2>2. sync'.pc = sync.pc /\ sync'.rows = sync.rows /\ sync.during \subseteq sync'.during
    BY NotedSync DEF Uninstall
  <2> QED BY <2>1, <2>2 DEF QueueInv, InstalledLeavesQueue
<1>5. CASE \E c \in Cars : MarkOwnStops(c)
  <2> PICK c \in Cars : MarkOwnStops(c)
    BY <1>5
  <2>1. UNCHANGED <<queue, slipped, installed>>
        /\ \A d \in Cars : tail[d].pc = "queue" => tail'[d].pc = "queue"
    BY <1>1 DEF MarkOwnStops, history
  <2>2. sync'.pc = sync.pc /\ sync'.rows = sync.rows /\ sync.during \subseteq sync'.during
    BY NotedSync DEF MarkOwnStops
  <2> QED BY <1>1, <2>1, <2>2 DEF QueueInv, InstalledLeavesQueue
<1>6. CASE \E c \in Cars : LeaveQueue(c)
  <2> PICK c \in Cars : LeaveQueue(c)
    BY <1>6
  <2>1. UNCHANGED <<sync, installed>> /\ \A d \in Cars \ {c} : tail'[d] = tail[d]
    BY <1>1 DEF LeaveQueue
  <2>2. (queue' = queue \ {c} /\ slipped' = slipped)
        \/ (queue' = queue /\ slipped' = slipped \cup {c})
    BY DEF LeaveQueue
  <2> QED BY <1>1, <2>1, <2>2 DEF QueueInv, InstalledLeavesQueue
<1>7. CASE \E c \in Cars : ReadOwnStops(c) \/ TailFails(c)
  <2> PICK c \in Cars : ReadOwnStops(c) \/ TailFails(c)
    BY <1>7
  <2>1. \A d \in Cars : tail[d].pc = "queue" => tail'[d] = tail[d]
    BY <1>1 DEF ReadOwnStops, TailFails
  <2> QED BY <1>2, <2>1 DEF ReadOwnStops, TailFails, rows
<1>8. CASE \E c \in Cars, r \in Routes : CloseOwnRoute(c, r)
  <2>1. \A d \in Cars : tail[d].pc = "queue" => tail'[d] = tail[d]
    BY <1>1, <1>8 DEF CloseOwnRoute
  <2> QED BY <1>2, <1>8, <2>1 DEF CloseOwnRoute, history
<1>9. CASE SyncFilters
  <2>1. sync'.rows \cap installed = {}
    BY <1>1, <1>9 DEF SyncFilters, NotInstalled, SyncRow
  <2> QED BY <1>9, <2>1 DEF SyncFilters, QueueInv, InstalledLeavesQueue, rows, history
<1>10. CASE SyncCounts
  <2>1. sync' = IdleSync \/ (sync.pc = "count" /\ sync'.rows = sync.rows /\ sync'.during = sync.during)
    BY <1>1, <1>10 DEF SyncCounts, SyncRow
  <2> QED BY <1>10, <2>1, QueueIdles DEF SyncCounts, QueueInv, InstalledLeavesQueue, rows, history
<1>11. CASE SyncWrites
  <2>1. sync'.pc = "stops" /\ queue' = sync.rows /\ slipped' = sync.during
        /\ UNCHANGED <<installed, tail>> /\ sync.pc = "write"
    BY <1>11 DEF SyncWrites, Rebuilt, IdleSync
  <2> QED BY <2>1 DEF QueueInv, InstalledLeavesQueue
<1>12. CASE sync'.pc \notin {"count", "write"} /\ UNCHANGED <<installed, queue, slipped, tail>>
  BY <1>12 DEF QueueInv, InstalledLeavesQueue
<1>13. CASE (\E found \in SUBSET sga : SyncStarts(found)) \/ SyncReadsStops \/ SyncReadsQueue
            \/ SyncReadsDevices \/ SyncCancels \/ (\E r \in Routes : SyncCloses(r)) \/ SyncFails
  <2>1. UNCHANGED <<installed, queue, slipped, tail>>
    BY <1>13 DEF SyncStarts, SyncReadsStops, SyncReadsQueue, SyncReadsDevices, SyncSpares,
                 SyncCancels, SyncCloses, SyncFails, rows, history
  <2>2. CASE (\E found \in SUBSET sga : SyncStarts(found)) \/ SyncCancels
    BY <1>12, <2>1, <2>2 DEF SyncStarts, SyncCancels, IdleSync
  <2>3. CASE SyncReadsQueue \/ SyncReadsDevices
    <3> PICK table, cars : SyncSpares(table, cars)
      BY <2>3 DEF SyncReadsQueue, SyncReadsDevices
    <3> PICK left, orphans :
          \/ sync' = [sync EXCEPT !.unread = left, !.stops = orphans]
          \/ sync' = IdleSync
          \/ sync' = [sync EXCEPT !.unread = left, !.stops = orphans, !.pc = "cancel"]
      BY DEF SyncSpares
    <3> QED BY <1>1, <1>12, <2>1, QueueIdles DEF SyncSpares, SyncRow
  <2>4. CASE SyncReadsStops \/ (\E r \in Routes : SyncCloses(r)) \/ SyncFails
    BY <1>1, <1>12, <2>1, <2>4, QueueIdles DEF SyncReadsStops, SyncCloses, SyncFails, SyncRow
  <2> QED BY <1>13, <2>2, <2>3, <2>4
<1>14. CASE Restart
  BY <1>1, <1>14, QueueIdles DEF Restart, QueueInv, InstalledLeavesQueue
<1>15. CASE UNCHANGED <<installed, queue, slipped, tail, sync>>
  BY <1>2, <1>15
<1> QED BY <1>3, <1>4, <1>5, <1>6, <1>7, <1>8, <1>9, <1>10, <1>11, <1>13, <1>14, <1>15
        DEF QueueStep, SgaChanges, BuildReads, BuildChecks, BuildCreates, CancelRoute, rows,
            history, vars

(* An installed car is in the queue only while its own installation is about *)
(* to take it out, or if the write of a sync crossed it                      *)
(* (installation-pendings.service.ts:646-691).                               *)
THEOREM QueueTheorem == Spec => []InstalledLeavesQueue
<1>1. Init => QueueInv
  BY QueueIdles DEF Init, QueueInv, InstalledLeavesQueue
<1>2. TypeOK /\ QueueInv /\ [Next]_vars => QueueInv'
  BY QueueNextIsAStep, QueueInvStep
<1>3. QueueInv => InstalledLeavesQueue
  BY DEF QueueInv
<1> QED BY <1>1, <1>2, <1>3, QueueTypeTheorem, PTL DEF Spec

-------------------------------------------------------------------------------
(* Who holds which routes.                                                   *)

LEMMA Holding ==
  /\ \A r : r \in Held <=> \/ \E c \in Cars : r \in tail[c].routes
                           \/ r \in sync.routes
                           \/ \E p \in sync.stops : r = p[1]
  /\ (\A r : r \in Held <=> \/ \E c \in Cars : r \in tail[c].routes
                            \/ r \in sync.routes
                            \/ \E p \in sync.stops : r = p[1])'
  /\ TypeOK => Held \subseteq Routes
<1> DEFINE T == UNION {tail[c].routes : c \in Cars}
           P == {p[1] : p \in sync.stops}
<1>1. ASSUME NEW r
      PROVE  r \in Held <=> \/ \E c \in Cars : r \in tail[c].routes
                            \/ r \in sync.routes
                            \/ \E p \in sync.stops : r = p[1]
  <2>1. r \in T <=> \E c \in Cars : r \in tail[c].routes
    OBVIOUS
  <2>2. r \in P <=> \E p \in sync.stops : r = p[1]
    OBVIOUS
  <2>3. Held = T \cup sync.routes \cup P
    BY DEF Held
  <2> QED BY <2>1, <2>2, <2>3
<1>2. ASSUME NEW r
      PROVE  (r \in Held <=> \/ \E c \in Cars : r \in tail[c].routes
                             \/ r \in sync.routes
                             \/ \E p \in sync.stops : r = p[1])'
  <2>1. r \in T' <=> \E c \in Cars : r \in tail'[c].routes
    OBVIOUS
  <2>2. r \in P' <=> \E p \in sync'.stops : r = p[1]
    OBVIOUS
  <2>3. Held' = T' \cup sync'.routes \cup P'
    BY DEF Held
  <2> QED BY <2>1, <2>2, <2>3
<1>3. ASSUME TypeOK PROVE Held \subseteq Routes
  <2>1. tail \in [Cars -> TailRow] /\ sync \in SyncRow
    BY <1>3, QueueTypedApart DEF TailTyped, SyncTyped
  <2> QED BY <1>1, <2>1 DEF TailRow, SyncRow, Pairs
<1> QED BY <1>1, <1>2, <1>3

(* Nobody comes to hold a route but one that is pending.                     *)
LEMMA HeldStep ==
  ASSUME TypeOK, QueueStep
  PROVE  \A r \in Held' : r \in Held \/ (r \in Routes /\ status[r] = "PENDING")
<1>1. tail \in [Cars -> TailRow] /\ sync \in SyncRow
  BY QueueTypedApart DEF TailTyped, SyncTyped
<1>2. ASSUME \A c \in Cars : tail'[c].routes \subseteq tail[c].routes,
             sync'.routes \subseteq sync.routes, sync'.stops \subseteq sync.stops
      PROVE  Held' \subseteq Held
  BY <1>2, Holding
<1>3. CASE \E c \in Cars : Install(c) \/ Uninstall(c) \/ MarkOwnStops(c)
  <2> PICK c \in Cars : Install(c) \/ Uninstall(c) \/ MarkOwnStops(c)
    BY <1>3
  <2>1. \A d \in Cars : tail'[d].routes = tail[d].routes
    BY <1>1 DEF Install, Uninstall, MarkOwnStops, TailRow
  <2>2. sync'.routes = sync.routes /\ sync'.stops = sync.stops
    BY NotedSync DEF Install, Uninstall, MarkOwnStops
  <2> QED BY <1>2, <2>1, <2>2
<1>4. CASE \E c \in Cars : LeaveQueue(c) \/ TailFails(c)
  <2>1. \A d \in Cars : tail'[d].routes \subseteq tail[d].routes
    BY <1>1, <1>4, QueueIdles DEF LeaveQueue, TailFails, TailRow
  <2> QED BY <1>2, <1>4, <2>1 DEF LeaveQueue, TailFails
<1>5. CASE \E c \in Cars : ReadOwnStops(c)
  <2> PICK c \in Cars : ReadOwnStops(c)
    BY <1>5
  <2> PICK mine \in SUBSET Routes : mine = {r \in Routes : <<r, c>> \in OpenStops}
    OBVIOUS
  <2>1. tail' = [tail EXCEPT ![c] = Tail("mark", mine)] /\ sync' = sync
    BY DEF ReadOwnStops
  <2>2. tail'[c].routes = mine /\ \A d \in Cars \ {c} : tail'[d] = tail[d]
    BY <1>1, <2>1, TailOf
  <2>3. \A r \in mine : status[r] = "PENDING"
    BY DEF OpenStops
  <2>4. ASSUME NEW r \in Held' PROVE r \in Held \/ r \in mine
    <3>1. \/ \E d \in Cars : r \in tail'[d].routes
          \/ r \in sync.routes
          \/ \E p \in sync.stops : r = p[1]
      BY <2>1, Holding
    <3>2. (\E d \in Cars : r \in tail'[d].routes) => r \in mine \/ \E d \in Cars : r \in tail[d].routes
      BY <2>2
    <3> QED BY <3>1, <3>2, Holding
  <2> QED BY <2>3, <2>4
<1>6. CASE \E c \in Cars, r \in Routes : CloseOwnRoute(c, r)
  <2> PICK c \in Cars, r \in Routes : CloseOwnRoute(c, r)
    BY <1>6
  <2> PICK left \in SUBSET Routes : left = tail[c].routes \ {r}
    BY <1>1 DEF TailRow
  <2>1. tail' = [tail EXCEPT ![c] = Tail("close", left)] /\ sync' = sync
    BY DEF CloseOwnRoute
  <2>2. tail'[c].routes = left /\ \A d \in Cars \ {c} : tail'[d] = tail[d]
    BY <1>1, <2>1, TailOf
  <2> QED BY <1>2, <2>1, <2>2
<1>7. CASE sync' = IdleSync /\ tail' = tail
  BY <1>2, <1>7, QueueIdles
<1>8. CASE (\E found \in SUBSET sga : SyncStarts(found)) \/ SyncWrites
  BY <1>2, <1>8 DEF SyncStarts, SyncWrites, IdleSync
<1>9. CASE SyncFilters \/ SyncCounts
  BY <1>1, <1>2, <1>7, <1>9 DEF SyncFilters, SyncCounts, SyncRow
<1>10. CASE SyncReadsStops
  <2>1. \A p \in OpenStops : p[1] \in Routes /\ status[p[1]] = "PENDING"
    BY DEF OpenStops, Pairs
  <2>2. tail' = tail /\ (sync' = IdleSync \/ (sync'.stops = OpenStops /\ sync'.routes = sync.routes))
    BY <1>1, <1>10 DEF SyncReadsStops, SyncRow
  <2> QED BY <1>7, <2>1, <2>2, Holding
<1>11. CASE SyncReadsQueue \/ SyncReadsDevices
  <2> PICK table, cars : SyncSpares(table, cars)
    BY <1>11 DEF SyncReadsQueue, SyncReadsDevices
  <2> PICK left : left = sync.unread \ {table}
    OBVIOUS
  <2> PICK orphans : orphans = {p \in sync.stops : p[2] \notin cars}
    OBVIOUS
  <2>2. \/ sync' = [sync EXCEPT !.unread = left, !.stops = orphans]
        \/ sync' = IdleSync
        \/ sync' = [sync EXCEPT !.unread = left, !.stops = orphans, !.pc = "cancel"]
    BY DEF SyncSpares
  <2>3. orphans \subseteq sync.stops
    OBVIOUS
  <2>1. sync'.routes \subseteq sync.routes /\ sync'.stops \subseteq sync.stops
    BY <1>1, <2>2, <2>3, QueueIdles DEF SyncRow
  <2> QED BY <1>2, <2>1 DEF SyncSpares
<1>12. CASE SyncCancels
  <2> PICK held : held = {p[1] : p \in sync.stops}
    OBVIOUS
  <2>1. sync'.routes = held /\ sync'.stops = {} /\ tail' = tail
    BY <1>12 DEF SyncCancels, IdleSync
  <2> QED BY <2>1, Holding
<1>13. CASE \E r \in Routes : SyncCloses(r)
  BY <1>1, <1>2, <1>7, <1>13 DEF SyncCloses, SyncRow
<1>14. CASE SyncFails \/ Restart
  BY <1>2, <1>14, QueueIdles DEF SyncFails, Restart
<1>15. CASE UNCHANGED <<tail, sync>>
  BY <1>2, <1>15
<1> QED BY <1>3, <1>4, <1>5, <1>6, <1>8, <1>9, <1>10, <1>11, <1>12, <1>13, <1>14, <1>15
        DEF QueueStep, SgaChanges, BuildReads, BuildChecks, BuildCreates, CancelRoute, vars

(* A route that is not written has no status and no stops, and nobody holds  *)
(* it.                                                                       *)
LEMMA UnwrittenStep ==
  ASSUME TypeOK, Unwritten, QueueStep
  PROVE  Unwritten'
<1>1. build \in [Routes -> BuildRow] /\ RoutesTyped /\ TailTyped /\ SyncTyped
  BY QueueTypedApart DEF BuildTyped
<1>2. \A r \in Held' : build[r].pc = "written" /\ r \in Routes
  BY HeldStep, Holding DEF Unwritten
<1>3. ASSUME \A r \in Routes : build[r].pc = "written" <=> build'[r].pc = "written",
             \A r \in Routes : build[r].pc # "written" =>
               status'[r] = status[r] /\ \A c \in Cars : stop'[r][c] = stop[r][c]
      PROVE  Unwritten'
  BY <1>2, <1>3 DEF Unwritten
<1>4. CASE UNCHANGED <<build, status, stop>>
  BY <1>3, <1>4
<1>5. CASE (\E r \in Routes, cars \in SUBSET queue : BuildReads(r, cars))
           \/ \E r \in Routes : BuildChecks(r)
  <2>1. UNCHANGED <<status, stop>>
    BY <1>5 DEF BuildReads, BuildChecks
  <2>2. \A r \in Routes : build'[r].pc = "written" <=> build[r].pc = "written"
    BY <1>1, <1>5, QueueIdles DEF BuildReads, BuildChecks
  <2> QED BY <1>3, <2>1, <2>2
<1>6. CASE \E r \in Routes : BuildCreates(r)
  <2> PICK r \in Routes : BuildCreates(r)
    BY <1>6
  <2>1. /\ build'[r].pc = "written"
        /\ \A q \in Routes \ {r} : /\ build'[q] = build[q]
                                   /\ status'[q] = status[q] /\ stop'[q] = stop[q]
    BY <1>1 DEF BuildCreates, RoutesTyped, StopTable
  <2> QED BY <1>2, <2>1 DEF Unwritten
<1>7. CASE \E r \in Routes : CancelRoute(r)
  BY <1>1, <1>3, <1>7 DEF CancelRoute, RoutesTyped
<1>8. CASE Restart
  <2>1. UNCHANGED <<status, stop>>
        /\ \A r \in Routes : build'[r].pc = "written" <=> build[r].pc = "written"
    BY <1>1, <1>8, QueueIdles DEF Restart
  <2> QED BY <1>3, <2>1
<1>9. CASE \E c \in Cars : MarkOwnStops(c)
  <2> PICK c \in Cars : MarkOwnStops(c)
    BY <1>9
  <2> PICK pairs : pairs = tail[c].routes \X {c}
    OBVIOUS
  <2>1. StopsSetTo(pairs, "DONE") /\ UNCHANGED <<status, build>>
    BY DEF MarkOwnStops
  <2>2. \A r \in Routes, d \in Cars : <<r, d>> \in pairs => build[r].pc = "written"
    BY Holding DEF Unwritten
  <2>3. \A r \in Routes, d \in Cars : stop'[r][d] = IF <<r, d>> \in pairs THEN "DONE" ELSE stop[r][d]
    BY <2>1 DEF StopsSetTo
  <2> QED BY <1>3, <2>1, <2>2, <2>3
<1>10. CASE SyncCancels
  <2> PICK pairs : pairs = sync.stops
    OBVIOUS
  <2>1. StopsSetTo(pairs, "CANCELLED") /\ UNCHANGED <<status, build>>
    BY <1>10 DEF SyncCancels
  <2>2. \A r \in Routes, d \in Cars : <<r, d>> \in pairs => build[r].pc = "written"
    BY Holding DEF Unwritten
  <2>3. \A r \in Routes, d \in Cars :
          stop'[r][d] = IF <<r, d>> \in pairs THEN "CANCELLED" ELSE stop[r][d]
    BY <2>1 DEF StopsSetTo
  <2> QED BY <1>3, <2>1, <2>2, <2>3
<1>11. CASE (\E c \in Cars, r \in Routes : CloseOwnRoute(c, r)) \/ \E r \in Routes : SyncCloses(r)
  <2> PICK r \in Routes : CloseRoute(r) /\ r \in Held /\ UNCHANGED <<build, stop>>
    BY <1>11, Holding DEF CloseOwnRoute, SyncCloses
  <2>1. build[r].pc = "written" /\ \A q \in Routes \ {r} : status'[q] = status[q]
    BY <1>1 DEF CloseRoute, RoutesTyped, Unwritten
  <2> QED BY <1>3, <2>1
<1> QED BY <1>4, <1>5, <1>6, <1>7, <1>8, <1>9, <1>10, <1>11
        DEF QueueStep, SgaChanges, Install, Uninstall, LeaveQueue, ReadOwnStops, TailFails,
            SyncStarts, SyncFilters, SyncCounts, SyncWrites, SyncReadsStops, SyncReadsQueue,
            SyncReadsDevices, SyncSpares, SyncFails, rows, vars

-------------------------------------------------------------------------------
(* The stops of installed cars.                                              *)

(* What an open stop of an installed car, or one that is about to be         *)
(* written, is excused by.                                                   *)
Excused(r, c) ==
  \/ tail[c].pc \in {"queue", "stops"}
  \/ tail[c].pc = "mark" /\ r \in tail[c].routes
  \/ <<r, c>> \in missed

LEMMA VisitInvStep ==
  ASSUME TypeOK, Unwritten, VisitInv, QueueStep
  PROVE  VisitInv'
<1>1. build \in [Routes -> BuildRow] /\ tail \in [Cars -> TailRow] /\ sync \in SyncRow
      /\ status \in [Routes -> States \cup {"none"}] /\ stop \in StopTable
      /\ installed \subseteq Cars
  BY QueueTypedApart DEF BuildTyped, TailTyped, SyncTyped, RoutesTyped, SetsTyped
<1>2. ASSUME installed' \subseteq installed, OpenStops' \subseteq OpenStops,
             \A r \in Routes : build'[r].pc = "checked" =>
                               build[r].pc = "checked" /\ build'[r].cars = build[r].cars,
             tail' = tail, missed \subseteq missed'
      PROVE  VisitInv'
  BY <1>2 DEF VisitInv, InstalledIsNotVisited
<1>3. CASE \E c \in Cars : Install(c)
  <2> PICK c \in Cars : Install(c)
    BY <1>3
  <2>1. installed' = installed \cup {c} /\ UNCHANGED <<build, status, stop, missed>>
    BY DEF Install, rows, history
  <2>2. tail'[c].pc = "queue" /\ \A d \in Cars \ {c} : tail'[d] = tail[d]
    BY <1>1 DEF Install, TailRow
  <2>3. OpenStops' = OpenStops
    BY <2>1 DEF OpenStops
  <2>4. \A r \in Routes : build[r].cars \subseteq Cars
    BY <1>1 DEF BuildRow
  <2> QED BY <1>1, <2>1, <2>2, <2>3, <2>4 DEF VisitInv, InstalledIsNotVisited
<1>4. CASE \E c \in Cars : LeaveQueue(c)
  <2> PICK c \in Cars : LeaveQueue(c)
    BY <1>4
  <2>1. UNCHANGED <<build, status, stop, missed, installed>>
    BY DEF LeaveQueue
  <2>2. tail'[c].pc = "stops" /\ \A d \in Cars \ {c} : tail'[d] = tail[d]
    BY <1>1 DEF LeaveQueue, TailRow
  <2>3. OpenStops' = OpenStops
    BY <2>1 DEF OpenStops
  <2>4. \A r \in Routes : build[r].cars \subseteq Cars
    BY <1>1 DEF BuildRow
  <2> QED BY <1>1, <2>1, <2>2, <2>3, <2>4 DEF VisitInv, InstalledIsNotVisited
<1>5. CASE \E c \in Cars : ReadOwnStops(c)
  <2> PICK c \in Cars : ReadOwnStops(c)
    BY <1>5
  <2> PICK mine \in SUBSET Routes : mine = {r \in Routes : <<r, c>> \in OpenStops}
    OBVIOUS
  <2>1. /\ tail' = [tail EXCEPT ![c] = Tail("mark", mine)]
        /\ UNCHANGED <<build, status, stop, installed>>
        /\ missed' = missed \cup ({r \in Routes : build[r].pc = "checked"} \X {c})
    BY DEF ReadOwnStops, rows
  <2>2. /\ tail'[c].routes = mine /\ (mine # {} => tail'[c].pc = "mark")
        /\ \A d \in Cars \ {c} : tail'[d] = tail[d]
    BY <1>1, <2>1, TailOf
  <2>3. OpenStops' = OpenStops
    BY <2>1 DEF OpenStops
  <2>4. InstalledIsNotVisited'
    <3> SUFFICES ASSUME NEW r \in Routes, NEW d \in installed', (<<r, d>> \in OpenStops)'
                 PROVE  Excused(r, d)'
      BY DEF InstalledIsNotVisited, Excused
    <3>1. CASE d = c
      BY <2>2, <2>3, <3>1 DEF Excused
    <3>2. CASE d # c
      BY <1>1, <2>1, <2>2, <2>3, <3>2 DEF Excused, VisitInv, InstalledIsNotVisited
    <3> QED BY <3>1, <3>2
  <2>5. ASSUME NEW r \in Routes, build'[r].pc = "checked", NEW d \in build'[r].cars \cap installed'
        PROVE  tail'[d].pc \in {"queue", "stops"} \/ <<r, d>> \in missed'
    <3>1. CASE d = c
      BY <2>1, <2>5, <3>1
    <3>2. CASE d # c
      BY <1>1, <2>1, <2>2, <2>5, <3>2 DEF VisitInv
    <3> QED BY <3>1, <3>2
  <2> QED BY <2>4, <2>5 DEF VisitInv
<1>6. CASE \E c \in Cars : MarkOwnStops(c)
  <2> PICK c \in Cars : MarkOwnStops(c)
    BY <1>6
  <2>1. \A r \in Routes, d \in Cars :
          stop'[r][d] = IF r \in tail[c].routes /\ d = c THEN "DONE" ELSE stop[r][d]
    BY DEF MarkOwnStops, StopsSetTo
  <2>2. UNCHANGED <<build, status, missed, installed>>
        /\ \A d \in Cars \ {c} : tail'[d] = tail[d]
    BY <1>1 DEF MarkOwnStops, history
  <2>3. OpenStops' = OpenStops \ (tail[c].routes \X {c})
    BY <2>1, <2>2 DEF OpenStops, Pairs
  <2>4. tail[c].pc = "mark"
    BY DEF MarkOwnStops
  <2>5. \A r \in Routes : build[r].cars \subseteq Cars
    BY <1>1 DEF BuildRow
  <2>6. \A r \in Routes : \A d \in installed : <<r, d>> \in OpenStops' =>
          <<r, d>> \in OpenStops /\ (d = c => r \notin tail[c].routes)
    BY <2>3
  <2> QED BY <1>1, <2>2, <2>4, <2>5, <2>6 DEF VisitInv, InstalledIsNotVisited
<1>7. CASE \E c \in Cars, r \in Routes : CloseOwnRoute(c, r)
  <2> PICK c \in Cars, r \in Routes : CloseOwnRoute(c, r)
    BY <1>7
  <2>1. UNCHANGED <<build, stop, missed, installed>> /\ OpenStops' \subseteq OpenStops
    BY <1>1 DEF CloseOwnRoute, CloseRoute, OpenStops, history
  <2>2. tail[c].pc = "close" /\ \A d \in Cars \ {c} : tail'[d] = tail[d]
    BY <1>1 DEF CloseOwnRoute
  <2>3. \A q \in Routes : build[q].cars \subseteq Cars
    BY <1>1 DEF BuildRow
  <2> QED BY <1>1, <2>1, <2>2, <2>3 DEF VisitInv, InstalledIsNotVisited
<1>8. CASE (\E c \in Cars : TailFails(c)) \/ Restart
  <2>1. UNCHANGED <<status, stop, installed>> /\ missed \subseteq missed'
    BY <1>8 DEF TailFails, Restart, rows
  <2>2. OpenStops' = OpenStops
    BY <2>1 DEF OpenStops
  <2>3. \A d \in Cars : tail'[d] = tail[d] \/ PassedBy(d) \subseteq missed'
    BY <1>1, <1>8 DEF TailFails, Restart
  <2>4. \A d \in Cars, r \in Routes :
          tail'[d] = tail[d] \/ <<r, d>> \in missed' \/ tail[d].pc \in {"idle", "close"}
    BY <1>1, <2>3 DEF PassedBy, TailRow
  <2>5. \A r \in Routes : build'[r].pc = "checked" => build'[r] = build[r]
    BY <1>1, <1>8, QueueIdles DEF TailFails, Restart, rows
  <2>6. \A r \in Routes : build[r].cars \subseteq Cars
    BY <1>1 DEF BuildRow
  <2> QED BY <1>1, <2>1, <2>2, <2>4, <2>5, <2>6 DEF VisitInv, InstalledIsNotVisited
<1>9. CASE \E r \in Routes, cars \in SUBSET queue : BuildReads(r, cars)
  <2>1. \A r \in Routes : build'[r].pc = "checked" => build'[r] = build[r]
    BY <1>1, <1>9 DEF BuildReads
  <2>2. OpenStops' = OpenStops
    BY <1>9 DEF BuildReads, OpenStops
  <2> QED BY <1>2, <1>9, <2>1, <2>2 DEF BuildReads, history
<1>10. CASE \E r \in Routes : BuildChecks(r)
  <2> PICK r \in Routes : BuildChecks(r)
    BY <1>10
  <2>1. UNCHANGED <<installed, status, stop, tail>> /\ missed' = missed \ ({r} \X Cars)
    BY DEF BuildChecks
  <2>2. build'[r].pc = "checked" => build'[r].cars \cap installed = {}
    BY <1>1, QueueIdles DEF BuildChecks, NotInstalled
  <2>3. \A q \in Routes \ {r} : build'[q] = build[q]
    BY <1>1 DEF BuildChecks
  <2>4. OpenStops' = OpenStops
    BY <2>1 DEF OpenStops
  <2>5. \A c \in Cars : <<r, c>> \notin OpenStops
    BY DEF Unwritten, BuildChecks, OpenStops
  <2>6. \A q \in Routes \ {r} : \A c \in Cars : <<q, c>> \in missed => <<q, c>> \in missed'
    BY <2>1
  <2>7. \A q \in Routes : build[q].cars \subseteq Cars
    BY <1>1 DEF BuildRow
  <2> QED BY <1>1, <2>1, <2>2, <2>3, <2>4, <2>5, <2>6, <2>7 DEF VisitInv, InstalledIsNotVisited
<1>11. CASE \E r \in Routes : BuildCreates(r)
  <2> PICK r \in Routes : BuildCreates(r)
    BY <1>11
  <2>1. UNCHANGED <<installed, tail, missed>>
    BY DEF BuildCreates, history
  <2>2. build'[r].pc = "written" /\ \A q \in Routes \ {r} : build'[q] = build[q]
    BY <1>1 DEF BuildCreates
  <2>3. \A q \in Routes, c \in Cars :
          stop'[q][c] = IF q = r THEN (IF c \in build[r].cars THEN "PENDING" ELSE "none")
                        ELSE stop[q][c]
    BY <1>1 DEF BuildCreates, StopTable
  <2>4. \A q \in Routes \ {r} : status'[q] = status[q]
    BY <1>1 DEF BuildCreates
  <2>5. \A q \in Routes, c \in Cars : <<q, c>> \in OpenStops' =>
          IF q = r THEN c \in build[r].cars ELSE <<q, c>> \in OpenStops
    BY <2>3, <2>4 DEF OpenStops, Pairs
  <2>6. build[r].pc = "checked"
    BY DEF BuildCreates
  <2> QED BY <1>1, <2>1, <2>2, <2>5, <2>6 DEF VisitInv, InstalledIsNotVisited
<1>12. CASE \E r \in Routes : CancelRoute(r)
  <2>1. OpenStops' \subseteq OpenStops
    BY <1>1, <1>12 DEF CancelRoute, OpenStops
  <2> QED BY <1>2, <1>12, <2>1 DEF CancelRoute
<1>13. CASE SyncCancels
  <2> PICK pairs : pairs = sync.stops
    OBVIOUS
  <2>1. \A r \in Routes, d \in Cars :
          stop'[r][d] = IF <<r, d>> \in pairs THEN "CANCELLED" ELSE stop[r][d]
    BY <1>13 DEF SyncCancels, StopsSetTo
  <2>2. status' = status
    BY <1>13 DEF SyncCancels
  <2>3. OpenStops' \subseteq OpenStops
    BY <2>1, <2>2 DEF OpenStops, Pairs
  <2> QED BY <1>2, <1>13, <2>3 DEF SyncCancels, history
<1>14. CASE \E r \in Routes : SyncCloses(r)
  <2>1. OpenStops' \subseteq OpenStops
    BY <1>1, <1>14 DEF SyncCloses, CloseRoute, OpenStops
  <2> QED BY <1>2, <1>14, <2>1 DEF SyncCloses, history
<1>15. ASSUME UNCHANGED <<build, status, stop, tail, missed>>, installed' \subseteq installed
       PROVE  VisitInv'
  <2>1. OpenStops' = OpenStops
    BY <1>15 DEF OpenStops
  <2> QED BY <1>2, <1>15, <2>1
<1> QED BY <1>3, <1>4, <1>5, <1>6, <1>7, <1>8, <1>9, <1>10, <1>11, <1>12, <1>13, <1>14, <1>15
        DEF QueueStep, SgaChanges, Uninstall, SyncStarts, SyncFilters, SyncCounts, SyncWrites,
            SyncReadsStops, SyncReadsQueue, SyncReadsDevices, SyncSpares, SyncFails, rows,
            history, vars

LEMMA UnwrittenAlways == Spec => []Unwritten
<1>1. Init => Unwritten
  BY QueueIdles, Holding DEF Init, Unwritten
<1>2. TypeOK /\ Unwritten /\ [Next]_vars => Unwritten'
  BY QueueNextIsAStep, UnwrittenStep
<1> QED BY <1>1, <1>2, QueueTypeTheorem, PTL DEF Spec

(* The open stop of an installed car is about to be marked by its own        *)
(* installation, unless that one fell between the last barrier and the row   *)
(* of the route, or failed (routes.service.ts:223-259 and 303-334).          *)
THEOREM VisitTheorem == Spec => []InstalledIsNotVisited
<1>1. Init => VisitInv
  BY QueueIdles DEF Init, VisitInv, InstalledIsNotVisited
<1>2. TypeOK /\ Unwritten /\ VisitInv /\ [Next]_vars => VisitInv'
  BY QueueNextIsAStep, VisitInvStep
<1>3. VisitInv => InstalledIsNotVisited
  BY DEF VisitInv
<1> QED BY <1>1, <1>2, <1>3, QueueTypeTheorem, UnwrittenAlways, PTL DEF Spec

-------------------------------------------------------------------------------
(* The routes with nothing left to do.                                       *)

(* Somebody is about to close the route, or has failed to.                   *)
Tended(r) ==
  \/ r \in adrift
  \/ \E c \in Cars : tail[c].pc = "close" /\ r \in tail[c].routes
  \/ sync.pc = "close" /\ r \in sync.routes

LEMMA CloseInvStep ==
  ASSUME TypeOK, CloseInv, QueueStep
  PROVE  CloseInv'
<1>1. /\ build \in [Routes -> BuildRow] /\ tail \in [Cars -> TailRow] /\ sync \in SyncRow
      /\ status \in [Routes -> States \cup {"none"}] /\ stop \in StopTable
      /\ TailTyped /\ SyncTyped
  BY QueueTypedApart DEF BuildTyped, TailTyped, SyncTyped, RoutesTyped
<1>2. ASSUME \A r \in Routes : status'[r] = "PENDING" /\ Outstanding(r)' = {} =>
                               status[r] = "PENDING" /\ Outstanding(r) = {} /\ (Tended(r) => Tended(r)'),
             \A r \in Routes : build'[r].pc = "checked" => build'[r] = build[r]
      PROVE  CloseInv'
  BY <1>2 DEF CloseInv, LastStopClosesRoute, Tended
<1>3. ASSUME UNCHANGED <<status, stop, build>>, \A r \in Routes : Tended(r) => Tended(r)'
      PROVE  CloseInv'
  <2>1. \A r \in Routes : Outstanding(r)' = Outstanding(r)
    BY <1>3 DEF Outstanding
  <2> QED BY <1>2, <1>3, <2>1
<1>4. CASE \E c \in Cars : Install(c) \/ Uninstall(c)
  <2> PICK c \in Cars : Install(c) \/ Uninstall(c)
    BY <1>4
  <2>1. \A d \in Cars : tail[d].pc = "close" => tail'[d] = tail[d]
    BY <1>1 DEF Install, Uninstall
  <2>2. sync'.pc = sync.pc /\ sync'.routes = sync.routes
    BY NotedSync DEF Install, Uninstall
  <2> QED BY <1>3, <2>1, <2>2 DEF Install, Uninstall, Tended, rows, history
<1>5. CASE \E c \in Cars : LeaveQueue(c) \/ ReadOwnStops(c)
  <2>1. \A d \in Cars : tail[d].pc = "close" => tail'[d] = tail[d]
    BY <1>1, <1>5 DEF LeaveQueue, ReadOwnStops
  <2> QED BY <1>3, <1>5, <2>1 DEF LeaveQueue, ReadOwnStops, Tended, rows
<1>6. CASE \E c \in Cars : MarkOwnStops(c)
  <2> PICK c \in Cars : MarkOwnStops(c)
    BY <1>6
  <2>1. \A r \in Routes, d \in Cars :
          stop'[r][d] = IF r \in tail[c].routes /\ d = c THEN "DONE" ELSE stop[r][d]
    BY DEF MarkOwnStops, StopsSetTo
  <2>2. tail'[c].pc = "close" /\ tail'[c].routes = tail[c].routes
    BY <1>1 DEF MarkOwnStops, TailRow
  <2>3. \A d \in Cars : tail[d].pc = "close" => tail'[d] = tail[d]
    BY <1>1 DEF MarkOwnStops
  <2>4. sync'.pc = sync.pc /\ sync'.routes = sync.routes
    BY NotedSync DEF MarkOwnStops
  <2>5. UNCHANGED <<status, build, adrift>>
    BY DEF MarkOwnStops, history
  <2>6. \A r \in Routes : Tended(r) => Tended(r)'
    BY <2>3, <2>4, <2>5 DEF Tended
  <2>7. \A r \in Routes : r \in tail[c].routes => Tended(r)'
    BY <2>2 DEF Tended
  <2>8. \A r \in Routes : r \notin tail[c].routes => Outstanding(r)' = Outstanding(r)
    BY <2>1 DEF Outstanding
  <2> QED BY <2>5, <2>6, <2>7, <2>8 DEF CloseInv, LastStopClosesRoute, Tended
<1>7. ASSUME NEW r \in Routes, CloseRoute(r), UNCHANGED <<stop, build, adrift>>,
             \A q \in Routes \ {r} : Tended(q) => Tended(q)'
      PROVE  CloseInv'
  <2>1. \A q \in Routes : Outstanding(q)' = Outstanding(q)
    BY <1>7 DEF Outstanding
  <2>2. \A q \in Routes \ {r} : status'[q] = status[q]
    BY <1>1, <1>7 DEF CloseRoute
  <2>3. Outstanding(r) = {} => status'[r] = "DONE"
    BY <1>1, <1>7 DEF CloseRoute, Closed
  <2> QED BY <1>7, <2>1, <2>2, <2>3 DEF CloseInv, LastStopClosesRoute, Tended
<1>8. CASE \E c \in Cars, r \in Routes : CloseOwnRoute(c, r)
  <2> PICK c \in Cars, r \in Routes : CloseOwnRoute(c, r)
    BY <1>8
  <2> PICK left \in SUBSET Routes : left = tail[c].routes \ {r}
    BY <1>1 DEF TailRow
  <2>1. /\ tail' = [tail EXCEPT ![c] = Tail("close", left)]
        /\ UNCHANGED <<sync, stop, build, adrift>> /\ CloseRoute(r)
    BY DEF CloseOwnRoute, history
  <2>2. /\ tail'[c].routes = left /\ (left # {} => tail'[c].pc = "close")
        /\ \A d \in Cars \ {c} : tail'[d] = tail[d]
    BY <1>1, <2>1, TailOf
  <2>3. \A q \in Routes \ {r} : Tended(q) => Tended(q)'
    <3> SUFFICES ASSUME NEW q \in Routes \ {r}, Tended(q) PROVE Tended(q)'
      OBVIOUS
    <3>1. CASE q \in adrift \/ (sync.pc = "close" /\ q \in sync.routes)
      BY <2>1, <3>1 DEF Tended
    <3>2. CASE \E d \in Cars : tail[d].pc = "close" /\ q \in tail[d].routes
      <4> PICK d \in Cars : tail[d].pc = "close" /\ q \in tail[d].routes
        BY <3>2
      <4>1. tail'[d].pc = "close" /\ q \in tail'[d].routes
        BY <2>2
      <4> QED BY <4>1 DEF Tended
    <3> QED BY <3>1, <3>2 DEF Tended
  <2> QED BY <1>7, <2>1, <2>3
<1>9. CASE \E r \in Routes : SyncCloses(r)
  <2> PICK r \in Routes : SyncCloses(r)
    BY <1>9
  <2>1. sync' = IdleSync \/ (sync'.pc = sync.pc /\ sync'.routes = sync.routes \ {r})
    BY <1>1 DEF SyncCloses, SyncRow
  <2>2. sync' = IdleSync => sync.routes \subseteq {r}
    BY <1>1, QueueIdles DEF SyncCloses, SyncRow
  <2>3. \A q \in Routes \ {r} : Tended(q) => Tended(q)'
    BY <2>1, <2>2 DEF Tended, SyncCloses, history
  <2> QED BY <1>7, <2>3 DEF SyncCloses, history
<1>10. CASE (\E c \in Cars : TailFails(c)) \/ Restart
  <2>1. UNCHANGED <<status, stop>>
    BY <1>10 DEF TailFails, Restart, rows
  <2>2. \A r \in Routes : build'[r].pc = "checked" => build'[r] = build[r]
    BY <1>1, <1>10, QueueIdles DEF TailFails, Restart, rows
  <2>3. \A d \in Cars : tail'[d] = tail[d] \/ LeftOpen(d) \subseteq adrift'
    BY <1>1, <1>10 DEF TailFails, Restart
  <2>4. adrift \subseteq adrift' /\ (sync' = sync \/ sync.routes \subseteq adrift')
    BY <1>10 DEF TailFails, Restart
  <2>5. \A r \in Routes : Tended(r) => Tended(r)'
    BY <2>3, <2>4 DEF Tended, LeftOpen
  <2>6. \A r \in Routes : Outstanding(r)' = Outstanding(r)
    BY <2>1 DEF Outstanding
  <2> QED BY <1>2, <2>1, <2>2, <2>5, <2>6
<1>11. CASE \E r \in Routes, cars \in SUBSET queue : BuildReads(r, cars)
  <2>1. \A r \in Routes : build'[r].pc = "checked" => build'[r] = build[r]
    BY <1>1, <1>11 DEF BuildReads
  <2>2. UNCHANGED <<status, stop, tail, sync, adrift>>
    BY <1>11 DEF BuildReads, history
  <2>3. \A r \in Routes : Outstanding(r)' = Outstanding(r)
    BY <2>2 DEF Outstanding
  <2> QED BY <1>2, <2>1, <2>2, <2>3 DEF Tended
<1>12. CASE \E r \in Routes : BuildChecks(r)
  <2>1. \A r \in Routes : build'[r].pc = "checked" => build'[r] = build[r] \/ build'[r].cars # {}
    BY <1>1, <1>12, QueueIdles DEF BuildChecks
  <2>2. UNCHANGED <<status, stop, tail, sync, adrift>>
    BY <1>12 DEF BuildChecks
  <2>3. \A r \in Routes : Outstanding(r)' = Outstanding(r)
    BY <2>2 DEF Outstanding
  <2> QED BY <2>1, <2>2, <2>3 DEF CloseInv, LastStopClosesRoute
<1>13. CASE \E r \in Routes : BuildCreates(r)
  <2> PICK r \in Routes : BuildCreates(r)
    BY <1>13
  <2>1. /\ UNCHANGED <<tail, sync, adrift>>
        /\ build'[r].pc = "written"
        /\ \A q \in Routes \ {r} : build'[q] = build[q] /\ status'[q] = status[q]
    BY <1>1 DEF BuildCreates, history
  <2>2. \A q \in Routes, c \in Cars :
          stop'[q][c] = IF q = r THEN (IF c \in build[r].cars THEN "PENDING" ELSE "none")
                        ELSE stop[q][c]
    BY <1>1 DEF BuildCreates, StopTable
  <2>3. Outstanding(r)' # {}
    BY <1>1, <2>2 DEF Outstanding, CloseInv, BuildCreates, BuildRow
  <2>4. \A q \in Routes \ {r} : Outstanding(q)' = Outstanding(q)
    BY <2>2 DEF Outstanding
  <2> QED BY <1>2, <2>1, <2>3, <2>4 DEF Tended
<1>14. CASE \E r \in Routes : CancelRoute(r)
  <2>1. UNCHANGED <<stop, tail, sync, adrift, build>>
        /\ \A q \in Routes : status'[q] = "PENDING" => status[q] = "PENDING"
    BY <1>1, <1>14 DEF CancelRoute
  <2>2. \A r \in Routes : Outstanding(r)' = Outstanding(r)
    BY <2>1 DEF Outstanding
  <2> QED BY <1>2, <2>1, <2>2 DEF Tended
<1>15. CASE SyncCancels
  <2> PICK pairs : pairs = sync.stops
    OBVIOUS
  <2> PICK held : held = {p[1] : p \in pairs}
    OBVIOUS
  <2>1. \A r \in Routes, d \in Cars :
          stop'[r][d] = IF <<r, d>> \in pairs THEN "CANCELLED" ELSE stop[r][d]
    BY <1>15 DEF SyncCancels, StopsSetTo
  <2>2. sync' = [IdleSync EXCEPT !.pc = "close", !.routes = held]
    BY <1>15 DEF SyncCancels
  <2>3. UNCHANGED <<status, tail, adrift, build>> /\ sync.pc = "cancel"
    BY <1>15 DEF SyncCancels, history
  <2>4. \A r \in Routes : r \in held => Tended(r)'
    BY <2>2 DEF Tended, IdleSync
  <2>5. \A r \in Routes : r \notin held => Outstanding(r)' = Outstanding(r)
    <3> SUFFICES ASSUME NEW r \in Routes, r \notin held PROVE Outstanding(r)' = Outstanding(r)
      OBVIOUS
    <3>1. \A d \in Cars : <<r, d>> \notin pairs
      OBVIOUS
    <3> QED BY <2>1, <3>1 DEF Outstanding
  <2>6. \A r \in Routes : Tended(r) => Tended(r)'
    BY <2>3 DEF Tended
  <2> QED BY <2>3, <2>4, <2>5, <2>6 DEF CloseInv, LastStopClosesRoute, Tended
<1>16. CASE SyncFails
  BY <1>3, <1>16, QueueIdles DEF SyncFails, Tended, rows
<1>17. CASE (\E found \in SUBSET sga : SyncStarts(found)) \/ SyncFilters \/ SyncCounts
            \/ SyncWrites \/ SyncReadsStops \/ SyncReadsQueue \/ SyncReadsDevices
  <2>1. UNCHANGED <<status, stop, build, tail, adrift>> /\ sync.pc # "close"
    BY <1>17 DEF SyncStarts, SyncFilters, SyncCounts, SyncWrites, SyncReadsStops,
                 SyncReadsQueue, SyncReadsDevices, SyncSpares, rows, history
  <2> QED BY <1>3, <2>1 DEF Tended
<1>18. CASE UNCHANGED <<status, stop, build, tail, adrift, sync>>
  BY <1>3, <1>18 DEF Tended
<1> QED BY <1>4, <1>5, <1>6, <1>8, <1>9, <1>10, <1>11, <1>12, <1>13, <1>14, <1>15, <1>16,
           <1>17, <1>18
        DEF QueueStep, SgaChanges, rows, history, vars

(* A pending route with nothing left to do is about to be closed by whoever  *)
(* finished its last stop, unless he failed (routes.service.ts:323-333,      *)
(* installation-pendings.service.ts:761-771).                                *)
THEOREM CloseTheorem == Spec => []LastStopClosesRoute
<1>1. Init => CloseInv
  BY QueueIdles DEF Init, CloseInv, LastStopClosesRoute
<1>2. TypeOK /\ CloseInv /\ [Next]_vars => CloseInv'
  BY QueueNextIsAStep, CloseInvStep
<1>3. CloseInv => LastStopClosesRoute
  BY DEF CloseInv
<1> QED BY <1>1, <1>2, <1>3, QueueTypeTheorem, PTL DEF Spec

-------------------------------------------------------------------------------
(* What is finished.                                                         *)

LEMMA OvertakenStep ==
  ASSUME TypeOK, Unwritten, \A r \in Held : status[r] = "CANCELLED" => r \in overtaken, QueueStep
  PROVE  /\ \A r \in Held' : status'[r] = "CANCELLED" => r \in overtaken'
         /\ \A r \in Routes : status[r] = "CANCELLED" => status'[r] = "CANCELLED" \/ r \in overtaken
<1>1. status \in [Routes -> States \cup {"none"}]
  BY QueueTypedApart DEF RoutesTyped
<1>2. ASSUME \A r \in Routes : status'[r] = "CANCELLED" => status[r] = "CANCELLED",
             \A r \in Routes : status[r] = "CANCELLED" => status'[r] = "CANCELLED" \/ r \in overtaken,
             overtaken \subseteq overtaken'
      PROVE  /\ \A r \in Held' : status'[r] = "CANCELLED" => r \in overtaken'
             /\ \A r \in Routes : status[r] = "CANCELLED" =>
                                  status'[r] = "CANCELLED" \/ r \in overtaken
  <2>1. \A r \in Held' : status'[r] = "CANCELLED" => r \in Held
    BY <1>2, HeldStep, Holding
  <2> QED BY <1>2, <2>1, HeldStep, Holding
<1>3. CASE \E r \in Routes : CancelRoute(r)
  <2> PICK r \in Routes : CancelRoute(r)
    BY <1>3
  <2>1. UNCHANGED <<tail, sync>> /\ \A q \in Routes \ {r} : status'[q] = status[q]
    BY <1>1 DEF CancelRoute
  <2>2. status'[r] = "CANCELLED" /\ overtaken \subseteq overtaken' /\ (r \in Held => r \in overtaken')
    BY <1>1 DEF CancelRoute
  <2>3. Held' = Held /\ Held \subseteq Routes
    BY <2>1, Holding DEF Held
  <2> QED BY <2>1, <2>2, <2>3
<1>4. CASE \E r \in Routes : BuildCreates(r)
  <2> PICK r \in Routes : BuildCreates(r)
    BY <1>4
  <2>1. status[r] = "none" /\ status' = [status EXCEPT ![r] = "PENDING"]
    BY DEF Unwritten, BuildCreates
  <2> QED BY <1>1, <1>2, <2>1 DEF BuildCreates, history
<1>5. CASE (\E c \in Cars, r \in Routes : CloseOwnRoute(c, r)) \/ \E r \in Routes : SyncCloses(r)
  <2> PICK r \in Routes : CloseRoute(r) /\ r \in Held /\ UNCHANGED overtaken
    BY <1>5, Holding DEF CloseOwnRoute, SyncCloses, history
  <2>1. status' = status \/ status' = [status EXCEPT ![r] = "DONE"]
    BY DEF CloseRoute
  <2> QED BY <1>1, <1>2, <2>1
<1>6. CASE UNCHANGED <<status, overtaken>>
  BY <1>2, <1>6
<1> QED BY <1>3, <1>4, <1>5, <1>6
        DEF QueueStep, SgaChanges, Install, Uninstall, LeaveQueue, ReadOwnStops, MarkOwnStops,
            TailFails, BuildReads, BuildChecks, SyncStarts, SyncFilters, SyncCounts, SyncWrites,
            SyncReadsStops, SyncReadsQueue, SyncReadsDevices, SyncSpares, SyncCancels,
            SyncFails, Restart, rows, history, vars

LEMMA SyncFactsStep ==
  ASSUME TypeOK, Unwritten, SyncFacts, QueueStep
  PROVE  SyncFacts'
<1>1. sync \in SyncRow /\ RoutesTyped /\ TailTyped /\ installed \subseteq Cars
  BY QueueTypedApart DEF SyncTyped, SetsTyped
<1>2. CASE sync'.stops = {} /\ sync'.pc # "cancel"
  BY <1>2 DEF SyncFacts
<1>3. CASE sync' = IdleSync
  BY <1>2, <1>3, QueueIdles
<1>4. CASE \E c \in Cars : Install(c) \/ Uninstall(c)
  <2> PICK c \in Cars : Install(c) \/ Uninstall(c)
    BY <1>4
  <2>1. /\ sync'.pc = sync.pc /\ sync'.stops = sync.stops /\ sync'.unread = sync.unread
        /\ sync.crossed \subseteq sync'.crossed
        /\ sync.stops # {} => c \in sync'.crossed
    BY NotedSync DEF Install, Uninstall, SyncFacts
  <2>2. stop' = stop /\ \A d \in Cars \ {c} : d \in installed' <=> d \in installed
    BY DEF Install, Uninstall, rows
  <2>3. installed' \subseteq Cars
    BY <1>1 DEF Install, Uninstall
  <2> QED BY <1>1, <2>1, <2>2, <2>3 DEF SyncFacts
<1>5. CASE \E c \in Cars : MarkOwnStops(c)
  <2> PICK c \in Cars : MarkOwnStops(c)
    BY <1>5
  <2>1. \A r \in Routes, d \in Cars :
          stop'[r][d] = IF r \in tail[c].routes /\ d = c THEN "DONE" ELSE stop[r][d]
    BY DEF MarkOwnStops, StopsSetTo
  <2>2. /\ sync'.pc = sync.pc /\ sync'.stops = sync.stops /\ sync'.unread = sync.unread
        /\ sync.crossed \subseteq sync'.crossed
        /\ sync.stops # {} /\ c \notin installed => c \in sync'.crossed
    BY NotedSync DEF MarkOwnStops, SyncFacts
  <2>3. installed' = installed /\ \A p \in sync.stops : p[1] \in Routes /\ p[2] \in Cars
    BY <1>1 DEF MarkOwnStops, SyncRow, Pairs
  <2>4. ASSUME NEW p \in sync'.stops, stop'[p[1]][p[2]] = "DONE"
        PROVE  p[2] \in sync'.crossed \/ ("devices" \in sync'.unread /\ p[2] \in installed')
    <3>1. CASE p[2] = c
      BY <2>2, <2>3, <3>1 DEF SyncFacts
    <3>2. CASE p[2] # c
      BY <2>1, <2>2, <2>3, <2>4, <3>2 DEF SyncFacts
    <3> QED BY <3>1, <3>2
  <2> QED BY <2>2, <2>3, <2>4 DEF SyncFacts
<1>6. CASE \E r \in Routes : BuildCreates(r)
  <2> PICK r \in Routes : BuildCreates(r)
    BY <1>6
  <2>1. /\ UNCHANGED <<sync, installed>>
        /\ stop' = [stop EXCEPT ![r] = [c \in Cars |->
                      IF c \in build[r].cars THEN "PENDING" ELSE "none"]]
    BY DEF BuildCreates
  <2>2. \A q \in Routes, c \in Cars : stop'[q][c] = "DONE" => stop[q][c] = "DONE"
    BY <1>1, <2>1 DEF RoutesTyped, StopTable
  <2>3. \A p \in sync.stops : p[1] \in Routes /\ p[2] \in Cars
    BY <1>1 DEF SyncRow, Pairs
  <2> QED BY <2>1, <2>2, <2>3 DEF SyncFacts
<1>7. CASE (\E found \in SUBSET sga : SyncStarts(found)) \/ SyncWrites \/ SyncCancels
  BY <1>2, <1>7 DEF SyncStarts, SyncWrites, SyncCancels, IdleSync
<1>8. CASE SyncFilters \/ SyncCounts
  <2>1. sync.stops = {}
    BY <1>8 DEF SyncFacts, SyncFilters, SyncCounts
  <2> QED BY <1>1, <1>2, <1>3, <1>8, <2>1 DEF SyncFilters, SyncCounts, SyncRow
<1>9. CASE SyncReadsStops
  <2>1. CASE OpenStops = {}
    BY <1>3, <1>9, <2>1 DEF SyncReadsStops
  <2>2. CASE OpenStops # {}
    <3>1. /\ sync'.pc = "reads" /\ sync'.stops = OpenStops
          /\ sync'.unread = {"queue", "devices"} /\ stop' = stop
      BY <1>1, <1>9, <2>2 DEF SyncReadsStops, SyncRow, rows
    <3>2. \A p \in OpenStops : stop[p[1]][p[2]] = "PENDING"
      BY DEF OpenStops
    <3> QED BY <3>1, <3>2 DEF SyncFacts
  <2> QED BY <2>1, <2>2
<1>10. ASSUME NEW table \in {"queue", "devices"}, NEW cars, SyncSpares(table, cars),
              table = "devices" => cars = installed
       PROVE  SyncFacts'
  <2> PICK left : left = sync.unread \ {table}
    OBVIOUS
  <2> PICK orphans : orphans = {p \in sync.stops : p[2] \notin cars}
    OBVIOUS
  <2>1. \/ sync' = [sync EXCEPT !.unread = left, !.stops = orphans]
        \/ sync' = IdleSync
        \/ left = {} /\ sync' = [sync EXCEPT !.unread = left, !.stops = orphans, !.pc = "cancel"]
    BY <1>10 DEF SyncSpares
  <2>2. sync.pc = "reads" /\ UNCHANGED <<stop, installed>>
    BY <1>10 DEF SyncSpares, rows
  <2>3. \/ sync' = IdleSync
        \/ /\ sync'.unread = left /\ sync'.stops = orphans /\ sync'.crossed = sync.crossed
           /\ sync'.pc = "reads" \/ (sync'.pc = "cancel" /\ left = {})
    BY <1>1, <2>1, <2>2 DEF SyncRow
  <2>4. ASSUME NEW p \in orphans
        PROVE  /\ stop[p[1]][p[2]] = "DONE" =>
                    p[2] \in sync.crossed \/ ("devices" \in left /\ p[2] \in installed)
               /\ "devices" \notin left /\ p[2] \in installed => p[2] \in sync.crossed
    BY <1>10, <2>4 DEF SyncFacts
  <2> QED BY <1>3, <2>2, <2>3, <2>4 DEF SyncFacts
<1>11. CASE SyncReadsQueue \/ SyncReadsDevices
  BY <1>10, <1>11 DEF SyncReadsQueue, SyncReadsDevices
<1>12. CASE \E r \in Routes : SyncCloses(r)
  <2>1. sync.stops = {}
    BY <1>12 DEF SyncFacts, SyncCloses
  <2> QED BY <1>1, <1>2, <1>3, <1>12, <2>1 DEF SyncCloses, SyncRow
<1>13. CASE SyncFails \/ Restart
  BY <1>3, <1>13 DEF SyncFails, Restart
<1>14. CASE UNCHANGED <<sync, stop, installed>>
  BY <1>14 DEF SyncFacts
<1> QED BY <1>4, <1>5, <1>6, <1>7, <1>8, <1>9, <1>11, <1>12, <1>13, <1>14
        DEF QueueStep, SgaChanges, LeaveQueue, ReadOwnStops, CloseOwnRoute, TailFails,
            BuildReads, BuildChecks, CancelRoute, rows, vars

LEMMA DoneStep ==
  ASSUME TypeOK, Unwritten, SyncFacts, QueueStep,
         NEW r \in Routes, NEW c \in Cars, stop[r][c] = "DONE"
  PROVE  stop'[r][c] = "DONE" \/ c \in sync.crossed
<1>1. CASE UNCHANGED stop
  BY <1>1
<1>2. CASE \E d \in Cars : MarkOwnStops(d)
  BY <1>2 DEF MarkOwnStops, StopsSetTo
<1>3. CASE \E q \in Routes : BuildCreates(q)
  <2> PICK q \in Routes : BuildCreates(q)
    BY <1>3
  <2>1. q # r /\ stop' = [stop EXCEPT ![q] = [d \in Cars |->
                            IF d \in build[q].cars THEN "PENDING" ELSE "none"]]
    BY DEF Unwritten, BuildCreates
  <2>2. stop \in StopTable
    BY QueueTypedApart DEF RoutesTyped
  <2> QED BY <2>1, <2>2 DEF StopTable
<1>4. CASE SyncCancels
  <2> PICK p : p = <<r, c>>
    OBVIOUS
  <2>1. stop'[r][c] = IF p \in sync.stops THEN "CANCELLED" ELSE stop[r][c]
    BY <1>4 DEF SyncCancels, StopsSetTo
  <2>2. p \in sync.stops => c \in sync.crossed
    BY <1>4 DEF SyncFacts, SyncCancels
  <2> QED BY <2>1, <2>2
<1> QED BY <1>1, <1>2, <1>3, <1>4
        DEF QueueStep, SgaChanges, Install, Uninstall, LeaveQueue, ReadOwnStops, CloseOwnRoute,
            TailFails, BuildReads, BuildChecks, CancelRoute, SyncStarts, SyncFilters,
            SyncCounts, SyncWrites, SyncReadsStops, SyncReadsQueue, SyncReadsDevices,
            SyncSpares, SyncCloses, SyncFails, Restart, rows, vars

(* A stop that is done is cancelled only by a sync that was looking when the *)
(* trackers of the car changed; a cancelled route is closed only by somebody *)
(* who already held its stops (installation-pendings.service.ts:701-784,     *)
(* routes.service.ts:328).                                                   *)
THEOREM FinishedTheorem == Spec => FinishedStays
<1>1. Init => HoldInv
  BY QueueIdles, Holding DEF Init, HoldInv, SyncFacts
<1>2. TypeOK /\ Unwritten /\ HoldInv /\ [Next]_vars => HoldInv'
  BY QueueNextIsAStep, OvertakenStep, SyncFactsStep DEF HoldInv
<1>3. TypeOK /\ Unwritten /\ HoldInv /\ [Next]_vars =>
        [\A r \in Routes :
           /\ status[r] = "CANCELLED" => status'[r] = "CANCELLED" \/ r \in overtaken
           /\ \A c \in Cars : stop[r][c] = "DONE" =>
                                stop'[r][c] = "DONE" \/ c \in sync.crossed]_vars
  BY QueueNextIsAStep, OvertakenStep, DoneStep DEF HoldInv
<1> QED BY <1>1, <1>2, <1>3, QueueTypeTheorem, UnwrittenAlways, PTL DEF Spec, FinishedStays

-------------------------------------------------------------------------------
(* A list of the SGA that is too short.                                      *)

LEMMA SpareStep ==
  ASSUME TypeOK, SpareInv, QueueStep
  PROVE  SpareInv'
<1>1. /\ sync \in SyncRow /\ queue \subseteq Cars
      /\ IsFiniteSet(queue) /\ IsFiniteSet(sync.rows)
      /\ Cardinality(queue) \in Nat /\ Cardinality(sync.rows) \in Nat
  <2>1. sync \in SyncRow /\ queue \subseteq Cars
    BY QueueTypedApart DEF SyncTyped, SetsTyped
  <2>2. sync.rows \subseteq Cars
    BY <2>1 DEF SyncRow
  <2> QED BY <2>1, <2>2, SetsAssumption, FS_Subset, FS_CardinalityType
<1>2. CASE sync'.pc # "write"
  BY <1>2 DEF SpareInv
<1>3. ASSUME sync'.pc = sync.pc, sync'.rows = sync.rows, queue' = queue
      PROVE  SpareInv'
  BY <1>3 DEF SpareInv
<1>4. CASE \E c \in Cars : sync' = Noted(c) /\ queue' = queue
  BY <1>3, <1>4, NotedSync
<1>5. CASE \E c \in Cars : LeaveQueue(c)
  <2>1. sync' = sync /\ queue' \subseteq queue
    BY <1>5 DEF LeaveQueue
  <2>2. Cardinality(queue') <= Cardinality(queue) /\ Cardinality(queue') \in Nat
    BY <1>1, <2>1, FS_Subset, FS_CardinalityType
  <2> QED BY <1>1, <2>1, <2>2 DEF SpareInv, Believed
<1>6. CASE SyncCounts
  <2>1. CASE Believed(Cardinality(sync.rows), Cardinality(queue))
    <3>1. sync'.rows = sync.rows /\ queue' = queue
      BY <1>1, <1>6, <2>1 DEF SyncCounts, SyncRow, rows
    <3> QED BY <2>1, <3>1 DEF SpareInv
  <2>2. CASE ~Believed(Cardinality(sync.rows), Cardinality(queue))
    BY <1>2, <1>6, <2>2, QueueIdles DEF SyncCounts
  <2> QED BY <2>1, <2>2
<1>7. CASE sync' = IdleSync
  BY <1>2, <1>7, QueueIdles
<1>8. CASE (\E found \in SUBSET sga : SyncStarts(found)) \/ SyncWrites \/ SyncCancels
  BY <1>2, <1>8 DEF SyncStarts, SyncWrites, SyncCancels, IdleSync
<1>9. CASE SyncFilters \/ SyncReadsStops \/ \E r \in Routes : SyncCloses(r)
  BY <1>1, <1>2, <1>7, <1>9 DEF SyncFilters, SyncReadsStops, SyncCloses, SyncRow
<1>10. CASE SyncReadsQueue \/ SyncReadsDevices
  <2> PICK table, cars : SyncSpares(table, cars)
    BY <1>10 DEF SyncReadsQueue, SyncReadsDevices
  <2> PICK left, orphans :
        \/ sync' = [sync EXCEPT !.unread = left, !.stops = orphans]
        \/ sync' = IdleSync
        \/ sync' = [sync EXCEPT !.unread = left, !.stops = orphans, !.pc = "cancel"]
    BY DEF SyncSpares
  <2> QED BY <1>1, <1>2, <1>7 DEF SyncSpares, SyncRow
<1>11. CASE SyncFails \/ Restart
  BY <1>7, <1>11 DEF SyncFails, Restart
<1>12. CASE UNCHANGED <<sync, queue>>
  BY <1>3, <1>12
<1> QED BY <1>4, <1>5, <1>6, <1>8, <1>9, <1>10, <1>11, <1>12
        DEF QueueStep, SgaChanges, Install, Uninstall, ReadOwnStops, MarkOwnStops,
            CloseOwnRoute, TailFails, BuildReads, BuildChecks, BuildCreates, CancelRoute,
            rows, vars

(* No sync takes away more than 70% of the queue                             *)
(* (installation-pendings.service.ts:452-462).                               *)
THEOREM SpareTheorem == Spec => SyncSparesTheQueue
<1>1. Init => SpareInv
  BY QueueIdles DEF Init, SpareInv
<1>2. TypeOK /\ SpareInv /\ [Next]_vars => SpareInv'
  BY QueueNextIsAStep, SpareStep
<1>3. TypeOK /\ SpareInv =>
        [sync.pc = "write" /\ queue # {} /\ queue' = sync.rows =>
           10 * Cardinality(queue') >= 3 * Cardinality(queue)]_vars
  <2> SUFFICES ASSUME TypeOK, SpareInv, sync.pc = "write", queue # {}, queue' = sync.rows
               PROVE  10 * Cardinality(queue') >= 3 * Cardinality(queue)
    OBVIOUS
  <2>1. queue \subseteq Cars
    BY QueueTypedApart DEF SetsTyped
  <2>2. IsFiniteSet(queue) /\ Cardinality(queue) \in Nat
    BY <2>1, SetsAssumption, FS_Subset, FS_CardinalityType
  <2>3. Cardinality(queue) # 0
    BY <2>2, FS_EmptySet
  <2> QED BY <2>2, <2>3 DEF SpareInv, Believed
<1> QED BY <1>1, <1>2, <1>3, QueueTypeTheorem, PTL DEF Spec, SyncSparesTheQueue
===============================================================================
