------------------------------ MODULE FieldQueue ------------------------------
(***************************************************************************)
(* The queue of cars waiting for a tracker and the routes that send the    *)
(* technicians to them: the sync that rebuilds the queue from the SGA and  *)
(* then cancels the stops nobody waits for, the operator who turns rows of *)
(* the queue into a route, and what an installation does, after its        *)
(* commit, to the queue and to the routes.  A car stands for its plate;    *)
(* what is read in one statement is one step.                              *)
(***************************************************************************)
EXTENDS Naturals, FiniteSets

CONSTANTS
  Cars,          (* the cars of one tenant, by their plates                   *)
  Routes,        (* the rows of installation_routes there is room for         *)
  MaxSgaChanges, (* bound: changes of what the SGA lists                      *)
  MaxInstalls,   (* bound: installations and uninstallations                  *)
  MaxFaults      (* bound: failed statements, bad scans, backend restarts     *)

ASSUME SetsAssumption == IsFiniteSet(Cars) /\ IsFiniteSet(Routes)
ASSUME BoundsAssumption ==
  MaxSgaChanges \in Nat /\ MaxInstalls \in Nat /\ MaxFaults \in Nat

VARIABLES
  sga,        (* the cars the SGA lists as waiting; outside the program       *)
  installed,  (* the cars a tracker of stock is installed in                  *)
  queue,      (* installation_pendings                                        *)
  build,      (* createRoute, by the route it is going to create              *)
  status,     (* the status column of the route                               *)
  stop,       (* the stops of the route, by car                               *)
  tail,       (* what an installation still has to do after its commit        *)
  sync,       (* the sync of the queue, of which one runs at a time           *)
  slipped, missed, adrift, overtaken,  (* history, see below                  *)
  sgaChanges, installs, faults         (* for the bounds only                 *)

rows    == <<queue, build, status, stop>>
history == <<slipped, missed, adrift, overtaken>>
counts  == <<sgaChanges, installs, faults>>
vars == <<sga, installed, queue, build, status, stop, tail, sync, slipped, missed,
          adrift, overtaken, sgaChanges, installs, faults>>

(* History.  slipped: the cars that were installed while the sync that wrote *)
(* the queue was between its filter and its write (sync.during), or whose    *)
(* row could not be removed.  missed: the stops an installation has passed   *)
(* by, because the route was not written yet or its statements failed.       *)
(* adrift: the routes somebody meant to close when he failed.  overtaken:    *)
(* the routes cancelled while somebody held their stops.  sync.crossed: the  *)
(* cars whose trackers changed since the sync in flight read them.           *)

States == {"PENDING", "DONE", "CANCELLED"}
Pairs  == Routes \X Cars

TypeOK ==
  /\ sga \subseteq Cars /\ installed \subseteq Cars /\ queue \subseteq Cars
  /\ build \in [Routes -> [pc : {"free", "read", "checked", "written"}, cars : SUBSET Cars]]
  /\ status \in [Routes -> States \cup {"none"}]
  /\ stop \in [Routes -> [Cars -> States \cup {"none"}]]
  /\ tail \in [Cars -> [pc : {"idle", "queue", "stops", "mark", "close"},
                        routes : SUBSET Routes]]
  /\ sync \in [pc : {"idle", "filter", "count", "write", "stops", "reads",
                     "cancel", "close"},
               rows : SUBSET Cars, during : SUBSET Cars, stops : SUBSET Pairs,
               crossed : SUBSET Cars, unread : SUBSET {"queue", "devices"},
               routes : SUBSET Routes]
  /\ \A c \in Cars : tail[c].pc \in {"mark", "close"} <=> tail[c].routes # {}
  /\ sync.pc = "close" <=> sync.routes # {}
  /\ slipped \subseteq Cars
  /\ missed \subseteq Pairs
  /\ adrift \subseteq Routes /\ overtaken \subseteq Routes
  /\ sgaChanges \in 0..MaxSgaChanges /\ installs \in 0..MaxInstalls
  /\ faults \in 0..MaxFaults

IdleSync == [pc |-> "idle", rows |-> {}, during |-> {}, stops |-> {},
             crossed |-> {}, unread |-> {}, routes |-> {}]
IdleTail == [pc |-> "idle", routes |-> {}]
Tail(pc, routes) == IF routes = {} THEN IdleTail ELSE [pc |-> pc, routes |-> routes]
NoBuild  == [pc |-> "free", cars |-> {}]

(* A sync has just filled an empty queue from the SGA; no route exists.      *)
Init ==
  /\ sga = Cars /\ installed = {} /\ queue = Cars
  /\ build = [r \in Routes |-> NoBuild]
  /\ status = [r \in Routes |-> "none"]
  /\ stop = [r \in Routes |-> [c \in Cars |-> "none"]]
  /\ tail = [c \in Cars |-> IdleTail]
  /\ sync = IdleSync
  /\ slipped = {} /\ missed = {} /\ adrift = {} /\ overtaken = {}
  /\ sgaChanges = 0 /\ installs = 0 /\ faults = 0

Fault ==
  /\ faults < MaxFaults
  /\ faults' = faults + 1
  /\ UNCHANGED <<sgaChanges, installs>>

(* The stops a technician still has to make.                                 *)
Outstanding(r) == {c \in Cars : stop[r][c] = "PENDING"}

(* What a query for the pending stops of pending routes returns.             *)
OpenStops_AnyRoute == {p \in Pairs : stop[p[1]][p[2]] = "PENDING"}
OpenStops == {p \in Pairs : status[p[1]] = "PENDING" /\ stop[p[1]][p[2]] = "PENDING"}

(* The update by id of a set of stops, whatever their status is by now.      *)
StopsSetTo(pairs, state) ==
  stop' = [r \in Routes |-> [c \in Cars |->
             IF <<r, c>> \in pairs THEN state ELSE stop[r][c]]]

(* The count of the stops left and the update of the route, whatever the     *)
(* status of the route is by now.  No stop is ever opened again, so nothing  *)
(* can come between the two but a cancellation.                              *)
Closed_AllDone(r) == \A c \in Cars : stop[r][c] \in {"none", "DONE"}
Closed(r) == Outstanding(r) = {}
CloseRoute(r) ==
  status' = IF Closed(r) THEN [status EXCEPT ![r] = "DONE"] ELSE status

(* The routes of which somebody holds stops or which he is about to close.   *)
Held == (UNION {tail[c].routes : c \in Cars}) \cup sync.routes \cup {p[1] : p \in sync.stops}

-------------------------------------------------------------------------------
(* The world: the SGA, and the trackers taken out of cars.                   *)

SgaChanges(c) ==
  /\ sgaChanges < MaxSgaChanges
  /\ sgaChanges' = sgaChanges + 1
  /\ sga' = IF c \in sga THEN sga \ {c} ELSE sga \cup {c}
  /\ UNCHANGED <<installed, rows, tail, sync, history, installs, faults>>

(* What the sync in flight may not see of a car's tracker is noted.          *)
Noted(c) ==
  [sync EXCEPT !.crossed = IF sync.pc \in {"reads", "cancel"} THEN @ \cup {c} ELSE @,
               !.during = IF sync.pc \in {"count", "write"} THEN @ \cup {c} ELSE @]

Uninstall(c) ==
  /\ c \in installed
  /\ installs < MaxInstalls
  /\ installs' = installs + 1
  /\ installed' = installed \ {c}
  /\ sync' = Noted(c)
  /\ UNCHANGED <<sga, rows, tail, history, sgaChanges, faults>>

-------------------------------------------------------------------------------
(* An installation: its commit, then what StockService.associate still does. *)

Install(c) ==
  /\ c \notin installed /\ tail[c].pc = "idle"
  /\ installs < MaxInstalls
  /\ installs' = installs + 1
  /\ installed' = installed \cup {c}
  /\ tail' = [tail EXCEPT ![c].pc = "queue"]
  /\ sync' = Noted(c)
  /\ UNCHANGED <<sga, rows, history, sgaChanges, faults>>

(* removeByPlate; a failure is logged and the installation goes on.          *)
LeaveQueue(c) ==
  /\ tail[c].pc = "queue"
  /\ tail' = [tail EXCEPT ![c].pc = "stops"]
  /\ \/ /\ queue' = queue \ {c}
        /\ UNCHANGED <<slipped, counts>>
     \/ /\ Fault
        /\ slipped' = slipped \cup {c}
        /\ UNCHANGED queue
  /\ UNCHANGED <<sga, installed, build, status, stop, sync, missed, adrift, overtaken>>

(* markStopDoneByPlate: the open stops of the plate.                         *)
ReadOwnStops(c) ==
  /\ tail[c].pc = "stops"
  /\ LET mine == {r \in Routes : <<r, c>> \in OpenStops}
     IN tail' = [tail EXCEPT ![c] = Tail("mark", mine)]
  /\ missed' = missed \cup ({r \in Routes : build[r].pc = "checked"} \X {c})
  /\ UNCHANGED <<sga, installed, rows, sync, slipped, adrift, overtaken, counts>>

MarkOwnStops(c) ==
  /\ tail[c].pc = "mark"
  /\ StopsSetTo(tail[c].routes \X {c}, "DONE")
  /\ tail' = [tail EXCEPT ![c].pc = "close"]
  /\ sync' = IF c \in installed THEN sync ELSE Noted(c)
  /\ UNCHANGED <<sga, installed, queue, build, status, history, counts>>

CloseOwnRoute(c, r) ==
  /\ tail[c].pc = "close" /\ r \in tail[c].routes
  /\ CloseRoute(r)
  /\ tail' = [tail EXCEPT ![c] = Tail("close", @.routes \ {r})]
  /\ UNCHANGED <<sga, installed, queue, build, stop, sync, history, counts>>

(* What is lost with a tail that dies.                                       *)
PassedBy(c) == IF tail[c].pc \in {"queue", "stops", "mark"} THEN Routes \X {c} ELSE {}
LeftOpen(c) == IF tail[c].pc = "close" THEN tail[c].routes ELSE {}

(* Any statement of markStopDoneByPlate may fail: associate only logs it.    *)
TailFails(c) ==
  /\ tail[c].pc \in {"stops", "mark", "close"}
  /\ Fault
  /\ missed' = missed \cup PassedBy(c)
  /\ adrift' = adrift \cup LeftOpen(c)
  /\ tail' = [tail EXCEPT ![c] = IdleTail]
  /\ UNCHANGED <<sga, installed, rows, sync, slipped, overtaken>>

-------------------------------------------------------------------------------
(* createRoute.  An error of it leaves nothing behind.                       *)

(* Those of the rows chosen on the screen that are still there.              *)
BuildReads(r, cars) ==
  /\ build[r].pc = "free"
  /\ cars \subseteq queue /\ cars # {}
  /\ build' = [build EXCEPT ![r] = [pc |-> "read", cars |-> cars]]
  /\ UNCHANGED <<sga, installed, queue, status, stop, tail, sync, history, counts>>

(* semJaInstaladas: the last barrier.                                        *)
NotInstalled_Trusting(cars) == cars
NotInstalled(cars) == cars \ installed
BuildChecks(r) ==
  /\ build[r].pc = "read"
  /\ LET cars == NotInstalled(build[r].cars)
     IN build' = [build EXCEPT ![r] = IF cars = {} THEN NoBuild
                                      ELSE [pc |-> "checked", cars |-> cars]]
  /\ missed' = missed \ ({r} \X Cars)
  /\ UNCHANGED <<sga, installed, queue, status, stop, tail, sync, slipped, adrift,
                 overtaken, counts>>

BuildCreates(r) ==
  /\ build[r].pc = "checked"
  /\ build' = [build EXCEPT ![r] = [pc |-> "written", cars |-> {}]]
  /\ status' = [status EXCEPT ![r] = "PENDING"]
  /\ stop' = [stop EXCEPT ![r] = [c \in Cars |->
                IF c \in build[r].cars THEN "PENDING" ELSE "none"]]
  /\ UNCHANGED <<sga, installed, queue, tail, sync, history, counts>>

(* The panel may cancel a route of any status.                               *)
CancelRoute(r) ==
  /\ build[r].pc = "written"
  /\ status[r] # "CANCELLED"
  /\ status' = [status EXCEPT ![r] = "CANCELLED"]
  /\ overtaken' = IF r \in Held THEN overtaken \cup {r} ELSE overtaken
  /\ UNCHANGED <<sga, installed, queue, build, stop, tail, sync, slipped, missed,
                 adrift, counts>>

-------------------------------------------------------------------------------
(* The sync of the queue.                                                    *)

(* A call that finds one running is ignored.  The two scans and montarFila;  *)
(* a silent failure of the SGA loses rows.                                   *)
SyncStarts(found) ==
  /\ sync.pc = "idle"
  /\ \/ found = sga /\ UNCHANGED counts
     \/ found \subseteq sga /\ found # sga /\ Fault
  /\ sync' = [IdleSync EXCEPT !.pc = "filter", !.rows = found]
  /\ UNCHANGED <<sga, installed, rows, tail, history>>

SyncFilters ==
  /\ sync.pc = "filter"
  /\ sync' = [sync EXCEPT !.pc = "count", !.rows = NotInstalled(@)]
  /\ UNCHANGED <<sga, installed, rows, tail, history, counts>>

(* A fall of more than 70% is not believed, and the queue is kept.           *)
Believed(new, old) == old > 0 => 10 * new >= 3 * old
SyncCounts ==
  /\ sync.pc = "count"
  /\ sync' = IF Believed(Cardinality(sync.rows), Cardinality(queue))
             THEN [sync EXCEPT !.pc = "write"] ELSE IdleSync
  /\ UNCHANGED <<sga, installed, rows, tail, history, counts>>

(* The transaction that replaces the whole queue.                            *)
Rebuilt_Merged(found) == queue \cup found
Rebuilt(found) == found
SyncWrites ==
  /\ sync.pc = "write"
  /\ queue' = Rebuilt(sync.rows)
  /\ slipped' = sync.during
  /\ sync' = [IdleSync EXCEPT !.pc = "stops"]
  /\ UNCHANGED <<sga, installed, build, status, stop, tail, missed, adrift,
                 overtaken, counts>>

(* cancelarParadasSemPendencia: the open stops, then in any order the queue  *)
(* and the trackers, each of which saves stops from being cancelled.         *)
SyncReadsStops ==
  /\ sync.pc = "stops"
  /\ sync' = IF OpenStops = {} THEN IdleSync
             ELSE [sync EXCEPT !.pc = "reads", !.stops = OpenStops,
                               !.unread = {"queue", "devices"}]
  /\ UNCHANGED <<sga, installed, rows, tail, history, counts>>

SyncSpares(table, cars) ==
  /\ sync.pc = "reads" /\ table \in sync.unread
  /\ sync' = LET left == sync.unread \ {table}
                 orphans == {p \in sync.stops : p[2] \notin cars}
             IN IF left # {}
                THEN [sync EXCEPT !.unread = left, !.stops = orphans]
                ELSE IF orphans = {} THEN IdleSync
                ELSE [sync EXCEPT !.unread = left, !.stops = orphans, !.pc = "cancel"]
  /\ UNCHANGED <<sga, installed, rows, tail, history, counts>>
SyncReadsQueue   == SyncSpares("queue", queue)
SyncReadsDevices == SyncSpares("devices", installed)

SyncCancels ==
  /\ sync.pc = "cancel"
  /\ StopsSetTo(sync.stops, "CANCELLED")
  /\ sync' = [IdleSync EXCEPT !.pc = "close", !.routes = {p[1] : p \in sync.stops}]
  /\ UNCHANGED <<sga, installed, queue, build, status, tail, history, counts>>

SyncCloses(r) ==
  /\ sync.pc = "close" /\ r \in sync.routes
  /\ CloseRoute(r)
  /\ sync' = IF sync.routes = {r} THEN IdleSync
             ELSE [sync EXCEPT !.routes = @ \ {r}]
  /\ UNCHANGED <<sga, installed, queue, build, stop, tail, history, counts>>

(* Any statement of the sync may fail; what it has written stays.            *)
SyncFails ==
  /\ sync.pc # "idle"
  /\ Fault
  /\ sync' = IdleSync
  /\ adrift' = adrift \cup sync.routes
  /\ UNCHANGED <<sga, installed, rows, tail, slipped, missed, overtaken>>

(* The backend restarts: every request in flight and the sync end there.     *)
Restart ==
  /\ Fault
  /\ missed' = missed \cup UNION {PassedBy(c) : c \in Cars}
  /\ adrift' = adrift \cup sync.routes \cup UNION {LeftOpen(c) : c \in Cars}
  /\ slipped' = slipped \cup {c \in Cars : tail[c].pc = "queue"}
  /\ tail' = [c \in Cars |-> IdleTail]
  /\ sync' = IdleSync
  /\ build' = [r \in Routes |-> IF build[r].pc = "written" THEN build[r] ELSE NoBuild]
  /\ UNCHANGED <<sga, installed, queue, status, stop, overtaken>>

-------------------------------------------------------------------------------

TailStep(c) ==
  \/ LeaveQueue(c) \/ ReadOwnStops(c) \/ MarkOwnStops(c)
  \/ \E r \in Routes : CloseOwnRoute(c, r)
SyncStep ==
  \/ SyncFilters \/ SyncCounts \/ SyncWrites
  \/ SyncReadsStops \/ SyncReadsQueue \/ SyncReadsDevices \/ SyncCancels
  \/ \E r \in Routes : SyncCloses(r)

Next ==
  \/ \E c \in Cars : \/ SgaChanges(c) \/ Install(c) \/ Uninstall(c)
                     \/ TailStep(c) \/ TailFails(c)
  \/ \E r \in Routes, cars \in SUBSET queue : BuildReads(r, cars)
  \/ \E r \in Routes : BuildChecks(r) \/ BuildCreates(r) \/ CancelRoute(r)
  \/ \E found \in SUBSET sga : SyncStarts(found)
  \/ SyncStep \/ SyncFails \/ Restart

Spec == Init /\ [][Next]_vars

(* The sync comes back at 9h and 17h, and what has begun goes on.            *)
FairSpec ==
  /\ Spec
  /\ WF_vars(SyncStarts(sga)) /\ WF_vars(SyncStep)
  /\ \A c \in Cars : WF_vars(TailStep(c))

-------------------------------------------------------------------------------
(* Safety.                                                                   *)

(* An installed car is in the queue only while its own installation is about *)
(* to take it out, or until the next sync if it slipped into this one: the   *)
(* sync that rebuilds the queue from the SGA never brings back a car that    *)
(* was installed before it looked (tirarJaInstaladas, removeByPlate).        *)
InstalledLeavesQueue ==
  \A c \in queue \cap installed : tail[c].pc = "queue" \/ c \in slipped

(* A route does not send the technician to a car that has its tracker: the   *)
(* open stop of an installed car is about to be marked by its installation,  *)
(* whatever syncs and other routes do meanwhile, unless the installation     *)
(* fell between the last barrier and the row of the route, or failed.        *)
InstalledIsNotVisited ==
  \A r \in Routes, c \in installed :
    <<r, c>> \in OpenStops =>
      \/ tail[c].pc \in {"queue", "stops"}
      \/ tail[c].pc = "mark" /\ r \in tail[c].routes
      \/ <<r, c>> \in missed

(* Whoever finishes the last stop of a route closes it, installation or      *)
(* sync: a pending route with nothing left to do is always about to be       *)
(* closed by somebody, unless he failed first.                               *)
LastStopClosesRoute ==
  \A r \in Routes :
    status[r] = "PENDING" /\ Outstanding(r) = {} =>
      \/ r \in adrift
      \/ \E c \in Cars : tail[c].pc = "close" /\ r \in tail[c].routes
      \/ sync.pc = "close" /\ r \in sync.routes

(* What is done or cancelled stays so: a stop an installation has marked     *)
(* done is cancelled only by a sync that was already looking when trackers   *)
(* of the car changed; a cancelled route comes back as done only through     *)
(* somebody who already held its stops.                                      *)
FinishedStays ==
  [][\A r \in Routes :
       /\ status[r] = "CANCELLED" => status'[r] = "CANCELLED" \/ r \in overtaken
       /\ \A c \in Cars : stop[r][c] = "DONE" =>
                            stop'[r][c] = "DONE" \/ c \in sync.crossed]_vars

(* No sync takes away more than 70% of the queue, and none empties it,       *)
(* whatever is installed between the count and the writing of the queue.     *)
SyncSparesTheQueue ==
  [][sync.pc = "write" /\ queue # {} /\ queue' = sync.rows =>
       10 * Cardinality(queue') >= 3 * Cardinality(queue)]_vars

-------------------------------------------------------------------------------
(* Liveness.                                                                 *)

(* The sync in force would not be believed.                                  *)
SgaNotBelieved == ~Believed(Cardinality(NotInstalled(sga)), Cardinality(queue))

(* A technician is not sent for ever to a car whose contract is dead: the    *)
(* stop of a car the SGA no longer lists ends, by a sync or by an            *)
(* installation, unless the SGA lists it again, the route is cancelled or    *)
(* the list of the SGA is so short that the queue is kept as it is.          *)
DeadStopEnds ==
  \A r \in Routes, c \in Cars :
    <<r, c>> \in OpenStops /\ c \notin sga ~>
      \/ <<r, c>> \notin OpenStops
      \/ c \in sga \cup installed
      \/ SgaNotBelieved
===============================================================================
