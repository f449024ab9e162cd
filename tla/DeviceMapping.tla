---------------------------- MODULE DeviceMapping -----------------------------
(***************************************************************************)
(* The gateway's memory of which owner each tracker reports to, and how it *)
(* follows the vehicles table: a request that moves a tracker commits and  *)
(* then tells the gateway, notices of the same second share one query, a   *)
(* timer asks again every two minutes, and queries may overlap, answer out *)
(* of order and fail.                                                      *)
(***************************************************************************)
EXTENDS Naturals

CONSTANTS
  Trackers,     (* Traccar device ids                                       *)
  Owners,       (* the car a tracker is in, with its tenant and associate   *)
  Slots,        (* bound: queries that can be in flight at the same time    *)
  Kinds,        (* the changes of the vehicles table that happen            *)
  MaxChanges,   (* bound: changes of the vehicles table                     *)
  MaxQueryFailures,  (* bound: queries and notices that fail                     *)
  MaxRestarts,  (* bound: restarts of the backend                           *)
  Nobody          (* a tracker that is in no car                              *)

ASSUME NobodyAssumption == Nobody \notin Owners
ASSUME SlotsAssumption == Slots # {}
ASSUME KindsAssumption == Kinds \subseteq {"install", "retire", "transfer"}
ASSUME MapBoundsAssumption ==
  MaxChanges \in Nat /\ MaxQueryFailures \in Nat /\ MaxRestarts \in Nat

VARIABLES
  owner,      (* what the query reads: vehicles with a Traccar id, not deleted *)
  mapping,    (* deviceTenantMap, deviceVehicleMap and deviceAssociateMap      *)
  window,     (* janelaRefreshAberta                                           *)
  waiting,    (* a refresh is due at the end of the window (refreshAgendado)   *)
  query,      (* the queries in flight                                         *)
  untold,     (* trackers whose change is committed and not announced yet      *)
  unread,     (* trackers whose announced change no query has read yet         *)
  changes, queryFailures, restarts   (* for the bounds only                         *)

mapCounts == <<changes, queryFailures, restarts>>
mapVars == <<owner, mapping, window, waiting, query, untold, unread,
          changes, queryFailures, restarts>>

Snapshot == [Trackers -> Owners \cup {Nobody}]
FreeSlot == [at |-> "free"]
Sent == [at |-> "sent"]
Query == [at : {"free", "sent"}] \cup [at : {"read"}, snap : Snapshot]

MapTypeOK ==
  /\ owner \in Snapshot
  /\ mapping \in Snapshot
  /\ window \in BOOLEAN
  /\ waiting \in BOOLEAN
  /\ waiting => window
  /\ query \in [Slots -> Query]
  /\ untold \subseteq Trackers
  /\ unread \subseteq Trackers
  /\ changes \in 0..MaxChanges
  /\ queryFailures \in 0..MaxQueryFailures
  /\ restarts \in 0..MaxRestarts

NothingMapped == [i \in Trackers |-> Nobody]

(* The backend has just started: the gateway knows nothing and asks.         *)
MapInit ==
  /\ owner \in Snapshot
  /\ mapping = NothingMapped
  /\ window = FALSE
  /\ waiting = FALSE
  /\ \E q \in Slots : query = [r \in Slots |-> IF r = q THEN Sent ELSE FreeSlot]
  /\ untold = {}
  /\ unread = {}
  /\ changes = 0
  /\ queryFailures = 0
  /\ restarts = 0

(* A query leaves for the database.                                          *)
Ask == \E q \in Slots : query[q] = FreeSlot /\ query' = [query EXCEPT ![q] = Sent]

-------------------------------------------------------------------------------
(* The vehicles table changes.  Only what moves a tracker is announced.      *)

Change(i, o) ==
  /\ changes < MaxChanges
  /\ owner[i] # o
  /\ owner' = [owner EXCEPT ![i] = o]
  /\ changes' = changes + 1
  /\ UNCHANGED <<mapping, window, waiting, query, queryFailures, restarts>>

Announced(i) ==
  /\ untold' = untold \cup {i}
  /\ unread' = unread \cup {i}

Install(i, o) ==
  /\ "install" \in Kinds
  /\ owner[i] = Nobody
  /\ Change(i, o)
  /\ Announced(i)

Retire(i) ==
  /\ "retire" \in Kinds
  /\ Change(i, Nobody)
  /\ Announced(i)

(* The car passes to another associate: only the panels are told.            *)
Transfer(i, o) ==
  /\ "transfer" \in Kinds
  /\ owner[i] # Nobody
  /\ Change(i, o)
  /\ UNCHANGED <<untold, unread>>

-------------------------------------------------------------------------------
(* notifyDeviceChanged and agendarRefreshMapping.                            *)

Notice(i) ==
  /\ i \in untold
  /\ untold' = untold \ {i}
  /\ IF window
     THEN waiting' = TRUE /\ UNCHANGED <<window, query>>
     ELSE window' = TRUE /\ Ask /\ UNCHANGED waiting
  /\ UNCHANGED <<owner, mapping, unread, mapCounts>>

(* The lookup of the pending installation, after the commit, is not caught:  *)
(* when it fails the install answers with an error and the notice is not made.*)
NoticeNeverMade(i) ==
  /\ i \in untold
  /\ owner[i] # Nobody
  /\ queryFailures < MaxQueryFailures
  /\ queryFailures' = queryFailures + 1
  /\ untold' = untold \ {i}
  /\ unread' = unread \ {i}
  /\ UNCHANGED <<owner, mapping, window, waiting, query, changes, restarts>>

(* The second is over.  A refresh that is due opens the next window.         *)
WindowEnds_Forgets ==
  /\ window
  /\ window' = FALSE
  /\ waiting' = FALSE
  /\ UNCHANGED <<owner, mapping, query, untold, unread, mapCounts>>
WindowEnds ==
  /\ window
  /\ IF waiting
     THEN waiting' = FALSE /\ Ask /\ UNCHANGED window
     ELSE window' = FALSE /\ UNCHANGED <<waiting, query>>
  /\ UNCHANGED <<owner, mapping, untold, unread, mapCounts>>

(* scheduledMappingRefresh, every two minutes.                               *)
Periodic ==
  /\ Ask
  /\ UNCHANGED <<owner, mapping, window, waiting, untold, unread, mapCounts>>

-------------------------------------------------------------------------------
(* refreshDeviceMapping.                                                     *)

Read(q) ==
  /\ query[q] = Sent
  /\ query' = [query EXCEPT ![q] = [at |-> "read", snap |-> owner]]
  /\ unread' = {}
  /\ UNCHANGED <<owner, mapping, window, waiting, untold, mapCounts>>

(* The three maps are cleared and filled from the answer.                    *)
Filled_NotCleared(snap) ==
  [i \in Trackers |-> IF snap[i] = Nobody THEN mapping[i] ELSE snap[i]]
Filled(snap) == snap

Answer(q) ==
  /\ query[q].at = "read"
  /\ mapping' = Filled(query[q].snap)
  /\ query' = [query EXCEPT ![q] = FreeSlot]
  /\ UNCHANGED <<owner, window, waiting, untold, unread, mapCounts>>

(* The error is logged and the maps stay as they are.                        *)
Fail(q) ==
  /\ query[q] # FreeSlot
  /\ queryFailures < MaxQueryFailures
  /\ queryFailures' = queryFailures + 1
  /\ query' = [query EXCEPT ![q] = FreeSlot]
  /\ UNCHANGED <<owner, mapping, window, waiting, untold, unread, changes, restarts>>

(* The process ends: maps, timers, queries and requests with it.             *)
Restart ==
  /\ restarts < MaxRestarts
  /\ restarts' = restarts + 1
  /\ mapping' = NothingMapped
  /\ window' = FALSE
  /\ waiting' = FALSE
  /\ \E q \in Slots : query' = [r \in Slots |-> IF r = q THEN Sent ELSE FreeSlot]
  /\ untold' = {}
  /\ UNCHANGED <<owner, unread, changes, queryFailures>>

-------------------------------------------------------------------------------
MapNext ==
  \/ \E i \in Trackers :
       \/ \E o \in Owners : Install(i, o) \/ Transfer(i, o)
       \/ Retire(i)
       \/ Notice(i) \/ NoticeNeverMade(i)
  \/ WindowEnds
  \/ Periodic
  \/ \E q \in Slots : Read(q) \/ Answer(q) \/ Fail(q)
  \/ Restart

MapSpec == MapInit /\ [][MapNext]_mapVars

-------------------------------------------------------------------------------
(* Properties.                                                               *)

(* While nothing has failed, a change the gateway was told of is on its way  *)
(* into the maps: sharing one query among the notices of a second never      *)
(* drops the last of them (traccar.gateway.ts, agendarRefreshMapping).       *)
ToldIsComing ==
  queryFailures = 0 =>
    \A i \in unread \ untold : waiting \/ \E q \in Slots : query[q] = Sent

(* When the table stops changing, the gateway ends up knowing it, whatever   *)
(* failed, restarted or answered late before (scheduledMappingRefresh).      *)
MappingConverges == <>[](mapping = owner)

===============================================================================
