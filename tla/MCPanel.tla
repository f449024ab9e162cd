-------------------------------- MODULE MCPanel --------------------------------
(* DeviceMapping, VehicleList, SharedCache and LivePositions on small sets:   *)
(* the memories that stand between the tables, Traccar and what a panel shows.*)
(* They share nothing, so a behaviour is about one; no symmetry is declared,  *)
(* for the sake of the liveness checks.                                       *)
EXTENDS DeviceMapping, VehicleList, SharedCache, LivePositions

VARIABLE memory

All == <<mapVars, listVars, vars, liveVars, memory>>

PanelInit ==
  /\ memory \in {"owners", "list", "cache", "positions"}
  /\ MapInit /\ ListInit /\ Init /\ LiveInit
  /\ memory # "owners" => owner = NothingMapped /\ query[CHOOSE q \in Slots : TRUE] = Sent

PanelNext ==
  \/ memory = "owners" /\ MapNext /\ UNCHANGED <<listVars, vars, liveVars, memory>>
  \/ memory = "list" /\ ListNext /\ UNCHANGED <<mapVars, vars, liveVars, memory>>
  \/ memory = "cache" /\ Next /\ UNCHANGED <<mapVars, listVars, liveVars, memory>>
  \/ memory = "positions" /\ LiveNext /\ UNCHANGED <<mapVars, listVars, vars, memory>>

(* Timers fire, requests get to their notice, the database answers.          *)
OwnersFairness ==
  /\ \A i \in Trackers : WF_mapVars(memory = "owners" /\ Notice(i))
  /\ WF_mapVars(memory = "owners" /\ WindowEnds)
  /\ WF_mapVars(memory = "owners" /\ Periodic)
  /\ \A q \in Slots : /\ WF_mapVars(memory = "owners" /\ Read(q))
                     /\ WF_mapVars(memory = "owners" /\ Answer(q))

(* Timers fire, the socket comes back, the operator looks at the tab again,  *)
(* and a request that does not fail is answered.                             *)
ListFairness ==
  /\ \A b \in Bells : /\ WF_listVars(memory = "list" /\ Announce(b))
                     /\ WF_listVars(memory = "list" /\ BellRings(b))
  /\ WF_listVars(memory = "list" /\ Connect)
  /\ WF_listVars(memory = "list" /\ EventArrives)
  /\ WF_listVars(memory = "list" /\ TimerFires)
  /\ WF_listVars(memory = "list" /\ Show)
  /\ WF_listVars(memory = "list" /\ Poll)
  /\ WF_listVars(memory = "list" /\ LoadMoves)

(* The gateway's and the panel's timers fire and frames arrive, links and     *)
(* sockets come back, and the poll goes on; nothing is asked of the first     *)
(* load, which may wait for its answer for ever.                              *)
PositionsFairness ==
  /\ WF_liveVars(memory = "positions" /\ (FlushBatch \/ FrameArrives \/ HandleLote))
  /\ WF_liveVars(memory = "positions" /\ (LinkBack \/ SocketUp))
  /\ WF_liveVars(memory = "positions" /\ (PollAsks \/ ReadFleet("poll") \/ Answered("poll")))

PanelSpec ==
  /\ PanelInit /\ [][PanelNext]_All
  /\ OwnersFairness /\ ListFairness /\ Fairness /\ PositionsFairness

(* The four memories are well typed.                                         *)
PanelTypesOK == MapTypeOK /\ ListTypeOK /\ TypeOK /\ LiveTypeOK

(* The gateway ends up knowing the owners the table names (MappingConverges), *)
(* the panel ends up listing the table's cars (ListConverges) and showing the *)
(* last message of each (PositionsConverge), each said of the behaviours that *)
(* are about it.                                                              *)
MemoriesConverge ==
  /\ memory = "owners" => MappingConverges
  /\ memory = "list" => ListConverges
  /\ memory = "positions" => PositionsConverge
===============================================================================
