------------------------ MODULE TrackerLifecycleProofs ------------------------
(****************************************************************************)
(* Proofs about TrackerLifecycle for every fleet, every number of requests  *)
(* and every bound.                                                         *)
(*                                                                          *)
(* With any number of requests in flight: types, the promise of             *)
(* TrackerCustody and the agreement of the stock with the field.            *)
(*                                                                          *)
(* With one request at a time: ShelfInv, that what a request noted before   *)
(* an await is still so, and that a car holds the number of the tracker in  *)
(* it or of none; and SettledInv, that a tracker known to Traccar is the    *)
(* one its car is drawn from, or the request that put it there is about to  *)
(* plot it.                                                                 *)
(****************************************************************************)
EXTENDS TrackerLifecycle, TLAPS

(* The fields each stage of a request carries.                               *)
LEMMA JobFields ==
  ASSUME NEW j \in Job
  PROVE  /\ j.at \in {"associate.find", "associate.commit", "createVehicle.commit"}
              => j.imei \in Imeis /\ j.plate \in Plates
         /\ j.at = "associate.commit" => j.veh \in MaybeVehicle /\ j.freed \in MaybeVehicle
         /\ j.at \in {"associate.traccar", "link.vehicle", "link.device", "unlink.vehicle"}
              => j.imei \in Imeis /\ j.veh \in Vehicles
         /\ j.at = "uninstall.commit"
              => j.imei \in Imeis /\ j.veh \in MaybeVehicle /\ j.delete \in BOOLEAN
         /\ j.at \in {"remove.uninstall", "remove.delete", "unlink.device"} => j.imei \in Imeis
         /\ j.at = "assign.commit" => j.imei \in Imeis /\ j.tech \in Technicians
         /\ j.at = "link.device"
              => /\ j.hasTid \in BOOLEAN
                 /\ j.status \in {"PENDING_INSTALL", "INSTALLED", "DEACTIVATED"}
         /\ j.at = "removeVehicle.commit" => j.veh \in Vehicles /\ j.holdsImei \in BOOLEAN
         /\ j.at \in {"createDevice.commit", "createDevice.traccar"}
              => j.imei \in Imeis /\ j.veh \in MaybeVehicle
  BY DEF Job

(* What a request's start and its steps leave well typed besides the tables. *)
LEMMA StartTyped ==
  ASSUME TypeOK, NEW p \in Procs, NEW op, NEW j \in Job, Start(p, op, j)
  PROVE  /\ job' \in [Procs -> Job]
         /\ sweep' \subseteq Imeis \X Vehicles
         /\ traccarUp' \in BOOLEAN
         /\ starts' \in 0..MaxStarts
         /\ outages' \in 0..MaxOutages
  BY BoundsAssumption DEF TypeOK, Start

LEMMA StepTyped ==
  ASSUME TypeOK, NEW p \in Procs, NEW j \in Job, Step(p, j)
  PROVE  /\ job' \in [Procs -> Job]
         /\ sweep' \subseteq Imeis \X Vehicles
         /\ traccarUp' \in BOOLEAN
         /\ starts' \in 0..MaxStarts
         /\ outages' \in 0..MaxOutages
  BY DEF TypeOK, Step, world

(* A Device row that is told the tracker has a Traccar id stays a Device row. *)
LEMMA HasTidTyped ==
  ASSUME NEW d \in [Imeis -> Device], NEW i \in Imeis
  PROVE  [d EXCEPT ![i].hasTid = TRUE] \in [Imeis -> Device]
<1>1. [d[i] EXCEPT !.hasTid = TRUE] \in Device
  BY DEF Device
<1> QED BY <1>1

LEMMA PlotTyped ==
  ASSUME TypeOK, NEW i \in Imeis, NEW v \in Vehicles, Plot(i, v)
  PROVE  device' \in [Imeis -> Device] /\ vehicle' \in [Vehicles -> Vehicle]
<1>1. device' \in [Imeis -> Device]
  BY HasTidTyped DEF Plot, TypeOK
<1>2. vehicle' \in [Vehicles -> Vehicle]
  BY DEF Plot, TypeOK, Vehicle
<1> QED BY <1>1, <1>2

LEMMA IdleTyped == Idle \in Job
  BY DEF Idle, Job

LEMMA RequestTyped ==
  ASSUME TypeOK, NEW p \in Procs, Request(p)
  PROVE  TypeOK'
<1>1. CASE \E i \in Imeis, pl \in Plates : Associate(p, i, pl)
  <2>1. PICK i \in Imeis, pl \in Plates : Associate(p, i, pl)
    BY <1>1
  <2>2. [at |-> "associate.find", imei |-> i, plate |-> pl] \in Job
    BY DEF Job
  <2> QED BY <2>1, <2>2, StartTyped DEF Associate, TypeOK, tables
<1>2. CASE \E i \in Imeis, pl \in Plates : CreateVehicle(p, i, pl)
  <2>1. PICK i \in Imeis, pl \in Plates : CreateVehicle(p, i, pl)
    BY <1>2
  <2>2. [at |-> "createVehicle.commit", imei |-> i, plate |-> pl] \in Job
    BY DEF Job
  <2> QED BY <2>1, <2>2, StartTyped DEF CreateVehicle, TypeOK, tables
<1>3. CASE \E i \in Imeis, t \in Technicians : Assign(p, i, t)
  <2>1. PICK i \in Imeis, t \in Technicians : Assign(p, i, t)
    BY <1>3
  <2>2. [at |-> "assign.commit", imei |-> i, tech |-> t] \in Job
    BY DEF Job
  <2> QED BY <2>1, <2>2, StartTyped DEF Assign, TypeOK, tables
<1>4. CASE \E i \in Imeis, v \in Vehicles : LinkVehicle(p, i, v)
  <2>1. PICK i \in Imeis, v \in Vehicles : LinkVehicle(p, i, v)
    BY <1>4
  <2>2. [at |-> "link.device", imei |-> i, veh |-> v,
         hasTid |-> device[i].hasTid, status |-> device[i].status] \in Job
    BY DEF Job, TypeOK, Device
  <2> QED BY <2>1, <2>2, StartTyped DEF LinkVehicle, TypeOK, tables
<1>5. CASE \E i \in Imeis, v \in MaybeVehicle : CreateDevice(p, i, v)
  <2>1. PICK i \in Imeis, v \in MaybeVehicle : CreateDevice(p, i, v)
    BY <1>5
  <2>2. [at |-> "createDevice.commit", imei |-> i, veh |-> v] \in Job
    BY DEF Job
  <2> QED BY <2>1, <2>2, StartTyped DEF CreateDevice, TypeOK, tables
<1>6. CASE \E i \in Imeis : Uninstall(p, i)
  <2>1. PICK i \in Imeis : Uninstall(p, i)
    BY <1>6
  <2>2. [at |-> "uninstall.commit", imei |-> i, veh |-> device[i].vehicle,
         delete |-> FALSE] \in Job
    BY DEF Job, TypeOK, Device, MaybeVehicle
  <2> QED BY <2>1, <2>2, StartTyped DEF Uninstall, TypeOK, tables
<1>7. CASE \E i \in Imeis : RemoveDevice(p, i)
  <2>1. PICK i \in Imeis : RemoveDevice(p, i)
    BY <1>7
  <2>2. [at |-> IF device[i].vehicle = None THEN "remove.delete"
                                            ELSE "remove.uninstall", imei |-> i] \in Job
    BY DEF Job
  <2> QED BY <2>1, <2>2, StartTyped DEF RemoveDevice, TypeOK, tables
<1>8. CASE \E i \in Imeis : UnlinkVehicle(p, i)
  <2>1. PICK i \in Imeis : UnlinkVehicle(p, i)
    BY <1>8
  <2> DEFINE j == IF device[i].vehicle # None /\ device[i].hasTid
                  THEN [at |-> "unlink.vehicle", imei |-> i, veh |-> device[i].vehicle]
                  ELSE [at |-> "unlink.device", imei |-> i]
  <2>2. j \in Job
    BY DEF Job, TypeOK, Device
  <2>3. Start(p, "unlinkVehicle", j) /\ UNCHANGED tables
    BY <2>1 DEF UnlinkVehicle
  <2> HIDE DEF j
  <2> QED BY <2>2, <2>3, StartTyped DEF TypeOK, tables
<1>9. CASE \E i \in Imeis : Unassign(p, i) \/ RemoveItem(p, i) \/ ImportItem(p, i)
  <2>1. PICK i \in Imeis : Unassign(p, i) \/ RemoveItem(p, i) \/ ImportItem(p, i)
    BY <1>9
  <2>2. \E op : Start(p, op, Idle)
    BY <2>1 DEF Unassign, RemoveItem, ImportItem
  <2>3. device' = device /\ vehicle' = vehicle
    BY <2>1 DEF Unassign, RemoveItem, ImportItem
  <2>4. item' \in [Imeis -> Item]
    <3>1. CASE Unassign(p, i)
      BY <3>1 DEF Unassign, TypeOK, Item
    <3>2. CASE RemoveItem(p, i)
      BY <3>2 DEF RemoveItem, TypeOK, Item
    <3>3. CASE ImportItem(p, i)
      BY <3>3 DEF ImportItem, TypeOK, Item
    <3> QED BY <2>1, <3>1, <3>2, <3>3
  <2> QED BY <2>2, <2>3, <2>4, IdleTyped, StartTyped DEF TypeOK
<1>10. CASE \E v \in Vehicles : RemoveVehicle(p, v)
  <2>1. PICK v \in Vehicles : RemoveVehicle(p, v)
    BY <1>10
  <2>2. [at |-> "removeVehicle.commit", veh |-> v, holdsImei |-> vehicle[v].uid # None] \in Job
    BY DEF Job
  <2> QED BY <2>1, <2>2, StartTyped DEF RemoveVehicle, TypeOK, tables
<1> QED
  BY <1>1, <1>2, <1>3, <1>4, <1>5, <1>6, <1>7, <1>8, <1>9, <1>10 DEF Request

LEMMA ContinueTyped ==
  ASSUME TypeOK, NEW p \in Procs, Continue(p)
  PROVE  TypeOK'
<1> DEFINE i == job[p].imei
           v == job[p].veh
           pl == job[p].plate
<1>0. job[p] \in Job
  BY DEF TypeOK
<1>1. CASE AssociateFind(p)
  <2>1. i \in Imeis /\ pl \in Plates
    BY <1>0, <1>1, JobFields DEF AssociateFind
  <2>2. PICK c \in CarsFor(i, pl) :
             \E f \in IF DeletedHolders(i, c) = {} THEN {None} ELSE DeletedHolders(i, c) :
               Step(p, [at |-> "associate.commit", imei |-> i, plate |-> pl,
                        veh |-> c, freed |-> f])
    BY <1>1 DEF AssociateFind
  <2>3. PICK f \in IF DeletedHolders(i, c) = {} THEN {None} ELSE DeletedHolders(i, c) :
               Step(p, [at |-> "associate.commit", imei |-> i, plate |-> pl,
                        veh |-> c, freed |-> f])
    BY <2>2
  <2>4. c \in MaybeVehicle /\ f \in MaybeVehicle
    BY DEF CarsFor, DeletedHolders, MaybeVehicle
  <2>5. [at |-> "associate.commit", imei |-> i, plate |-> pl, veh |-> c, freed |-> f] \in Job
    BY <2>1, <2>4 DEF Job
  <2> HIDE DEF i, pl
  <2> QED BY <1>1, <2>3, <2>5, StepTyped DEF AssociateFind, TypeOK, tables
<1>2. CASE AssociateCommit(p)
  <2>1. i \in Imeis /\ pl \in Plates /\ v \in MaybeVehicle /\ job[p].freed \in MaybeVehicle
    BY <1>0, <1>2, JobFields DEF AssociateCommit
  <2>2. PICK w \in Target(v) :
          /\ vehicle' = [x \in Vehicles |->
               [plate  |-> IF x = w THEN pl ELSE vehicle[x].plate,
                listed |-> x = w \/ vehicle[x].listed,
                uid    |-> IF x = w THEN i
                           ELSE IF x = job[p].freed THEN None ELSE vehicle[x].uid,
                tid    |-> vehicle[x].tid]]
          /\ device' = [device EXCEPT ![i] =
               [row     |-> IF device[i].row = "none" THEN "live" ELSE device[i].row,
                vehicle |-> w,
                hasTid  |-> device[i].hasTid,
                status  |-> "INSTALLED"]]
          /\ item' = OutOfStock(i)
          /\ Step(p, [at |-> "associate.traccar", imei |-> i, veh |-> w])
    BY <1>2 DEF AssociateCommit
  <2>3. w \in Vehicles
    BY <2>1, <2>2, NoneAssumption DEF Target, MaybeVehicle
  <2>4. [at |-> "associate.traccar", imei |-> i, veh |-> w] \in Job
    BY <2>1, <2>3 DEF Job
  <2> HIDE DEF i, pl, v
  <2>5. item' \in [Imeis -> Item]
    BY <2>1, <2>2 DEF OutOfStock, TypeOK, Item
  <2>6. device' \in [Imeis -> Device]
    BY <2>1, <2>2, <2>3 DEF TypeOK, Device
  <2>7. vehicle' \in [Vehicles -> Vehicle]
    BY <2>1, <2>2, <2>3 DEF TypeOK, Vehicle
  <2> QED BY <2>2, <2>4, <2>5, <2>6, <2>7, StepTyped DEF TypeOK
<1>3. CASE AssociateAbort(p)
  BY <1>3, IdleTyped, StepTyped DEF AssociateAbort, TypeOK, tables
<1>4. CASE AssociateTraccar(p)
  <2>1. i \in Imeis /\ v \in Vehicles
    BY <1>0, <1>4, JobFields DEF AssociateTraccar
  <2>2. device' \in [Imeis -> Device] /\ vehicle' \in [Vehicles -> Vehicle]
    BY <1>4, <2>1, PlotTyped DEF AssociateTraccar, TypeOK
  <2> QED BY <1>4, <2>2, IdleTyped, StepTyped DEF AssociateTraccar, TypeOK
<1>5. CASE UninstallCommit(p)
  <2>1. i \in Imeis /\ v \in MaybeVehicle
    BY <1>0, <1>5, JobFields DEF UninstallCommit
  <2> DEFINE j == IF job[p].delete THEN [at |-> "remove.delete", imei |-> i] ELSE Idle
  <2>2. j \in Job
    BY <2>1, IdleTyped DEF Job
  <2>3. Step(p, j)
    BY <1>5 DEF UninstallCommit
  <2>4. device' \in [Imeis -> Device]
    BY <1>5, <2>1 DEF UninstallCommit, TypeOK, Device
  <2>5. vehicle' \in [Vehicles -> Vehicle]
    BY <1>5, <2>1 DEF UninstallCommit, Retired, MaybeVehicle, TypeOK, Vehicle
  <2>6. item' \in [Imeis -> Item]
    BY <1>5, <2>1 DEF UninstallCommit, BackInStock, TypeOK, Item
  <2> HIDE DEF j
  <2> QED BY <2>2, <2>3, <2>4, <2>5, <2>6, StepTyped DEF TypeOK
<1>6. CASE RemoveDeviceUninstall(p)
  <2>1. i \in Imeis
    BY <1>0, <1>6, JobFields DEF RemoveDeviceUninstall
  <2> DEFINE j == IF device[i].row = "live"
                  THEN [at |-> "uninstall.commit", imei |-> i,
                        veh |-> device[i].vehicle, delete |-> TRUE]
                  ELSE Idle
  <2>2. j \in Job
    BY <2>1, IdleTyped DEF Job, TypeOK, Device, MaybeVehicle
  <2>3. Step(p, j) /\ UNCHANGED tables
    BY <1>6 DEF RemoveDeviceUninstall
  <2> HIDE DEF j
  <2> QED BY <2>2, <2>3, StepTyped DEF TypeOK, tables
<1>7. CASE RemoveDeviceDelete(p)
  <2>1. i \in Imeis
    BY <1>0, <1>7, JobFields DEF RemoveDeviceDelete
  <2>2. device' \in [Imeis -> Device]
    BY <1>7, <2>1 DEF RemoveDeviceDelete, TypeOK, Device
  <2> QED BY <1>7, <2>2, IdleTyped, StepTyped DEF RemoveDeviceDelete, TypeOK
<1>8. CASE AssignCommit(p)
  <2>1. i \in Imeis /\ job[p].tech \in Technicians
    BY <1>0, <1>8, JobFields DEF AssignCommit
  <2>2. item' \in [Imeis -> Item]
    BY <1>8, <2>1 DEF AssignCommit, TypeOK, Item
  <2> QED BY <1>8, <2>2, IdleTyped, StepTyped DEF AssignCommit, TypeOK
<1>9. CASE CreateVehicleCommit(p)
  <2>1. i \in Imeis /\ pl \in Plates
    BY <1>0, <1>9, JobFields DEF CreateVehicleCommit
  <2>2. vehicle' \in [Vehicles -> Vehicle]
    <3>1. CASE vehicle' = vehicle
      BY <3>1 DEF TypeOK
    <3>2. CASE \E w \in Vehicles :
                 vehicle' = [vehicle EXCEPT ![w] =
                               [plate |-> pl, listed |-> TRUE, uid |-> i, tid |-> i]]
      BY <2>1, <3>2 DEF TypeOK, Vehicle
    <3> QED BY <1>9, <3>1, <3>2 DEF CreateVehicleCommit, Target
  <2> QED BY <1>9, <2>2, IdleTyped, StepTyped DEF CreateVehicleCommit, TypeOK
<1>10. CASE RemoveVehicleCommit(p)
  <2>1. v \in Vehicles
    BY <1>0, <1>10, JobFields DEF RemoveVehicleCommit
  <2>2. vehicle' \in [Vehicles -> Vehicle]
    BY <1>10, <2>1 DEF RemoveVehicleCommit, TypeOK, Vehicle
  <2> QED BY <1>10, <2>2, IdleTyped, StepTyped DEF RemoveVehicleCommit, TypeOK
<1>11. CASE CreateDeviceCommit(p)
  <2>1. i \in Imeis /\ v \in MaybeVehicle
    BY <1>0, <1>11, JobFields DEF CreateDeviceCommit
  <2>2. [at |-> "createDevice.traccar", imei |-> i, veh |-> v] \in Job
    BY <2>1 DEF Job
  <2>3. device' \in [Imeis -> Device]
    BY <1>11, <2>1 DEF CreateDeviceCommit, TypeOK, Device, MaybeVehicle
  <2>4. \E j \in Job : Step(p, j)
    BY <1>11, <2>2, IdleTyped DEF CreateDeviceCommit
  <2> QED BY <1>11, <2>3, <2>4, StepTyped DEF CreateDeviceCommit, TypeOK
<1>12. CASE CreateDeviceTraccar(p)
  <2>1. i \in Imeis /\ v \in MaybeVehicle
    BY <1>0, <1>12, JobFields DEF CreateDeviceTraccar
  <2>2. v # None => [at |-> "link.vehicle", imei |-> i, veh |-> v] \in Job
    BY <2>1 DEF Job, MaybeVehicle
  <2>3. device' \in [Imeis -> Device]
    BY <1>12, <2>1, HasTidTyped DEF CreateDeviceTraccar, TypeOK
  <2>4. \E j \in Job : Step(p, j)
    BY <1>12, <2>2, IdleTyped DEF CreateDeviceTraccar
  <2> QED BY <1>12, <2>3, <2>4, StepTyped DEF CreateDeviceTraccar, TypeOK
<1>13. CASE LinkDevice(p)
  <2>1. /\ i \in Imeis /\ v \in Vehicles
        /\ job[p].status \in {"PENDING_INSTALL", "INSTALLED", "DEACTIVATED"}
    BY <1>0, <1>13, JobFields DEF LinkDevice
  <2>2. [at |-> "link.vehicle", imei |-> i, veh |-> v] \in Job
    BY <2>1 DEF Job
  <2>3. device' \in [Imeis -> Device]
    <3>1. CASE CarFree(v, i)
      <4>1. PICK st \in {"PENDING_INSTALL", "INSTALLED", "DEACTIVATED"} :
              device' = [device EXCEPT ![i] = [device[i] EXCEPT !.vehicle = v, !.status = st]]
        BY <1>13, <2>1, <3>1 DEF LinkDevice
      <4>2. device[i] \in Device
        BY <2>1 DEF TypeOK
      <4>3. [device[i] EXCEPT !.vehicle = v, !.status = st] \in Device
        BY <2>1, <4>2 DEF Device
      <4> QED BY <4>1, <4>3 DEF TypeOK
    <3>2. CASE ~CarFree(v, i)
      BY <1>13, <3>2 DEF LinkDevice, TypeOK
    <3> QED BY <3>1, <3>2
  <2>4. \E j \in Job : Step(p, j)
    BY <1>13, <2>2, IdleTyped DEF LinkDevice
  <2> QED BY <1>13, <2>3, <2>4, StepTyped DEF LinkDevice, TypeOK
<1>14. CASE LinkPlot(p)
  <2>1. i \in Imeis /\ v \in Vehicles
    BY <1>0, <1>14, JobFields DEF LinkPlot
  <2>2. vehicle' \in [Vehicles -> Vehicle]
    BY <1>14, <2>1 DEF LinkPlot, TypeOK, Vehicle
  <2> QED BY <1>14, <2>2, IdleTyped, StepTyped DEF LinkPlot, TypeOK
<1>15. CASE UnlinkPlot(p)
  <2>1. i \in Imeis /\ v \in Vehicles
    BY <1>0, <1>15, JobFields DEF UnlinkPlot
  <2>2. vehicle' \in [Vehicles -> Vehicle]
    BY <1>15, <2>1 DEF UnlinkPlot, TypeOK, Vehicle
  <2>3. [at |-> "unlink.device", imei |-> i] \in Job
    BY <2>1 DEF Job
  <2> QED BY <1>15, <2>2, <2>3, StepTyped DEF UnlinkPlot, TypeOK
<1>16. CASE UnlinkDevice(p)
  <2>1. i \in Imeis
    BY <1>0, <1>16, JobFields DEF UnlinkDevice
  <2>2. device' \in [Imeis -> Device]
    BY <1>16, <2>1 DEF UnlinkDevice, TypeOK, Device
  <2> QED BY <1>16, <2>2, IdleTyped, StepTyped DEF UnlinkDevice, TypeOK
<1> QED
  BY <1>1, <1>2, <1>3, <1>4, <1>5, <1>6, <1>7, <1>8, <1>9, <1>10, <1>11, <1>12,
     <1>13, <1>14, <1>15, <1>16 DEF Continue

LEMMA ReconcileTyped ==
  ASSUME TypeOK, ReconcileRead \/ ReconcileOne
  PROVE  TypeOK'
<1>1. CASE ReconcileRead
  <2>1. sweep' \subseteq Imeis \X Vehicles
    BY <1>1, NoneAssumption DEF ReconcileRead, Orphan, TypeOK, Device
  <2> QED BY <1>1, <2>1 DEF ReconcileRead, TypeOK, tables, world
<1>2. CASE ReconcileOne
  <2>1. PICK e \in sweep :
          /\ IF traccarUp THEN Plot(e[1], e[2]) ELSE UNCHANGED <<device, vehicle>>
          /\ sweep' = sweep \ {e}
    BY <1>2 DEF ReconcileOne
  <2>2. e[1] \in Imeis /\ e[2] \in Vehicles
    BY DEF TypeOK
  <2>3. device' \in [Imeis -> Device] /\ vehicle' \in [Vehicles -> Vehicle]
    BY <2>1, <2>2, PlotTyped DEF TypeOK
  <2> QED BY <1>2, <2>1, <2>3 DEF ReconcileOne, TypeOK, world
<1> QED BY <1>1, <1>2

LEMMA TraccarTyped ==
  ASSUME TypeOK, TraccarFails \/ TraccarReturns
  PROVE  TypeOK'
<1>1. /\ item' = item /\ device' = device /\ vehicle' = vehicle
      /\ job' = job /\ sweep' = sweep /\ starts' = starts
  BY DEF TraccarFails, TraccarReturns, tables
<1>2. traccarUp' \in BOOLEAN
  BY DEF TraccarFails, TraccarReturns
<1>3. outages' \in 0..MaxOutages
  BY BoundsAssumption DEF TraccarFails, TraccarReturns, TypeOK
<1> QED BY <1>1, <1>2, <1>3 DEF TypeOK

(* Every reachable state is well typed: a request never carries a row or a   *)
(* number the schema could not hold.                                         *)
THEOREM TypeTheorem == Spec => []TypeOK
<1>1. Init => TypeOK
  BY BoundsAssumption, IdleTyped DEF Init, TypeOK, Item, Device, Vehicle
<1>2. TypeOK /\ [Next]_vars => TypeOK'
  <2> SUFFICES ASSUME TypeOK, [Next]_vars PROVE TypeOK'
    OBVIOUS
  <2>1. CASE Next
    BY <2>1, RequestTyped, ContinueTyped, ReconcileTyped, TraccarTyped DEF Next
  <2>2. CASE UNCHANGED vars
    BY <2>2 DEF vars, TypeOK
  <2> QED BY <2>1, <2>2
<1> QED BY <1>1, <1>2, PTL DEF Spec

-------------------------------------------------------------------------------
(* TrackerCustody is implemented as long as link-vehicle is not in use.      *)

(* A request stands at the device write of link-vehicle only if the endpoint *)
(* is in use, and a tracker without a Device row is in no car.               *)
CustodyInv ==
  /\ TypeOK
  /\ \A p \in Procs : job[p].at # "link.device"
  /\ \A i \in Imeis : device[i].row = "none" => device[i].vehicle = None

(* What a step may do to the cars the trackers are in.                       *)
OneMove ==
  \/ \A i \in Imeis : device'[i].vehicle = device[i].vehicle
  \/ \E i \in Imeis :
       /\ \A j \in Imeis \ {i} : device'[j].vehicle = device[j].vehicle
       /\ \/ device'[i].vehicle = None
          \/ /\ device'[i].vehicle \in Vehicles
             /\ device[i].vehicle \in {None, device'[i].vehicle}
             /\ \A j \in Imeis \ {i} : device[j].vehicle # device'[i].vehicle

RowsHold == \A i \in Imeis : device'[i].row = "none" => device'[i].vehicle = None

LEMMA CustodyStep ==
  ASSUME CustodyInv, "linkVehicle" \notin Ops, [Next]_vars
  PROVE  /\ \A p \in Procs : job'[p].at # "link.device"
         /\ RowsHold
         /\ OneMove
<1> USE DEF CustodyInv
<1>0. \A p \in Procs : job[p] \in Job
  BY DEF TypeOK
<1>1. ASSUME NEW p \in Procs, Request(p)
      PROVE  device' = device /\ \A q \in Procs : job'[q].at # "link.device"
  <2>1. device' = device
    BY <1>1 DEF Request, Associate, CreateVehicle, Assign, LinkVehicle, CreateDevice,
         Uninstall, RemoveDevice, UnlinkVehicle, Unassign, RemoveItem, ImportItem,
         RemoveVehicle, tables
  <2>2. \A q \in Procs : job'[q].at # "link.device"
    <3>1. ASSUME NEW op, NEW j, Start(p, op, j), j.at # "link.device"
          PROVE  \A q \in Procs : job'[q].at # "link.device"
      BY <3>1 DEF Start, TypeOK
    <3> QED
      BY <1>1, <3>1 DEF Request, Associate, CreateVehicle, Assign, LinkVehicle,
         CreateDevice, Uninstall, RemoveDevice, UnlinkVehicle, Unassign, RemoveItem,
         ImportItem, RemoveVehicle, Idle, Start
  <2> QED BY <2>1, <2>2
<1>2. ASSUME NEW p \in Procs, Continue(p)
      PROVE  \A q \in Procs : job'[q].at # "link.device"
  <2>1. ASSUME NEW j, Step(p, j), j.at # "link.device"
        PROVE  \A q \in Procs : job'[q].at # "link.device"
    BY <2>1 DEF Step, TypeOK
  <2> QED
    BY <1>2, <2>1 DEF Continue, AssociateFind, AssociateCommit, AssociateAbort,
       AssociateTraccar, UninstallCommit, RemoveDeviceUninstall, RemoveDeviceDelete,
       AssignCommit, CreateVehicleCommit, RemoveVehicleCommit, CreateDeviceCommit,
       CreateDeviceTraccar, LinkDevice, LinkPlot, UnlinkPlot, UnlinkDevice, Idle
<1>3. ASSUME NEW p \in Procs, Continue(p)
      PROVE  RowsHold /\ OneMove
  <2> DEFINE i == job[p].imei
             v == job[p].veh
  <2>1. CASE AssociateCommit(p)
    <3>1. i \in Imeis /\ v \in MaybeVehicle
      BY <1>0, <2>1, JobFields DEF AssociateCommit
    <3>2. PICK w \in Target(v) :
            /\ CarFree(w, i) /\ TrackerFree(i, w)
            /\ device' = [device EXCEPT ![i] =
                 [row     |-> IF device[i].row = "none" THEN "live" ELSE device[i].row,
                  vehicle |-> w,
                  hasTid  |-> device[i].hasTid,
                  status  |-> "INSTALLED"]]
      BY <2>1 DEF AssociateCommit, CanInstall
    <3>3. w \in Vehicles
      BY <3>1, <3>2, NoneAssumption DEF Target, MaybeVehicle
    <3> HIDE DEF i, v
    <3>4. RowsHold
      BY <3>1, <3>2 DEF RowsHold, TypeOK, Device
    <3>5. /\ device'[i].vehicle = w
          /\ \A j \in Imeis \ {i} : device'[j] = device[j] /\ device[j].vehicle # w
          /\ device[i].vehicle \in {None, w}
      BY <3>1, <3>2 DEF CarFree, TrackerFree, TypeOK, Device
    <3>6. OneMove
      BY <3>1, <3>3, <3>5 DEF OneMove
    <3> QED BY <3>4, <3>6
  <2>2. CASE AssociateTraccar(p)
    <3>1. i \in Imeis
      BY <1>0, <2>2, JobFields DEF AssociateTraccar
    <3>2. \A j \in Imeis : /\ device'[j].vehicle = device[j].vehicle
                           /\ device'[j].row = device[j].row
      BY <2>2, <3>1 DEF AssociateTraccar, Plot, TypeOK, Device
    <3> QED BY <3>2 DEF RowsHold, OneMove
  <2>3. CASE UninstallCommit(p)
    <3>1. i \in Imeis
      BY <1>0, <2>3, JobFields DEF UninstallCommit
    <3> QED BY <2>3, <3>1 DEF UninstallCommit, RowsHold, OneMove, TypeOK, Device
  <2>4. CASE RemoveDeviceDelete(p)
    <3>1. i \in Imeis
      BY <1>0, <2>4, JobFields DEF RemoveDeviceDelete
    <3>2. \A j \in Imeis : /\ device'[j].vehicle = device[j].vehicle
                           /\ device[j].row # "none" => device'[j].row # "none"
      BY <2>4, <3>1 DEF RemoveDeviceDelete, TypeOK, Device
    <3> QED BY <3>2 DEF RowsHold, OneMove
  <2>5. CASE CreateDeviceCommit(p)
    <3>1. i \in Imeis /\ v \in MaybeVehicle
      BY <1>0, <2>5, JobFields DEF CreateDeviceCommit
    <3>2. CASE device' = device
      BY <3>2 DEF RowsHold, OneMove
    <3>3. CASE /\ device[i].row = "none"
               /\ v # None => CarFree(v, i)
               /\ device' = [device EXCEPT ![i].row = "live", ![i].vehicle = v]
      <4>1. device[i].vehicle = None
        BY <3>1, <3>3
      <4> HIDE DEF i, v
      <4> QED BY <3>1, <3>3, <4>1
              DEF RowsHold, OneMove, CarFree, MaybeVehicle, TypeOK, Device
    <3> QED BY <2>5, <3>2, <3>3 DEF CreateDeviceCommit
  <2>6. CASE CreateDeviceTraccar(p)
    <3>1. i \in Imeis
      BY <1>0, <2>6, JobFields DEF CreateDeviceTraccar
    <3> QED BY <2>6, <3>1 DEF CreateDeviceTraccar, RowsHold, OneMove, TypeOK, Device
  <2>7. CASE UnlinkDevice(p)
    <3>1. i \in Imeis
      BY <1>0, <2>7, JobFields DEF UnlinkDevice
    <3> QED BY <2>7, <3>1 DEF UnlinkDevice, RowsHold, OneMove, TypeOK, Device
  <2>8. CASE device' = device
    BY <2>8 DEF RowsHold, OneMove
  <2>9. ~LinkDevice(p)
    BY DEF LinkDevice
  <2> QED
    BY <1>3, <2>1, <2>2, <2>3, <2>4, <2>5, <2>6, <2>7, <2>8, <2>9 DEF Continue,
       AssociateFind, AssociateAbort, RemoveDeviceUninstall, AssignCommit,
       CreateVehicleCommit, RemoveVehicleCommit, LinkPlot, UnlinkPlot, tables
<1>4. ASSUME ReconcileOne
      PROVE  RowsHold /\ OneMove /\ job' = job
  <2>1. PICK e \in sweep :
          IF traccarUp THEN Plot(e[1], e[2]) ELSE UNCHANGED <<device, vehicle>>
    BY <1>4 DEF ReconcileOne
  <2>2. e[1] \in Imeis
    BY DEF TypeOK
  <2>3. RowsHold /\ OneMove
    BY <2>1, <2>2 DEF Plot, RowsHold, OneMove, TypeOK, Device
  <2> QED BY <1>4, <2>3 DEF ReconcileOne
<1>5. ASSUME ReconcileRead \/ TraccarFails \/ TraccarReturns \/ UNCHANGED vars
      PROVE  device' = device /\ job' = job
  BY <1>5 DEF ReconcileRead, TraccarFails, TraccarReturns, vars, tables
<1>6. device' = device => RowsHold /\ OneMove
  BY DEF RowsHold, OneMove
<1> QED
  BY <1>1, <1>2, <1>3, <1>4, <1>5, <1>6 DEF Next

LEMMA CustodyInvariant ==
  ASSUME "linkVehicle" \notin Ops
  PROVE  Spec => []CustodyInv
<1>1. Init => CustodyInv
  BY BoundsAssumption, IdleTyped DEF Init, CustodyInv, TypeOK, Item, Device, Vehicle, Idle
<1>2. CustodyInv /\ TypeOK' /\ [Next]_vars => CustodyInv'
  <2> SUFFICES ASSUME CustodyInv, TypeOK', [Next]_vars PROVE CustodyInv'
    OBVIOUS
  <2>1. (\A p \in Procs : job'[p].at # "link.device") /\ RowsHold
    BY CustodyStep
  <2> QED BY <2>1 DEF CustodyInv, RowsHold
<1> QED BY <1>1, <1>2, TypeTheorem, PTL DEF Spec

(* One tracker per car, and no tracker goes from car to car without a        *)
(* retrieval in between, however many requests are in flight: the checks of  *)
(* associate and the UNIQUE index on devices.vehicle_id are enough.          *)
THEOREM CustodyTheorem ==
  ASSUME "linkVehicle" \notin Ops
  PROVE  Spec => ImplementsCustody
<1> DEFINE where == [i \in Imeis |-> device[i].vehicle]
<1>1. Init => Custody!Init
  BY DEF Init, Custody!Init
<1>2. CustodyInv /\ [Next]_vars => [Custody!Next]_where
  <2> SUFFICES ASSUME CustodyInv, [Next]_vars, where' # where PROVE Custody!Next
    OBVIOUS
  <2>1. OneMove
    BY CustodyStep
  <2>2. PICK i \in Imeis :
          /\ \A j \in Imeis \ {i} : device'[j].vehicle = device[j].vehicle
          /\ device'[i].vehicle # device[i].vehicle
          /\ \/ device'[i].vehicle = None
             \/ /\ device'[i].vehicle \in Vehicles
                /\ device[i].vehicle \in {None, device'[i].vehicle}
                /\ \A j \in Imeis \ {i} : device[j].vehicle # device'[i].vehicle
    BY <2>1 DEF OneMove
  <2>3. where' = [where EXCEPT ![i] = device'[i].vehicle]
    BY <2>2
  <2>4. CASE device'[i].vehicle = None
    BY <2>2, <2>3, <2>4 DEF Custody!Next, Custody!TakeOut
  <2>5. CASE device'[i].vehicle # None
    <3>1. PICK v \in Vehicles : device'[i].vehicle = v
      BY <2>2, <2>5
    <3>2. where[i] = None /\ \A j \in Imeis : where[j] # v
      BY <2>2, <3>1, NoneAssumption
    <3>3. where' = [where EXCEPT ![i] = v]
      BY <2>3, <3>1
    <3> HIDE DEF where
    <3>4. Custody!Install(i, v)
      BY <3>2, <3>3 DEF Custody!Install, where
    <3> QED BY <3>4 DEF Custody!Next
  <2> QED BY <2>4, <2>5
<1> QED BY <1>1, <1>2, CustodyInvariant, PTL DEF Spec, ImplementsCustody, Custody!Spec

-------------------------------------------------------------------------------
(* The stock and the field, as long as the endpoints of the devices page     *)
(* that move a tracker without its stock item are not in use.                *)

ItemFollows == {"createDevice", "linkVehicle", "unlinkVehicle"}
DeviceOnly  == {"createDevice.commit", "link.device", "unlink.device", "unlink.vehicle"}

FieldInv ==
  /\ TypeOK
  /\ FieldMatchesStock
  /\ \A p \in Procs : job[p].at \notin DeviceOnly

LEMMA FieldStep ==
  ASSUME FieldInv, Ops \cap ItemFollows = {}, [Next]_vars
  PROVE  FieldMatchesStock' /\ \A p \in Procs : job'[p].at \notin DeviceOnly
<1> USE DEF FieldInv, FieldMatchesStock
<1>0. \A p \in Procs : job[p] \in Job
  BY DEF TypeOK
<1>1. ASSUME NEW p \in Procs, Request(p)
      PROVE  FieldMatchesStock' /\ \A q \in Procs : job'[q].at \notin DeviceOnly
  <2>1. FieldMatchesStock'
    <3>1. device' = device
      BY <1>1 DEF Request, Associate, CreateVehicle, Assign, LinkVehicle, CreateDevice,
         Uninstall, RemoveDevice, UnlinkVehicle, Unassign, RemoveItem, ImportItem,
         RemoveVehicle, tables
    <3>2. \A i \in Imeis : item'[i].installed = item[i].installed
      <4>1. CASE \E i \in Imeis : Unassign(p, i)
        BY <4>1 DEF Unassign, TypeOK, Item
      <4>3. CASE \E i \in Imeis : RemoveItem(p, i)
        BY <4>3 DEF RemoveItem, TypeOK, Item
      <4>4. CASE \E i \in Imeis : ImportItem(p, i)
        BY <4>4 DEF ImportItem, TypeOK, Item
      <4>2. CASE item' = item
        BY <4>2
      <4> QED
        BY <1>1, <4>1, <4>2, <4>3, <4>4 DEF Request, Associate, CreateVehicle, Assign, LinkVehicle,
           CreateDevice, Uninstall, RemoveDevice, UnlinkVehicle, RemoveVehicle, tables
    <3> QED BY <3>1, <3>2
  <2>2. ASSUME NEW op, NEW j, Start(p, op, j), j.at \notin DeviceOnly
        PROVE  \A q \in Procs : job'[q].at \notin DeviceOnly
    BY <2>2 DEF Start, TypeOK
  <2> QED
    BY <1>1, <2>1, <2>2 DEF Request, Associate, CreateVehicle, Assign, LinkVehicle,
       CreateDevice, Uninstall, RemoveDevice, UnlinkVehicle, Unassign, RemoveItem,
       ImportItem, RemoveVehicle, Idle, Start, DeviceOnly, ItemFollows
<1>2. ASSUME NEW p \in Procs, Continue(p)
      PROVE  \A q \in Procs : job'[q].at \notin DeviceOnly
  <2>1. ASSUME NEW j, Step(p, j), j.at \notin DeviceOnly
        PROVE  \A q \in Procs : job'[q].at \notin DeviceOnly
    BY <2>1 DEF Step, TypeOK
  <2> QED
    BY <1>2, <2>1 DEF Continue, AssociateFind, AssociateCommit, AssociateAbort,
       AssociateTraccar, UninstallCommit, RemoveDeviceUninstall, RemoveDeviceDelete,
       AssignCommit, CreateVehicleCommit, RemoveVehicleCommit, CreateDeviceCommit,
       CreateDeviceTraccar, LinkDevice, LinkPlot, UnlinkPlot, UnlinkDevice, Idle,
       DeviceOnly
<1>3. ASSUME NEW p \in Procs, Continue(p)
      PROVE  FieldMatchesStock'
  <2> DEFINE i == job[p].imei
  <2>1. CASE AssociateCommit(p)
    <3>1. i \in Imeis /\ job[p].veh \in MaybeVehicle
      BY <1>0, <2>1, JobFields DEF AssociateCommit
    <3>2. PICK w \in Target(job[p].veh) :
            /\ device' = [device EXCEPT ![i] =
                 [row     |-> IF device[i].row = "none" THEN "live" ELSE device[i].row,
                  vehicle |-> w,
                  hasTid  |-> device[i].hasTid,
                  status  |-> "INSTALLED"]]
            /\ item' = OutOfStock(i)
      BY <2>1 DEF AssociateCommit
    <3>3. w # None
      BY <3>1, <3>2, NoneAssumption DEF Target, MaybeVehicle
    <3> HIDE DEF i
    <3> QED BY <3>1, <3>2, <3>3 DEF OutOfStock, TypeOK, Item, Device
  <2>2. CASE AssociateTraccar(p)
    <3>1. i \in Imeis
      BY <1>0, <2>2, JobFields DEF AssociateTraccar
    <3> QED BY <2>2, <3>1 DEF AssociateTraccar, Plot, TypeOK, Device
  <2>3. CASE UninstallCommit(p)
    <3>1. i \in Imeis
      BY <1>0, <2>3, JobFields DEF UninstallCommit
    <3> QED BY <2>3, <3>1 DEF UninstallCommit, BackInStock, TypeOK, Item, Device
  <2>4. CASE RemoveDeviceDelete(p)
    <3>1. i \in Imeis
      BY <1>0, <2>4, JobFields DEF RemoveDeviceDelete
    <3> QED BY <2>4, <3>1 DEF RemoveDeviceDelete, TypeOK, Device
  <2>5. CASE AssignCommit(p)
    <3>1. i \in Imeis
      BY <1>0, <2>5, JobFields DEF AssignCommit
    <3> QED BY <2>5, <3>1 DEF AssignCommit, TypeOK, Item
  <2>6. CASE CreateDeviceTraccar(p)
    <3>1. i \in Imeis
      BY <1>0, <2>6, JobFields DEF CreateDeviceTraccar
    <3> QED BY <2>6, <3>1 DEF CreateDeviceTraccar, TypeOK, Device
  <2>7. CASE device' = device /\ item' = item
    BY <2>7
  <2>8. ~CreateDeviceCommit(p) /\ ~LinkDevice(p) /\ ~UnlinkPlot(p) /\ ~UnlinkDevice(p)
    BY DEF CreateDeviceCommit, LinkDevice, UnlinkPlot, UnlinkDevice, DeviceOnly
  <2> QED
    BY <1>3, <2>1, <2>2, <2>3, <2>4, <2>5, <2>6, <2>7, <2>8 DEF Continue,
       AssociateFind, AssociateAbort, RemoveDeviceUninstall, CreateVehicleCommit,
       RemoveVehicleCommit, LinkPlot, tables
<1>4. ASSUME ReconcileOne
      PROVE  FieldMatchesStock' /\ job' = job
  <2>1. PICK e \in sweep :
          IF traccarUp THEN Plot(e[1], e[2]) ELSE UNCHANGED <<device, vehicle>>
    BY <1>4 DEF ReconcileOne
  <2>2. e[1] \in Imeis
    BY DEF TypeOK
  <2>3. \A i \in Imeis : device'[i].vehicle = device[i].vehicle
    BY <2>1, <2>2 DEF Plot, TypeOK, Device
  <2> QED BY <1>4, <2>3 DEF ReconcileOne
<1>5. ASSUME ReconcileRead \/ TraccarFails \/ TraccarReturns \/ UNCHANGED vars
      PROVE  device' = device /\ item' = item /\ job' = job
  BY <1>5 DEF ReconcileRead, TraccarFails, TraccarReturns, vars, tables
<1>6. device' = device /\ item' = item => FieldMatchesStock'
  OBVIOUS
<1> QED
  BY <1>1, <1>2, <1>3, <1>4, <1>5, <1>6 DEF Next

(* A tracker is out of the stock exactly while it is in a car, however many  *)
(* installs, retrievals, reservations and sweeps are in flight.              *)
THEOREM FieldTheorem ==
  ASSUME Ops \cap ItemFollows = {}
  PROVE  Spec => []FieldMatchesStock
<1>1. Init => FieldInv
  BY BoundsAssumption, IdleTyped DEF Init, FieldInv, FieldMatchesStock, TypeOK, Item,
     Device, Vehicle, Idle, DeviceOnly
<1>2. FieldInv /\ TypeOK' /\ [Next]_vars => FieldInv'
  <2> SUFFICES ASSUME FieldInv, TypeOK', [Next]_vars PROVE FieldInv'
    OBVIOUS
  <2>1. FieldMatchesStock' /\ \A p \in Procs : job'[p].at \notin DeviceOnly
    BY FieldStep
  <2> QED BY <2>1 DEF FieldInv
<1>3. FieldInv => FieldMatchesStock
  BY DEF FieldInv
<1> QED BY <1>1, <1>2, <1>3, TypeTheorem, PTL DEF Spec

-------------------------------------------------------------------------------
(* One request at a time.  A request then finds the tables as it left them   *)
(* at its last await, and what it noted of them is still so.                 *)

OneAtATime == \A p, q \in Procs : p = q

(* What a request noted before an await.                                     *)
NoteHolds(p) ==
  /\ job[p].at \in {"associate.find", "assign.commit"} => ~item[job[p].imei].installed
  /\ job[p].at = "associate.commit" /\ job[p].veh # None =>
       vehicle[job[p].veh].plate = job[p].plate
  /\ job[p].at \in {"associate.traccar", "uninstall.commit"} =>
       device[job[p].imei].vehicle = job[p].veh

(* The endpoints that plot a car, or hold a number, without an installation. *)
PlotsAlone == {"createVehicle", "reconcile"}
AloneStages == {"createVehicle.commit", "createDevice.traccar", "link.vehicle"} \cup DeviceOnly

(* A car holds the number of the tracker that is in it, or of none.          *)
NumberGivenBack ==
  \A v \in Vehicles, i \in Imeis : vehicle[v].uid = i => device[i].vehicle = v

ShelfInv ==
  /\ sweep = {}
  /\ \A p \in Procs : NoteHolds(p) /\ job[p].at \notin AloneStages
  /\ NumberGivenBack
  /\ PlottedWhereInstalled
  /\ ReservedOnShelf

(* The stages of a request after which its car is drawn anew, or is empty.   *)
Redrawing == {"associate.traccar", "createDevice.traccar", "link.vehicle", "unlink.device"}

DrawnInv ==
  \A i \in Imeis, v \in Vehicles :
    device[i].vehicle = v /\ device[i].hasTid =>
      \/ vehicle[v].tid = i
      \/ \E p \in Procs : job[p].at \in Redrawing /\ job[p].imei = i

OneTrackerPerCar ==
  \A i, j \in Imeis, v \in Vehicles :
    device[i].vehicle = v /\ device[j].vehicle = v => i = j

CarsAreWritten ==
  /\ \A v \in Vehicles : vehicle[v].listed => vehicle[v].plate # None
  /\ \A i \in Imeis, v \in Vehicles : device[i].vehicle = v => vehicle[v].plate # None

DeviceNoteHolds(p) ==
  /\ job[p].at \in {"associate.traccar", "createDevice.traccar", "link.vehicle",
                    "uninstall.commit", "unlink.vehicle"} =>
       device[job[p].imei].vehicle = job[p].veh
  /\ job[p].at \in {"createDevice.commit", "link.device"} /\ job[p].veh # None =>
       vehicle[job[p].veh].plate # None
  /\ job[p].at = "link.device" => (job[p].hasTid <=> device[job[p].imei].hasTid)

SettledInv ==
  /\ sweep = {} /\ traccarUp
  /\ \A p \in Procs : DeviceNoteHolds(p)
  /\ OneTrackerPerCar
  /\ CarsAreWritten
  /\ DrawnInv

LEMMA AloneMoves ==
  ASSUME OneAtATime, TypeOK, NEW p \in Procs, NEW j,
         Step(p, j) \/ \E op : Start(p, op, j)
  PROVE  (\A q \in Procs : job'[q] = j) /\ sweep' = sweep
BY DEF OneAtATime, TypeOK, Step, Start

(* What is left to check of a request that moves while it is alone.          *)
LEMMA ShelfKept ==
  ASSUME OneAtATime, TypeOK, ShelfInv, NEW p \in Procs, NEW j,
         Step(p, j) \/ \E op : Start(p, op, j), j.at \notin AloneStages,
         /\ j.at \in {"associate.find", "assign.commit"} => ~item'[j.imei].installed
         /\ j.at = "associate.commit" /\ j.veh # None => vehicle'[j.veh].plate = j.plate
         /\ j.at \in {"associate.traccar", "uninstall.commit"} =>
              device'[j.imei].vehicle = j.veh,
         NumberGivenBack', PlottedWhereInstalled', ReservedOnShelf'
  PROVE  ShelfInv'
<1>1. (\A q \in Procs : job'[q] = j) /\ sweep' = sweep
  BY AloneMoves
<1>2. \A q \in Procs : NoteHolds(q)'
  BY <1>1 DEF NoteHolds
<1> QED BY <1>1, <1>2 DEF ShelfInv

(* The stages at which nothing was noted.                                    *)
LEMMA ShelfStays ==
  ASSUME OneAtATime, TypeOK, ShelfInv, NEW p \in Procs, NEW j,
         Step(p, j) \/ \E op : Start(p, op, j),
         j.at \in {"idle", "remove.uninstall", "remove.delete", "removeVehicle.commit"},
         NumberGivenBack', PlottedWhereInstalled', ReservedOnShelf'
  PROVE  ShelfInv'
<1>1. j.at \notin AloneStages
  BY DEF AloneStages, DeviceOnly
<1> QED BY <1>1, ShelfKept

LEMMA ShelfTables ==
  ASSUME ShelfInv, device' = device, vehicle' = vehicle, item' = item
  PROVE  NumberGivenBack' /\ PlottedWhereInstalled' /\ ReservedOnShelf'
BY DEF ShelfInv, NumberGivenBack, PlottedWhereInstalled, ReservedOnShelf

LEMMA ShelfRequest ==
  ASSUME OneAtATime, TypeOK, ShelfInv, Ops \cap (ItemFollows \cup PlotsAlone) = {},
         NEW p \in Procs, Request(p)
  PROVE  ShelfInv'
<1>1. CASE \E i \in Imeis, pl \in Plates : Associate(p, i, pl)
  <2>1. PICK i \in Imeis, pl \in Plates : Associate(p, i, pl)
    BY <1>1
  <2> DEFINE j == [at |-> "associate.find", imei |-> i, plate |-> pl]
  <2>2. Start(p, "associate", j) /\ UNCHANGED tables /\ ~item[i].installed
    BY <2>1 DEF Associate
  <2>3. j.at = "associate.find" /\ j.imei = i /\ j.at \notin AloneStages
    BY DEF AloneStages, DeviceOnly
  <2> HIDE DEF j
  <2>4. NumberGivenBack' /\ PlottedWhereInstalled' /\ ReservedOnShelf' /\ item' = item
    BY <2>2, ShelfTables DEF tables
  <2> QED BY <2>2, <2>3, <2>4, ShelfKept
<1>2. CASE \E i \in Imeis, t \in Technicians : Assign(p, i, t)
  <2>1. PICK i \in Imeis, t \in Technicians : Assign(p, i, t)
    BY <1>2
  <2> DEFINE j == [at |-> "assign.commit", imei |-> i, tech |-> t]
  <2>2. Start(p, "assign", j) /\ UNCHANGED tables /\ ~item[i].installed
    BY <2>1 DEF Assign
  <2>3. j.at = "assign.commit" /\ j.imei = i /\ j.at \notin AloneStages
    BY DEF AloneStages, DeviceOnly
  <2> HIDE DEF j
  <2>4. NumberGivenBack' /\ PlottedWhereInstalled' /\ ReservedOnShelf' /\ item' = item
    BY <2>2, ShelfTables DEF tables
  <2> QED BY <2>2, <2>3, <2>4, ShelfKept
<1>3. CASE \E i \in Imeis : Uninstall(p, i)
  <2>1. PICK i \in Imeis : Uninstall(p, i)
    BY <1>3
  <2> DEFINE j == [at |-> "uninstall.commit", imei |-> i, veh |-> device[i].vehicle,
                   delete |-> FALSE]
  <2>2. Start(p, "uninstall", j) /\ UNCHANGED tables
    BY <2>1 DEF Uninstall
  <2>3. /\ j.at = "uninstall.commit" /\ j.imei = i /\ j.at \notin AloneStages
        /\ j.veh = device[i].vehicle
    BY DEF AloneStages, DeviceOnly
  <2> HIDE DEF j
  <2>4. NumberGivenBack' /\ PlottedWhereInstalled' /\ ReservedOnShelf' /\ device' = device
    BY <2>2, ShelfTables DEF tables
  <2> QED BY <2>2, <2>3, <2>4, ShelfKept
<1>4. CASE \E i \in Imeis : RemoveDevice(p, i)
  <2>1. PICK i \in Imeis : RemoveDevice(p, i)
    BY <1>4
  <2> DEFINE j == [at |-> IF device[i].vehicle = None THEN "remove.delete"
                                                      ELSE "remove.uninstall", imei |-> i]
  <2>2. Start(p, "removeDevice", j) /\ UNCHANGED tables
    BY <2>1 DEF RemoveDevice
  <2>3. j.at \in {"remove.delete", "remove.uninstall"}
    OBVIOUS
  <2> HIDE DEF j
  <2> QED BY <2>2, <2>3, ShelfTables, ShelfStays DEF tables
<1>5. CASE \E v \in Vehicles : RemoveVehicle(p, v)
  <2>1. PICK v \in Vehicles : RemoveVehicle(p, v)
    BY <1>5
  <2> DEFINE j == [at |-> "removeVehicle.commit", veh |-> v,
                   holdsImei |-> vehicle[v].uid # None]
  <2>2. Start(p, "removeVehicle", j) /\ UNCHANGED tables
    BY <2>1 DEF RemoveVehicle
  <2>3. j.at = "removeVehicle.commit"
    OBVIOUS
  <2> HIDE DEF j
  <2> QED BY <2>2, <2>3, ShelfTables, ShelfStays DEF tables
<1>6. CASE \E i \in Imeis : Unassign(p, i) \/ RemoveItem(p, i) \/ ImportItem(p, i)
  <2>1. PICK i \in Imeis : Unassign(p, i) \/ RemoveItem(p, i) \/ ImportItem(p, i)
    BY <1>6
  <2>2. /\ \E op : Start(p, op, Idle)
        /\ device' = device /\ vehicle' = vehicle
    BY <2>1 DEF Unassign, RemoveItem, ImportItem
  <2>3. \A k \in Imeis : /\ item'[k].installed = item[k].installed
                         /\ item'[k].tech \in {item[k].tech, None}
    <3>1. CASE Unassign(p, i)
      BY <3>1 DEF Unassign, TypeOK, Item
    <3>2. CASE RemoveItem(p, i)
      BY <3>2 DEF RemoveItem, TypeOK, Item
    <3>3. CASE ImportItem(p, i)
      BY <3>3 DEF ImportItem, TypeOK, Item
    <3> QED BY <2>1, <3>1, <3>2, <3>3
  <2>4. NumberGivenBack' /\ PlottedWhereInstalled'
    BY <2>2 DEF ShelfInv, NumberGivenBack, PlottedWhereInstalled
  <2>5. ReservedOnShelf'
    BY <2>3 DEF ShelfInv, ReservedOnShelf
  <2>6. Idle.at = "idle"
    BY DEF Idle
  <2> QED BY <2>2, <2>4, <2>5, <2>6, ShelfStays
<1>8. /\ ~\E i \in Imeis, pl \in Plates : CreateVehicle(p, i, pl)
      /\ ~\E i \in Imeis, v \in Vehicles : LinkVehicle(p, i, v)
      /\ ~\E i \in Imeis, v \in MaybeVehicle : CreateDevice(p, i, v)
      /\ ~\E i \in Imeis : UnlinkVehicle(p, i)
  BY DEF CreateVehicle, LinkVehicle, CreateDevice, UnlinkVehicle, Start, ItemFollows, PlotsAlone
<1> QED
  BY <1>1, <1>2, <1>3, <1>4, <1>5, <1>6, <1>8 DEF Request

LEMMA ShelfContinue ==
  ASSUME OneAtATime, TypeOK, FieldMatchesStock, ShelfInv, NEW p \in Procs, Continue(p)
  PROVE  ShelfInv'
<1> DEFINE i == job[p].imei
           v == job[p].veh
           pl == job[p].plate
<1>0. /\ job[p] \in Job /\ job[p].at \notin AloneStages /\ NoteHolds(p)
      /\ device \in [Imeis -> Device] /\ vehicle \in [Vehicles -> Vehicle]
      /\ item \in [Imeis -> Item]
  BY DEF TypeOK, ShelfInv
<1>1. CASE AssociateFind(p)
  <2>1. i \in Imeis /\ pl \in Plates /\ ~item[i].installed /\ UNCHANGED tables
    BY <1>0, <1>1, JobFields DEF AssociateFind, NoteHolds
  <2>2. PICK c \in CarsFor(i, pl) :
             \E f \in IF DeletedHolders(i, c) = {} THEN {None} ELSE DeletedHolders(i, c) :
               Step(p, [at |-> "associate.commit", imei |-> i, plate |-> pl,
                        veh |-> c, freed |-> f])
    BY <1>1 DEF AssociateFind
  <2>3. PICK f : Step(p, [at |-> "associate.commit", imei |-> i, plate |-> pl,
                          veh |-> c, freed |-> f])
    BY <2>2
  <2>4. device[i].vehicle = None
    BY <2>1 DEF FieldMatchesStock
  <2>5. \A w \in Vehicles : vehicle[w].uid # i
    BY <2>1, <2>4, NoneAssumption DEF ShelfInv, NumberGivenBack
  <2>6. c # None => vehicle[c].plate = pl
    BY <2>5 DEF CarsFor
  <2> HIDE DEF i, pl
  <2> DEFINE j == [at |-> "associate.commit", imei |-> i, plate |-> pl,
                   veh |-> c, freed |-> f]
  <2>7. /\ j.at = "associate.commit" /\ j.veh = c /\ j.plate = pl
        /\ j.at \notin AloneStages /\ Step(p, j)
    BY <2>3 DEF AloneStages, DeviceOnly
  <2> HIDE DEF j
  <2>8. NumberGivenBack' /\ PlottedWhereInstalled' /\ ReservedOnShelf' /\ vehicle' = vehicle
    BY <2>1, ShelfTables DEF tables
  <2> QED BY <2>6, <2>7, <2>8, ShelfKept
<1>2. CASE AssociateCommit(p)
  <2>1. i \in Imeis /\ pl \in Plates /\ v \in MaybeVehicle /\ job[p].freed \in MaybeVehicle
    BY <1>0, <1>2, JobFields DEF AssociateCommit
  <2> DEFINE freed == job[p].freed
  <2>2. PICK w \in Target(v) :
          /\ CanInstall(i, w, pl, freed)
          /\ vehicle' = [x \in Vehicles |->
               [plate  |-> IF x = w THEN pl ELSE vehicle[x].plate,
                listed |-> x = w \/ vehicle[x].listed,
                uid    |-> IF x = w THEN i ELSE IF x = freed THEN None ELSE vehicle[x].uid,
                tid    |-> vehicle[x].tid]]
          /\ device' = [device EXCEPT ![i] =
               [row     |-> IF device[i].row = "none" THEN "live" ELSE device[i].row,
                vehicle |-> w,
                hasTid  |-> device[i].hasTid,
                status  |-> "INSTALLED"]]
          /\ item' = OutOfStock(i)
          /\ Step(p, [at |-> "associate.traccar", imei |-> i, veh |-> w])
    BY <1>2 DEF AssociateCommit
  <2>3. w \in Vehicles
    BY <2>1, <2>2, NoneAssumption DEF Target, MaybeVehicle
  <2> HIDE DEF i, pl, v, freed
  <2>4. /\ device'[i].vehicle = w /\ device[i].vehicle \in {None, w}
        /\ \A k \in Imeis \ {i} : device'[k].vehicle = device[k].vehicle
                                  /\ device[k].vehicle # w
    BY <1>0, <2>1, <2>2 DEF CanInstall, CarFree, TrackerFree, Device
  <2>5. \A x \in Vehicles : /\ vehicle'[x].tid = vehicle[x].tid
                            /\ x # w => vehicle'[x].uid \in {vehicle[x].uid, None}
                            /\ x # w /\ vehicle[x].uid = i => vehicle'[x].uid = None
                            /\ vehicle'[w].uid = i
    BY <2>1, <2>2, <2>3 DEF CanInstall, RowFree
  <2>6. NumberGivenBack'
    <3> SUFFICES ASSUME NEW x \in Vehicles, NEW k \in Imeis, vehicle'[x].uid = k
                 PROVE  device'[k].vehicle = x
      BY DEF NumberGivenBack
    <3>1. CASE x = w
      BY <2>3, <2>4, <2>5, <3>1
    <3>2. CASE x # w
      <4>1. vehicle[x].uid = k /\ k # i
        BY <2>5, <3>2, NoneAssumption
      <4> QED BY <2>4, <4>1 DEF ShelfInv, NumberGivenBack
    <3> QED BY <3>1, <3>2
  <2>7. PlottedWhereInstalled'
    <3> SUFFICES ASSUME NEW x \in Vehicles, NEW k \in Imeis, vehicle'[x].tid = k
                 PROVE  device'[k].vehicle = x
      BY DEF PlottedWhereInstalled
    <3>1. device[k].vehicle = x
      BY <2>5 DEF ShelfInv, PlottedWhereInstalled
    <3> QED BY <2>4, <3>1, NoneAssumption
  <2>8. ReservedOnShelf'
    BY <1>0, <2>1, <2>2 DEF OutOfStock, Item, ShelfInv, ReservedOnShelf
  <2> DEFINE j == [at |-> "associate.traccar", imei |-> i, veh |-> w]
  <2>9. /\ j.at = "associate.traccar" /\ j.veh = w /\ j.imei = i
        /\ j.at \notin AloneStages /\ Step(p, j)
    BY <2>2 DEF AloneStages, DeviceOnly
  <2> HIDE DEF j
  <2> QED BY <2>4, <2>6, <2>7, <2>8, <2>9, ShelfKept
<1>3. CASE AssociateAbort(p)
  BY <1>3, ShelfTables, ShelfStays DEF AssociateAbort, tables, Idle
<1>4. CASE AssociateTraccar(p)
  <2>1. i \in Imeis /\ v \in Vehicles /\ device[i].vehicle = v
    BY <1>0, <1>4, JobFields DEF AssociateTraccar, NoteHolds
  <2>2. Step(p, Idle) /\ Idle.at = "idle" /\ item' = item
    BY <1>4 DEF AssociateTraccar, Idle
  <2>3. /\ \A k \in Imeis : device'[k].vehicle = device[k].vehicle
        /\ \A x \in Vehicles : /\ vehicle'[x].uid = vehicle[x].uid
                               /\ \/ vehicle'[x].tid = vehicle[x].tid
                                  \/ x = v /\ vehicle'[x].tid = i
    <3>1. Plot(i, v) \/ UNCHANGED <<device, vehicle>>
      BY <1>4 DEF AssociateTraccar
    <3> HIDE DEF i, v
    <3>2. CASE UNCHANGED <<device, vehicle>>
      BY <3>2
    <3>3. CASE Plot(i, v)
      <4>1. \A k \in Imeis : device'[k].vehicle = device[k].vehicle
        BY <1>0, <2>1, <3>3 DEF Plot, Device
      <4>2. vehicle' = [vehicle EXCEPT ![v].tid = i]
        BY <3>3 DEF Plot
      <4> QED BY <1>0, <2>1, <4>1, <4>2 DEF Vehicle
    <3> QED BY <3>1, <3>2, <3>3
  <2> HIDE DEF i, v
  <2>4. NumberGivenBack' /\ PlottedWhereInstalled' /\ ReservedOnShelf'
    BY <2>1, <2>2, <2>3 DEF ShelfInv, NumberGivenBack, PlottedWhereInstalled, ReservedOnShelf
  <2> QED BY <2>2, <2>4, ShelfStays
<1>5. CASE UninstallCommit(p)
  <2>1. i \in Imeis /\ v \in MaybeVehicle /\ device[i].vehicle = v
    BY <1>0, <1>5, JobFields DEF UninstallCommit, NoteHolds
  <2> DEFINE j == IF job[p].delete THEN [at |-> "remove.delete", imei |-> i] ELSE Idle
  <2>2. Step(p, j) /\ j.at \in {"remove.delete", "idle"}
    BY <1>5 DEF UninstallCommit, Idle
  <2> HIDE DEF j
  <2>3. /\ device'[i].vehicle = None
        /\ \A k \in Imeis \ {i} : device'[k].vehicle = device[k].vehicle
    BY <1>0, <1>5, <2>1 DEF UninstallCommit, Device
  <2>4. \A x \in Vehicles :
          /\ x = v => vehicle'[x].uid = None /\ vehicle'[x].tid = None
          /\ x # v => vehicle'[x] = vehicle[x]
    BY <1>0, <1>5, <2>1, NoneAssumption DEF UninstallCommit, Retired, MaybeVehicle, Vehicle
  <2>5. \A k \in Imeis : /\ item'[k].tech = item[k].tech
                         /\ item'[k].installed => item[k].installed
    BY <1>0, <1>5, <2>1 DEF UninstallCommit, BackInStock, Item
  <2> HIDE DEF i, v
  <2>6. NumberGivenBack' /\ PlottedWhereInstalled'
    <3>1. ASSUME NEW x \in Vehicles, NEW k \in Imeis, vehicle[x] = vehicle'[x],
                 device[k].vehicle = x, x # v
          PROVE  device'[k].vehicle = x
      BY <2>1, <2>3, <3>1
    <3>2. \A x \in Vehicles, k \in Imeis :
            /\ vehicle'[x].uid = k => x # v /\ vehicle[x] = vehicle'[x]
            /\ vehicle'[x].tid = k => x # v /\ vehicle[x] = vehicle'[x]
      BY <2>4, NoneAssumption
    <3>3. /\ \A x \in Vehicles, k \in Imeis : vehicle[x].uid = k => device[k].vehicle = x
          /\ \A x \in Vehicles, k \in Imeis : vehicle[x].tid = k => device[k].vehicle = x
      BY DEF ShelfInv, NumberGivenBack, PlottedWhereInstalled
    <3>4. NumberGivenBack'
      BY <3>1, <3>2, <3>3 DEF NumberGivenBack
    <3>5. PlottedWhereInstalled'
      BY <3>1, <3>2, <3>3 DEF PlottedWhereInstalled
    <3> QED BY <3>4, <3>5
  <2>7. ReservedOnShelf'
    BY <2>5 DEF ShelfInv, ReservedOnShelf
  <2> QED BY <2>2, <2>6, <2>7, ShelfStays
<1>6. CASE RemoveDeviceUninstall(p)
  <2>1. i \in Imeis /\ UNCHANGED tables
    BY <1>0, <1>6, JobFields DEF RemoveDeviceUninstall
  <2>2. NumberGivenBack' /\ PlottedWhereInstalled' /\ ReservedOnShelf' /\ device' = device
    BY <2>1, ShelfTables DEF tables
  <2>3. CASE Step(p, Idle)
    BY <2>2, <2>3, ShelfStays DEF Idle
  <2>4. CASE Step(p, [at |-> "uninstall.commit", imei |-> i,
                      veh |-> device[i].vehicle, delete |-> TRUE])
    <3> HIDE DEF i
    <3> DEFINE j == [at |-> "uninstall.commit", imei |-> i,
                     veh |-> device[i].vehicle, delete |-> TRUE]
    <3>1. /\ j.at = "uninstall.commit" /\ j.imei = i /\ j.veh = device[i].vehicle
          /\ j.at \notin AloneStages /\ Step(p, j)
      BY <2>4 DEF AloneStages, DeviceOnly
    <3> HIDE DEF j
    <3> QED BY <2>2, <3>1, ShelfKept
  <2> QED BY <1>6, <2>3, <2>4 DEF RemoveDeviceUninstall
<1>7. CASE RemoveDeviceDelete(p)
  <2>1. i \in Imeis
    BY <1>0, <1>7, JobFields DEF RemoveDeviceDelete
  <2>2. Step(p, Idle) /\ Idle.at = "idle" /\ item' = item /\ vehicle' = vehicle
    BY <1>7 DEF RemoveDeviceDelete, Idle
  <2>3. \A k \in Imeis : device'[k].vehicle = device[k].vehicle
    BY <1>0, <1>7, <2>1 DEF RemoveDeviceDelete, Device
  <2>4. NumberGivenBack' /\ PlottedWhereInstalled' /\ ReservedOnShelf'
    BY <2>2, <2>3 DEF ShelfInv, NumberGivenBack, PlottedWhereInstalled, ReservedOnShelf
  <2> QED BY <2>2, <2>4, ShelfStays
<1>8. CASE AssignCommit(p)
  <2>1. i \in Imeis /\ ~item[i].installed
    BY <1>0, <1>8, JobFields DEF AssignCommit, NoteHolds
  <2>2. Step(p, Idle) /\ Idle.at = "idle" /\ device' = device /\ vehicle' = vehicle
    BY <1>8 DEF AssignCommit, Idle
  <2>3. \A k \in Imeis : /\ item'[k].installed = item[k].installed
                         /\ k # i => item'[k].tech = item[k].tech
    BY <1>0, <1>8, <2>1 DEF AssignCommit, Item
  <2> HIDE DEF i
  <2>4. NumberGivenBack' /\ PlottedWhereInstalled' /\ ReservedOnShelf'
    BY <2>1, <2>2, <2>3 DEF ShelfInv, NumberGivenBack, PlottedWhereInstalled, ReservedOnShelf
  <2> QED BY <2>2, <2>4, ShelfStays
<1>9. CASE RemoveVehicleCommit(p)
  <2>1. v \in Vehicles
    BY <1>0, <1>9, JobFields DEF RemoveVehicleCommit
  <2>2. Step(p, Idle) /\ Idle.at = "idle" /\ device' = device /\ item' = item
    BY <1>9 DEF RemoveVehicleCommit, Idle
  <2>3. \A x \in Vehicles : /\ vehicle'[x].tid = vehicle[x].tid
                            /\ vehicle'[x].uid \in {vehicle[x].uid, None}
    BY <1>0, <1>9, <2>1 DEF RemoveVehicleCommit, Vehicle
  <2>4. NumberGivenBack' /\ PlottedWhereInstalled' /\ ReservedOnShelf'
    BY <2>2, <2>3, NoneAssumption
       DEF ShelfInv, NumberGivenBack, PlottedWhereInstalled, ReservedOnShelf
  <2> QED BY <2>2, <2>4, ShelfStays
<1>10. /\ ~CreateVehicleCommit(p) /\ ~CreateDeviceCommit(p) /\ ~CreateDeviceTraccar(p)
       /\ ~LinkDevice(p) /\ ~LinkPlot(p) /\ ~UnlinkPlot(p) /\ ~UnlinkDevice(p)
  BY <1>0 DEF CreateVehicleCommit, CreateDeviceCommit, CreateDeviceTraccar, LinkDevice,
     LinkPlot, UnlinkPlot, UnlinkDevice, AloneStages, DeviceOnly
<1> QED
  BY <1>1, <1>2, <1>3, <1>4, <1>5, <1>6, <1>7, <1>8, <1>9, <1>10 DEF Continue

LEMMA ShelfStep ==
  ASSUME OneAtATime, TypeOK, FieldMatchesStock, ShelfInv,
         Ops \cap (ItemFollows \cup PlotsAlone) = {}, [Next]_vars
  PROVE  ShelfInv'
<1>1. ~ReconcileRead /\ ~ReconcileOne
  BY DEF ReconcileRead, ReconcileOne, PlotsAlone, ShelfInv
<1>2. CASE TraccarFails \/ TraccarReturns \/ UNCHANGED vars
  <2>1. UNCHANGED <<item, device, vehicle, job, sweep>>
    BY <1>2 DEF TraccarFails, TraccarReturns, vars, tables
  <2>2. NumberGivenBack' /\ PlottedWhereInstalled' /\ ReservedOnShelf'
    BY <2>1, ShelfTables
  <2>3. \A p \in Procs : NoteHolds(p)'
    BY <2>1 DEF ShelfInv, NoteHolds
  <2> QED BY <2>1, <2>2, <2>3 DEF ShelfInv
<1> QED BY <1>1, <1>2, ShelfRequest, ShelfContinue DEF Next

LEMMA ShelfInvariant ==
  ASSUME OneAtATime, Ops \cap (ItemFollows \cup PlotsAlone) = {}
  PROVE  Spec => [](TypeOK /\ ShelfInv)
<1>0. Ops \cap ItemFollows = {}
  OBVIOUS
<1>1. Init => ShelfInv
  BY NoneAssumption DEF Init, ShelfInv, NoteHolds, Idle, AloneStages, DeviceOnly,
     NumberGivenBack, PlottedWhereInstalled, ReservedOnShelf
<1>2. TypeOK /\ FieldMatchesStock /\ ShelfInv /\ [Next]_vars => ShelfInv'
  BY ShelfStep
<1>3. Spec => []FieldMatchesStock
  BY <1>0, FieldTheorem
<1> QED BY <1>1, <1>2, <1>3, TypeTheorem, PTL DEF Spec

(* While requests follow one another, a car is drawn from the tracker that   *)
(* is in it: uninstall clears the Traccar id of the car it read, and         *)
(* associate lets no tracker into a second car.  A request that crosses      *)
(* another, or a late reconciliation, plots what it read and breaks this     *)
(* (lifecycle_late_reconcile).                                               *)
THEOREM PlottedTheorem ==
  ASSUME OneAtATime, Ops \cap (ItemFollows \cup PlotsAlone) = {}
  PROVE  Spec => []PlottedWhereInstalled
<1>1. ShelfInv => PlottedWhereInstalled
  BY DEF ShelfInv
<1> QED BY <1>1, ShelfInvariant, PTL

(* While requests follow one another, an installed tracker is in no          *)
(* technician's bag: assign refuses an installed item, and associate empties *)
(* the bag in the transaction that installs.                                 *)
THEOREM ReservedTheorem ==
  ASSUME OneAtATime, Ops \cap (ItemFollows \cup PlotsAlone) = {}
  PROVE  Spec => []ReservedOnShelf
<1>1. ShelfInv => ReservedOnShelf
  BY DEF ShelfInv
<1> QED BY <1>1, ShelfInvariant, PTL

(* associate finds a car by plate or by the number of the tracker.  While    *)
(* requests follow one another no car holds the number of a tracker that is  *)
(* on the shelf, so a record is never written over with another plate.       *)
THEOREM RecordTheorem ==
  ASSUME OneAtATime, Ops \cap (ItemFollows \cup PlotsAlone) = {}
  PROVE  Spec => CarKeepsItsRecord
<1>1. ASSUME TypeOK, ShelfInv, [Next]_vars
      PROVE  [\A v \in Vehicles : vehicle[v].plate # None
                                    => vehicle'[v].plate = vehicle[v].plate]_vars
  <2> SUFFICES ASSUME NEW v \in Vehicles, vehicle[v].plate # None
               PROVE  vehicle'[v].plate = vehicle[v].plate
    OBVIOUS
  <2>0. vehicle \in [Vehicles -> Vehicle]
    BY <1>1 DEF TypeOK
  <2>1. CASE vehicle' = vehicle
    BY <2>1
  <2>2. ASSUME NEW p \in Procs, Request(p)
        PROVE  vehicle' = vehicle
    BY <2>2 DEF Request, Associate, CreateVehicle, Assign, LinkVehicle, CreateDevice,
       Uninstall, RemoveDevice, UnlinkVehicle, Unassign, RemoveItem, ImportItem,
       RemoveVehicle, tables
  <2>3. ASSUME NEW p \in Procs, Continue(p)
        PROVE  vehicle'[v].plate = vehicle[v].plate
    <3>0. job[p] \in Job /\ NoteHolds(p) /\ job[p].at \notin AloneStages
      BY <1>1 DEF TypeOK, ShelfInv
    <3>1. CASE AssociateCommit(p)
      <4>1. PICK w \in Target(job[p].veh) :
              vehicle' = [x \in Vehicles |->
                [plate  |-> IF x = w THEN job[p].plate ELSE vehicle[x].plate,
                 listed |-> x = w \/ vehicle[x].listed,
                 uid    |-> IF x = w THEN job[p].imei
                            ELSE IF x = job[p].freed THEN None ELSE vehicle[x].uid,
                 tid    |-> vehicle[x].tid]]
        BY <3>1 DEF AssociateCommit
      <4>2. vehicle'[v].plate = IF v = w THEN job[p].plate ELSE vehicle[v].plate
        BY <4>1
      <4>3. v = w => vehicle[v].plate = job[p].plate
        BY <3>0, <3>1, <4>1 DEF AssociateCommit, NoteHolds, Target
      <4> QED BY <4>2, <4>3
    <3>2. CASE AssociateTraccar(p)
      <4>1. job[p].veh \in Vehicles
        BY <3>0, <3>2, JobFields DEF AssociateTraccar
      <4> QED BY <2>0, <3>2, <4>1 DEF AssociateTraccar, Plot, Vehicle
    <3>3. CASE UninstallCommit(p)
      <4>1. job[p].veh \in MaybeVehicle
        BY <3>0, <3>3, JobFields DEF UninstallCommit
      <4> QED BY <2>0, <3>3, <4>1 DEF UninstallCommit, Retired, MaybeVehicle, Vehicle
    <3>4. CASE RemoveVehicleCommit(p)
      BY <2>0, <3>4 DEF RemoveVehicleCommit, Vehicle
    <3>5. CASE vehicle' = vehicle
      BY <3>5
    <3>6. /\ ~CreateVehicleCommit(p) /\ ~CreateDeviceCommit(p) /\ ~CreateDeviceTraccar(p)
          /\ ~LinkDevice(p) /\ ~LinkPlot(p) /\ ~UnlinkPlot(p) /\ ~UnlinkDevice(p)
      BY <3>0 DEF CreateVehicleCommit, CreateDeviceCommit, CreateDeviceTraccar, LinkDevice,
         LinkPlot, UnlinkPlot, UnlinkDevice, AloneStages, DeviceOnly
    <3> QED
      BY <2>3, <3>1, <3>2, <3>3, <3>4, <3>5, <3>6 DEF Continue, AssociateFind,
         AssociateAbort, RemoveDeviceUninstall, RemoveDeviceDelete, AssignCommit, tables
  <2>4. ~ReconcileOne
    BY <1>1 DEF ReconcileOne, ShelfInv
  <2>5. ASSUME ReconcileRead \/ TraccarFails \/ TraccarReturns \/ UNCHANGED vars
        PROVE  vehicle' = vehicle
    BY <2>5 DEF ReconcileRead, TraccarFails, TraccarReturns, vars, tables
  <2> QED BY <1>1, <2>1, <2>2, <2>3, <2>4, <2>5 DEF Next
<1> QED BY <1>1, ShelfInvariant, PTL DEF Spec, CarKeepsItsRecord

-------------------------------------------------------------------------------
(* Settled: every endpoint but the reconciliation, one request at a time,    *)
(* with Traccar answering.                                                   *)

(* What is left to check of a request that moves while it is alone: what it  *)
(* notes holds, and who is not drawn is about to be.                         *)
LEMMA SettledKept ==
  ASSUME OneAtATime, TypeOK, SettledInv, NEW p \in Procs, NEW j,
         Step(p, j) \/ \E op : Start(p, op, j),
         /\ j.at \in {"associate.traccar", "createDevice.traccar", "link.vehicle",
                      "uninstall.commit", "unlink.vehicle"} =>
              device'[j.imei].vehicle = j.veh
         /\ j.at \in {"createDevice.commit", "link.device"} /\ j.veh # None =>
              vehicle'[j.veh].plate # None
         /\ j.at = "link.device" => (j.hasTid <=> device'[j.imei].hasTid),
         OneTrackerPerCar', CarsAreWritten',
         \A k \in Imeis, x \in Vehicles :
           device'[k].vehicle = x /\ device'[k].hasTid =>
             vehicle'[x].tid = k \/ (j.at \in Redrawing /\ j.imei = k)
  PROVE  SettledInv'
<1>1. (\A q \in Procs : job'[q] = j) /\ sweep' = sweep
  BY AloneMoves
<1>2. \A q \in Procs : DeviceNoteHolds(q)'
  BY <1>1 DEF DeviceNoteHolds
<1>3. DrawnInv'
  BY <1>1 DEF DrawnInv
<1>4. traccarUp'
  BY DEF SettledInv, Step, Start, world
<1> QED BY <1>1, <1>2, <1>3, <1>4 DEF SettledInv

(* Only the request that moves can have left a tracker undrawn.              *)
LEMMA DrawnBut ==
  ASSUME OneAtATime, SettledInv, NEW p \in Procs
  PROVE  /\ \A k \in Imeis, x \in Vehicles :
              device[k].vehicle = x /\ device[k].hasTid =>
                vehicle[x].tid = k \/ (job[p].at \in Redrawing /\ job[p].imei = k)
         /\ DeviceNoteHolds(p)
BY DEF OneAtATime, SettledInv, DrawnInv

(* A move that writes neither devices nor vehicles.                          *)
LEMMA SettledStays ==
  ASSUME OneAtATime, TypeOK, SettledInv, NEW p \in Procs, NEW j,
         Step(p, j) \/ \E op : Start(p, op, j),
         device' = device, vehicle' = vehicle, job[p].at \notin Redrawing,
         /\ j.at \in {"associate.traccar", "createDevice.traccar", "link.vehicle",
                      "uninstall.commit", "unlink.vehicle"} =>
              device[j.imei].vehicle = j.veh
         /\ j.at \in {"createDevice.commit", "link.device"} /\ j.veh # None =>
              vehicle[j.veh].plate # None
         /\ j.at = "link.device" => (j.hasTid <=> device[j.imei].hasTid)
  PROVE  SettledInv'
<1>1. OneTrackerPerCar' /\ CarsAreWritten'
  BY DEF SettledInv, OneTrackerPerCar, CarsAreWritten
<1>2. \A k \in Imeis, x \in Vehicles :
        device'[k].vehicle = x /\ device'[k].hasTid => vehicle'[x].tid = k
  BY DrawnBut
<1> QED BY <1>1, <1>2, SettledKept

(* The stages at which nothing was noted of a device.                        *)
Careless ==
  {"idle", "associate.find", "associate.commit", "createVehicle.commit", "assign.commit",
   "remove.uninstall", "remove.delete", "removeVehicle.commit", "unlink.device"}

LEMMA SettledCareless ==
  ASSUME OneAtATime, TypeOK, SettledInv, NEW p \in Procs, NEW j,
         Step(p, j) \/ \E op : Start(p, op, j),
         device' = device, vehicle' = vehicle, job[p].at \notin Redrawing, j.at \in Careless
  PROVE  SettledInv'
BY SettledStays DEF Careless

LEMMA SettledRequest ==
  ASSUME OneAtATime, TypeOK, SettledInv, NEW p \in Procs, Request(p)
  PROVE  SettledInv'
<1>0. (\E op, j : Start(p, op, j)) => job[p].at \notin Redrawing
  BY DEF Start, Idle, Redrawing
<1>1. CASE \E i \in Imeis, v \in Vehicles : LinkVehicle(p, i, v)
  <2>1. PICK i \in Imeis, v \in Vehicles : LinkVehicle(p, i, v)
    BY <1>1
  <2> DEFINE j == [at |-> "link.device", imei |-> i, veh |-> v,
                   hasTid |-> device[i].hasTid, status |-> device[i].status]
  <2>2. Start(p, "linkVehicle", j) /\ UNCHANGED tables /\ vehicle[v].listed
    BY <2>1 DEF LinkVehicle
  <2>3. /\ j.at = "link.device" /\ j.imei = i /\ j.veh = v
        /\ j.hasTid = device[i].hasTid
    OBVIOUS
  <2> HIDE DEF j
  <2>4. vehicle[v].plate # None
    BY <2>2 DEF SettledInv, CarsAreWritten
  <2> QED BY <1>0, <2>2, <2>3, <2>4, SettledStays DEF tables
<1>2. CASE \E i \in Imeis, v \in MaybeVehicle : CreateDevice(p, i, v)
  <2>1. PICK i \in Imeis, v \in MaybeVehicle : CreateDevice(p, i, v)
    BY <1>2
  <2> DEFINE j == [at |-> "createDevice.commit", imei |-> i, veh |-> v]
  <2>2. /\ Start(p, "createDevice", j) /\ UNCHANGED tables
        /\ v # None => vehicle[v].listed
    BY <2>1 DEF CreateDevice
  <2>3. j.at = "createDevice.commit" /\ j.imei = i /\ j.veh = v
    OBVIOUS
  <2> HIDE DEF j
  <2>4. v # None => vehicle[v].plate # None
    BY <2>2 DEF SettledInv, CarsAreWritten, MaybeVehicle
  <2> QED BY <1>0, <2>2, <2>3, <2>4, SettledStays DEF tables
<1>3. CASE \E i \in Imeis : Uninstall(p, i)
  <2>1. PICK i \in Imeis : Uninstall(p, i)
    BY <1>3
  <2> DEFINE j == [at |-> "uninstall.commit", imei |-> i, veh |-> device[i].vehicle,
                   delete |-> FALSE]
  <2>2. Start(p, "uninstall", j) /\ UNCHANGED tables
    BY <2>1 DEF Uninstall
  <2>3. j.at = "uninstall.commit" /\ j.imei = i /\ j.veh = device[i].vehicle
    OBVIOUS
  <2> HIDE DEF j
  <2> QED BY <1>0, <2>2, <2>3, SettledStays DEF tables
<1>4. CASE \E i \in Imeis : UnlinkVehicle(p, i)
  <2>1. PICK i \in Imeis : UnlinkVehicle(p, i)
    BY <1>4
  <2> DEFINE plots == [at |-> "unlink.vehicle", imei |-> i, veh |-> device[i].vehicle]
             frees == [at |-> "unlink.device", imei |-> i]
  <2>2. /\ Start(p, "unlinkVehicle", plots) \/ Start(p, "unlinkVehicle", frees)
        /\ UNCHANGED tables
    BY <2>1 DEF UnlinkVehicle
  <2>3. /\ plots.at = "unlink.vehicle" /\ plots.imei = i /\ plots.veh = device[i].vehicle
        /\ frees.at = "unlink.device"
    OBVIOUS
  <2> HIDE DEF plots, frees
  <2>4. CASE Start(p, "unlinkVehicle", plots)
    BY <1>0, <2>2, <2>3, <2>4, SettledStays DEF tables
  <2>5. CASE Start(p, "unlinkVehicle", frees)
    BY <1>0, <2>2, <2>3, <2>5, SettledCareless DEF tables, Careless
  <2> QED BY <2>2, <2>4, <2>5
<1>5. ASSUME NEW op, NEW j, Start(p, op, j), device' = device, vehicle' = vehicle,
             j.at \in Careless
      PROVE  SettledInv'
  BY <1>0, <1>5, SettledCareless
<1>6. CASE \E i \in Imeis, pl \in Plates : Associate(p, i, pl) \/ CreateVehicle(p, i, pl)
  BY <1>5, <1>6 DEF Associate, CreateVehicle, Careless, tables
<1>7. CASE \E i \in Imeis, t \in Technicians : Assign(p, i, t)
  BY <1>5, <1>7 DEF Assign, Careless, tables
<1>8. CASE \E i \in Imeis : Unassign(p, i) \/ RemoveItem(p, i) \/ ImportItem(p, i)
  BY <1>5, <1>8 DEF Unassign, RemoveItem, ImportItem, Careless, Idle
<1>9. CASE \E i \in Imeis : RemoveDevice(p, i)
  BY <1>5, <1>9 DEF RemoveDevice, Careless, tables
<1>10. CASE \E v \in Vehicles : RemoveVehicle(p, v)
  BY <1>5, <1>10 DEF RemoveVehicle, Careless, tables
<1> QED
  BY <1>1, <1>2, <1>3, <1>4, <1>6, <1>7, <1>8, <1>9, <1>10 DEF Request

LEMMA SettledContinue ==
  ASSUME OneAtATime, TypeOK, SettledInv, NEW p \in Procs, Continue(p)
  PROVE  SettledInv'
<1> DEFINE i == job[p].imei
           v == job[p].veh
           pl == job[p].plate
<1>0. /\ job[p] \in Job /\ DeviceNoteHolds(p)
      /\ device \in [Imeis -> Device] /\ vehicle \in [Vehicles -> Vehicle]
  BY DEF TypeOK, SettledInv
<1>t. /\ OneTrackerPerCar /\ CarsAreWritten /\ traccarUp
      /\ \A k \in Imeis, x \in Vehicles :
           device[k].vehicle = x /\ device[k].hasTid =>
             vehicle[x].tid = k \/ (job[p].at \in Redrawing /\ job[p].imei = k)
  BY DrawnBut DEF SettledInv
<1>c. ASSUME NEW j, Step(p, j), device' = device, vehicle' = vehicle,
             job[p].at \notin Redrawing, j.at \in Careless
      PROVE  SettledInv'
  BY <1>c, SettledCareless
<1>1. CASE AssociateFind(p)
  <2>1. \E c, f : Step(p, [at |-> "associate.commit", imei |-> i, plate |-> pl,
                           veh |-> c, freed |-> f])
    BY <1>1 DEF AssociateFind
  <2>2. UNCHANGED tables /\ job[p].at \notin Redrawing
    BY <1>1 DEF AssociateFind, Redrawing
  <2> QED BY <1>c, <2>1, <2>2 DEF tables, Careless
<1>2. CASE AssociateCommit(p)
  <2>1. i \in Imeis /\ pl \in Plates /\ v \in MaybeVehicle
    BY <1>0, <1>2, JobFields DEF AssociateCommit
  <2>2. PICK w \in Target(v) :
          /\ CanInstall(i, w, pl, job[p].freed)
          /\ vehicle' = [x \in Vehicles |->
               [plate  |-> IF x = w THEN pl ELSE vehicle[x].plate,
                listed |-> x = w \/ vehicle[x].listed,
                uid    |-> IF x = w THEN i
                           ELSE IF x = job[p].freed THEN None ELSE vehicle[x].uid,
                tid    |-> vehicle[x].tid]]
          /\ device' = [device EXCEPT ![i] =
               [row     |-> IF device[i].row = "none" THEN "live" ELSE device[i].row,
                vehicle |-> w,
                hasTid  |-> device[i].hasTid,
                status  |-> "INSTALLED"]]
          /\ Step(p, [at |-> "associate.traccar", imei |-> i, veh |-> w])
    BY <1>2 DEF AssociateCommit
  <2>3. w \in Vehicles
    BY <2>1, <2>2, NoneAssumption DEF Target, MaybeVehicle
  <2>0. job[p].at \notin Redrawing
    BY <1>2 DEF AssociateCommit, Redrawing
  <2> HIDE DEF i, pl, v
  <2>4. /\ device'[i].vehicle = w
        /\ \A k \in Imeis \ {i} : device'[k] = device[k] /\ device[k].vehicle # w
    BY <1>0, <2>1, <2>2 DEF CanInstall, CarFree
  <2>5. \A x \in Vehicles : /\ vehicle'[x].tid = vehicle[x].tid
                            /\ x # w => vehicle'[x].plate = vehicle[x].plate
                            /\ x # w => (vehicle'[x].listed <=> vehicle[x].listed)
                            /\ vehicle'[w].plate = pl
    BY <2>2, <2>3
  <2>6. OneTrackerPerCar'
    BY <1>t, <2>4 DEF OneTrackerPerCar
  <2>7. CarsAreWritten'
    BY <1>t, <2>1, <2>4, <2>5, NoneAssumption DEF CarsAreWritten
  <2> DEFINE j == [at |-> "associate.traccar", imei |-> i, veh |-> w]
  <2>8. j.at = "associate.traccar" /\ j.veh = w /\ j.imei = i /\ Step(p, j)
    BY <2>2
  <2>9. j.at \in Redrawing
    BY <2>8 DEF Redrawing
  <2> HIDE DEF j
  <2>10. \A k \in Imeis, x \in Vehicles :
           device'[k].vehicle = x /\ device'[k].hasTid =>
             vehicle'[x].tid = k \/ (j.at \in Redrawing /\ j.imei = k)
    BY <1>t, <2>0, <2>4, <2>5, <2>8, <2>9
  <2> QED BY <2>4, <2>6, <2>7, <2>8, <2>10, SettledKept
<1>3. CASE AssociateAbort(p)
  BY <1>c, <1>3 DEF AssociateAbort, tables, Idle, Careless, Redrawing
<1>4. CASE AssociateTraccar(p) \/ LinkPlot(p)
  <2>1. i \in Imeis /\ v \in Vehicles /\ device[i].vehicle = v
    BY <1>0, <1>4, JobFields DEF AssociateTraccar, LinkPlot, DeviceNoteHolds
  <2>2. Step(p, Idle) /\ Idle.at = "idle"
    BY <1>4 DEF AssociateTraccar, LinkPlot, Idle
  <2>3. /\ vehicle' = [vehicle EXCEPT ![v].tid = i]
        /\ device' = device \/ device' = [device EXCEPT ![i].hasTid = TRUE]
    BY <1>t, <1>4 DEF AssociateTraccar, LinkPlot, Plot
  <2>i. \A k \in Imeis : job[p].imei = k => k = i
    OBVIOUS
  <2> HIDE DEF i, v
  <2>4. /\ \A k \in Imeis : device'[k].vehicle = device[k].vehicle
        /\ \A k \in Imeis \ {i} : device'[k] = device[k]
    BY <1>0, <2>1, <2>3 DEF Device
  <2>5. \A x \in Vehicles : /\ vehicle'[x].plate = vehicle[x].plate
                            /\ vehicle'[x].listed = vehicle[x].listed
                            /\ vehicle'[x].tid = IF x = v THEN i ELSE vehicle[x].tid
    BY <1>0, <2>1, <2>3 DEF Vehicle
  <2>6. OneTrackerPerCar' /\ CarsAreWritten'
    BY <1>t, <2>4, <2>5 DEF OneTrackerPerCar, CarsAreWritten
  <2>7. ASSUME NEW k \in Imeis, NEW x \in Vehicles, device'[k].vehicle = x, device'[k].hasTid
        PROVE  vehicle'[x].tid = k
    <3>1. CASE k = i
      BY <2>1, <2>4, <2>5, <2>7, <3>1
    <3>2. CASE k # i
      <4>1. device[k].vehicle = x /\ device[k].hasTid
        BY <2>4, <2>7, <3>2
      <4>2. x # v
        BY <1>t, <2>1, <3>2, <4>1 DEF OneTrackerPerCar
      <4> QED BY <1>t, <2>i, <2>5, <3>2, <4>1, <4>2
    <3> QED BY <3>1, <3>2
  <2> QED BY <2>2, <2>6, <2>7, SettledKept
<1>5. CASE UninstallCommit(p)
  <2>1. i \in Imeis /\ v \in MaybeVehicle /\ device[i].vehicle = v
    BY <1>0, <1>5, JobFields DEF UninstallCommit, DeviceNoteHolds
  <2> DEFINE j == IF job[p].delete THEN [at |-> "remove.delete", imei |-> i] ELSE Idle
  <2>2. Step(p, j) /\ j.at \in {"remove.delete", "idle"}
    BY <1>5 DEF UninstallCommit, Idle
  <2>0. job[p].at \notin Redrawing
    BY <1>5 DEF UninstallCommit, Redrawing
  <2> HIDE DEF j
  <2>3. device'[i].vehicle = None /\ \A k \in Imeis \ {i} : device'[k] = device[k]
    BY <1>0, <1>5, <2>1 DEF UninstallCommit, Device
  <2>4. \A x \in Vehicles :
          /\ vehicle'[x].plate = vehicle[x].plate /\ vehicle'[x].listed = vehicle[x].listed
          /\ x # v => vehicle'[x].tid = vehicle[x].tid
    BY <1>0, <1>5, <2>1, NoneAssumption DEF UninstallCommit, Retired, MaybeVehicle, Vehicle
  <2> HIDE DEF i, v
  <2>5. OneTrackerPerCar' /\ CarsAreWritten'
    BY <1>t, <2>3, <2>4, NoneAssumption DEF OneTrackerPerCar, CarsAreWritten
  <2>6. ASSUME NEW k \in Imeis, NEW x \in Vehicles, device'[k].vehicle = x, device'[k].hasTid
        PROVE  vehicle'[x].tid = k
    <3>1. k # i /\ device[k].vehicle = x /\ device[k].hasTid
      BY <2>3, <2>6, NoneAssumption
    <3>2. x # v
      BY <1>t, <2>1, <3>1 DEF OneTrackerPerCar
    <3> QED BY <1>t, <2>0, <2>4, <3>1, <3>2
  <2> QED BY <2>2, <2>5, <2>6, SettledKept
<1>6. CASE RemoveDeviceUninstall(p)
  <2>1. UNCHANGED tables /\ job[p].at \notin Redrawing
    BY <1>6 DEF RemoveDeviceUninstall, Redrawing
  <2>2. CASE Step(p, Idle)
    BY <1>c, <2>1, <2>2 DEF Idle, tables, Careless
  <2>3. CASE Step(p, [at |-> "uninstall.commit", imei |-> i,
                      veh |-> device[i].vehicle, delete |-> TRUE])
    <3> HIDE DEF i
    <3> DEFINE j == [at |-> "uninstall.commit", imei |-> i,
                     veh |-> device[i].vehicle, delete |-> TRUE]
    <3>1. /\ j.at = "uninstall.commit" /\ j.imei = i /\ j.veh = device[i].vehicle
          /\ Step(p, j)
      BY <2>3
    <3> HIDE DEF j
    <3> QED BY <2>1, <3>1, SettledStays DEF tables
  <2> QED BY <1>6, <2>2, <2>3 DEF RemoveDeviceUninstall
<1>7. CASE RemoveDeviceDelete(p)
  <2>1. i \in Imeis /\ job[p].at \notin Redrawing
    BY <1>0, <1>7, JobFields DEF RemoveDeviceDelete, Redrawing
  <2>2. Step(p, Idle) /\ Idle.at = "idle" /\ vehicle' = vehicle
    BY <1>7 DEF RemoveDeviceDelete, Idle
  <2>3. \A k \in Imeis : /\ device'[k].vehicle = device[k].vehicle
                         /\ device'[k].hasTid = device[k].hasTid
    BY <1>0, <1>7, <2>1 DEF RemoveDeviceDelete, Device
  <2>4. OneTrackerPerCar' /\ CarsAreWritten'
    BY <1>t, <2>2, <2>3 DEF OneTrackerPerCar, CarsAreWritten
  <2>5. \A k \in Imeis, x \in Vehicles :
          device'[k].vehicle = x /\ device'[k].hasTid => vehicle'[x].tid = k
    BY <1>t, <2>1, <2>2, <2>3
  <2> QED BY <2>2, <2>4, <2>5, SettledKept
<1>8. CASE AssignCommit(p)
  BY <1>c, <1>8 DEF AssignCommit, Idle, Careless, Redrawing
<1>9. CASE CreateVehicleCommit(p)
  <2>1. i \in Imeis /\ pl \in Plates /\ job[p].at \notin Redrawing
    BY <1>0, <1>9, JobFields DEF CreateVehicleCommit, Redrawing
  <2>2. Step(p, Idle) /\ Idle.at = "idle" /\ device' = device
    BY <1>9 DEF CreateVehicleCommit, Idle
  <2>3. CASE vehicle' = vehicle
    BY <1>c, <2>1, <2>2, <2>3 DEF Careless
  <2>4. CASE \E w \in Vehicles :
               /\ vehicle[w].plate = None
               /\ vehicle' = [vehicle EXCEPT ![w] =
                                [plate |-> pl, listed |-> TRUE, uid |-> i, tid |-> i]]
    <3>1. PICK w \in Vehicles :
            /\ vehicle[w].plate = None
            /\ vehicle' = [vehicle EXCEPT ![w] =
                             [plate |-> pl, listed |-> TRUE, uid |-> i, tid |-> i]]
      BY <2>4
    <3> HIDE DEF i, pl
    <3>2. vehicle'[w].plate = pl /\ \A x \in Vehicles \ {w} : vehicle'[x] = vehicle[x]
      BY <1>0, <3>1
    <3>3. \A k \in Imeis : device[k].vehicle # w
      BY <1>t, <3>1 DEF CarsAreWritten
    <3>4. OneTrackerPerCar'
      BY <1>t, <2>2 DEF OneTrackerPerCar
    <3>5. CarsAreWritten'
      BY <1>t, <2>1, <2>2, <3>2, <3>3, NoneAssumption DEF CarsAreWritten
    <3>6. \A k \in Imeis, x \in Vehicles :
            device'[k].vehicle = x /\ device'[k].hasTid => vehicle'[x].tid = k
      BY <1>t, <2>1, <2>2, <3>2, <3>3
    <3> QED BY <2>2, <3>4, <3>5, <3>6, SettledKept
  <2> QED BY <1>9, <2>3, <2>4 DEF CreateVehicleCommit, Target
<1>10. CASE RemoveVehicleCommit(p)
  <2>1. v \in Vehicles /\ job[p].at \notin Redrawing
    BY <1>0, <1>10, JobFields DEF RemoveVehicleCommit, Redrawing
  <2>2. Step(p, Idle) /\ Idle.at = "idle" /\ device' = device
    BY <1>10 DEF RemoveVehicleCommit, Idle
  <2>3. \A x \in Vehicles : /\ vehicle'[x].tid = vehicle[x].tid
                            /\ vehicle'[x].plate = vehicle[x].plate
                            /\ vehicle'[x].listed => vehicle[x].listed
    BY <1>0, <1>10, <2>1 DEF RemoveVehicleCommit, Vehicle
  <2>4. OneTrackerPerCar' /\ CarsAreWritten'
    BY <1>t, <2>2, <2>3 DEF OneTrackerPerCar, CarsAreWritten
  <2>5. \A k \in Imeis, x \in Vehicles :
          device'[k].vehicle = x /\ device'[k].hasTid => vehicle'[x].tid = k
    BY <1>t, <2>1, <2>2, <2>3
  <2> QED BY <2>2, <2>4, <2>5, SettledKept
<1>11. CASE CreateDeviceCommit(p)
  <2>1. /\ i \in Imeis /\ v \in MaybeVehicle /\ job[p].at \notin Redrawing
        /\ v # None => vehicle[v].plate # None
    BY <1>0, <1>11, JobFields DEF CreateDeviceCommit, Redrawing, DeviceNoteHolds
  <2>2. CASE device' = device /\ Step(p, Idle)
    BY <1>c, <1>11, <2>1, <2>2 DEF CreateDeviceCommit, Careless, Idle
  <2>3. CASE /\ v # None => CarFree(v, i)
             /\ device' = [device EXCEPT ![i].row = "live", ![i].vehicle = v]
             /\ Step(p, [at |-> "createDevice.traccar", imei |-> i, veh |-> v])
    <3> DEFINE j == [at |-> "createDevice.traccar", imei |-> i, veh |-> v]
    <3>1. vehicle' = vehicle
      BY <1>11 DEF CreateDeviceCommit
    <3> HIDE DEF i, v
    <3>2. j.at = "createDevice.traccar" /\ j.imei = i /\ j.veh = v /\ Step(p, j)
      BY <2>3
    <3>3. j.at \in Redrawing
      BY <3>2 DEF Redrawing
    <3> HIDE DEF j
    <3>4. device'[i].vehicle = v /\ \A k \in Imeis \ {i} : device'[k] = device[k]
      BY <1>0, <2>1, <2>3 DEF Device
    <3>5. v # None => \A k \in Imeis \ {i} : device[k].vehicle # v
      BY <2>3 DEF CarFree
    <3>6. OneTrackerPerCar'
      BY <1>t, <3>4, <3>5, NoneAssumption DEF OneTrackerPerCar
    <3>7. CarsAreWritten'
      BY <1>t, <2>1, <3>1, <3>4, NoneAssumption DEF CarsAreWritten
    <3>8. \A k \in Imeis, x \in Vehicles :
            device'[k].vehicle = x /\ device'[k].hasTid =>
              vehicle'[x].tid = k \/ (j.at \in Redrawing /\ j.imei = k)
      BY <1>t, <2>1, <3>1, <3>2, <3>3, <3>4
    <3> QED BY <3>2, <3>4, <3>6, <3>7, <3>8, SettledKept
  <2> QED BY <1>11, <2>2, <2>3 DEF CreateDeviceCommit
<1>12. CASE CreateDeviceTraccar(p)
  <2>1. i \in Imeis /\ v \in MaybeVehicle /\ device[i].vehicle = v
    BY <1>0, <1>12, JobFields DEF CreateDeviceTraccar, DeviceNoteHolds
  <2> DEFINE j == IF v = None THEN Idle
                  ELSE [at |-> "link.vehicle", imei |-> i, veh |-> v]
  <2>2. /\ Step(p, j) /\ vehicle' = vehicle
        /\ device' = [device EXCEPT ![i].hasTid = TRUE]
    BY <1>t, <1>12 DEF CreateDeviceTraccar
  <2>i. \A k \in Imeis : job[p].imei = k => k = i
    OBVIOUS
  <2> HIDE DEF i, v
  <2>3. /\ v # None => j.at = "link.vehicle" /\ j.imei = i /\ j.veh = v /\ j.at \in Redrawing
        /\ v = None => j.at = "idle"
    BY DEF Idle, Redrawing
  <2> HIDE DEF j
  <2>4. /\ \A k \in Imeis : device'[k].vehicle = device[k].vehicle
        /\ \A k \in Imeis \ {i} : device'[k] = device[k]
    BY <1>0, <2>1, <2>2 DEF Device
  <2>5. OneTrackerPerCar' /\ CarsAreWritten'
    BY <1>t, <2>2, <2>4 DEF OneTrackerPerCar, CarsAreWritten
  <2>6. ASSUME NEW k \in Imeis, NEW x \in Vehicles, device'[k].vehicle = x, device'[k].hasTid
        PROVE  vehicle'[x].tid = k \/ (j.at \in Redrawing /\ j.imei = k)
    <3>1. CASE k = i
      BY <2>1, <2>3, <2>4, <2>6, <3>1, NoneAssumption
    <3>2. CASE k # i
      BY <1>t, <2>i, <2>2, <2>4, <2>6, <3>2
    <3> QED BY <3>1, <3>2
  <2>7. /\ j.at \in {"associate.traccar", "createDevice.traccar", "link.vehicle",
                     "uninstall.commit", "unlink.vehicle"} =>
             device'[j.imei].vehicle = j.veh
        /\ j.at \notin {"createDevice.commit", "link.device"}
    BY <2>1, <2>3, <2>4
  <2> QED BY <2>2, <2>5, <2>6, <2>7, SettledKept
<1>13. CASE LinkDevice(p)
  <2>1. /\ i \in Imeis /\ v \in Vehicles /\ job[p].at \notin Redrawing
        /\ v # None => vehicle[v].plate # None
        /\ job[p].hasTid <=> device[i].hasTid
    BY <1>0, <1>13, JobFields DEF LinkDevice, Redrawing, DeviceNoteHolds
  <2>2. CASE device' = device /\ Step(p, Idle)
    BY <1>c, <1>13, <2>1, <2>2 DEF LinkDevice, Careless, Idle
  <2>3. CASE /\ CarFree(v, i)
             /\ device' = [device EXCEPT
                  ![i].vehicle = v,
                  ![i].status = IF job[p].status = "PENDING_INSTALL"
                                THEN "INSTALLED" ELSE job[p].status]
             /\ Step(p, IF job[p].hasTid
                        THEN [at |-> "link.vehicle", imei |-> i, veh |-> v] ELSE Idle)
    <3> DEFINE j == IF job[p].hasTid
                    THEN [at |-> "link.vehicle", imei |-> i, veh |-> v] ELSE Idle
    <3>1. vehicle' = vehicle
      BY <1>13 DEF LinkDevice
    <3>2. /\ device[i].hasTid => j.at = "link.vehicle" /\ j.imei = i /\ j.veh = v
                                 /\ j.at \in Redrawing
          /\ ~device[i].hasTid => j.at = "idle"
      BY <2>1 DEF Idle, Redrawing
    <3>3. Step(p, j)
      BY <2>3
    <3> HIDE DEF j
    <3>4. /\ device'[i].vehicle = v /\ device'[i].hasTid = device[i].hasTid
          /\ \A k \in Imeis \ {i} : device'[k] = device[k] /\ device[k].vehicle # v
      BY <1>0, <2>1, <2>3 DEF Device, CarFree
    <3> HIDE DEF i, v
    <3>6. OneTrackerPerCar'
      BY <1>t, <3>4, NoneAssumption DEF OneTrackerPerCar
    <3>7. CarsAreWritten'
      BY <1>t, <2>1, <3>1, <3>4, NoneAssumption DEF CarsAreWritten
    <3>8. \A k \in Imeis, x \in Vehicles :
            device'[k].vehicle = x /\ device'[k].hasTid =>
              vehicle'[x].tid = k \/ (j.at \in Redrawing /\ j.imei = k)
      BY <1>t, <2>1, <3>1, <3>2, <3>4
    <3>9. /\ j.at \in {"associate.traccar", "createDevice.traccar", "link.vehicle",
                       "uninstall.commit", "unlink.vehicle"} =>
               device'[j.imei].vehicle = j.veh
          /\ j.at \notin {"createDevice.commit", "link.device"}
      BY <3>2, <3>4
    <3> QED BY <3>3, <3>6, <3>7, <3>8, <3>9, SettledKept
  <2> QED BY <1>13, <2>2, <2>3 DEF LinkDevice
<1>14. CASE UnlinkPlot(p)
  <2>1. i \in Imeis /\ v \in Vehicles /\ device[i].vehicle = v /\ job[p].at \notin Redrawing
    BY <1>0, <1>14, JobFields DEF UnlinkPlot, DeviceNoteHolds, Redrawing
  <2> DEFINE j == [at |-> "unlink.device", imei |-> i]
  <2>2. Step(p, j) /\ device' = device /\ vehicle' = [vehicle EXCEPT ![v].tid = None]
    BY <1>14 DEF UnlinkPlot
  <2>3. j.at = "unlink.device" /\ j.imei = i /\ j.at \in Redrawing
    BY DEF Redrawing
  <2> HIDE DEF i, v, j
  <2>4. \A x \in Vehicles : /\ vehicle'[x].plate = vehicle[x].plate
                            /\ vehicle'[x].listed = vehicle[x].listed
                            /\ x # v => vehicle'[x].tid = vehicle[x].tid
    BY <1>0, <2>1, <2>2 DEF Vehicle
  <2>5. OneTrackerPerCar' /\ CarsAreWritten'
    BY <1>t, <2>2, <2>4 DEF OneTrackerPerCar, CarsAreWritten
  <2>6. ASSUME NEW k \in Imeis, NEW x \in Vehicles, device'[k].vehicle = x, device'[k].hasTid
        PROVE  vehicle'[x].tid = k \/ (j.at \in Redrawing /\ j.imei = k)
    <3>1. CASE k = i
      BY <2>3, <3>1
    <3>2. CASE k # i
      <4>1. x # v
        BY <1>t, <2>1, <2>2, <2>6, <3>2 DEF OneTrackerPerCar
      <4> QED BY <1>t, <2>1, <2>2, <2>4, <2>6, <4>1
    <3> QED BY <3>1, <3>2
  <2> QED BY <2>2, <2>3, <2>5, <2>6, SettledKept
<1>15. CASE UnlinkDevice(p)
  <2>1. i \in Imeis
    BY <1>0, <1>15, JobFields DEF UnlinkDevice
  <2>2. /\ Step(p, Idle) /\ Idle.at = "idle" /\ vehicle' = vehicle
        /\ device' = [device EXCEPT ![i].vehicle = None]
    BY <1>15 DEF UnlinkDevice, Idle
  <2>i. \A k \in Imeis : job[p].imei = k => k = i
    OBVIOUS
  <2> HIDE DEF i
  <2>3. device'[i].vehicle = None /\ \A k \in Imeis \ {i} : device'[k] = device[k]
    BY <1>0, <2>1, <2>2 DEF Device
  <2>4. OneTrackerPerCar' /\ CarsAreWritten'
    BY <1>t, <2>2, <2>3, NoneAssumption DEF OneTrackerPerCar, CarsAreWritten
  <2>5. \A k \in Imeis, x \in Vehicles :
          device'[k].vehicle = x /\ device'[k].hasTid => vehicle'[x].tid = k
    BY <1>t, <2>i, <2>2, <2>3, NoneAssumption
  <2> QED BY <2>2, <2>4, <2>5, SettledKept
<1> QED
  BY <1>1, <1>2, <1>3, <1>4, <1>5, <1>6, <1>7, <1>8, <1>9, <1>10, <1>11, <1>12, <1>13,
     <1>14, <1>15 DEF Continue

LEMMA SettledInvariant ==
  ASSUME OneAtATime, MaxOutages = 0, "reconcile" \notin Ops
  PROVE  Spec => [](TypeOK /\ SettledInv)
<1>1. Init => SettledInv
  BY NoneAssumption DEF Init, SettledInv, DeviceNoteHolds, Idle, OneTrackerPerCar,
     CarsAreWritten, DrawnInv
<1>2. TypeOK /\ SettledInv /\ [Next]_vars => SettledInv'
  <2> SUFFICES ASSUME TypeOK, SettledInv, [Next]_vars PROVE SettledInv'
    OBVIOUS
  <2>1. ~ReconcileRead /\ ~ReconcileOne /\ ~TraccarReturns
    BY DEF ReconcileRead, ReconcileOne, TraccarReturns, SettledInv
  <2>2. ~TraccarFails
    BY DEF TraccarFails, TypeOK
  <2>3. CASE UNCHANGED vars
    BY <2>3 DEF vars, SettledInv, DeviceNoteHolds, OneTrackerPerCar, CarsAreWritten, DrawnInv
  <2> QED BY <2>1, <2>2, <2>3, SettledRequest, SettledContinue DEF Next
<1> QED BY <1>1, <1>2, TypeTheorem, PTL DEF Spec

(* With Traccar answering, and requests that follow one another, whichever   *)
(* of the endpoints they are, a car ends up drawn from the tracker in it:    *)
(* each endpoint that moves a tracker rewrites the Traccar id of the car it  *)
(* leaves or enters, and no id it writes belongs to another car.             *)
THEOREM SettledTheorem ==
  ASSUME OneAtATime, MaxOutages = 0, "reconcile" \notin Ops
  PROVE  Spec => []SettledIsPlotted
<1>1. ASSUME SettledInv PROVE SettledIsPlotted
  <2>1. (\A p \in Procs : job[p] = Idle) => \A p \in Procs : job[p].at \notin Redrawing
    BY DEF Idle, Redrawing
  <2> QED BY <1>1, <2>1 DEF SettledInv, DrawnInv, SettledIsPlotted
<1> QED BY <1>1, SettledInvariant, PTL
===============================================================================
