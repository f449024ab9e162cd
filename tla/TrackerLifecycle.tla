--------------------------- MODULE TrackerLifecycle ---------------------------
(***************************************************************************)
(* The life of a tracker in one company: the stock item, the Device row,   *)
(* the Vehicle row and the ids both keep in Traccar, under the requests    *)
(* that move a tracker between the shelf, a technician's bag and a car.    *)
(*                                                                         *)
(* A request is a job that runs between two awaits at a time.  What it     *)
(* read before an await travels in the job record and is used as it was    *)
(* read.  A Prisma $transaction is one action, except that associate finds *)
(* the vehicle before it locks it, which is an action of its own.          *)
(*                                                                         *)
(* An IMEI names a tracker, its stock item, its Device row and its Traccar *)
(* device: all four are looked up by it.  A plate stands for the car and   *)
(* for the owner the SGA returns for it.                                   *)
(***************************************************************************)
EXTENDS Naturals

CONSTANTS
  Imeis,        (* trackers                                                 *)
  Vehicles,     (* rows of the vehicles table, written or not yet           *)
  Plates,       (* plates the SGA knows                                     *)
  Technicians,
  Procs,        (* requests that can be in flight at the same time          *)
  Ops,          (* the endpoints that are in use                            *)
  MaxStarts,    (* bound: requests made                                     *)
  MaxOutages,   (* bound: times Traccar goes down                           *)
  None          (* SQL NULL; a plate None is a row not yet written          *)

Endpoints ==
  {"associate", "uninstall", "removeDevice", "reconcile", "assign", "unassign",
   "removeItem", "importItem", "removeVehicle", "createVehicle",
   "createDevice", "linkVehicle", "unlinkVehicle"}

ASSUME NoneAssumption ==
  None \notin Imeis \cup Vehicles \cup Plates \cup Technicians
ASSUME OpsAssumption == Ops \subseteq Endpoints
ASSUME BoundsAssumption == MaxStarts \in Nat /\ MaxOutages \in Nat

VARIABLES
  item,       (* stock_items: listed, installed, and the technician it is with *)
  device,     (* devices: the row, the car it is in, has a Traccar id, status  *)
  vehicle,    (* vehicles: plate, listed, unique_id, traccar_device_id         *)
  job,        (* the requests in flight                                        *)
  sweep,      (* orphans the running reconciliation read and has not tried     *)
  traccarUp,
  starts,     (* requests made, outages so far: for the bounds only            *)
  outages

tables == <<item, device, vehicle>>
world  == <<traccarUp, starts, outages>>
vars   == <<item, device, vehicle, job, sweep, traccarUp, starts, outages>>

-------------------------------------------------------------------------------
(* Types.  A unique_id that is no IMEI (RETIRADO-<id>, HINOVA-<code>) is None. *)

Item    == [listed : BOOLEAN, installed : BOOLEAN, tech : Technicians \cup {None}]
Device  == [row : {"none", "live", "deleted"}, vehicle : Vehicles \cup {None},
            hasTid : BOOLEAN, status : {"PENDING_INSTALL", "INSTALLED", "DEACTIVATED"}]
Vehicle == [plate : Plates \cup {None}, listed : BOOLEAN,
            uid : Imeis \cup {None}, tid : Imeis \cup {None}]

MaybeVehicle == Vehicles \cup {None}

Job ==
  [at : {"idle"}]
  \cup [at : {"associate.find"}, imei : Imeis, plate : Plates]
  \cup [at : {"associate.commit"}, imei : Imeis, plate : Plates,
        veh : MaybeVehicle, freed : MaybeVehicle]
  \cup [at : {"associate.traccar", "link.vehicle"}, imei : Imeis, veh : Vehicles]
  \cup [at : {"uninstall.commit"}, imei : Imeis, veh : MaybeVehicle, delete : BOOLEAN]
  \cup [at : {"remove.uninstall", "remove.delete", "unlink.device"}, imei : Imeis]
  \cup [at : {"assign.commit"}, imei : Imeis, tech : Technicians]
  \cup [at : {"link.device"}, imei : Imeis, veh : Vehicles, hasTid : BOOLEAN,
        status : {"PENDING_INSTALL", "INSTALLED", "DEACTIVATED"}]
  \cup [at : {"unlink.vehicle"}, imei : Imeis, veh : Vehicles]
  \cup [at : {"removeVehicle.commit"}, veh : Vehicles, holdsImei : BOOLEAN]
  \cup [at : {"createVehicle.commit"}, imei : Imeis, plate : Plates]
  \cup [at : {"createDevice.commit", "createDevice.traccar"}, imei : Imeis,
        veh : MaybeVehicle]

TypeOK ==
  /\ item \in [Imeis -> Item]
  /\ device \in [Imeis -> Device]
  /\ vehicle \in [Vehicles -> Vehicle]
  /\ job \in [Procs -> Job]
  /\ sweep \subseteq Imeis \X Vehicles
  /\ traccarUp \in BOOLEAN
  /\ starts \in 0..MaxStarts
  /\ outages \in 0..MaxOutages

Idle == [at |-> "idle"]

(* The trackers have been imported into the stock; nothing is installed.     *)
Init ==
  /\ item = [i \in Imeis |-> [listed |-> TRUE, installed |-> FALSE, tech |-> None]]
  /\ device = [i \in Imeis |-> [row |-> "none", vehicle |-> None,
                                hasTid |-> FALSE, status |-> "PENDING_INSTALL"]]
  /\ vehicle = [v \in Vehicles |-> [plate |-> None, listed |-> FALSE,
                                    uid |-> None, tid |-> None]]
  /\ job = [p \in Procs |-> Idle]
  /\ sweep = {}
  /\ traccarUp = TRUE
  /\ starts = 0
  /\ outages = 0

-------------------------------------------------------------------------------
(* How a request starts, goes on and ends.                                   *)

Start(p, op, j) ==
  /\ op \in Ops
  /\ job[p] = Idle
  /\ starts < MaxStarts
  /\ starts' = starts + 1
  /\ job' = [job EXCEPT ![p] = j]
  /\ UNCHANGED <<sweep, traccarUp, outages>>

Step(p, j) ==
  /\ job' = [job EXCEPT ![p] = j]
  /\ UNCHANGED <<sweep, world>>

-------------------------------------------------------------------------------
(* StockService.associate: a tracker goes from the shelf into a car.         *)

Associate(p, i, pl) ==
  /\ item[i].listed /\ ~item[i].installed
  /\ Start(p, "associate", [at |-> "associate.find", imei |-> i, plate |-> pl])
  /\ UNCHANGED tables

(* The listed car with the plate or with the tracker's number, else the      *)
(* deleted car with the plate, else a new row.                               *)
CarsFor(i, pl) ==
  LET listed  == {v \in Vehicles :
                    vehicle[v].listed /\ (vehicle[v].plate = pl \/ vehicle[v].uid = i)}
      deleted == {v \in Vehicles : ~vehicle[v].listed /\ vehicle[v].plate = pl}
  IN IF listed # {} THEN listed ELSE IF deleted # {} THEN deleted ELSE {None}

(* Another, deleted, car that still holds the tracker's number.              *)
DeletedHolders(i, v) ==
  {w \in Vehicles \ {v} : ~vehicle[w].listed /\ vehicle[w].uid = i}

AssociateFind(p) ==
  /\ job[p].at = "associate.find"
  /\ LET i == job[p].imei  pl == job[p].plate
     IN \E v \in CarsFor(i, pl) :
        \E freed \in IF DeletedHolders(i, v) = {} THEN {None} ELSE DeletedHolders(i, v) :
          Step(p, [at |-> "associate.commit", imei |-> i, plate |-> pl,
                   veh |-> v, freed |-> freed])
  /\ UNCHANGED tables

(* The rows associate can write: the one it found, or a fresh one.           *)
Target(v) ==
  IF v = None THEN {w \in Vehicles : vehicle[w].plate = None} ELSE {v}

(* The UNIQUE indexes on (plate, tenant) and unique_id.                      *)
RowFree(v, pl, i, freed) ==
  \A w \in Vehicles \ {v} :
    vehicle[w].plate # pl /\ (vehicle[w].uid = i => w = freed)

(* No other tracker in the car (jaInstalado) ...                             *)
CarFree(v, i) == \A j \in Imeis \ {i} : device[j].vehicle # v

(* ... and the tracker in no other car (existingDevice).                     *)
TrackerFree_Unchecked(i, v) == TRUE
TrackerFree(i, v) == device[i].vehicle \in {None, v}

(* The item leaves the stock and the technician's bag.                       *)
OutOfStock_KeepsReservation(i) == [item EXCEPT ![i].installed = TRUE]
OutOfStock(i) == [item EXCEPT ![i].installed = TRUE, ![i].tech = None]

CanInstall(i, v, pl, freed) ==
  RowFree(v, pl, i, freed) /\ CarFree(v, i) /\ TrackerFree(i, v)

AssociateCommit(p) ==
  /\ job[p].at = "associate.commit"
  /\ LET i == job[p].imei  pl == job[p].plate  freed == job[p].freed
     IN \E v \in Target(job[p].veh) :
          /\ CanInstall(i, v, pl, freed)
          /\ vehicle' = [w \in Vehicles |->
               [plate  |-> IF w = v THEN pl ELSE vehicle[w].plate,
                listed |-> w = v \/ vehicle[w].listed,
                uid    |-> IF w = v THEN i ELSE IF w = freed THEN None ELSE vehicle[w].uid,
                tid    |-> vehicle[w].tid]]
          /\ device' = [device EXCEPT ![i] =
               [row     |-> IF device[i].row = "none" THEN "live" ELSE device[i].row,
                vehicle |-> v,
                hasTid  |-> device[i].hasTid,
                status  |-> "INSTALLED"]]
          /\ item' = OutOfStock(i)
          /\ Step(p, [at |-> "associate.traccar", imei |-> i, veh |-> v])

AssociateAbort(p) ==
  /\ job[p].at = "associate.commit"
  /\ \A v \in Target(job[p].veh) :
       ~CanInstall(job[p].imei, v, job[p].plate, job[p].freed)
  /\ Step(p, Idle)
  /\ UNCHANGED tables

(* Both rows take the id of the Traccar device.                              *)
Plot_DeviceOnly(i, v) ==
  /\ device' = [device EXCEPT ![i].hasTid = TRUE]
  /\ UNCHANGED vehicle
Plot(i, v) ==
  /\ device' = [device EXCEPT ![i].hasTid = TRUE]
  /\ vehicle' = [vehicle EXCEPT ![v].tid = i]

AssociateTraccar(p) ==
  /\ job[p].at = "associate.traccar"
  /\ IF traccarUp THEN Plot(job[p].imei, job[p].veh)
                  ELSE UNCHANGED <<device, vehicle>>
  /\ Step(p, Idle)
  /\ UNCHANGED item

-------------------------------------------------------------------------------
(* DevicesService.uninstall and remove.                                      *)

(* The car leaves the map and gives the tracker's number back.               *)
Retired_KeepsNumber(v) == [vehicle EXCEPT ![v].tid = None]
Retired_KeepsTraccarId(v) == [vehicle EXCEPT ![v].uid = None]
Retired_NumberIsTheRowId(v) == [vehicle EXCEPT ![v].tid = None, ![v].uid = v]
Retired(v) == [vehicle EXCEPT ![v].tid = None, ![v].uid = None]

(* The item is back on the shelf, whatever it was.                           *)
BackInStock_Forgotten(i) == item
BackInStock(i) == [item EXCEPT ![i].installed = FALSE]

Uninstall(p, i) ==
  /\ device[i].row = "live"
  /\ Start(p, "uninstall", [at |-> "uninstall.commit", imei |-> i,
                            veh |-> device[i].vehicle, delete |-> FALSE])
  /\ UNCHANGED tables

UninstallCommit(p) ==
  /\ job[p].at = "uninstall.commit"
  /\ LET i == job[p].imei  v == job[p].veh
     IN /\ device' = [device EXCEPT ![i].vehicle = None, ![i].status = "DEACTIVATED"]
        /\ vehicle' = IF v = None THEN vehicle ELSE Retired(v)
        /\ item' = BackInStock(i)
        /\ Step(p, IF job[p].delete THEN [at |-> "remove.delete", imei |-> i] ELSE Idle)

RemoveDevice(p, i) ==
  /\ device[i].row = "live"
  /\ Start(p, "removeDevice",
           [at |-> IF device[i].vehicle = None THEN "remove.delete"
                                               ELSE "remove.uninstall", imei |-> i])
  /\ UNCHANGED tables

RemoveDeviceUninstall(p) ==
  /\ job[p].at = "remove.uninstall"
  /\ LET i == job[p].imei
     IN Step(p, IF device[i].row = "live"
                THEN [at |-> "uninstall.commit", imei |-> i,
                      veh |-> device[i].vehicle, delete |-> TRUE]
                ELSE Idle)
  /\ UNCHANGED tables

RemoveDeviceDelete(p) ==
  /\ job[p].at = "remove.delete"
  /\ device' = [device EXCEPT ![job[p].imei].row = "deleted"]
  /\ Step(p, Idle)
  /\ UNCHANGED <<item, vehicle>>

-------------------------------------------------------------------------------
(* TraccarReconcileService.reconciliar: read the orphans, try one by one.    *)

Orphan_OnlyPending(i) ==
  /\ device[i].row = "live"
  /\ ~device[i].hasTid
  /\ device[i].vehicle # None
  /\ device[i].status = "PENDING_INSTALL"
Orphan(i) ==
  /\ device[i].row = "live"
  /\ ~device[i].hasTid
  /\ device[i].vehicle # None
  /\ device[i].status = "INSTALLED"

ReconcileRead ==
  /\ "reconcile" \in Ops
  /\ sweep = {}
  /\ \E i \in Imeis : Orphan(i)
  /\ sweep' = {<<i, device[i].vehicle>> : i \in {j \in Imeis : Orphan(j)}}
  /\ UNCHANGED <<tables, job, world>>

ReconcileOne ==
  /\ \E e \in sweep :
       /\ IF traccarUp THEN Plot(e[1], e[2]) ELSE UNCHANGED <<device, vehicle>>
       /\ sweep' = sweep \ {e}
  /\ UNCHANGED <<item, job, world>>

-------------------------------------------------------------------------------
(* StockService.assign, unassign, remove and the import.                     *)

Assign(p, i, t) ==
  /\ item[i].listed /\ ~item[i].installed
  /\ item[i].tech \in {None, t}
  /\ Start(p, "assign", [at |-> "assign.commit", imei |-> i, tech |-> t])
  /\ UNCHANGED tables

AssignCommit(p) ==
  /\ job[p].at = "assign.commit"
  /\ item' = [item EXCEPT ![job[p].imei].tech = job[p].tech]
  /\ Step(p, Idle)
  /\ UNCHANGED <<device, vehicle>>

Unassign(p, i) ==
  /\ item[i].listed /\ ~item[i].installed /\ item[i].tech # None
  /\ Start(p, "unassign", Idle)
  /\ item' = [item EXCEPT ![i].tech = None]
  /\ UNCHANGED <<device, vehicle>>

RemoveItem(p, i) ==
  /\ item[i].listed
  /\ Start(p, "removeItem", Idle)
  /\ item' = [item EXCEPT ![i].listed = FALSE]
  /\ UNCHANGED <<device, vehicle>>

ImportItem(p, i) ==
  /\ ~item[i].listed
  /\ Start(p, "importItem", Idle)
  /\ item' = [item EXCEPT ![i].listed = TRUE]
  /\ UNCHANGED <<device, vehicle>>

-------------------------------------------------------------------------------
(* VehiclesService.create and remove.                                        *)

CreateVehicle(p, i, pl) ==
  /\ \A v \in Vehicles : ~(vehicle[v].listed /\ vehicle[v].plate = pl)
  /\ traccarUp
  /\ Start(p, "createVehicle", [at |-> "createVehicle.commit", imei |-> i, plate |-> pl])
  /\ UNCHANGED tables

CreateVehicleCommit(p) ==
  /\ job[p].at = "createVehicle.commit"
  /\ LET i == job[p].imei  pl == job[p].plate
         fresh == {v \in Target(None) : RowFree(v, pl, i, None)}
     IN \/ /\ fresh = {}
           /\ UNCHANGED vehicle
        \/ \E v \in fresh :
             vehicle' = [vehicle EXCEPT ![v] =
                           [plate |-> pl, listed |-> TRUE, uid |-> i, tid |-> i]]
  /\ Step(p, Idle)
  /\ UNCHANGED <<item, device>>

RemoveVehicle(p, v) ==
  /\ vehicle[v].listed
  /\ Start(p, "removeVehicle", [at |-> "removeVehicle.commit", veh |-> v,
                                holdsImei |-> vehicle[v].uid # None])
  /\ UNCHANGED tables

RemoveVehicleCommit(p) ==
  /\ job[p].at = "removeVehicle.commit"
  /\ LET v == job[p].veh
     IN vehicle' = [vehicle EXCEPT ![v] =
          [plate  |-> vehicle[v].plate,
           listed |-> FALSE,
           uid    |-> IF job[p].holdsImei THEN None ELSE vehicle[v].uid,
           tid    |-> vehicle[v].tid]]
  /\ Step(p, Idle)
  /\ UNCHANGED <<item, device>>

-------------------------------------------------------------------------------
(* DevicesService.create, linkVehicle and unlinkVehicle.                     *)

NoLiveDeviceOn(v, i) ==
  \A j \in Imeis \ {i} : ~(device[j].row = "live" /\ device[j].vehicle = v)

CreateDevice(p, i, v) ==
  /\ device[i].row = "none"
  /\ v # None => vehicle[v].listed /\ NoLiveDeviceOn(v, i)
  /\ Start(p, "createDevice", [at |-> "createDevice.commit", imei |-> i, veh |-> v])
  /\ UNCHANGED tables

CreateDeviceCommit(p) ==
  /\ job[p].at = "createDevice.commit"
  /\ LET i == job[p].imei  v == job[p].veh
     IN IF device[i].row = "none" /\ (v # None => CarFree(v, i))
        THEN /\ device' = [device EXCEPT ![i].row = "live", ![i].vehicle = v]
             /\ Step(p, [at |-> "createDevice.traccar", imei |-> i, veh |-> v])
        ELSE /\ UNCHANGED device
             /\ Step(p, Idle)
  /\ UNCHANGED <<item, vehicle>>

CreateDeviceTraccar(p) ==
  /\ job[p].at = "createDevice.traccar"
  /\ LET i == job[p].imei  v == job[p].veh
     IN IF traccarUp
        THEN /\ device' = [device EXCEPT ![i].hasTid = TRUE]
             /\ Step(p, IF v = None THEN Idle
                        ELSE [at |-> "link.vehicle", imei |-> i, veh |-> v])
        ELSE /\ UNCHANGED device
             /\ Step(p, Idle)
  /\ UNCHANGED <<item, vehicle>>

LinkVehicle(p, i, v) ==
  /\ device[i].row = "live"
  /\ vehicle[v].listed
  /\ NoLiveDeviceOn(v, i)
  /\ Start(p, "linkVehicle", [at |-> "link.device", imei |-> i, veh |-> v,
                              hasTid |-> device[i].hasTid,
                              status |-> device[i].status])
  /\ UNCHANGED tables

LinkDevice(p) ==
  /\ job[p].at = "link.device"
  /\ LET i == job[p].imei  v == job[p].veh
     IN IF CarFree(v, i)
        THEN /\ device' = [device EXCEPT
                  ![i].vehicle = v,
                  ![i].status = IF job[p].status = "PENDING_INSTALL"
                                THEN "INSTALLED" ELSE job[p].status]
             /\ Step(p, IF job[p].hasTid
                        THEN [at |-> "link.vehicle", imei |-> i, veh |-> v] ELSE Idle)
        ELSE /\ UNCHANGED device
             /\ Step(p, Idle)
  /\ UNCHANGED <<item, vehicle>>

LinkPlot(p) ==
  /\ job[p].at = "link.vehicle"
  /\ vehicle' = [vehicle EXCEPT ![job[p].veh].tid = job[p].imei]
  /\ Step(p, Idle)
  /\ UNCHANGED <<item, device>>

UnlinkVehicle(p, i) ==
  /\ device[i].row = "live"
  /\ Start(p, "unlinkVehicle",
           IF device[i].vehicle # None /\ device[i].hasTid
           THEN [at |-> "unlink.vehicle", imei |-> i, veh |-> device[i].vehicle]
           ELSE [at |-> "unlink.device", imei |-> i])
  /\ UNCHANGED tables

UnlinkPlot(p) ==
  /\ job[p].at = "unlink.vehicle"
  /\ vehicle' = [vehicle EXCEPT ![job[p].veh].tid = None]
  /\ Step(p, [at |-> "unlink.device", imei |-> job[p].imei])
  /\ UNCHANGED <<item, device>>

UnlinkDevice(p) ==
  /\ job[p].at = "unlink.device"
  /\ device' = [device EXCEPT ![job[p].imei].vehicle = None]
  /\ Step(p, Idle)
  /\ UNCHANGED <<item, vehicle>>

-------------------------------------------------------------------------------
TraccarFails ==
  /\ traccarUp
  /\ outages < MaxOutages
  /\ traccarUp' = FALSE
  /\ outages' = outages + 1
  /\ UNCHANGED <<tables, job, sweep, starts>>

TraccarReturns ==
  /\ ~traccarUp
  /\ traccarUp' = TRUE
  /\ UNCHANGED <<tables, job, sweep, starts, outages>>

(* A request that is in flight goes on.                                      *)
Continue(p) ==
  \/ AssociateFind(p) \/ AssociateCommit(p) \/ AssociateAbort(p) \/ AssociateTraccar(p)
  \/ UninstallCommit(p) \/ RemoveDeviceUninstall(p) \/ RemoveDeviceDelete(p)
  \/ AssignCommit(p) \/ CreateVehicleCommit(p) \/ RemoveVehicleCommit(p)
  \/ CreateDeviceCommit(p) \/ CreateDeviceTraccar(p)
  \/ LinkDevice(p) \/ LinkPlot(p) \/ UnlinkPlot(p) \/ UnlinkDevice(p)

Request(p) ==
  \/ \E i \in Imeis :
       \/ \E pl \in Plates : Associate(p, i, pl) \/ CreateVehicle(p, i, pl)
       \/ \E t \in Technicians : Assign(p, i, t)
       \/ \E v \in Vehicles : LinkVehicle(p, i, v)
       \/ \E v \in MaybeVehicle : CreateDevice(p, i, v)
       \/ Uninstall(p, i) \/ RemoveDevice(p, i) \/ UnlinkVehicle(p, i)
       \/ Unassign(p, i) \/ RemoveItem(p, i) \/ ImportItem(p, i)
  \/ \E v \in Vehicles : RemoveVehicle(p, v)

Next ==
  \/ \E p \in Procs : Request(p) \/ Continue(p)
  \/ ReconcileRead \/ ReconcileOne
  \/ TraccarFails \/ TraccarReturns

Spec == Init /\ [][Next]_vars

(* A request that has begun runs to its end, the reconciliation timer keeps  *)
(* firing and works through what it read, and an outage ends.                *)
FairSpec ==
  /\ Spec
  /\ \A p \in Procs : WF_vars(Continue(p))
  /\ WF_vars(ReconcileRead)
  /\ WF_vars(ReconcileOne)
  /\ WF_vars(TraccarReturns)

-------------------------------------------------------------------------------
(* Properties.                                                               *)

(* The rows of devices keep the promise of TrackerCustody: one tracker per   *)
(* car, and no request takes a tracker out of one car straight into another. *)
(* associate re-reads both rows inside its transaction for this              *)
(* (stock.service.ts, jaInstalado and existingDevice).                       *)
Custody == INSTANCE TrackerCustody
             WITH InHand <- None, place <- [i \in Imeis |-> device[i].vehicle]
ImplementsCustody == Custody!Spec

(* A tracker is out of the stock exactly while it is in a car: neither an    *)
(* install nor a retrieval, however they interleave, leaves a tracker in a   *)
(* car and offered for another one, or in nobody's hands and not offered.    *)
FieldMatchesStock ==
  \A i \in Imeis : device[i].vehicle # None <=> item[i].installed

(* A car is drawn on the map from the tracker that is in it, and from no     *)
(* other: nobody follows a car by a tracker that has left it.                *)
PlottedWhereInstalled ==
  \A v \in Vehicles, i \in Imeis :
    vehicle[v].tid = i => device[i].vehicle = v

(* The record of a car is never turned into the record of another car.       *)
CarKeepsItsRecord ==
  [][\A v \in Vehicles : vehicle[v].plate # None
                           => vehicle'[v].plate = vehicle[v].plate]_vars

(* A tracker that is in a car is in no technician's bag.                     *)
ReservedOnShelf == \A i \in Imeis : item[i].installed => item[i].tech = None

(* A tracker that is in a car can be retrieved: the row that says where it   *)
(* is can be found by the retrieval.                                         *)
InstalledIsRetrievable ==
  \A i \in Imeis : device[i].vehicle # None => device[i].row = "live"

(* With Traccar answering and no request in flight, a tracker that is in a   *)
(* car and is known to Traccar is the one the car is drawn from.             *)
SettledIsPlotted ==
  (\A p \in Procs : job[p] = Idle) =>
    \A i \in Imeis, v \in Vehicles :
      device[i].vehicle = v /\ device[i].hasTid => vehicle[v].tid = i

(* A tracker installed while Traccar was away, and never known to it before, *)
(* gets its Traccar id once Traccar answers again.                           *)
NewInstallGetsAnId ==
  \A i \in Imeis :
    (device[i].vehicle # None /\ ~device[i].hasTid)
      ~> (device[i].vehicle = None \/ device[i].hasTid)

===============================================================================
