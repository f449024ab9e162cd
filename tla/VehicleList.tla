----------------------------- MODULE VehicleList ------------------------------
(***************************************************************************)
(* How the list of cars on one open panel follows the vehicles table: the  *)
(* backend rings vehicles:changed, at most once in two seconds, the panel  *)
(* reloads at most once in five and not while its tab is hidden, a poll    *)
(* reloads now and then whatever happens, and the answers of overlapping   *)
(* loads arrive in any order.                                              *)
(***************************************************************************)
EXTENDS Naturals, Sequences, SequencesExt

CONSTANTS
  MaxTableChanges,   (* bound: changes of the vehicles table                     *)
  MaxLoads,     (* bound: loads in flight at the same time                  *)
  MaxFaults,    (* bound: lost sockets, failed loads, backend restarts      *)
  MaxHides,     (* bound: times the tab is hidden                           *)
  ReloadsOnReconnect  (* NEXT_PUBLIC_POLLING_MODE is contingencia           *)

ASSUME ListBoundsAssumption ==
  /\ MaxTableChanges \in Nat /\ MaxFaults \in Nat /\ MaxHides \in Nat
  /\ MaxLoads \in Nat \ {0}
ASSUME ModeAssumption == ReloadsOnReconnect \in BOOLEAN

(* The debounce timers of the gateway: the tenant's, and '*' for all tenants.*)
Bells == {"tenant", "all"}

VARIABLES
  version,    (* the table, as the number of its changes; starts at 1          *)
  owing,      (* changes committed and not announced yet                       *)
  armed,      (* vehiclesChangedTimers                                         *)
  wire,       (* vehicles:changed events on their way                          *)
  connected,  (* the socket is in the tenant's room                            *)
  met,        (* jaConectou                                                    *)
  hidden,     (* document.hidden                                               *)
  pending,    (* reloadEventoPendenteRef                                       *)
  timer,      (* reloadEventoTimerRef                                          *)
  busy,       (* emAndamento: a poll is waiting for its answers                *)
  loads,      (* the loads in flight, in the order they started                *)
  shown,      (* the version on the screen, 0 for an empty list                *)
  missed,     (* an event or a load of this panel was lost                     *)
  faults, hides  (* for the bounds only                                        *)

backend == <<version, owing, armed>>
socket  == <<wire, connected, met>>
tab     == <<hidden, pending, timer>>
screen  == <<busy, loads, shown>>
listVars == <<version, owing, armed, wire, connected, met, hidden, pending, timer,
          busy, loads, shown, missed, faults, hides>>

(* read is 0 until the backend has read the table for the load; late means   *)
(* that a load that started after it is already on the screen.               *)
Load == [kind : {"first", "poll", "event"}, read : 0..(MaxTableChanges + 1), late : BOOLEAN]
New(kind) == [kind |-> kind, read |-> 0, late |-> FALSE]

ListTypeOK ==
  /\ version \in 1..(MaxTableChanges + 1)
  /\ owing \subseteq Bells /\ armed \subseteq Bells
  /\ wire \in Nat
  /\ {connected, met, hidden, pending, timer, busy, missed} \subseteq BOOLEAN
  /\ loads \in Seq(Load) /\ Len(loads) <= MaxLoads
  /\ busy <=> \E n \in 1..Len(loads) : loads[n].kind = "poll"
  /\ \A m, n \in 1..Len(loads) : loads[m].kind = "poll" /\ loads[n].kind = "poll" => m = n
  /\ shown \in 0..(MaxTableChanges + 1)
  /\ faults \in 0..MaxFaults /\ hides \in 0..MaxHides

(* The page has just been opened: it asks for the list and for a socket.     *)
ListInit ==
  /\ version = 1 /\ owing = {} /\ armed = {}
  /\ wire = 0 /\ connected = FALSE /\ met = FALSE
  /\ hidden = FALSE /\ pending = FALSE /\ timer = FALSE
  /\ busy = FALSE /\ loads = <<New("first")>> /\ shown = 0
  /\ missed = FALSE /\ faults = 0 /\ hides = 0

Fault ==
  /\ faults < MaxFaults
  /\ faults' = faults + 1

StartLoad(kind) ==
  /\ Len(loads) < MaxLoads
  /\ loads' = Append(loads, New(kind))

-------------------------------------------------------------------------------
(* The backend.                                                              *)

TableChanges(b) ==
  /\ version <= MaxTableChanges
  /\ version' = version + 1
  /\ owing' = owing \cup {b}
  /\ UNCHANGED <<armed, socket, tab, screen, missed, faults, hides>>

(* registrarOuvinteVehicles: a timer that is already armed stays as it is.   *)
Announce(b) ==
  /\ b \in owing
  /\ owing' = owing \ {b}
  /\ armed' = armed \cup {b}
  /\ UNCHANGED <<version, socket, tab, screen, missed, faults, hides>>

(* emitirVehiclesChanged: heard only by the sockets that are in the room.    *)
BellRings(b) ==
  /\ b \in armed
  /\ armed' = armed \ {b}
  /\ wire' = IF connected THEN wire + 1 ELSE wire
  /\ missed' = (missed \/ ~connected)
  /\ UNCHANGED <<version, owing, connected, met, tab, screen, faults, hides>>

(* The process ends: its timers, its requests and its sockets with it.       *)
BackendRestarts ==
  /\ Fault
  /\ owing' = {} /\ armed' = {}
  /\ wire' = 0 /\ connected' = FALSE
  /\ missed' = TRUE
  /\ UNCHANGED <<version, met, tab, screen, hides>>

-------------------------------------------------------------------------------
(* The socket of the panel.                                                  *)

(* One cycle of the poll at a time, and none in a hidden tab.                *)
CanPoll_WhileBusy == ~hidden /\ Len(loads) < MaxLoads
CanPoll == ~hidden /\ ~busy /\ Len(loads) < MaxLoads
StartPoll == CanPoll /\ busy' = TRUE /\ StartLoad("poll")

Connect ==
  /\ ~connected
  /\ connected' = TRUE
  /\ met' = TRUE
  /\ IF met /\ ReloadsOnReconnect /\ CanPoll
     THEN StartPoll
     ELSE UNCHANGED <<busy, loads>>
  /\ UNCHANGED <<backend, wire, tab, shown, missed, faults, hides>>

Disconnect ==
  /\ connected
  /\ Fault
  /\ connected' = FALSE
  /\ wire' = 0
  /\ missed' = TRUE
  /\ UNCHANGED <<backend, met, tab, screen, hides>>

(* handleVehiclesChanged.                                                    *)
EventArrives ==
  /\ wire > 0
  /\ wire' = wire - 1
  /\ IF hidden THEN pending' = TRUE /\ UNCHANGED timer
               ELSE timer' = TRUE /\ UNCHANGED pending
  /\ UNCHANGED <<backend, connected, met, hidden, screen, missed, faults, hides>>

-------------------------------------------------------------------------------
(* The tab and the loads.                                                    *)

TimerFires ==
  /\ timer
  /\ timer' = FALSE
  /\ IF hidden THEN pending' = TRUE /\ UNCHANGED loads
               ELSE StartLoad("event") /\ UNCHANGED pending
  /\ UNCHANGED <<backend, socket, hidden, busy, shown, missed, faults, hides>>

Hide ==
  /\ ~hidden
  /\ hides < MaxHides
  /\ hides' = hides + 1
  /\ hidden' = TRUE
  /\ UNCHANGED <<backend, socket, pending, timer, screen, missed, faults>>

(* The pending reload is taken up, and the poll runs if it is due.           *)
Show ==
  /\ hidden
  /\ hidden' = FALSE
  /\ pending' = FALSE
  /\ timer' = (timer \/ pending)
  /\ \/ UNCHANGED <<busy, loads>>
     \/ ~busy /\ busy' = TRUE /\ StartLoad("poll")
  /\ UNCHANGED <<backend, socket, shown, missed, faults, hides>>

(* A tick of the poll in which the list is due.                              *)
Poll ==
  /\ StartPoll
  /\ UNCHANGED <<backend, socket, tab, shown, missed, faults, hides>>

LoadReads(n) ==
  /\ loads[n].read = 0
  /\ loads' = [loads EXCEPT ![n].read = version]
  /\ UNCHANGED <<backend, socket, tab, busy, shown, missed, faults, hides>>

(* aplicavel: not if a load that started later is already on the screen.     *)
Applicable_Always(load) == TRUE
Applicable(load) == ~load.late

(* The load leaves; those that started before it are late from now on.       *)
Taken(n) == RemoveAt([m \in 1..Len(loads) |->
                        [loads[m] EXCEPT !.late = @ \/ m < n]], n)
Dropped(n) == RemoveAt(loads, n)

(* finally: the next cycle of the poll may start.                            *)
PollOver(load) == busy /\ load.kind # "poll"

LoadAnswers(n) ==
  /\ loads[n].read # 0
  /\ IF Applicable(loads[n])
     THEN shown' = loads[n].read /\ loads' = Taken(n)
     ELSE loads' = Dropped(n) /\ UNCHANGED shown
  /\ busy' = (busy /\ loads[n].kind # "poll")
  /\ UNCHANGED <<backend, socket, tab, missed, faults, hides>>

(* A load that fails leaves the screen as it is, but the first one shows an  *)
(* empty list.                                                               *)
LoadFails(n) ==
  /\ Fault
  /\ IF loads[n].kind = "first" /\ Applicable(loads[n])
     THEN shown' = 0 /\ loads' = Taken(n)
     ELSE loads' = Dropped(n) /\ UNCHANGED shown
  /\ busy' = PollOver(loads[n])
  /\ missed' = TRUE
  /\ UNCHANGED <<backend, socket, tab, hides>>

-------------------------------------------------------------------------------
LoadMoves == \E n \in 1..Len(loads) : LoadReads(n) \/ LoadAnswers(n)

ListNext ==
  \/ \E b \in Bells : TableChanges(b) \/ Announce(b) \/ BellRings(b)
  \/ BackendRestarts
  \/ Connect \/ Disconnect \/ EventArrives
  \/ TimerFires \/ Hide \/ Show \/ Poll
  \/ LoadMoves
  \/ \E n \in 1..Len(loads) : LoadFails(n)

ListSpec == ListInit /\ [][ListNext]_listVars

-------------------------------------------------------------------------------
(* Properties.                                                               *)

(* With nothing lost and nothing on its way, the panel shows the table as it *)
(* is: neither the debounce, nor the throttle, nor the hidden tab, nor an    *)
(* answer that comes late eats the last change (tracking-context.tsx,        *)
(* handleVehiclesChanged; tracking-polling.ts, criarSequencia).              *)
SettledListIsCurrent ==
  /\ ~missed /\ owing = {} /\ armed = {} /\ wire = 0
  /\ ~timer /\ ~pending /\ loads = <<>>
  => shown = version

(* When the table stops changing the panel ends up showing it, whatever was  *)
(* lost before: the poll is the safety net (tracking-context.tsx, poll).     *)
ListConverges == <>[](shown = version)

===============================================================================
