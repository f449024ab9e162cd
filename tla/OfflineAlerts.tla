---------------------------- MODULE OfflineAlerts -----------------------------
(***************************************************************************)
(* The rounds that look, every minute, for cars that went silent.  A round *)
(* takes what Traccar knows of the trackers, drops the cars that were told *)
(* of already (in the last half hour, or in this silence, whichever way    *)
(* the installation is set up) and writes the other alerts one by one.     *)
(* Nothing keeps a slow round from overlapping with the next one.  The     *)
(* detectors of silent trackers and of silent GPS are the same in this.    *)
(***************************************************************************)
EXTENDS Naturals, FiniteSets

CONSTANTS
  Trackers,    (* the active cars that have a tracker in Traccar              *)
  Rounds,      (* bound: rounds in flight at the same time                    *)
  Threshold,   (* silence that is worth an alert, in ticks of the clock       *)
  Window,      (* DEDUP_WINDOW_MS, in ticks                                   *)
  MaxTime,     (* bound: the last tick                                        *)
  MaxFailures  (* bound: alerts the database refuses, and restarts            *)

ASSUME TimesAssumption == Threshold \in Nat \ {0} /\ Window \in Nat
ASSUME OfflineBounds == MaxTime \in Nat \ {0} /\ MaxFailures \in Nat

VARIABLES
  byEpisode,   (* ALERTS_DEDUP_EPISODIO names the alert; fixed at the start   *)
  clock,       (* the time, from 1                                            *)
  contact,     (* lastUpdate of the tracker in Traccar, 0 if it never spoke   *)
  lastAlert,   (* createdAt of its last alert, 0 if it has none               *)
  round,       (* the rounds in flight                                        *)
  toldOf,      (* history: the silence its last alert was about               *)
  late,        (* history: cars told of after they had already come back      *)
  refused,     (* history: cars whose last alert was not written              *)
  failures     (* for the bound only                                          *)

world == <<byEpisode, clock, contact>>
told  == <<lastAlert, toldOf, late, refused>>
offlineVars == <<byEpisode, clock, contact, lastAlert, round, toldOf, late, refused,
                 failures>>

Times == 0..MaxTime

(* seen is the answer of Traccar and at the time it came; news, for the      *)
(* properties, the cars told of since the round looked the alerts up.        *)
IdleRound ==
  [pc |-> "idle", at |-> 0, seen |-> [v \in Trackers |-> 0], todo |-> {}, news |-> {}]

OfflineTypeOK ==
  /\ byEpisode \in BOOLEAN
  /\ clock \in Times \ {0}
  /\ contact \in [Trackers -> 0..clock]
  /\ lastAlert \in [Trackers -> 0..clock]
  /\ round \in [Rounds -> [pc : {"idle", "asked", "creating"}, at : 0..clock,
                           seen : [Trackers -> 0..clock],
                           todo : SUBSET Trackers, news : SUBSET Trackers]]
  /\ \A r \in Rounds : round[r].pc = "creating" <=> round[r].todo # {}
  /\ toldOf \in [Trackers -> 0..clock]
  /\ late \subseteq Trackers /\ refused \subseteq Trackers
  /\ failures \in 0..MaxFailures

OfflineInit ==
  /\ byEpisode \in BOOLEAN
  /\ clock = 1
  /\ contact \in [Trackers -> {0, 1}]
  /\ lastAlert = [v \in Trackers |-> 0]
  /\ round = [r \in Rounds |-> IdleRound]
  /\ toldOf = [v \in Trackers |-> 0]
  /\ late = {} /\ refused = {} /\ failures = 0

-------------------------------------------------------------------------------

Tick ==
  /\ clock < MaxTime
  /\ clock' = clock + 1
  /\ UNCHANGED <<byEpisode, contact, round, told, failures>>

(* The tracker speaks to Traccar.                                            *)
Speaks(v) ==
  /\ contact[v] # clock
  /\ contact' = [contact EXCEPT ![v] = clock]
  /\ UNCHANGED <<byEpisode, clock, round, told, failures>>

(* The cars and, from Traccar, their trackers.  A round that Traccar does    *)
(* not answer ends there.                                                    *)
RoundAsks(r) ==
  /\ round[r].pc = "idle"
  /\ round' = [round EXCEPT ![r] =
       [pc |-> "asked", at |-> clock, seen |-> contact, todo |-> {}, news |-> {}]]
  /\ UNCHANGED <<world, told, failures>>

(* Silent for long enough when the round took its time; a tracker that never *)
(* spoke is not judged.                                                      *)
SilentIn(rd, v) == rd.seen[v] # 0 /\ rd.at >= rd.seen[v] + Threshold

(* Told of within the window, and, by episode, told of since it went silent. *)
ToldInWindow(rd, v)  == lastAlert[v] # 0 /\ lastAlert[v] + Window >= rd.at
ToldInEpisode(rd, v) == byEpisode /\ lastAlert[v] > rd.seen[v]
Suppressed_EpisodeOnly(rd, v) ==
  IF byEpisode THEN ToldInEpisode(rd, v) ELSE ToldInWindow(rd, v)
Suppressed_AnyAge(rd, v) == lastAlert[v] # 0
Suppressed(rd, v) == ToldInWindow(rd, v) \/ ToldInEpisode(rd, v)

(* filtrarPorEpisodio, or vehiclesComAlertaRecente and the loop over the cars.*)
Todo(rd) == {v \in Trackers : SilentIn(rd, v) /\ ~Suppressed(rd, v)}

Going_Always(rd, cars) == [rd EXCEPT !.pc = "creating", !.todo = cars]
Going(rd, cars) ==
  IF cars = {} THEN IdleRound ELSE [rd EXCEPT !.pc = "creating", !.todo = cars]

RoundLooks(r) ==
  /\ round[r].pc = "asked"
  /\ round' = [round EXCEPT ![r] = Going(@, Todo(@))]
  /\ UNCHANGED <<world, told, failures>>

(* notifyOffline of the next car.  A refusal of the database is logged, and  *)
(* the round goes on as if the alert were there.                             *)
RoundCreates(r, v) ==
  /\ v \in round[r].todo
  /\ round' = [q \in Rounds |->
       IF q = r THEN Going(round[r], round[r].todo \ {v})
       ELSE IF round[q].pc = "creating"
            THEN [round[q] EXCEPT !.news = @ \cup {v}] ELSE round[q]]
  /\ lastAlert' = [lastAlert EXCEPT ![v] = clock]
  /\ toldOf' = [toldOf EXCEPT ![v] = round[r].seen[v]]
  /\ late' = IF contact[v] # round[r].seen[v] THEN late \cup {v} ELSE late \ {v}
  /\ refused' = refused \ {v}
  /\ UNCHANGED <<world, failures>>

RoundIsRefused(r, v) ==
  /\ v \in round[r].todo
  /\ failures < MaxFailures
  /\ failures' = failures + 1
  /\ round' = [round EXCEPT ![r] = Going(@, @.todo \ {v})]
  /\ refused' = refused \cup {v}
  /\ UNCHANGED <<world, lastAlert, toldOf, late>>

(* The backend restarts.                                                     *)
RoundsDie ==
  /\ failures < MaxFailures
  /\ failures' = failures + 1
  /\ round' = [r \in Rounds |-> IdleRound]
  /\ UNCHANGED <<world, told>>

OfflineNext ==
  \/ Tick \/ RoundsDie
  \/ \E v \in Trackers : Speaks(v)
  \/ \E r \in Rounds : RoundAsks(r) \/ RoundLooks(r)
  \/ \E r \in Rounds, v \in Trackers : RoundCreates(r, v) \/ RoundIsRefused(r, v)

OfflineSpec == OfflineInit /\ [][OfflineNext]_offlineVars

-------------------------------------------------------------------------------
(* A car that stays silent does not fill the screen of the operator: its     *)
(* alerts are more than a window apart, however slow the round that wrote    *)
(* the first of them, and by episode one silence gives one alert, of         *)
(* whatever age; unless the second round looked the alerts up before the     *)
(* first had written (detectOffline, detectGpsSilent, filtrarPorEpisodio).   *)
AlertsStayApart ==
  [][\A r \in Rounds, v \in Trackers : RoundCreates(r, v) /\ v \notin round[r].news =>
       /\ lastAlert[v] = 0 \/ clock > lastAlert[v] + Window
       /\ byEpisode => toldOf[v] # round[r].seen[v]]_offlineVars

(* What keeps alerts apart does not lose one: when a round is over, every    *)
(* car it found silent was told of for this silence or within the window,    *)
(* unless the database refused, or the last alert came so late that the car  *)
(* had already been back: by episode it then hides the next silence.         *)
EndsRound(r) ==
  /\ \/ RoundLooks(r)
     \/ \E v \in Trackers : RoundCreates(r, v) \/ RoundIsRefused(r, v)
  /\ round'[r].pc = "idle"
SilentIsTold ==
  [][\A r \in Rounds, v \in Trackers : EndsRound(r) /\ SilentIn(round[r], v) =>
       \/ toldOf'[v] = round[r].seen[v]
       \/ lastAlert'[v] + Window >= round[r].at
       \/ v \in late' \cup refused']_offlineVars
===============================================================================
