------------------------------ MODULE CutAlerts -------------------------------
(***************************************************************************)
(* The alarm of a cut power line of one car, from the readings of its      *)
(* tracker to the operators who take the alert over and close it.  The     *)
(* gateway does not wait for a reading to be worked on before it hands     *)
(* over the next one, so readings pass each other between their awaits;    *)
(* the flag that keeps a cut from being told twice lives in memory.  The   *)
(* detector of jammers has the same flag and the same steps.               *)
(***************************************************************************)
EXTENDS Naturals, FiniteSets

CONSTANTS
  Readings,    (* bound: readings worked on at the same time                  *)
  Operators,   (* the operators at the panel                                  *)
  Alerts,      (* the rows of alerts there is room for                        *)
  MaxRefusals  (* bound: alerts the database refuses, and restarts            *)

ASSUME CutBounds == MaxRefusals \in Nat

VARIABLES
  powerCutOpen,  (* the flag of the car's VehicleState                        *)
  reading,       (* processPosition, for the readings in flight               *)
  alert,         (* the POWER_CUT rows of the car                             *)
  operator,      (* the requests of the operators                             *)
  toldOfCut,     (* history: told since the last reading without a cut        *)
  crossed,       (* history: such a reading passed one that was telling       *)
  lost,          (* history: an alert was refused since then                  *)
  raced,         (* history: the alerts two operators had in hand at once     *)
  refusals       (* for the bound only                                        *)

cutVars == <<powerCutOpen, reading, alert, operator, toldOfCut, crossed, lost, raced,
             refusals>>
history == <<toldOfCut, crossed, lost, raced>>

(* fresh: created within NO_DUPLICATE_WINDOW_MS; closed: it has a resolution *)
(* and the name of who gave it.                                              *)
Row == [status : {"none", "OPEN", "IN_PROGRESS", "RESOLVED"},
        fresh : BOOLEAN, closed : BOOLEAN]
NoRow == [status |-> "none", fresh |-> FALSE, closed |-> FALSE]
Unresolved(a) == alert[a].status \in {"OPEN", "IN_PROGRESS"}

IdleReading  == [pc |-> "idle", cut |-> "unknown", news |-> FALSE]
IdleOperator == [pc |-> "idle", alerts |-> {}]
Kinds == {"assume", "resolve", "reopen"}

CutTypeOK ==
  /\ powerCutOpen \in BOOLEAN
  /\ reading \in [Readings -> [pc : {"idle", "waiting", "lookup", "create", "flag"},
                               cut : {"yes", "no", "unknown"}, news : BOOLEAN]]
  /\ \A p \in Readings : reading[p].pc \in {"lookup", "create", "flag"} =>
                           reading[p].cut = "yes"
  /\ alert \in [Alerts -> Row]
  /\ operator \in [Operators -> [pc : {"idle"} \cup Kinds, alerts : SUBSET Alerts]]
  /\ \A o \in Operators :
       Cardinality(operator[o].alerts) = IF operator[o].pc = "idle" THEN 0 ELSE 1
  /\ {toldOfCut, crossed, lost} \subseteq BOOLEAN
  /\ raced \subseteq Alerts
  /\ refusals \in 0..MaxRefusals

CutInit ==
  /\ powerCutOpen = FALSE
  /\ reading = [p \in Readings |-> IdleReading]
  /\ alert = [a \in Alerts |-> NoRow]
  /\ operator = [o \in Operators |-> IdleOperator]
  /\ toldOfCut = FALSE /\ crossed = FALSE /\ lost = FALSE /\ raced = {}
  /\ refusals = 0

Refused ==
  /\ refusals < MaxRefusals
  /\ refusals' = refusals + 1

(* What others must know of an alert that has just become unresolved.        *)
WithNews(rs) ==
  [p \in Readings |-> IF rs[p].pc = "create" THEN [rs[p] EXCEPT !.news = TRUE] ELSE rs[p]]

-------------------------------------------------------------------------------
(* The readings.                                                             *)

(* The settings of the tenant, a speeding alert and the ignition come first, *)
(* with awaits of their own.                                                 *)
ReadingArrives(p, cut) ==
  /\ reading[p].pc = "idle"
  /\ reading' = [reading EXCEPT ![p] = [IdleReading EXCEPT !.pc = "waiting", !.cut = cut]]
  /\ UNCHANGED <<powerCutOpen, alert, operator, history, refusals>>

(* A cut is looked into unless it is known; the end of a cut is noted.       *)
FlagAfter_Kept(cut) == powerCutOpen
FlagAfter(cut) == powerCutOpen /\ cut # "no"

Suspicious(cut) == cut = "yes" /\ ~powerCutOpen

ReadingJudges(p) ==
  /\ reading[p].pc = "waiting"
  /\ reading' = [reading EXCEPT ![p] =
                   IF Suspicious(@.cut) THEN [@ EXCEPT !.pc = "lookup"]
                   ELSE IdleReading]
  /\ powerCutOpen' = FlagAfter(reading[p].cut)
  /\ IF reading[p].cut = "no"
     THEN /\ toldOfCut' = FALSE /\ lost' = FALSE
          /\ crossed' = \E q \in Readings : reading[q].pc = "flag"
     ELSE UNCHANGED <<toldOfCut, lost, crossed>>
  /\ UNCHANGED <<alert, operator, raced, refusals>>

(* hasRecentAlert.                                                           *)
Recent_InProgressOnly == \E a \in Alerts : alert[a].fresh /\ alert[a].status = "IN_PROGRESS"
Recent == \E a \in Alerts : alert[a].fresh /\ Unresolved(a)

ReadingLooks(p) ==
  /\ reading[p].pc = "lookup"
  /\ reading' = [reading EXCEPT ![p] = IF Recent THEN IdleReading
                                       ELSE [@ EXCEPT !.pc = "create"]]
  /\ toldOfCut' = (toldOfCut \/ Recent)
  /\ UNCHANGED <<powerCutOpen, alert, operator, crossed, lost, raced, refusals>>

ReadingCreates(p, a) ==
  /\ reading[p].pc = "create"
  /\ alert[a].status = "none"
  /\ alert' = [alert EXCEPT ![a] = [status |-> "OPEN", fresh |-> TRUE, closed |-> FALSE]]
  /\ reading' = WithNews([reading EXCEPT ![p].pc = "flag"])
  /\ toldOfCut' = TRUE
  /\ UNCHANGED <<powerCutOpen, operator, crossed, lost, raced, refusals>>

(* createAlert logs the error and returns, and the flag is set all the same. *)
ReadingIsRefused(p) ==
  /\ reading[p].pc = "create"
  /\ Refused
  /\ reading' = [reading EXCEPT ![p].pc = "flag"]
  /\ lost' = TRUE
  /\ UNCHANGED <<powerCutOpen, alert, operator, toldOfCut, crossed, raced>>

ReadingFlags(p) ==
  /\ reading[p].pc = "flag"
  /\ powerCutOpen' = TRUE
  /\ reading' = [reading EXCEPT ![p] = IdleReading]
  /\ UNCHANGED <<alert, operator, history, refusals>>

(* Six hours later.                                                          *)
AlertAges(a) ==
  /\ alert[a].fresh
  /\ alert' = [alert EXCEPT ![a].fresh = FALSE]
  /\ UNCHANGED <<powerCutOpen, reading, operator, history, refusals>>

-------------------------------------------------------------------------------
(* The operators.  Each request reads the alert, looks at its status and     *)
(* then writes without looking again.                                        *)

Allowed(kind, a) ==
  IF kind = "reopen" THEN alert[a].status = "RESOLVED" ELSE Unresolved(a)

OperatorReads(o, kind, a) ==
  /\ operator[o].pc = "idle"
  /\ Allowed(kind, a)
  /\ operator' = [operator EXCEPT ![o] = [pc |-> kind, alerts |-> {a}]]
  /\ UNCHANGED <<powerCutOpen, reading, alert, history, refusals>>

Written(kind, row) ==
  [row EXCEPT !.status = IF kind = "resolve" THEN "RESOLVED" ELSE "IN_PROGRESS",
              !.closed = CASE kind = "resolve" -> TRUE
                           [] kind = "reopen"  -> FALSE
                           [] OTHER            -> @]

OperatorWrites(o, a) ==
  /\ operator[o].alerts = {a}
  /\ alert' = [alert EXCEPT ![a] = Written(operator[o].pc, @)]
  /\ reading' = IF alert[a].status = "RESOLVED" THEN WithNews(reading) ELSE reading
  /\ raced' = IF \E q \in Operators \ {o} : a \in operator[q].alerts
              THEN raced \cup {a} ELSE raced
  /\ operator' = [operator EXCEPT ![o] = IdleOperator]
  /\ UNCHANGED <<powerCutOpen, toldOfCut, crossed, lost, refusals>>

(* The backend restarts: the flag is forgotten, the requests end.            *)
CutRestart ==
  /\ Refused
  /\ powerCutOpen' = FALSE
  /\ reading' = [p \in Readings |-> IdleReading]
  /\ operator' = [o \in Operators |-> IdleOperator]
  /\ UNCHANGED <<alert, history>>

CutNext ==
  \/ \E p \in Readings :
       \/ \E cut \in {"yes", "no", "unknown"} : ReadingArrives(p, cut)
       \/ ReadingJudges(p) \/ ReadingLooks(p) \/ ReadingIsRefused(p) \/ ReadingFlags(p)
       \/ \E a \in Alerts : ReadingCreates(p, a)
  \/ \E a \in Alerts : AlertAges(a)
  \/ \E o \in Operators, a \in Alerts :
       (\E kind \in Kinds : OperatorReads(o, kind, a)) \/ OperatorWrites(o, a)
  \/ CutRestart

CutSpec == CutInit /\ [][CutNext]_cutVars

-------------------------------------------------------------------------------

(* The flag silences the readings of a cut, so it must never stand for a cut *)
(* nobody was told of: it is up only if an alert was written or found since  *)
(* the last reading without a cut, unless that reading passed one that was   *)
(* telling, or the database refused the alert and createAlert kept quiet.    *)
FlagMeansTold == powerCutOpen => toldOfCut \/ crossed \/ lost

(* One cut gives one alarm, across restarts too: no second alert is written  *)
(* while a recent one is unresolved, unless that one came, or was reopened,  *)
(* after the reading had looked (hasRecentAlert).                            *)
NoSecondAlarm ==
  [][\A p \in Readings, a \in Alerts :
       ReadingCreates(p, a) =>
         \/ \A b \in Alerts : ~(alert[b].fresh /\ Unresolved(b))
         \/ reading[p].news]_cutVars

(* An alert is closed with its resolution or open without one, through any   *)
(* series of assume, resolve and reopen by any operators, as long as no two  *)
(* of them had the alert in hand at once.                                    *)
ClosedWithResolution ==
  \A a \in Alerts \ raced : alert[a].closed <=> alert[a].status = "RESOLVED"
===============================================================================
