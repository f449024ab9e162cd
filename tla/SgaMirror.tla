------------------------------- MODULE SgaMirror -------------------------------
(***************************************************************************)
(* The mirror of the SGA's cars, which an installation looks a plate up in: *)
(* the scan that rewrites it page by page while the SGA goes on changing,   *)
(* then takes away what no page brought, then corrects which of the         *)
(* vehicles are motorcycles.  A car is its SGA code; the SGA lists the cars *)
(* of a situation in the order of their codes.                              *)
(***************************************************************************)
EXTENDS Naturals, FiniteSets

CONSTANTS
  Codes,          (* the codes of the cars of one tenant, numbers             *)
  Situations,     (* SITUACOES is 1..Situations; 1 is that of the actives     *)
  Lote,           (* the cars of a page                                       *)
  Bikes,          (* the cars that are motorcycles in the SGA                 *)
  MaxMoves,       (* bound: changes from outside: of a car's situation, its   *)
                  (* contract or tracker, its type by hand                    *)
  MaxMirrorFaults (* bound: failed or empty pages, restarts                   *)

ASSUME CodesAssumption == IsFiniteSet(Codes) /\ Codes \subseteq Nat /\ Bikes \subseteq Codes
ASSUME ScanAssumption == Situations \in Nat \ {0} /\ Lote \in Nat \ {0}
ASSUME MirrorBoundsAssumption ==
  MaxMoves \in Nat /\ MaxMirrorFaults \in Nat

VARIABLES
  situation,  (* of each car in the SGA, 0 if it is not there; outside        *)
  wanted,     (* the cars whose contract asks for a tracker they have not got; *)
              (* outside                                                      *)
  pendings,   (* the cars with a line in installation_pendings                *)
  row,        (* sga_vehicles: the situation a row says, 0 for no row         *)
  moto,       (* the vehicles whose vehicleType is MOTORCYCLE                 *)
  actives,    (* the pending sync, with the actives it will hand over         *)
  scan,       (* sincronizar, of which one runs at a time                     *)
  booted,     (* cargaInicial has not run yet                                 *)
  moves, mirrorFaults  (* for the bounds only                                 *)

mirrorCounts == <<moves, mirrorFaults>>
mirrorVars == <<situation, wanted, pendings, row, moto, actives, scan, booted,
                moves, mirrorFaults>>

(* fresh: the rows this scan has written (syncedAt >= inicio).  total: the   *)
(* rows it has counted, some of them twice.  unseen: history, the cars that, *)
(* since the reading of what this scan works from began, moved or had a page *)
(* shift or fail under them, so that no page may have brought them.          *)
Walk == [pc : {"idle", "given", "pages", "count", "sweep", "align", "bikes", "cars"},
         at : 1..(Situations + 1), page : Nat, given : SUBSET Codes,
         fresh : SUBSET Codes, total : Nat, unseen : SUBSET Codes,
         tobike : SUBSET Codes, tocar : SUBSET Codes]
(* asked: the cars read as waiting for a tracker; twice: those two pages     *)
(* brought.                                                                  *)
Reading == [pc : {"idle", "pages", "read"}, page : Nat, list : SUBSET Codes,
            asked : SUBSET Codes, twice : SUBSET Codes, unseen : SUBSET Codes]

MirrorTypeOK ==
  /\ situation \in [Codes -> 0..Situations] /\ row \in [Codes -> 0..Situations]
  /\ wanted \subseteq Codes /\ pendings \subseteq Codes /\ moto \subseteq Codes
  /\ actives \in Reading /\ scan \in Walk
  /\ booted \in BOOLEAN
  /\ scan.pc = "idle" => scan.fresh = {} /\ scan.total = 0
  /\ scan.fresh \subseteq {c \in Codes : row[c] # 0}
  /\ Cardinality(scan.fresh) <= scan.total
  /\ moves \in 0..MaxMoves /\ mirrorFaults \in 0..MaxMirrorFaults

NoReading == [pc |-> "idle", page |-> 0, list |-> {}, asked |-> {}, twice |-> {},
              unseen |-> {}]
NoScan == [pc |-> "idle", at |-> 1, page |-> 0, given |-> {}, fresh |-> {}, total |-> 0,
           unseen |-> {}, tobike |-> {}, tocar |-> {}]

(* The backend starts; the vehicles were all created as cars.                *)
MirrorInit ==
  /\ situation \in [Codes -> 0..Situations]
  /\ wanted \in SUBSET Codes /\ pendings = {}
  /\ row = [c \in Codes |-> 0] /\ moto = {}
  /\ actives = NoReading /\ scan = NoScan /\ booted = TRUE
  /\ moves = 0 /\ mirrorFaults = 0

MirrorFault ==
  /\ mirrorFaults < MaxMirrorFaults
  /\ mirrorFaults' = mirrorFaults + 1
  /\ UNCHANGED moves

-------------------------------------------------------------------------------
(* The SGA.                                                                  *)

Listed(s) == {c \in Codes : situation[c] = s}
Before(c, cars) == Cardinality({d \in cars : d < c})

(* A page is an offset into the list as it is when the page is asked for.    *)
(* No situation has as many pages as MAX_PAGINAS.                            *)
Page(s, page) ==
  {c \in Listed(s) : Before(c, Listed(s)) \in (page * Lote)..(page * Lote + Lote - 1)}

(* A car enters, leaves or changes its situation.  It may be missed itself,  *)
(* and those behind it in the list it leaves move up one place.              *)
CarMoves(c, s) ==
  /\ moves < MaxMoves
  /\ moves' = moves + 1
  /\ s # situation[c]
  /\ situation' = [situation EXCEPT ![c] = s]
  /\ LET shifted == {c} \cup {d \in Listed(situation[c]) : situation[c] # 0 /\ d > c}
     IN /\ actives' = IF actives.pc = "idle" THEN actives
                      ELSE [actives EXCEPT !.unseen = @ \cup shifted]
        /\ scan' = IF scan.pc \in {"given", "pages", "count", "sweep"}
                   THEN [scan EXCEPT !.unseen = @ \cup shifted] ELSE scan
  /\ UNCHANGED <<wanted, pendings, row, moto, booted, mirrorFaults>>

(* The contract of a car asks for a tracker, or no longer does.              *)
ContractChanges(c) ==
  /\ moves < MaxMoves
  /\ moves' = moves + 1
  /\ wanted' = IF c \in wanted THEN wanted \ {c} ELSE wanted \cup {c}
  /\ UNCHANGED <<situation, pendings, row, moto, actives, scan, booted, mirrorFaults>>

(* A car gets its tracker: the sync leaves out the cars that have one, unless *)
(* it has looked already, and removeByPlate takes the line of this one, or   *)
(* fails (FieldQueue has the installations).                                 *)
CarIsFitted(c) ==
  /\ moves < MaxMoves
  /\ moves' = moves + 1
  /\ c \in wanted
  /\ wanted' = wanted \ {c}
  /\ pendings' \in {pendings, pendings \ {c}}
  /\ \/ actives' = [actives EXCEPT !.asked = @ \ {c}]
     \/ actives.pc = "read" /\ UNCHANGED actives
  /\ UNCHANGED <<situation, row, moto, scan, booted, mirrorFaults>>

-------------------------------------------------------------------------------
(* The sync of the pendings reads the actives, then hands them over.         *)

ReadingStarts ==
  /\ actives.pc = "idle"
  /\ actives' = [NoReading EXCEPT !.pc = "pages"]
  /\ UNCHANGED <<situation, wanted, pendings, row, moto, scan, booted, mirrorCounts>>

ShortPage_NotOver(cars) == Cardinality(cars) <= Lote
ShortPage(cars) == Cardinality(cars) < Lote

(* What a page of the actives adds to the reading.                           *)
Read(cars) ==
  [actives EXCEPT !.list = @ \cup cars, !.asked = @ \cup (cars \cap wanted),
                  !.twice = @ \cup (cars \cap actives.list)]
ReadsActives ==
  /\ actives.pc = "pages"
  /\ LET lote == Page(1, actives.page)
     IN actives' = IF ShortPage(lote) THEN [Read(lote) EXCEPT !.pc = "read"]
                   ELSE [Read(lote) EXCEPT !.page = @ + 1]
  /\ UNCHANGED <<situation, wanted, pendings, row, moto, scan, booted, mirrorCounts>>

(* A page that stays empty when it is asked for again is taken for the end.  *)
ReadingCutShort ==
  /\ actives.pc = "pages"
  /\ MirrorFault
  /\ actives' = [actives EXCEPT !.pc = "read", !.unseen = @ \cup Listed(1)]
  /\ UNCHANGED <<situation, wanted, pendings, row, moto, scan, booted>>

(* So is one of the associates, without whom a car is not in the queue.      *)
AssociatesCutShort ==
  /\ actives.pc = "read"
  /\ MirrorFault
  /\ \E left \in SUBSET actives.asked : actives' = [actives EXCEPT !.asked = left]
  /\ UNCHANGED <<situation, wanted, pendings, row, moto, scan, booted>>

(* A call while a scan is running is ignored.  An empty list is as if none   *)
(* was given.                                                                *)
StartedWith(list, unseen) ==
  IF scan.pc # "idle" THEN scan
  ELSE [NoScan EXCEPT !.pc = IF list = {} THEN "pages" ELSE "given",
                      !.at = IF list = {} THEN 1 ELSE 2,
                      !.given = list, !.unseen = unseen]

(* The queue is written before the actives are handed over.  It is written   *)
(* unless it fell by more than 70%, or a car came twice, whose second line   *)
(* the table refuses.  What is refused ends the sync, without any fault.     *)
Believed(new, old) == old > 0 => 10 * new >= 3 * old
Writable ==
  /\ Believed(Cardinality(actives.asked), Cardinality(pendings))
  /\ actives.asked \cap actives.twice = {}

HandsOver ==
  /\ actives.pc = "read" /\ Writable
  /\ pendings' = actives.asked
  /\ scan' = StartedWith(actives.list, actives.unseen)
  /\ actives' = NoReading
  /\ UNCHANGED <<situation, wanted, row, moto, booted, mirrorCounts>>

Refuses ==
  /\ actives.pc = "read" /\ ~Writable
  /\ actives' = NoReading
  /\ UNCHANGED <<situation, wanted, pendings, row, moto, scan, booted, mirrorCounts>>

(* Twenty seconds after the start, if the table is empty.                    *)
FirstLoad ==
  /\ booted
  /\ booted' = FALSE
  /\ scan' = IF \A c \in Codes : row[c] = 0 THEN StartedWith({}, {}) ELSE scan
  /\ UNCHANGED <<situation, wanted, pendings, row, moto, actives, mirrorCounts>>

(* Any page or statement may fail.                                           *)
ReadingFails ==
  /\ actives.pc # "idle"
  /\ MirrorFault
  /\ actives' = NoReading
  /\ UNCHANGED <<situation, wanted, pendings, row, moto, scan, booted>>

-------------------------------------------------------------------------------
(* The scan.                                                                 *)

(* gravarPagina: the rows of the page are written anew in one transaction.   *)
Written(cars, s) == row' = [c \in Codes |-> IF c \in cars THEN s ELSE row[c]]
Counted_Anew(cars) ==
  [scan EXCEPT !.fresh = @ \cup cars, !.total = Cardinality(cars)]
Counted(cars) ==
  [scan EXCEPT !.fresh = @ \cup cars, !.total = @ + Cardinality(cars)]

(* The rows of the list handed over, a slice at a time, as active.           *)
WritesGiven ==
  /\ scan.pc = "given"
  /\ LET lote == {c \in scan.given : Before(c, scan.given) < Lote}
     IN /\ Written(lote, 1)
        /\ scan' = [Counted(lote) EXCEPT !.given = @ \ lote,
                      !.pc = IF scan.given # lote THEN "given"
                             ELSE IF Situations > 1 THEN "pages" ELSE "count"]
  /\ UNCHANGED <<situation, wanted, pendings, moto, actives, booted, mirrorCounts>>

(* A page is read from the SGA and written; a short one ends the situation.  *)
AfterLast(s) == s + 1 > Situations
NextPage(walk, lote) ==
  IF ~ShortPage(lote) THEN [walk EXCEPT !.page = @ + 1]
  ELSE [walk EXCEPT !.page = 0, !.at = @ + 1,
                    !.pc = IF AfterLast(scan.at) THEN "count" ELSE "pages"]

WritesPage ==
  /\ scan.pc = "pages"
  /\ LET lote == Page(scan.at, scan.page)
     IN /\ Written(lote, scan.at)
        /\ scan' = NextPage(Counted(lote), lote)
  /\ UNCHANGED <<situation, wanted, pendings, moto, actives, booted, mirrorCounts>>

(* The SGA answers nothing and says nothing; the scan does not ask again.    *)
EmptyPage ==
  /\ scan.pc = "pages"
  /\ MirrorFault
  /\ scan' = [NextPage(scan, {}) EXCEPT !.unseen = @ \cup Listed(scan.at)]
  /\ UNCHANGED <<situation, wanted, pendings, row, moto, actives, booted>>

(* A scan that brought less than 30% of the table is not believed.           *)
Rows == {c \in Codes : row[c] # 0}
Brought(total, old) == old > 0 => 10 * total >= 3 * old
Counts ==
  /\ scan.pc = "count"
  /\ scan' = IF Brought(scan.total, Cardinality(Rows))
             THEN [scan EXCEPT !.pc = "sweep"] ELSE NoScan
  /\ UNCHANGED <<situation, wanted, pendings, row, moto, actives, booted, mirrorCounts>>

(* The rows older than the scan go.                                          *)
Stale_LastOnly == {c \in Rows \ scan.fresh : row[c] = Situations}
Stale == Rows \ scan.fresh
Sweeps ==
  /\ scan.pc = "sweep"
  /\ row' = [c \in Codes |-> IF c \in Stale THEN 0 ELSE row[c]]
  /\ scan' = [NoScan EXCEPT !.pc = "align"]
  /\ UNCHANGED <<situation, wanted, pendings, moto, actives, booted, mirrorCounts>>

(* alinharTipoDosVeiculos: who is not what the mirror says, where it says    *)
(* anything, is written by id afterwards, the motorcycles first.             *)
Misfits(cars, typed) == (Rows \cap cars) \ typed
Aligns ==
  /\ scan.pc = "align"
  /\ scan' = LET tobike == Misfits(Bikes, moto)
                 tocar  == Misfits(Codes \ Bikes, Codes \ moto)
             IN IF tobike \cup tocar = {} THEN NoScan
                ELSE [scan EXCEPT !.pc = "bikes", !.tobike = tobike, !.tocar = tocar]
  /\ UNCHANGED <<situation, wanted, pendings, row, moto, actives, booted, mirrorCounts>>

TypesBikes ==
  /\ scan.pc = "bikes"
  /\ moto' = moto \cup scan.tobike
  /\ scan' = [scan EXCEPT !.pc = "cars", !.tobike = {}]
  /\ UNCHANGED <<situation, wanted, pendings, row, actives, booted, mirrorCounts>>

TypesCars ==
  /\ scan.pc = "cars"
  /\ moto' = moto \ scan.tocar
  /\ scan' = NoScan
  /\ UNCHANGED <<situation, wanted, pendings, row, actives, booted, mirrorCounts>>

(* Any page or statement may fail; what is written stays and the finally     *)
(* lets the next scan in.                                                    *)
AfterFailure_Locked == [NoScan EXCEPT !.pc = "locked"]
AfterFailure == NoScan
ScanFails ==
  /\ scan.pc # "idle"
  /\ MirrorFault
  /\ scan' = AfterFailure
  /\ UNCHANGED <<situation, wanted, pendings, row, moto, actives, booted>>

-------------------------------------------------------------------------------

(* The vehicle's screen writes a type by hand.                               *)
EditsType(c) ==
  /\ moves < MaxMoves
  /\ moves' = moves + 1
  /\ moto' = IF c \in moto THEN moto \ {c} ELSE moto \cup {c}
  /\ UNCHANGED <<situation, wanted, pendings, row, actives, scan, booted, mirrorFaults>>

BackendRestarts ==
  /\ MirrorFault
  /\ scan' = NoScan /\ actives' = NoReading /\ booted' = TRUE
  /\ UNCHANGED <<situation, wanted, pendings, row, moto>>

ScanStep ==
  WritesGiven \/ WritesPage \/ Counts \/ Sweeps \/ Aligns \/ TypesBikes \/ TypesCars
ReadingStep == ReadingStarts \/ ReadsActives \/ HandsOver \/ Refuses

MirrorNext ==
  \/ \E c \in Codes : \/ EditsType(c) \/ ContractChanges(c) \/ CarIsFitted(c)
                      \/ \E s \in 0..Situations : CarMoves(c, s)
  \/ ReadingStep \/ FirstLoad \/ ReadingFails \/ ReadingCutShort \/ AssociatesCutShort
  \/ ScanStep \/ EmptyPage \/ ScanFails \/ BackendRestarts

MirrorSpec == MirrorInit /\ [][MirrorNext]_mirrorVars

(* The pending sync comes back at 9h and 17h, and what has begun goes on.    *)
MirrorFairness ==
  WF_mirrorVars(ReadingStep) /\ WF_mirrorVars(ScanStep)

-------------------------------------------------------------------------------
(* Properties.                                                               *)

(* Rows go only in a sweep, and the sweep spares a car the SGA still lists,  *)
(* unless the car itself moved, a car ahead of it in its list left, or a     *)
(* page of its list came back empty, while this scan or the reading of the   *)
(* list it was handed was under way (deleteMany by syncedAt).  So the comment *)
(* of sga-mirror.service.ts:259, "So aqui some quem saiu do SGA", holds of    *)
(* scans that no change of the SGA crosses.                                   *)
SweepSparesTheListed ==
  [][\A c \in Codes : row[c] # 0 /\ row'[c] = 0 =>
       situation[c] = 0 \/ c \in scan.unseen]_mirrorVars

(* A scan nothing disturbed leaves the mirror as the SGA is: every car with  *)
(* its situation, whatever was read by others before, none that has left.    *)
UndisturbedScanIsExact ==
  [][scan.pc = "sweep" /\ scan'.pc = "align" /\ scan.unseen = {} =>
       row' = situation]_mirrorVars

(* The mirror says what the SGA says in the end and for good, whatever scans *)
(* and readings fail: no error and no restart leaves it locked.  Two guards  *)
(* may keep it from that without any error, for as long as they hold: the    *)
(* SGA lists so little that the scan is not believed, or so few of its cars  *)
(* wait for a tracker that no sync gets past the queue                       *)
(* (installation-pendings.service.ts:455) to start a scan.                   *)
NotBrought == ~Brought(Cardinality({c \in Codes : situation[c] # 0}), Cardinality(Rows))
QueueRefused == ~Believed(Cardinality(wanted \cap Listed(1)), Cardinality(pendings))
KeptBack == <>[](NotBrought \/ QueueRefused)
MirrorCatchesUp == KeptBack \/ <>[](row = situation)

(* A motorcycle is not drawn as a car for ever: in the end, and for good,    *)
(* every vehicle has the type the SGA says.                                  *)
TypesSettle ==
  KeptBack \/ <>[](\A c \in Codes : situation[c] # 0 => (c \in moto <=> c \in Bikes))
===============================================================================
