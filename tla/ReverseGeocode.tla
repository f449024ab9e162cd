--------------------------- MODULE ReverseGeocode ---------------------------
(***************************************************************************)
(* Addresses of coordinates (reverse-geocode.service.ts): the cache table, *)
(* the queue that lists fill and one worker empties, the requests that     *)
(* wait for their address, the company's own geocoder, and the public      *)
(* Nominatim behind one gate, which takes one call per interval and        *)
(* answers 429 to who asks too much.                                       *)
(*                                                                         *)
(* Time passes in ticks and the timers of the gate are relative to now; a  *)
(* timer fires when it is due.  A point stands for the cell it is cached   *)
(* under.                                                                  *)
(***************************************************************************)
EXTENDS Naturals, Sequences, FiniteSets

CONSTANTS
  Points,
  Screens,      (* requests of one point that can wait at the same time     *)
  Batches,      (* workers of the histories that become a spreadsheet       *)
  Worker,       (* processarFila                                            *)
  NoPoint,
  Interval,     (* INTERVALO_MS, in ticks                                   *)
  Penalty,      (* BACKOFF_429_MS, or the longest Retry-After, in ticks     *)
  QueueMax,     (* FILA_MAX                                                 *)
  OwnGeocoder,  (* usaGeocoderProprio                                       *)
  MaxAsks,      (* bound: points and lists asked for                        *)
  MaxRefusals   (* bound: 429 answers                                       *)

Callers == Screens \cup Batches \cup {Worker}
Providers == {"own", "nominatim"}

ASSUME CallersAssumption ==
  Worker \notin Screens \cup Batches /\ Screens \cap Batches = {} /\ NoPoint \notin Points
ASSUME PaceAssumption == Interval \in Nat \ {0} /\ Penalty \in Nat \ {0}
ASSUME GeoBoundsAssumption ==
  OwnGeocoder \in BOOLEAN /\ QueueMax \in Nat /\ MaxAsks \in Nat /\ MaxRefusals \in Nat

VARIABLES
  cached,     (* geo_addresses                                               *)
  absent,     (* points a list did not find in the cache, to be queued       *)
  queue,      (* fila, in the order of its keys                              *)
  working,    (* processando                                                 *)
  call,       (* what each caller waits for                                  *)
  slot,       (* ticks until the gate is free (slotLivreEm)                  *)
  blocked,    (* ticks of penalty left (bloqueadoAteProprio, ...Nominatim)   *)
  sinceCall,  (* ticks since the last call to Nominatim, up to Interval      *)
  asks, refusals   (* for the bounds only                                    *)

geoVars == <<cached, absent, queue, working, call, slot, blocked, sinceCall,
             asks, refusals>>

(* early: the caller was at the gate when a 429 arrived.                     *)
Call == [pc : {"idle", "loop", "missed", "own", "gate", "asked"},
         point : Points \cup {NoPoint}, wait : Nat, early : BOOLEAN]
At(pc, p) == [pc |-> pc, point |-> p, wait |-> 0, early |-> FALSE]
NoCall == At("idle", NoPoint)

(* The worker goes back to its loop, the others are done.                    *)
After(q) == IF q = Worker THEN At("loop", NoPoint) ELSE NoCall

Queued == {queue[n] : n \in DOMAIN queue}

GeoTypeOK ==
  /\ cached \subseteq Points /\ absent \subseteq Points
  /\ queue \in Seq(Points) /\ working \in BOOLEAN
  /\ call \in [Callers -> Call]
  /\ \A q \in Callers : call[q].pc \in {"idle", "loop"} <=> call[q].point = NoPoint
  /\ working <=> call[Worker].pc # "idle"
  /\ slot \in Nat /\ blocked \in [Providers -> 0..Penalty]
  /\ sinceCall \in 0..Interval
  /\ queue # <<>> => working
  /\ asks \in 0..MaxAsks /\ refusals \in 0..MaxRefusals

GeoInit ==
  /\ cached = {} /\ absent = {} /\ queue = <<>> /\ working = FALSE
  /\ call = [q \in Callers |-> NoCall]
  /\ slot = 0 /\ blocked = [g \in Providers |-> 0] /\ sinceCall = Interval
  /\ asks = 0 /\ refusals = 0

Asked == asks < MaxAsks /\ asks' = asks + 1
Refused == refusals < MaxRefusals /\ refusals' = refusals + 1

-------------------------------------------------------------------------------
(* resolver: who asks whom.                                                  *)

(* The requests of a screen that are being resolved (prioritarios).          *)
Priority == {s \in Screens : call[s].pc \in {"own", "gate", "asked"}}

(* proximoSlot: the next call may go an interval after this one.             *)
SlotAfter_Now == Interval
SlotAfter == slot + Interval

(* chamarNominatim gives up during its penalty, else takes a place at the    *)
(* gate (aguardarVez); it does not look at the penalty again afterwards.     *)
MayCall == blocked["nominatim"] = 0
ToNominatim(q, p) ==
  IF MayCall
  THEN /\ call' = [call EXCEPT ![q] = [pc |-> "gate", point |-> p,
                                       wait |-> slot, early |-> FALSE]]
       /\ slot' = SlotAfter
  ELSE /\ call' = [call EXCEPT ![q] = After(q)]
       /\ UNCHANGED slot

(* The own geocoder first, unless it is not configured or in its penalty.    *)
Resolve(q, p) ==
  /\ IF OwnGeocoder /\ blocked["own"] = 0
     THEN call' = [call EXCEPT ![q] = At("own", p)] /\ UNCHANGED slot
     ELSE ToNominatim(q, p)
  /\ UNCHANGED <<blocked, sinceCall, refusals>>

(* An address was found and saved, or none was found, or saving it failed.   *)
Answered(q) ==
  /\ cached' \in {cached, cached \cup {call[q].point}}
  /\ call' = [call EXCEPT ![q] = After(q)]
  /\ UNCHANGED <<absent, queue, working, slot, blocked, sinceCall, asks, refusals>>

OwnAnswers(q) == call[q].pc = "own" /\ Answered(q)

(* The network, the status, the body, or the cache failed: Nominatim's turn. *)
OwnFails(q) ==
  /\ call[q].pc = "own"
  /\ UNCHANGED blocked
  /\ ToNominatim(q, call[q].point)
  /\ UNCHANGED <<cached, absent, queue, working, sinceCall, asks, refusals>>

OwnRefuses(q) ==
  /\ call[q].pc = "own"
  /\ Refused
  /\ \E d \in 1..Penalty : blocked' = [blocked EXCEPT !["own"] = d]
  /\ ToNominatim(q, call[q].point)
  /\ UNCHANGED <<cached, absent, queue, working, sinceCall, asks>>

NominatimIsCalled(q) ==
  /\ call[q].pc = "gate" /\ call[q].wait = 0
  /\ call' = [call EXCEPT ![q].pc = "asked"]
  /\ sinceCall' = 0
  /\ UNCHANGED <<cached, absent, queue, working, slot, blocked, asks, refusals>>

(* Failures of Nominatim end like an answer without an address.              *)
NominatimAnswers(q) == call[q].pc = "asked" /\ Answered(q)

(* bloquearPorExcesso: the penalty begins anew and the queue is cleared.     *)
NominatimRefuses(q) ==
  /\ call[q].pc = "asked"
  /\ Refused
  /\ \E d \in 1..Penalty : blocked' = [blocked EXCEPT !["nominatim"] = d]
  /\ queue' = <<>>
  /\ call' = [r \in Callers |->
                IF r = q THEN After(q)
                ELSE [call[r] EXCEPT !.early = (call[r].pc = "gate")]]
  /\ UNCHANGED <<cached, absent, working, slot, sinceCall, asks>>

-------------------------------------------------------------------------------
(* lookupNow and lookupLote: the point is not in the cache and is resolved.  *)
(* A batch looked before its first point, and one of its points may have     *)
(* been saved since.                                                         *)

PointMissed(q, p) ==
  /\ q # Worker /\ call[q].pc = "idle"
  /\ p \notin cached \/ q \in Batches
  /\ Asked
  /\ call' = [call EXCEPT ![q] = At("missed", p)]
  /\ UNCHANGED <<cached, absent, queue, working, slot, blocked, sinceCall, refusals>>

PointResolves(q) ==
  /\ call[q].pc = "missed"
  /\ Resolve(q, call[q].point)
  /\ UNCHANGED <<cached, absent, queue, working, asks>>

-------------------------------------------------------------------------------
(* lookupCached of a list, and the worker of the queue.                      *)

ListMissed(ps) ==
  /\ absent = {} /\ ps \ cached # {}
  /\ Asked
  /\ absent' = ps \ cached
  /\ UNCHANGED <<cached, queue, working, call, slot, blocked, sinceCall, refusals>>

(* enfileirar: who is in the queue keeps his place, a full queue takes none; *)
(* the loop is started unless it is marked as running.                       *)
Admitted(p) == p \notin Queued /\ Len(queue) < QueueMax
Enqueue(p) ==
  /\ p \in absent
  /\ absent' = absent \ {p}
  /\ IF Admitted(p)
     THEN /\ queue' = Append(queue, p)
          /\ working' = TRUE
          /\ call' = IF working THEN call ELSE [call EXCEPT ![Worker] = After(Worker)]
     ELSE UNCHANGED <<queue, working, call>>
  /\ UNCHANGED <<cached, slot, blocked, sinceCall, asks, refusals>>

(* processarFila yields to the screens and then takes the oldest.            *)
WorkerTakes ==
  /\ call[Worker].pc = "loop" /\ queue # <<>>
  /\ Priority = {}
  /\ queue' = Tail(queue)
  /\ Resolve(Worker, Head(queue))
  /\ UNCHANGED <<cached, absent, working, asks>>

(* The loop ends, and its finally lets the next one begin.                   *)
WorkingAfter_Kept == TRUE
WorkingAfter == FALSE
WorkerStops ==
  /\ call[Worker].pc = "loop" /\ queue = <<>>
  /\ working' = WorkingAfter
  /\ call' = [call EXCEPT ![Worker] = NoCall]
  /\ UNCHANGED <<cached, absent, queue, slot, blocked, sinceCall, asks, refusals>>

-------------------------------------------------------------------------------

Less(n) == IF n = 0 THEN 0 ELSE n - 1

GeoTick ==
  /\ \A q \in Callers : ~(call[q].pc = "gate" /\ call[q].wait = 0)
  /\ slot' = Less(slot)
  /\ blocked' = [g \in Providers |-> Less(blocked[g])]
  /\ call' = [q \in Callers |-> [call[q] EXCEPT !.wait = Less(@)]]
  /\ sinceCall' = IF sinceCall = Interval THEN Interval ELSE sinceCall + 1
  /\ UNCHANGED <<cached, absent, queue, working, asks, refusals>>

CallStep(q) ==
  \/ PointResolves(q) \/ OwnAnswers(q) \/ OwnFails(q) \/ OwnRefuses(q)
  \/ NominatimIsCalled(q) \/ NominatimAnswers(q) \/ NominatimRefuses(q)
WorkerStep == WorkerTakes \/ WorkerStops

GeoNext ==
  \/ \E q \in Callers : CallStep(q) \/ \E p \in Points : PointMissed(q, p)
  \/ \E ps \in SUBSET Points : ListMissed(ps)
  \/ \E p \in Points : Enqueue(p)
  \/ WorkerStep \/ GeoTick

GeoSpec == GeoInit /\ [][GeoNext]_geoVars

-------------------------------------------------------------------------------
(* Properties.                                                               *)

(* The public service is spared, whichever way calls come, screens, batches, *)
(* queue or the fall back from the own geocoder: two calls are an interval   *)
(* apart (proximoSlot), and none is made during a penalty but by those who   *)
(* were at the gate already when a 429 came, since the penalty is looked at  *)
(* before the gate and not after it.                                         *)
NominatimIsSpared ==
  [][\A q \in Callers :
       call[q].pc = "gate" /\ call'[q].pc = "asked" =>
         /\ sinceCall >= Interval
         /\ blocked["nominatim"] = 0 \/ call[q].early]_geoVars

(* Every queued point gets its turn, or is dropped by a 429, when the        *)
(* screens, which go first, stop asking: the loop is never left marked as    *)
(* running (processando, prioritarios).                                      *)
QueueIsServed == \A p \in Points : p \in Queued ~> p \notin Queued
===============================================================================
