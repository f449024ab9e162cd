---------------------------- MODULE TagSightings ----------------------------
(***************************************************************************)
(* The sightings of one TAG: the worker that asks the backend which TAGs   *)
(* are urgent, fetches what Apple holds of them and posts it one by one    *)
(* (worker-findmy/worker.py), and the request that stores a sighting       *)
(* (createSighting of ble-tags.service.ts).  Apple learns of sightings in  *)
(* any order, and every cycle posts again all it holds.                    *)
(*                                                                         *)
(* A sighting is named by its time (seenAt): with the key of the TAG it is *)
(* what the backend knows it again by.                                     *)
(***************************************************************************)
EXTENDS Naturals, FiniteSets

CONSTANTS
  Times,      (* the sightings, by seenAt                                    *)
  Requests,   (* bound: posts in flight at the same time                     *)
  NoPost,
  MaxTurns,   (* bound: alerts opened and closed, turbo given and ended      *)
  MaxTroubles (* bound: failures, time limits and restarts                   *)

ASSUME SightAssumption ==
  Times \subseteq Nat \ {0} /\ IsFiniteSet(Times) /\ NoPost \notin Requests
ASSUME SightBoundsAssumption == MaxTurns \in Nat /\ MaxTroubles \in Nat

VARIABLES
  known,     (* what Apple knows of each sighting: it expires after 7 days   *)
  urgent,    (* the TAG is in the plan: an alert is open, or turbo           *)
  worker,    (* where the worker is in its cycle (ciclo)                     *)
  todo,      (* payloads still to be posted                                  *)
  awaited,   (* the post the worker waits for                                *)
  post,      (* requests in the backend                                      *)
  rows,      (* ble_sightings: how often each sighting is stored             *)
  lastSeen,  (* lastConnection of the TAG, 0 if it has none                  *)
  spoiled,   (* two posts were in flight, or one ended between its writes    *)
  turns, troubles   (* for the bounds only                                   *)

sightVars == <<known, urgent, worker, todo, awaited, post, rows, lastSeen,
               spoiled, turns, troubles>>

Post == [pc : {"asked", "found", "new", "stored"}, at : Times, last : Times \cup {0}]
        \cup {[pc |-> "none"]}
Ended == [pc |-> "none"]
InFlight == {k \in Requests : post[k].pc # "none"}

SightTypeOK ==
  /\ known \in [Times -> {"unheard", "held", "expired"}]
  /\ urgent \in BOOLEAN /\ worker \in {"asleep", "fetching", "posting"}
  /\ todo \subseteq Times /\ awaited \in Requests \cup {NoPost}
  /\ post \in [Requests -> Post]
  /\ rows \in [Times -> Nat] /\ lastSeen \in Times \cup {0}
  /\ spoiled \in BOOLEAN /\ turns \in 0..MaxTurns /\ troubles \in 0..MaxTroubles
  /\ todo # {} \/ awaited # NoPost => worker = "posting"
  /\ awaited # NoPost => awaited \in InFlight
  /\ lastSeen # 0 => rows[lastSeen] > 0

SightInit ==
  /\ known = [t \in Times |-> "unheard"] /\ urgent = FALSE
  /\ worker = "asleep" /\ todo = {} /\ awaited = NoPost
  /\ post = [k \in Requests |-> Ended]
  /\ rows = [t \in Times |-> 0] /\ lastSeen = 0
  /\ spoiled = FALSE /\ turns = 0 /\ troubles = 0

Trouble == troubles < MaxTroubles /\ troubles' = troubles + 1

-------------------------------------------------------------------------------
(* Outside: passers-by, Apple, alerts and operators.                         *)

AppleHears(t) ==
  /\ known[t] = "unheard"
  /\ known' = [known EXCEPT ![t] = "held"]
  /\ UNCHANGED <<urgent, worker, todo, awaited, post, rows, lastSeen, spoiled,
                 turns, troubles>>

AppleForgets(t) ==
  /\ known[t] = "held"
  /\ known' = [known EXCEPT ![t] = "expired"]
  /\ UNCHANGED <<urgent, worker, todo, awaited, post, rows, lastSeen, spoiled,
                 turns, troubles>>

(* decidirModo: an open alert of silence or of a cut, or the operator.       *)
UrgencyTurns ==
  /\ turns < MaxTurns /\ turns' = turns + 1
  /\ urgent' = ~urgent
  /\ UNCHANGED <<known, worker, todo, awaited, post, rows, lastSeen, spoiled,
                 troubles>>

-------------------------------------------------------------------------------
(* The worker.                                                               *)

(* carregar_plano: only what is urgent is in the plan.                       *)
CycleStarts ==
  /\ worker = "asleep" /\ urgent
  /\ worker' = "fetching"
  /\ UNCHANGED <<known, urgent, todo, awaited, post, rows, lastSeen, spoiled,
                 turns, troubles>>

(* fetch_reports: the window is the seven days that Apple holds.             *)
Fetched == {t \in Times : known[t] = "held"}
Fetches ==
  /\ worker = "fetching"
  /\ worker' = "posting" /\ todo' = Fetched
  /\ UNCHANGED <<known, urgent, awaited, post, rows, lastSeen, spoiled, turns,
                 troubles>>

FetchFails ==
  /\ worker = "fetching"
  /\ Trouble
  /\ worker' = "asleep"
  /\ UNCHANGED <<known, urgent, todo, awaited, post, rows, lastSeen, spoiled, turns>>

(* postar: one at a time, but one that exceeded its time may be going on.    *)
Posts(t, k) ==
  /\ worker = "posting" /\ awaited = NoPost
  /\ t \in todo /\ k \notin InFlight
  /\ todo' = todo \ {t} /\ awaited' = k
  /\ post' = [post EXCEPT ![k] = [pc |-> "asked", at |-> t, last |-> 0]]
  /\ spoiled' = (spoiled \/ InFlight # {})
  /\ UNCHANGED <<known, urgent, worker, rows, lastSeen, turns, troubles>>

PostExceedsTime ==
  /\ awaited # NoPost
  /\ Trouble
  /\ awaited' = NoPost
  /\ UNCHANGED <<known, urgent, worker, todo, post, rows, lastSeen, spoiled, turns>>

CycleEnds ==
  /\ worker = "posting" /\ todo = {} /\ awaited = NoPost
  /\ worker' = "asleep"
  /\ UNCHANGED <<known, urgent, todo, awaited, post, rows, lastSeen, spoiled,
                 turns, troubles>>

(* What was still to be posted is forgotten; the backend does not notice.    *)
WorkerRestarts ==
  /\ worker # "asleep"
  /\ Trouble
  /\ worker' = "asleep" /\ todo' = {} /\ awaited' = NoPost
  /\ UNCHANGED <<known, urgent, post, rows, lastSeen, spoiled, turns>>

-------------------------------------------------------------------------------
(* createSighting.                                                           *)

FindsTheTag(k) ==
  /\ post[k].pc = "asked"
  /\ post' = [post EXCEPT ![k].pc = "found", ![k].last = lastSeen]
  /\ UNCHANGED <<known, urgent, worker, todo, awaited, rows, lastSeen, spoiled,
                 turns, troubles>>

Answers(k) ==
  /\ post' = [post EXCEPT ![k] = Ended]
  /\ awaited' = IF awaited = k THEN NoPost ELSE awaited

(* A sighting that is there is answered as if it had been stored.            *)
IsThere_ByKey(t) == \E s \in Times : rows[s] > 0
IsThere(t) == rows[t] > 0
LooksItUp(k) ==
  /\ post[k].pc = "found"
  /\ IF IsThere(post[k].at)
     THEN Answers(k)
     ELSE post' = [post EXCEPT ![k].pc = "new"] /\ UNCHANGED awaited
  /\ UNCHANGED <<known, urgent, worker, todo, rows, lastSeen, spoiled, turns, troubles>>

Stores(k) ==
  /\ post[k].pc = "new"
  /\ rows' = [rows EXCEPT ![post[k].at] = @ + 1]
  /\ post' = [post EXCEPT ![k].pc = "stored"]
  /\ UNCHANGED <<known, urgent, worker, todo, awaited, lastSeen, spoiled, turns,
                 troubles>>

(* Only a sighting newer than what the TAG had when it was found.            *)
IsNews_Always(k) == TRUE
IsNews(k) == post[k].at > post[k].last
Stamps(k) ==
  /\ post[k].pc = "stored"
  /\ lastSeen' = IF IsNews(k) THEN post[k].at ELSE lastSeen
  /\ Answers(k)
  /\ UNCHANGED <<known, urgent, worker, todo, rows, spoiled, turns, troubles>>

(* The database fails: the answer is an error, and the worker goes on.       *)
PostFails(k) ==
  /\ k \in InFlight
  /\ Trouble
  /\ Answers(k)
  /\ spoiled' = (spoiled \/ post[k].pc = "stored")
  /\ UNCHANGED <<known, urgent, worker, todo, rows, lastSeen, turns>>

BackendRestarts ==
  /\ InFlight # {}
  /\ Trouble
  /\ post' = [k \in Requests |-> Ended] /\ awaited' = NoPost
  /\ spoiled' = (spoiled \/ \E k \in Requests : post[k].pc = "stored")
  /\ UNCHANGED <<known, urgent, worker, todo, rows, lastSeen, turns>>

-------------------------------------------------------------------------------

CollectorStep ==
  CycleStarts \/ Fetches \/ CycleEnds \/ \E t \in Times, k \in Requests : Posts(t, k)
PostStep(k) == FindsTheTag(k) \/ LooksItUp(k) \/ Stores(k) \/ Stamps(k)

SightNext ==
  \/ \E t \in Times : AppleHears(t) \/ AppleForgets(t)
  \/ UrgencyTurns
  \/ CollectorStep \/ FetchFails \/ PostExceedsTime \/ WorkerRestarts
  \/ \E k \in Requests : PostStep(k) \/ PostFails(k)
  \/ BackendRestarts

SightSpec == SightInit /\ [][SightNext]_sightVars

-------------------------------------------------------------------------------
(* Properties.                                                               *)

(* A backfill brings sightings in any order, twice and in pieces: when no    *)
(* post is in flight each is stored at most once and the TAG was last seen   *)
(* when its latest one says (createSighting), as long as no two posts were   *)
(* in flight at once and none ended between its two writes.                  *)
Latest == {t \in Times : rows[t] > 0 /\ \A s \in Times : rows[s] > 0 => s <= t}
LatestIsKept ==
  ~spoiled /\ InFlight = {} =>
    /\ \A t \in Times : rows[t] <= 1
    /\ IF \E t \in Times : rows[t] > 0 THEN lastSeen \in Latest ELSE lastSeen = 0

(* What Apple holds of an urgent TAG arrives, whatever was lost on the way,  *)
(* unless it expires or the TAG is not urgent any more: the next cycle posts *)
(* all of it again (ciclo, postar).                                          *)
SightingsArrive ==
  \A t \in Times :
    known[t] = "held" /\ urgent ~> rows[t] > 0 \/ known[t] # "held" \/ ~urgent
===============================================================================
