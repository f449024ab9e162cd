----------------------------- MODULE LivePositions -----------------------------
(* How one car's position reaches the map of a panel, by two roads at once.   *)
(*   - The socket: Traccar tells the gateway each message of the tracker, the *)
(*     quality gate parts them, a timer of one second sends what piled up to  *)
(*     the sockets of the tenant, and the panel joins what arrives in the     *)
(*     same turn and writes it over what it shows (traccar.gateway.ts,        *)
(*     coalescedor-lotes.ts, handleLote of tracking-context.tsx).             *)
(*   - The request: the first load replaces the map, and the poll merges into *)
(*     it the snapshot of its answer (traccar.service.ts, tracking-polling.ts,*)
(*     loadData and poll of tracking-context.tsx).                            *)
(* A message is its serverTime: the n-th one Traccar said.  The gateway is    *)
(* taken to know the car's tenant (DeviceMapping is about that), the panel to *)
(* be visible, and the build to be the default one, which polls every 8 s.    *)
EXTENDS Integers, Sequences, FiniteSetsExt

CONSTANTS
  MaxSaid,      \* bound: messages of the tracker
  MaxMishaps    \* bound: links lost, sockets lost, restarts, requests failed

ASSUME LiveBounds == MaxSaid \in Nat /\ MaxMishaps \in Nat

(* What a message is to the gateway: a fix the gate approves, one with the    *)
(* ignition in it, a rejected one whose ignition still counts, or a rejected  *)
(* one that has nothing to say or comes from the tracker's memory.            *)
SaidKinds == {"fix", "full", "key", "nothing"}
Approved  == {"fix", "full"}
Readings  == {"full", "key"}

Roads == {"first", "poll"}

VARIABLES
  said,       \* what Traccar said, in the order of serverTime
  linked,     \* the gateway's socket to Traccar is up
  batch,      \* lotePorTenant: approved messages of this second
  keys,       \* loteAtributosPorTenant: readings without a place
  online,     \* the panel's socket is up
  frames,     \* frames on their way to the panel
  lot,        \* what the panel joined and has not written yet
  load,       \* the first load and the poll in flight
  place,      \* serverTime of the position on the map, 0 for none
  extras,     \* its attributesServerTime, 0 for none
  key,        \* serverTime of the ignition remembered (ultimaIgnicao)
  lost,       \* history: messages no road by the socket will bring any more
  mishaps

liveVars == <<said, linked, batch, keys, online, frames, lot, load,
              place, extras, key, lost, mishaps>>
gateway  == <<said, linked, batch, keys>>
map      == <<place, extras, key>>

Latest   == Len(said)
Frame(what, items) == IF items = {} THEN <<>> ELSE <<[what |-> what, items |-> items]>>
InFrames == UNION {frames[i].items : i \in DOMAIN frames}
NoLot    == [positions |-> {}, attributes |-> {}]
NoLoad   == [at |-> "idle", seen |-> 0]

LiveTypeOK ==
  /\ said \in Seq(SaidKinds) /\ Latest <= MaxSaid
  /\ {linked, online} \subseteq BOOLEAN
  /\ batch \cup keys \cup lost \subseteq 1 .. Latest
  /\ frames \in Seq([what : {"positions:batch", "attrs:batch"}, items : SUBSET (1 .. Latest)])
  /\ lot \in [positions : SUBSET (1 .. Latest), attributes : SUBSET (1 .. Latest)]
  /\ load \in [Roads -> [at : {"idle", "asked", "read"}, seen : 0 .. Latest]]
  /\ {place, extras, key} \subseteq 0 .. Latest
  /\ mishaps \in 0 .. MaxMishaps

LiveInit ==
  /\ said = <<>> /\ linked = TRUE
  /\ batch = {} /\ keys = {} /\ online = FALSE /\ frames = <<>> /\ lot = NoLot
  /\ load = [r \in Roads |-> IF r = "first" THEN [NoLoad EXCEPT !.at = "asked"] ELSE NoLoad]
  /\ place = 0 /\ extras = 0 /\ key = 0 /\ lost = {} /\ mishaps = 0

--------------------------------------------------------------------------------
(* The gate: an approved message waits as a position, a reading of a rejected *)
(* one waits without its place, and the rest is dropped.                      *)
Hear(n, kind) ==
  /\ batch' = IF kind \in Approved THEN batch \cup {n} ELSE batch
  /\ keys' = IF kind = "key" THEN keys \cup {n} ELSE keys

Say(kind) ==
  /\ Latest < MaxSaid
  /\ said' = Append(said, kind)
  /\ IF linked THEN Hear(Latest + 1, kind) /\ lost' = lost
               ELSE lost' = lost \cup {Latest + 1} /\ UNCHANGED <<batch, keys>>
  /\ UNCHANGED <<linked, online, frames, lot, load, map, mishaps>>

Mishap == mishaps < MaxMishaps /\ mishaps' = mishaps + 1

LinkLost ==
  /\ linked /\ Mishap
  /\ linked' = FALSE
  /\ UNCHANGED <<said, batch, keys, online, frames, lot, load, map, lost>>

(* A new link starts with Traccar repeating the current message of each car.  *)
LinkBack ==
  /\ ~linked
  /\ linked' = TRUE
  /\ IF Latest = 0 THEN UNCHANGED <<batch, keys, lost>>
     ELSE Hear(Latest, said[Latest]) /\ lost' = lost \ {Latest}
  /\ UNCHANGED <<said, online, frames, lot, load, map, mishaps>>

(* The timer of one second: two frames, to whoever is in the tenant's room.   *)
FlushBatch ==
  /\ batch \cup keys # {}
  /\ IF online
     THEN /\ frames' = frames \o Frame("positions:batch", batch) \o Frame("attrs:batch", keys)
          /\ lost' = lost
     ELSE lost' = lost \cup batch \cup keys /\ frames' = frames
  /\ batch' = {} /\ keys' = {}
  /\ UNCHANGED <<said, linked, online, lot, load, map, mishaps>>

(* The backend restarts: its memory, its link and its sockets go.             *)
GatewayRestarts ==
  /\ Mishap
  /\ lost' = lost \cup batch \cup keys \cup InFrames
  /\ linked' = FALSE /\ batch' = {} /\ keys' = {}
  /\ online' = FALSE /\ frames' = <<>>
  /\ UNCHANGED <<said, lot, load, map>>

--------------------------------------------------------------------------------
SocketUp ==
  /\ ~online
  /\ online' = TRUE
  /\ UNCHANGED <<gateway, frames, lot, load, map, lost, mishaps>>

SocketLost ==
  /\ online /\ Mishap
  /\ online' = FALSE /\ frames' = <<>>
  /\ lost' = lost \cup InFrames
  /\ UNCHANGED <<gateway, lot, load, map>>

(* The panel keeps a frame for the end of its turn.                           *)
FrameArrives ==
  /\ frames # <<>>
  /\ lot' = IF Head(frames).what = "positions:batch"
            THEN [lot EXCEPT !.positions = @ \cup Head(frames).items]
            ELSE [lot EXCEPT !.attributes = @ \cup Head(frames).items]
  /\ frames' = Tail(frames)
  /\ UNCHANGED <<gateway, online, load, map, lost, mishaps>>

(* The ignition remembered: the newest one among ns and the one there was.    *)
Remembered(ns) == Max({key} \cup {n \in ns : said[n] \in Readings})

(* The extras of the position shown after these readings: none without a      *)
(* position, and never a reading older than what is shown.                    *)
WithAttributes(p, old, items) ==
  Max({old} \cup {n \in items : p # 0 /\ n >= p})

(* The end of the turn: positions over what is shown, whatever its age, then  *)
(* the attributes.                                                            *)
HandleLote ==
  /\ lot # NoLot
  /\ key' = Remembered(lot.positions \cup lot.attributes)
  /\ place' = IF lot.positions = {} THEN place ELSE Max(lot.positions)
  /\ extras' = WithAttributes(place', IF lot.positions = {} THEN extras ELSE 0, lot.attributes)
  /\ lot' = NoLot
  /\ UNCHANGED <<gateway, online, frames, load, lost, mishaps>>

--------------------------------------------------------------------------------
(* The poll starts a cycle when none is in flight.                            *)
PollAsks ==
  /\ load["poll"].at = "idle"
  /\ load' = [load EXCEPT !["poll"].at = "asked"]
  /\ UNCHANGED <<gateway, online, frames, lot, map, lost, mishaps>>

(* The backend reads Traccar's list; the answer may be on its way for long, so*)
(* it can be as old as that.  The list requests share for two seconds makes   *)
(* it no older than a slower answer would be.                                 *)
ReadFleet(r) ==
  /\ load[r].at = "asked"
  /\ load' = [load EXCEPT ![r] = [at |-> "read", seen |-> Latest]]
  /\ UNCHANGED <<gateway, online, frames, lot, map, lost, mishaps>>

(* mesclarPosicoes: who left the answer leaves the map, and who is in both    *)
(* keeps the newer, or the answer's when they tie.                            *)
Merged_TakesTheAnswer(old, seen) == seen
Merged(old, seen) == IF seen # 0 /\ old > seen THEN old ELSE seen

(* The answer: the first load replaces the map, the poll is merged.           *)
Answered(r) ==
  /\ load[r].at = "read"
  /\ LET seen == load[r].seen
         next == IF r = "first" THEN seen ELSE Merged(place, seen)
     IN  /\ place' = next
         /\ extras' = IF r = "poll" /\ next # seen THEN extras ELSE 0
         /\ key' = Remembered({seen} \ {0})
         /\ lost' = IF r = "first" \/ seen = 0 THEN lost \cup (seen + 1) .. place ELSE lost
  /\ load' = [load EXCEPT ![r] = NoLoad]
  /\ UNCHANGED <<gateway, online, frames, lot, mishaps>>

(* A failed first load leaves an empty map, a failed poll the map as it was.  *)
RequestFails(r) ==
  /\ load[r].at # "idle" /\ Mishap
  /\ load' = [load EXCEPT ![r] = NoLoad]
  /\ IF r = "first" THEN place' = 0 /\ extras' = 0 /\ lost' = lost \cup 1 .. place
                    ELSE UNCHANGED <<place, extras, lost>>
  /\ UNCHANGED <<gateway, online, frames, lot, key>>

LiveNext ==
  \/ \E kind \in SaidKinds : Say(kind)
  \/ LinkLost \/ LinkBack \/ FlushBatch \/ GatewayRestarts
  \/ SocketUp \/ SocketLost \/ FrameArrives \/ HandleLote
  \/ PollAsks
  \/ \E r \in Roads : ReadFleet(r) \/ Answered(r) \/ RequestFails(r)

LiveSpec == LiveInit /\ [][LiveNext]_liveVars

--------------------------------------------------------------------------------
(* With nothing of the socket on its way, the map is not behind any approved  *)
(* message the socket was able to bring, nor the ignition behind any reading, *)
(* whatever requests were answered meanwhile and however old their snapshot:  *)
(* what a batch wrote and what a poll merged never leave an older place.      *)
SettledPanelIsNewest ==
  batch \cup keys \cup InFrames \cup lot.positions \cup lot.attributes = {} =>
    \A n \in (1 .. Latest) \ lost :
      /\ said[n] \in Approved => place >= n
      /\ said[n] \in Readings => key >= n

(* "O marcador e o endereço SEMPRE refletem o dado real e atual": the map     *)
(* ends up showing what Traccar says last, whatever the socket lost.          *)
PositionsConverge == <>[](place = Latest)
===============================================================================
