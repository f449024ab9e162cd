-------------------------- MODULE LivePositionsProofs --------------------------
(* Proofs about LivePositions for any number of messages and mishaps.         *)
(*                                                                            *)
(* A message is brought when it is on its way in one of the stages between    *)
(* the gateway and the map, when what is shown is as new, or when it is lost. *)
(* That alone is not inductive, because a turn of the panel writes its        *)
(* positions over a newer place: it takes the order of the stages too.  What  *)
(* was said after a position that is on its way is at the same stage or at an *)
(* earlier one, so whatever the turn passes over still comes after it.        *)
EXTENDS LivePositions, NaturalsInduction, WellFoundedInduction, TLAPS

PositionFrame(i, n) ==
  i \in 1 .. Len(frames) /\ frames[i].what = "positions:batch" /\ n \in frames[i].items

AnyFrame(n) == \E i \in 1 .. Len(frames) : n \in frames[i].items

(* A position on its way, and a reading on its way.                           *)
PlaceComes(n) ==
  n \in batch \/ (\E i \in 1 .. Len(frames) : PositionFrame(i, n)) \/ n \in lot.positions
KeyComes(n) ==
  n \in batch \cup keys \/ AnyFrame(n) \/ n \in lot.positions \cup lot.attributes

(* An approved message the socket may still have brought.                     *)
Heard(n) == n \in (1 .. Latest) \ lost /\ said[n] \in Approved

BroughtInv ==
  \A n \in (1 .. Latest) \ lost :
    /\ said[n] \in Approved => PlaceComes(n) \/ place >= n
    /\ said[n] \in Readings => KeyComes(n) \/ key >= n

OrderInv ==
  \A n \in 1 .. Latest : Heard(n) => \A m \in 1 .. (n - 1) :
    /\ m \in batch => n \in batch
    /\ \A i \in 1 .. Len(frames) : PositionFrame(i, m) =>
         n \in batch \/ \E j \in 1 .. Len(frames) : j >= i /\ PositionFrame(j, n)
    /\ m \in lot.positions => PlaceComes(n)

LiveInv == LiveTypeOK /\ BroughtInv /\ OrderInv

--------------------------------------------------------------------------------
(* Numbers and sequences.                                                     *)

LEMMA LeastNumber ==
  ASSUME NEW T \in SUBSET Nat, T # {}
  PROVE  \E m \in T : \A n \in T : m <= n
<1>1. IsWellFoundedOn(OpToRel(<, Nat), Nat)
  BY NatLessThanWellFounded, Zenon
<1>2. PICK m \in T : \A n \in T : ~ (<<n, m>> \in OpToRel(<, Nat))
  BY <1>1, WFMin, Zenon
<1>3. \A n \in T : ~(n < m)
  BY <1>2 DEF OpToRel
<1> QED BY <1>3

(* The greatest of some numbers up to k.                                      *)
LEMMA MaxIsGreatest ==
  ASSUME NEW k \in Nat, NEW S \in SUBSET (0 .. k), S # {}
  PROVE  Max(S) \in S /\ \A x \in S : x <= Max(S)
<1> DEFINE T == {k - x : x \in S}
<1>1. T \in SUBSET Nat /\ T # {}
  <2>1. \A x \in S : x \in 0 .. k
    OBVIOUS
  <2>2. \A x \in S : k - x \in Nat
    BY <2>1
  <2> QED BY <2>2
<1>2. PICK m \in T : \A n \in T : m <= n
  <2> HIDE DEF T
  <2> QED BY <1>1, LeastNumber
<1>3. PICK x \in S : m = k - x
  BY <1>2
<1>4. \A y \in S : k - x <= k - y
  BY <1>2, <1>3
<1>5. \A y \in S : x >= y
  BY <1>4
<1>6. Max(S) \in S /\ \A y \in S : Max(S) >= y
  BY <1>5 DEF Max
<1> QED BY <1>6

(* A batch joined to the frames, when it is not empty.                        *)
IsJoined(g, f, S, what, items) ==
  /\ g \in Seq(S) /\ Len(g) >= Len(f)
  /\ \A i \in 1 .. Len(f) : g[i] = f[i]
  /\ \A i \in 1 .. Len(g) : i \notin 1 .. Len(f) => g[i].what = what /\ g[i].items = items
  /\ items # {} => /\ Len(g) = Len(f) + 1
                   /\ g[Len(f) + 1].what = what /\ g[Len(f) + 1].items = items

LEMMA Joined ==
  ASSUME NEW S, NEW f \in Seq(S), NEW what, NEW items, [what |-> what, items |-> items] \in S
  PROVE  IsJoined(f \o Frame(what, items), f, S, what, items)
<1> DEFINE g == f \o Frame(what, items)
<1> SUFFICES IsJoined(g, f, S, what, items)
  OBVIOUS
<1> USE DEF IsJoined
<1> DEFINE e == [what |-> what, items |-> items]
<1>1. CASE items = {}
  <2>1. g = f /\ Len(f) \in Nat
    BY <1>1 DEF Frame
  <2>2. \A i \in 1 .. Len(g) : i \in 1 .. Len(f)
    BY <2>1
  <2>3. Len(g) >= Len(f) /\ g \in Seq(S)
    BY <2>1
  <2> QED BY <1>1, <2>1, <2>2, <2>3
<1>2. CASE items # {}
  <2>1. g = f \o <<e>>
    BY <1>2 DEF Frame
  <2>2. e.what = what /\ e.items = items /\ e \in S
    OBVIOUS
  <2> HIDE DEF e
  <2>3. /\ f \o <<e>> \in Seq(S) /\ Len(f \o <<e>>) = Len(f) + 1
        /\ \A i \in 1 .. Len(f) : (f \o <<e>>)[i] = f[i]
        /\ (f \o <<e>>)[Len(f) + 1] = e
    BY <2>2
  <2>4. \A i \in 1 .. (Len(f) + 1) : i \notin 1 .. Len(f) => i = Len(f) + 1
    OBVIOUS
  <2> QED BY <1>2, <2>1, <2>2, <2>3, <2>4
<1> QED BY <1>1, <1>2

LEMMA HeadAndTail ==
  ASSUME NEW S, NEW f \in Seq(S), f # <<>>
  PROVE  /\ Len(f) \in Nat \ {0} /\ Head(f) = f[1] /\ Head(f) \in S
         /\ Tail(f) \in Seq(S) /\ Len(Tail(f)) = Len(f) - 1
         /\ \A i \in 1 .. (Len(f) - 1) : Tail(f)[i] = f[i + 1]
OBVIOUS

--------------------------------------------------------------------------------
(* Typing.                                                                    *)

FrameOf(k) == [what : {"positions:batch", "attrs:batch"}, items : SUBSET (1 .. k)]
LotOf(k) == [positions : SUBSET (1 .. k), attributes : SUBSET (1 .. k)]
LoadOf(k) == [at : {"idle", "asked", "read"}, seen : 0 .. k]

LEMMA TypesGrow ==
  ASSUME NEW k \in Nat
  PROVE  /\ Seq(FrameOf(k)) \subseteq Seq(FrameOf(k + 1))
         /\ LotOf(k) \subseteq LotOf(k + 1)
         /\ [Roads -> LoadOf(k)] \subseteq [Roads -> LoadOf(k + 1)]
<1>1. 1 .. k \subseteq 1 .. (k + 1) /\ 0 .. k \subseteq 0 .. (k + 1)
  OBVIOUS
<1>2. FrameOf(k) \subseteq FrameOf(k + 1) /\ LotOf(k) \subseteq LotOf(k + 1)
      /\ LoadOf(k) \subseteq LoadOf(k + 1)
  BY <1>1 DEF FrameOf, LotOf, LoadOf
<1> HIDE DEF FrameOf, LotOf, LoadOf
<1>3. Seq(FrameOf(k)) \subseteq Seq(FrameOf(k + 1))
  BY <1>2
<1> QED BY <1>2, <1>3

LiveTyped ==
  /\ said \in Seq(SaidKinds) /\ Latest \in Nat /\ Latest <= MaxSaid
  /\ linked \in BOOLEAN /\ online \in BOOLEAN
  /\ batch \subseteq 1 .. Latest /\ keys \subseteq 1 .. Latest /\ lost \subseteq 1 .. Latest
  /\ frames \in Seq(FrameOf(Latest)) /\ lot \in LotOf(Latest)
  /\ load \in [Roads -> LoadOf(Latest)]
  /\ place \in 0 .. Latest /\ extras \in 0 .. Latest /\ key \in 0 .. Latest
  /\ mishaps \in 0 .. MaxMishaps

LEMMA LiveTypeMeans ==
  /\ LiveTypeOK <=> LiveTyped
  /\ LiveTypeOK' <=> LiveTyped'
<1>1. said \in Seq(SaidKinds) => Latest \in Nat
  BY DEF Latest
<1>2. said' \in Seq(SaidKinds) => Latest' \in Nat
  BY DEF Latest
<1> QED BY <1>1, <1>2 DEF LiveTypeOK, LiveTyped, FrameOf, LotOf, LoadOf

LiveStep ==
  \/ \E kind \in SaidKinds : Say(kind)
  \/ LinkLost \/ LinkBack \/ FlushBatch \/ GatewayRestarts
  \/ SocketUp \/ SocketLost \/ FrameArrives \/ HandleLote \/ PollAsks
  \/ \E r \in Roads : ReadFleet(r)
  \/ \E r \in Roads : Answered(r)
  \/ \E r \in Roads : RequestFails(r)
  \/ UNCHANGED liveVars

LEMMA LiveNextIsAStep ==
  ASSUME [LiveNext]_liveVars
  PROVE  LiveStep
BY Zenon DEF LiveNext, LiveStep

LEMMA Said ==
  ASSUME LiveTyped, NEW kind \in SaidKinds, said' = Append(said, kind)
  PROVE  /\ said' \in Seq(SaidKinds) /\ Latest' = Latest + 1 /\ Latest' \in Nat
         /\ \A n \in 1 .. Latest : said'[n] = said[n]
         /\ said'[Latest + 1] = kind
BY DEF LiveTyped, Latest

LEMMA FramesAreItems ==
  ASSUME LiveTyped
  PROVE  /\ InFrames \subseteq 1 .. Latest
         /\ \A n : n \in InFrames <=> AnyFrame(n)
         /\ \A i \in 1 .. Len(frames) : frames[i].items \subseteq 1 .. Latest
<1>1. DOMAIN frames = 1 .. Len(frames)
  BY DEF LiveTyped
<1>2. \A i \in 1 .. Len(frames) : frames[i].items \subseteq 1 .. Latest
  <2>1. \A i \in 1 .. Len(frames) : frames[i] \in FrameOf(Latest)
    BY DEF LiveTyped
  <2>2. \A e \in FrameOf(Latest) : e.items \subseteq 1 .. Latest
    BY DEF FrameOf
  <2> QED BY <2>1, <2>2
<1>3. \A n : n \in InFrames <=> AnyFrame(n)
  BY <1>1 DEF InFrames, AnyFrame
<1> QED BY <1>2, <1>3 DEF AnyFrame

(* The ignition and the extras of the next turn are among what was said.      *)
LEMMA RememberedIsGreatest ==
  ASSUME LiveTyped, NEW ns \in SUBSET (1 .. Latest)
  PROVE  /\ Remembered(ns) \in 0 .. Latest /\ Remembered(ns) >= key
         /\ \A n \in ns : said[n] \in Readings => Remembered(ns) >= n
<1> DEFINE S == {key} \cup {n \in ns : said[n] \in Readings}
<1>1. S \in SUBSET (0 .. Latest) /\ S # {} /\ Latest \in Nat
  <2>1. Latest \in Nat /\ 1 .. Latest \in SUBSET (0 .. Latest)
    BY DEF LiveTyped
  <2> QED BY <2>1 DEF LiveTyped
<1>2. Max(S) \in S /\ \A x \in S : x <= Max(S)
  <2> HIDE DEF S
  <2> QED BY <1>1, MaxIsGreatest
<1>3. key \in S /\ \A n \in ns : said[n] \in Readings => n \in S
  OBVIOUS
<1>4. Remembered(ns) = Max(S)
  BY DEF Remembered
<1> HIDE DEF S
<1>5. Max(S) \in 0 .. Latest /\ \A x \in S : x \in 0 .. Latest
  BY <1>1, <1>2
<1> QED BY <1>2, <1>3, <1>4, <1>5

LEMMA AttributesTyped ==
  ASSUME LiveTyped, NEW p \in 0 .. Latest, NEW old \in 0 .. Latest,
         NEW items \in SUBSET (1 .. Latest)
  PROVE  WithAttributes(p, old, items) \in 0 .. Latest
<1> DEFINE S == {old} \cup {n \in items : p # 0 /\ n >= p}
<1>1. S \in SUBSET (0 .. Latest) /\ S # {} /\ Latest \in Nat
  <2>1. Latest \in Nat /\ 1 .. Latest \in SUBSET (0 .. Latest)
    BY DEF LiveTyped
  <2> QED BY <2>1 DEF LiveTyped
<1>2. Max(S) \in S
  <2> HIDE DEF S
  <2> QED BY <1>1, MaxIsGreatest
<1>3. WithAttributes(p, old, items) = Max(S)
  BY DEF WithAttributes
<1> HIDE DEF S
<1> QED BY <1>1, <1>2, <1>3

LEMMA Flushed ==
  ASSUME LiveTyped,
         frames' = frames \o Frame("positions:batch", batch) \o Frame("attrs:batch", keys)
  PROVE  /\ frames' \in Seq(FrameOf(Latest)) /\ Len(frames') \in Nat /\ Len(frames) \in Nat
         /\ \A i \in 1 .. Len(frames) : i \in 1 .. Len(frames') /\ frames'[i] = frames[i]
         /\ \A i \in 1 .. Len(frames') :
              \/ i \in 1 .. Len(frames)
              \/ frames'[i].what = "positions:batch" /\ frames'[i].items = batch
              \/ frames'[i].what = "attrs:batch" /\ frames'[i].items = keys
         /\ batch # {} => \E j \in 1 .. Len(frames') :
              /\ \A i \in 1 .. Len(frames) : j >= i
              /\ \A i \in 1 .. Len(frames') :
                   i \notin 1 .. Len(frames) /\ frames'[i].what = "positions:batch" => j >= i
              /\ frames'[j].what = "positions:batch" /\ frames'[j].items = batch
         /\ keys # {} => \E j \in 1 .. Len(frames') : frames'[j].items = keys
<1> DEFINE p == [what |-> "positions:batch", items |-> batch]
           a == [what |-> "attrs:batch", items |-> keys]
           g == frames \o Frame("positions:batch", batch)
           h == g \o Frame("attrs:batch", keys)
<1>1. p \in FrameOf(Latest) /\ a \in FrameOf(Latest) /\ frames \in Seq(FrameOf(Latest))
  BY DEF LiveTyped, FrameOf
<1>2. IsJoined(g, frames, FrameOf(Latest), "positions:batch", batch)
  BY <1>1, Joined
<1> HIDE DEF g
<1>3. IsJoined(h, g, FrameOf(Latest), "attrs:batch", keys)
  <2>1. g \in Seq(FrameOf(Latest))
    BY <1>2 DEF IsJoined
  <2> HIDE DEF FrameOf
  <2> QED BY <1>1, <2>1, Joined
<1>4. frames' = h
  BY DEF g
<1> HIDE DEF h
<1> USE DEF IsJoined
<1>5. Len(frames) \in Nat /\ Len(g) \in Nat /\ Len(h) \in Nat
  BY <1>1, <1>2, <1>3
<1>6. \A i \in 1 .. Len(frames) : i \in 1 .. Len(h) /\ h[i] = frames[i]
  BY <1>2, <1>3, <1>5
<1>7. \A i \in 1 .. Len(h) :
        \/ i \in 1 .. Len(frames)
        \/ h[i].what = "positions:batch" /\ h[i].items = batch
        \/ h[i].what = "attrs:batch" /\ h[i].items = keys
  BY <1>2, <1>3, <1>5
<1>8. ASSUME batch # {}
      PROVE  \E j \in 1 .. Len(h) :
              /\ \A i \in 1 .. Len(frames) : j >= i
              /\ \A i \in 1 .. Len(h) :
                   i \notin 1 .. Len(frames) /\ h[i].what = "positions:batch" => j >= i
              /\ h[j].what = "positions:batch" /\ h[j].items = batch
  <2> DEFINE j == Len(frames) + 1
  <2>1. j \in 1 .. Len(h) /\ j = Len(g) /\ h[j] = g[j]
    BY <1>2, <1>3, <1>5, <1>8
  <2>2. h[j].what = "positions:batch" /\ h[j].items = batch
    BY <1>2, <1>8, <2>1
  <2>3. \A i \in 1 .. Len(h) : i \notin 1 .. Len(g) => h[i].what # "positions:batch"
    BY <1>3
  <2>4. \A i \in 1 .. Len(h) :
          i \notin 1 .. Len(frames) /\ h[i].what = "positions:batch" => j >= i
    BY <1>5, <2>1, <2>3
  <2>5. \A i \in 1 .. Len(frames) : j >= i
    BY <1>5
  <2> HIDE DEF j
  <2> QED BY <2>1, <2>2, <2>4, <2>5
<1>9. ASSUME keys # {}
      PROVE  \E j \in 1 .. Len(h) : h[j].items = keys
  <2>1. Len(g) + 1 \in 1 .. Len(h)
    BY <1>3, <1>5, <1>9
  <2> QED BY <1>3, <1>9, <2>1
<1> QED BY <1>3, <1>4, <1>5, <1>6, <1>7, <1>8, <1>9

LEMMA MishapTyped ==
  ASSUME LiveTyped, Mishap
  PROVE  mishaps' \in 0 .. MaxMishaps
BY LiveBounds DEF LiveTyped, Mishap

(* The hands of a lot and of a frame.                                         *)
LEMMA LotMoves ==
  ASSUME LiveTyped, NEW items \in SUBSET (1 .. Latest)
  PROVE  /\ lot.positions \subseteq 1 .. Latest /\ lot.attributes \subseteq 1 .. Latest
         /\ NoLot \in LotOf(Latest) /\ NoLot.positions = {} /\ NoLot.attributes = {}
         /\ LET p == [lot EXCEPT !.positions = @ \cup items]
            IN p \in LotOf(Latest) /\ p.positions = lot.positions \cup items
               /\ p.attributes = lot.attributes
         /\ LET a == [lot EXCEPT !.attributes = @ \cup items]
            IN a \in LotOf(Latest) /\ a.attributes = lot.attributes \cup items
               /\ a.positions = lot.positions
<1>1. lot \in LotOf(Latest)
  BY DEF LiveTyped
<1>2. lot.positions \subseteq 1 .. Latest /\ lot.attributes \subseteq 1 .. Latest
  BY <1>1 DEF LotOf
<1>3. lot.positions \cup items \in SUBSET (1 .. Latest)
      /\ lot.attributes \cup items \in SUBSET (1 .. Latest)
  BY <1>2
<1> QED BY <1>1, <1>2, <1>3 DEF LotOf, NoLot

LEMMA LoadTyped ==
  ASSUME LiveTyped, NEW r \in Roads
  PROVE  /\ load[r].seen \in 0 .. Latest
         /\ [load EXCEPT !["poll"].at = "asked"] \in [Roads -> LoadOf(Latest)]
         /\ [load EXCEPT ![r] = [at |-> "read", seen |-> Latest]] \in [Roads -> LoadOf(Latest)]
         /\ [load EXCEPT ![r] = NoLoad] \in [Roads -> LoadOf(Latest)]
<1>1. /\ load \in [Roads -> LoadOf(Latest)] /\ Latest \in Nat /\ "poll" \in Roads
      /\ load[r] \in LoadOf(Latest) /\ load["poll"] \in LoadOf(Latest)
  BY DEF LiveTyped, Roads
<1>2. /\ [at |-> "read", seen |-> Latest] \in LoadOf(Latest)
      /\ NoLoad \in LoadOf(Latest)
      /\ [load["poll"] EXCEPT !.at = "asked"] \in LoadOf(Latest)
      /\ load[r].seen \in 0 .. Latest
  BY <1>1 DEF LoadOf, NoLoad
<1> HIDE DEF LoadOf, NoLoad
<1>3. [load EXCEPT !["poll"].at = "asked"] \in [Roads -> LoadOf(Latest)]
  BY <1>1, <1>2
<1> QED BY <1>1, <1>2, <1>3

LEMMA LiveTypeStep ==
  ASSUME LiveTyped, LiveStep
  PROVE  LiveTyped'
<1>0. /\ Latest \in Nat /\ batch \cup keys \subseteq 1 .. Latest /\ lost \subseteq 1 .. Latest
      /\ place \in 0 .. Latest /\ key \in 0 .. Latest /\ extras \in 0 .. Latest
      /\ InFrames \subseteq 1 .. Latest
      /\ lot.positions \subseteq 1 .. Latest /\ lot.attributes \subseteq 1 .. Latest
  BY FramesAreItems, LotMoves DEF LiveTyped
<1>e. <<>> \in Seq(FrameOf(Latest))
  OBVIOUS
<1>1. CASE \E kind \in SaidKinds : Say(kind)
  <2> PICK kind \in SaidKinds : Say(kind)
    BY <1>1
  <2>1. /\ said' \in Seq(SaidKinds) /\ Latest' = Latest + 1 /\ Latest < MaxSaid
        /\ batch' \subseteq 1 .. (Latest + 1) /\ keys' \subseteq 1 .. (Latest + 1)
        /\ lost' \subseteq 1 .. (Latest + 1)
        /\ 1 .. Latest \subseteq 1 .. (Latest + 1) /\ 0 .. Latest \subseteq 0 .. (Latest + 1)
    <3>1. said' \in Seq(SaidKinds) /\ Latest' = Latest + 1 /\ Latest < MaxSaid
      BY Said DEF Say
    <3>2. 1 .. Latest \subseteq 1 .. (Latest + 1) /\ 0 .. Latest \subseteq 0 .. (Latest + 1)
          /\ Latest + 1 \in 1 .. (Latest + 1)
      BY <1>0
    <3> QED BY <1>0, <3>1, <3>2 DEF Say, Hear
  <2>2. /\ frames' \in Seq(FrameOf(Latest + 1)) /\ lot' \in LotOf(Latest + 1)
        /\ load' \in [Roads -> LoadOf(Latest + 1)]
    BY TypesGrow DEF Say, LiveTyped
  <2>3. Latest + 1 \in Nat /\ Latest + 1 <= MaxSaid
    BY <1>0, <2>1, LiveBounds
  <2> QED BY <2>1, <2>2, <2>3 DEF LiveTyped, Say, map
<1>q. ASSUME UNCHANGED said PROVE UNCHANGED Latest
  BY <1>q DEF Latest
<1>2. CASE LinkLost
  BY <1>2, <1>q, MishapTyped DEF LinkLost, LiveTyped, map
<1>3. CASE LinkBack
  <2>1. batch' \cup keys' \subseteq 1 .. Latest /\ lost' \subseteq 1 .. Latest
    <3>1. Latest # 0 => Latest \in 1 .. Latest
      BY <1>0
    <3> QED BY <1>0, <1>3, <3>1 DEF LinkBack, Hear
  <2>2. UNCHANGED <<said, Latest, online, frames, lot, load, place, extras, key, mishaps>>
        /\ linked' = TRUE
    BY <1>3, <1>q DEF LinkBack, map
  <2> QED BY <2>1, <2>2 DEF LiveTyped
<1>4. CASE FlushBatch
  <2>1. frames' \in Seq(FrameOf(Latest)) /\ lost' \subseteq 1 .. Latest
    <3>1. CASE online
      BY <1>0, <1>4, <3>1, Flushed DEF FlushBatch
    <3>2. CASE ~online
      BY <1>0, <1>4, <3>2 DEF FlushBatch, LiveTyped
    <3> QED BY <3>1, <3>2
  <2> QED BY <1>4, <1>q, <2>1 DEF FlushBatch, LiveTyped, map
<1>5. CASE GatewayRestarts
  <2>1. lost' \subseteq 1 .. Latest
    BY <1>0, <1>5 DEF GatewayRestarts
  <2> QED BY <1>5, <1>e, <1>q, <2>1, MishapTyped DEF GatewayRestarts, LiveTyped, map
<1>6. CASE SocketUp
  BY <1>6, <1>q DEF SocketUp, LiveTyped, gateway, map
<1>7. CASE SocketLost
  <2>1. lost' \subseteq 1 .. Latest
    BY <1>0, <1>7 DEF SocketLost
  <2> QED BY <1>7, <1>e, <1>q, <2>1, MishapTyped DEF SocketLost, LiveTyped, gateway, map
<1>8. CASE FrameArrives
  <2>1. frames \in Seq(FrameOf(Latest)) /\ frames # <<>>
    BY <1>8 DEF FrameArrives, LiveTyped
  <2>2. Tail(frames) \in Seq(FrameOf(Latest)) /\ Head(frames) \in FrameOf(Latest)
    BY <2>1, HeadAndTail
  <2>3. Head(frames).items \in SUBSET (1 .. Latest)
    BY <2>2 DEF FrameOf
  <2>4. lot' \in LotOf(Latest)
    BY <1>8, <2>3, LotMoves DEF FrameArrives
  <2> QED BY <1>8, <1>q, <2>2, <2>4 DEF FrameArrives, LiveTyped, gateway, map
<1>9. CASE HandleLote
  <2>1. key' \in 0 .. Latest
    <3>1. lot.positions \cup lot.attributes \in SUBSET (1 .. Latest)
      BY <1>0
    <3> QED BY <1>9, <3>1, RememberedIsGreatest DEF HandleLote
  <2>2. place' \in 0 .. Latest
    <3>1. CASE lot.positions = {}
      BY <1>0, <1>9, <3>1 DEF HandleLote
    <3>2. CASE lot.positions # {}
      <4>1. lot.positions \in SUBSET (0 .. Latest)
        BY <1>0
      <4>2. Max(lot.positions) \in lot.positions
        BY <1>0, <3>2, <4>1, MaxIsGreatest
      <4> QED BY <1>9, <3>2, <4>1, <4>2 DEF HandleLote
    <3> QED BY <3>1, <3>2
  <2>3. extras' \in 0 .. Latest
    <3> DEFINE old == IF lot.positions = {} THEN extras ELSE 0
               p == IF lot.positions = {} THEN place ELSE Max(lot.positions)
    <3>1. old \in 0 .. Latest /\ p \in 0 .. Latest
      BY <1>0, <1>9, <2>2 DEF HandleLote
    <3>2. extras' = WithAttributes(p, old, lot.attributes)
      BY <1>9 DEF HandleLote
    <3> HIDE DEF old, p
    <3> QED BY <1>0, <3>1, <3>2, AttributesTyped
  <2>4. lot' \in LotOf(Latest)
    BY <1>9, LotMoves DEF HandleLote
  <2> QED BY <1>9, <1>q, <2>1, <2>2, <2>3, <2>4 DEF HandleLote, LiveTyped, gateway
<1>10. CASE PollAsks
  <2>1. load' \in [Roads -> LoadOf(Latest)]
    BY <1>10, LoadTyped DEF PollAsks, Roads
  <2> QED BY <1>10, <1>q, <2>1 DEF PollAsks, LiveTyped, gateway, map
<1>11. CASE \E r \in Roads : ReadFleet(r)
  <2> PICK r \in Roads : ReadFleet(r)
    BY <1>11
  <2>1. load' \in [Roads -> LoadOf(Latest)]
    BY LoadTyped DEF ReadFleet
  <2> QED BY <1>q, <2>1 DEF ReadFleet, LiveTyped, gateway, map
<1>12. CASE \E r \in Roads : Answered(r)
  <2> PICK r \in Roads : Answered(r)
    BY <1>12
  <2> DEFINE seen == load[r].seen
  <2>1. load' \in [Roads -> LoadOf(Latest)] /\ seen \in 0 .. Latest
    BY LoadTyped DEF Answered
  <2>2. /\ place' \in {seen, Merged(place, seen)} /\ extras' \in {0, extras}
        /\ key' = Remembered({seen} \ {0})
        /\ lost' = lost \/ lost' = lost \cup (seen + 1) .. place
        /\ UNCHANGED <<said, linked, batch, keys, online, frames, lot, mishaps>>
    BY DEF Answered, gateway
  <2> HIDE DEF seen
  <2>3. place' \in 0 .. Latest /\ extras' \in 0 .. Latest
    BY <1>0, <2>1, <2>2 DEF Merged
  <2>4. key' \in 0 .. Latest
    <3>1. {seen} \ {0} \in SUBSET (1 .. Latest)
      BY <1>0, <2>1
    <3> QED BY <2>2, <3>1, RememberedIsGreatest
  <2>5. lost' \subseteq 1 .. Latest
    <3>1. (seen + 1) .. place \subseteq 1 .. Latest
      BY <1>0, <2>1
    <3> QED BY <1>0, <2>2, <3>1
  <2> QED BY <1>q, <2>1, <2>2, <2>3, <2>4, <2>5 DEF LiveTyped
<1>13. CASE \E r \in Roads : RequestFails(r)
  <2> PICK r \in Roads : RequestFails(r)
    BY <1>13
  <2>1. load' \in [Roads -> LoadOf(Latest)]
    BY LoadTyped DEF RequestFails
  <2>2. place' \in 0 .. Latest /\ extras' \in 0 .. Latest /\ lost' \subseteq 1 .. Latest
    <3>1. 1 .. place \subseteq 1 .. Latest /\ 0 \in 0 .. Latest
      BY <1>0
    <3> QED BY <1>0, <3>1 DEF RequestFails
  <2> QED BY <1>q, <2>1, <2>2, MishapTyped DEF RequestFails, LiveTyped, gateway
<1>14. CASE UNCHANGED liveVars
  BY <1>14, <1>q DEF liveVars, LiveTyped
<1> QED
  BY <1>1, <1>2, <1>3, <1>4, <1>5, <1>6, <1>7, <1>8, <1>9, <1>10, <1>11, <1>12,
     <1>13, <1>14 DEF LiveStep

--------------------------------------------------------------------------------
(* What moves from a stage to the next.                                       *)

LEMMA FlushMoves ==
  ASSUME LiveTyped,
         frames' = frames \o Frame("positions:batch", batch) \o Frame("attrs:batch", keys)
  PROVE  /\ \A n : n \in batch \/ (\E i \in 1 .. Len(frames) : PositionFrame(i, n))
                     => \E i \in 1 .. Len(frames') : PositionFrame(i, n)'
         /\ \A n : n \in batch \cup keys \/ AnyFrame(n) => AnyFrame(n)'
         /\ \A n, i, j : PositionFrame(i, n) => PositionFrame(i, n)'
         /\ \A i, m : PositionFrame(i, m)' => PositionFrame(i, m) \/ m \in batch
         /\ \A n \in batch : \E j \in 1 .. Len(frames') :
              PositionFrame(j, n)' /\ \A i, m : PositionFrame(i, m)' => j >= i
<1> USE DEF PositionFrame
<1>1. /\ \A i \in 1 .. Len(frames) : i \in 1 .. Len(frames') /\ frames'[i] = frames[i]
      /\ \A i \in 1 .. Len(frames') :
           \/ i \in 1 .. Len(frames)
           \/ frames'[i].what = "positions:batch" /\ frames'[i].items = batch
           \/ frames'[i].what = "attrs:batch" /\ frames'[i].items = keys
      /\ keys # {} => \E j \in 1 .. Len(frames') : frames'[j].items = keys
  BY Flushed
<1>2. batch # {} => \E j \in 1 .. Len(frames') :
              /\ \A i \in 1 .. Len(frames) : j >= i
              /\ \A i \in 1 .. Len(frames') :
                   i \notin 1 .. Len(frames) /\ frames'[i].what = "positions:batch" => j >= i
              /\ frames'[j].what = "positions:batch" /\ frames'[j].items = batch
  BY Flushed
<1>3. \A n, i : PositionFrame(i, n) => PositionFrame(i, n)'
  BY <1>1
<1>4. ASSUME NEW n \in batch
      PROVE  \E j \in 1 .. Len(frames') :
               PositionFrame(j, n)' /\ \A i, m : PositionFrame(i, m)' => j >= i
  BY <1>2
<1>5. \A i, m : PositionFrame(i, m)' => PositionFrame(i, m) \/ m \in batch
  BY <1>1
<1>6. \A n : n \in batch \/ (\E i \in 1 .. Len(frames) : PositionFrame(i, n))
               => \E i \in 1 .. Len(frames') : PositionFrame(i, n)'
  BY <1>1, <1>4
<1>7. \A n : n \in batch \cup keys \/ AnyFrame(n) => AnyFrame(n)'
  <2>1. \A n \in batch : AnyFrame(n)'
    BY <1>4 DEF AnyFrame
  <2>2. \A n \in keys : AnyFrame(n)'
    BY <1>1 DEF AnyFrame
  <2>3. \A n : AnyFrame(n) => AnyFrame(n)'
    BY <1>1 DEF AnyFrame
  <2> QED BY <2>1, <2>2, <2>3
<1> QED BY <1>3, <1>4, <1>5, <1>6, <1>7

LEMMA ArrivalMoves ==
  ASSUME LiveTyped, FrameArrives
  PROVE  /\ \A i, m : PositionFrame(i, m)' => PositionFrame(i + 1, m)
         /\ \A j, n : PositionFrame(j, n) =>
              IF j = 1 THEN n \in lot'.positions
              ELSE j - 1 \in 1 .. Len(frames') /\ PositionFrame(j - 1, n)'
         /\ \A m \in lot'.positions : m \in lot.positions \/ \E i \in 1 .. Len(frames) : PositionFrame(i, m)
         /\ \A n : AnyFrame(n) => AnyFrame(n)' \/ n \in lot'.positions \cup lot'.attributes
         /\ lot.positions \subseteq lot'.positions /\ lot.attributes \subseteq lot'.attributes
<1> USE DEF PositionFrame
<1>1. frames \in Seq(FrameOf(Latest)) /\ frames # <<>> /\ frames' = Tail(frames)
  BY DEF FrameArrives, LiveTyped
<1>2. /\ Len(frames) \in Nat \ {0} /\ Head(frames) = frames[1] /\ Len(frames') = Len(frames) - 1
      /\ \A i \in 1 .. (Len(frames) - 1) : frames'[i] = frames[i + 1]
      /\ Head(frames) \in FrameOf(Latest)
  BY <1>1, HeadAndTail
<1>3. /\ frames[1].items \in SUBSET (1 .. Latest)
      /\ frames[1].what \in {"positions:batch", "attrs:batch"}
  BY <1>2 DEF FrameOf
<1>4. lot' = IF frames[1].what = "positions:batch"
             THEN [lot EXCEPT !.positions = @ \cup frames[1].items]
             ELSE [lot EXCEPT !.attributes = @ \cup frames[1].items]
  BY <1>2 DEF FrameArrives
<1>5. /\ frames[1].what = "positions:batch" =>
           lot'.positions = lot.positions \cup frames[1].items /\ lot'.attributes = lot.attributes
      /\ frames[1].what # "positions:batch" =>
           lot'.attributes = lot.attributes \cup frames[1].items /\ lot'.positions = lot.positions
  BY <1>3, <1>4, LotMoves
<1>6. ASSUME NEW i, NEW m, PositionFrame(i, m)' PROVE PositionFrame(i + 1, m)
  <2>1. i \in 1 .. (Len(frames) - 1) /\ i + 1 \in 1 .. Len(frames)
    BY <1>2, <1>6
  <2> QED BY <1>2, <1>6, <2>1
<1>7. ASSUME NEW j \in 1 .. Len(frames), j # 1
      PROVE  j - 1 \in 1 .. Len(frames') /\ frames'[j - 1] = frames[j]
  <2>1. j - 1 \in 1 .. (Len(frames) - 1) /\ (j - 1) + 1 = j
    BY <1>2, <1>7
  <2> QED BY <1>2, <2>1
<1>8. ASSUME NEW j, NEW n, PositionFrame(j, n)
      PROVE  IF j = 1 THEN n \in lot'.positions
             ELSE j - 1 \in 1 .. Len(frames') /\ PositionFrame(j - 1, n)'
  <2>1. CASE j = 1
    BY <1>5, <1>8, <2>1
  <2>2. CASE j # 1
    BY <1>7, <1>8, <2>2
  <2> QED BY <2>1, <2>2
<1>9. \A n : AnyFrame(n) => AnyFrame(n)' \/ n \in lot'.positions \cup lot'.attributes
  <2> SUFFICES ASSUME NEW n, NEW j \in 1 .. Len(frames), n \in frames[j].items
               PROVE  AnyFrame(n)' \/ n \in lot'.positions \cup lot'.attributes
    BY DEF AnyFrame
  <2>1. CASE j = 1
    BY <1>5, <2>1
  <2>2. CASE j # 1
    BY <1>7, <2>2 DEF AnyFrame
  <2> QED BY <2>1, <2>2
<1>10. 1 \in 1 .. Len(frames)
  BY <1>2
<1>11. \A m \in lot'.positions :
         m \in lot.positions \/ \E i \in 1 .. Len(frames) : PositionFrame(i, m)
  BY <1>5, <1>10
<1>12. lot.positions \subseteq lot'.positions /\ lot.attributes \subseteq lot'.attributes
  BY <1>5
<1> QED BY <1>6, <1>8, <1>9, <1>11, <1>12

--------------------------------------------------------------------------------

LEMMA OrderStep ==
  ASSUME LiveTyped, LiveTyped', OrderInv, LiveStep
  PROVE  OrderInv'
<1>0. Latest \in Nat /\ batch \subseteq 1 .. Latest
  BY DEF LiveTyped
<1>q. ASSUME UNCHANGED said PROVE UNCHANGED Latest
  BY <1>q DEF Latest
(* The parts of the invariant, of one pair.                                   *)
<1> DEFINE Kept(n, m) ==
      /\ m \in batch' => n \in batch'
      /\ \A i \in 1 .. Len(frames') : PositionFrame(i, m)' =>
           n \in batch' \/ \E j \in 1 .. Len(frames') : j >= i /\ PositionFrame(j, n)'
      /\ m \in lot'.positions => PlaceComes(n)'
<1>s. SUFFICES ASSUME NEW n \in 1 .. Latest', Heard(n)', NEW m \in 1 .. (n - 1) PROVE Kept(n, m)
  BY Zenon DEF OrderInv
<1>h. ASSUME n \in 1 .. Latest, Heard(n)
      PROVE  /\ m \in batch => n \in batch
             /\ \A i \in 1 .. Len(frames) : PositionFrame(i, m) =>
                  n \in batch \/ \E j \in 1 .. Len(frames) : j >= i /\ PositionFrame(j, n)
             /\ m \in lot.positions => PlaceComes(n)
  BY <1>h DEF OrderInv
<1>k. ASSUME UNCHANGED <<said, batch, frames, lot>>, lost \subseteq lost' PROVE Kept(n, m)
  <2>1. n \in 1 .. Latest /\ Heard(n)
    BY <1>k, <1>q, <1>s DEF Heard
  <2> QED BY <1>h, <1>k, <2>1 DEF PositionFrame, PlaceComes
<1>b. ASSUME n \in batch' PROVE Kept(n, m)
  BY <1>b DEF PlaceComes
<1>1. CASE \E kind \in SaidKinds : Say(kind)
  <2> PICK kind \in SaidKinds : Say(kind)
    BY <1>1
  <2>1. /\ Latest' = Latest + 1 /\ (\A x \in 1 .. Latest : said'[x] = said[x])
        /\ said'[Latest + 1] = kind /\ UNCHANGED <<frames, lot>>
    BY Said DEF Say
  <2>2. CASE n = Latest + 1
    <3>1. kind \in Approved /\ linked
      BY <1>s, <2>1, <2>2 DEF Heard, Say
    <3> QED BY <1>b, <2>2, <3>1 DEF Say, Hear
  <2>3. CASE n # Latest + 1
    <3>1. n \in 1 .. Latest
      BY <1>0, <1>s, <2>1, <2>3
    <3>2. Heard(n)
      BY <1>s, <2>1, <3>1 DEF Heard, Say
    <3>3. batch \subseteq batch' /\ (m \in batch' => m \in batch)
      <4>1. m # Latest + 1
        BY <1>0, <3>1
      <4> QED BY <4>1 DEF Say, Hear
    <3> QED BY <1>h, <2>1, <3>1, <3>2, <3>3 DEF PositionFrame, PlaceComes
  <2> QED BY <2>2, <2>3
<1>2. CASE LinkLost \/ SocketUp \/ PollAsks \/ (\E r \in Roads : ReadFleet(r)) \/ UNCHANGED liveVars
  BY <1>2, <1>k DEF LinkLost, SocketUp, PollAsks, ReadFleet, liveVars, gateway
<1>3. CASE LinkBack
  <2>1. UNCHANGED <<said, Latest, frames, lot>>
    BY <1>3, <1>q DEF LinkBack
  <2>2. CASE Latest = 0
    BY <1>3, <1>k, <2>1, <2>2 DEF LinkBack
  <2>3. CASE Latest # 0 /\ n = Latest
    BY <1>3, <1>b, <1>s, <2>1, <2>3 DEF LinkBack, Hear, Heard
  <2>4. CASE Latest # 0 /\ n # Latest
    <3>1. n \in 1 .. Latest /\ Heard(n)
      BY <1>3, <1>s, <2>1, <2>4 DEF LinkBack, Heard
    <3>2. batch \subseteq batch' /\ (m \in batch' => m \in batch)
      <4>1. m # Latest
        BY <1>0, <3>1
      <4> QED BY <1>3, <2>4, <4>1 DEF LinkBack, Hear
    <3> QED BY <1>h, <2>1, <3>1, <3>2 DEF PositionFrame, PlaceComes
  <2> QED BY <2>2, <2>3, <2>4
<1>4. CASE FlushBatch
  <2>1. UNCHANGED <<said, Latest, lot>> /\ batch' = {}
    BY <1>4, <1>q DEF FlushBatch
  <2>2. n \in 1 .. Latest /\ Heard(n)
    BY <1>4, <1>s, <2>1 DEF FlushBatch, Heard
  <2>3. CASE online
    <3>1. frames' = frames \o Frame("positions:batch", batch) \o Frame("attrs:batch", keys)
      BY <1>4, <2>3 DEF FlushBatch
    <3>2. PlaceComes(n) => PlaceComes(n)'
      BY <2>1, <3>1, FlushMoves DEF PlaceComes
    <3>3. ASSUME NEW i \in 1 .. Len(frames'), PositionFrame(i, m)'
          PROVE  \E j \in 1 .. Len(frames') : j >= i /\ PositionFrame(j, n)'
      <4>1. CASE n \in batch
        BY <3>1, <3>3, <4>1, FlushMoves
      <4>2. CASE n \notin batch
        <5>1. PositionFrame(i, m)
          BY <1>h, <2>2, <3>1, <3>3, <4>2, FlushMoves
        <5>2. PICK j \in 1 .. Len(frames) : j >= i /\ PositionFrame(j, n)
          BY <1>h, <2>2, <4>2, <5>1 DEF PositionFrame
        <5>3. PositionFrame(j, n)'
          BY <3>1, <5>2, FlushMoves
        <5> QED BY <5>2, <5>3 DEF PositionFrame
      <4> QED BY <4>1, <4>2
    <3> QED BY <1>h, <2>1, <2>2, <3>2, <3>3
  <2>4. CASE ~online
    <3>1. n \notin batch /\ UNCHANGED frames
      BY <1>4, <1>s, <2>4 DEF FlushBatch, Heard
    <3> QED BY <1>h, <2>1, <2>2, <3>1 DEF PositionFrame, PlaceComes
  <2> QED BY <2>3, <2>4
<1>5. CASE GatewayRestarts \/ SocketLost
  <2>1. UNCHANGED <<said, Latest, lot>> /\ frames' = <<>> /\ Len(frames') = 0
    BY <1>5, <1>q DEF GatewayRestarts, SocketLost, gateway
  <2>2. /\ n \in 1 .. Latest /\ Heard(n) /\ n \notin InFrames
        /\ (n \in batch => n \in batch') /\ batch' \subseteq batch
    BY <1>5, <1>s, <2>1 DEF GatewayRestarts, SocketLost, Heard, gateway
  <2>3. ~(\E i \in 1 .. Len(frames) : PositionFrame(i, n))
    BY <2>2, FramesAreItems DEF AnyFrame, PositionFrame
  <2>4. ~(\E i \in 1 .. Len(frames') : PositionFrame(i, m)')
    BY <2>1
  <2> QED BY <1>h, <2>1, <2>2, <2>3, <2>4 DEF PlaceComes
<1>6. CASE FrameArrives
  <2>1. UNCHANGED <<said, Latest, batch, lost>>
    BY <1>6, <1>q DEF FrameArrives, gateway
  <2>2. n \in 1 .. Latest /\ Heard(n)
    BY <1>s, <2>1 DEF Heard
  <2>3. PlaceComes(n) => PlaceComes(n)'
    BY <1>6, <2>1, ArrivalMoves DEF PlaceComes
  <2>4. m \in lot'.positions => PlaceComes(n)
    <3>1. (\E i \in 1 .. Len(frames) : PositionFrame(i, m)) => PlaceComes(n)
      BY <1>h, <2>2 DEF PlaceComes
    <3> QED BY <1>6, <1>h, <2>2, <3>1, ArrivalMoves
  <2>5. ASSUME NEW i \in 1 .. Len(frames'), PositionFrame(i, m)', n \notin batch
        PROVE  \E j \in 1 .. Len(frames') : j >= i /\ PositionFrame(j, n)'
    <3>1. PositionFrame(i + 1, m) /\ i \in Nat /\ i >= 1
      BY <1>6, <2>5, ArrivalMoves
    <3>2. PICK j \in 1 .. Len(frames) : j >= i + 1 /\ PositionFrame(j, n)
      BY <1>h, <2>2, <2>5, <3>1 DEF PositionFrame
    <3>3. j # 1 /\ j - 1 >= i
      BY <3>1, <3>2
    <3>4. j - 1 \in 1 .. Len(frames') /\ PositionFrame(j - 1, n)'
      BY <1>6, <3>2, <3>3, ArrivalMoves
    <3> QED BY <3>3, <3>4
  <2> QED BY <1>h, <2>1, <2>2, <2>3, <2>4, <2>5
<1>7. CASE HandleLote
  <2>1. UNCHANGED <<said, Latest, batch, frames, lost>> /\ lot'.positions = {}
    BY <1>7, <1>q DEF HandleLote, gateway, NoLot
  <2>2. n \in 1 .. Latest /\ Heard(n)
    BY <1>s, <2>1 DEF Heard
  <2> QED BY <1>h, <2>1, <2>2 DEF PositionFrame
<1>8. CASE \E r \in Roads : Answered(r)
  BY <1>8, <1>k DEF Answered, gateway
<1>9. CASE \E r \in Roads : RequestFails(r)
  BY <1>9, <1>k DEF RequestFails, gateway
<1> QED BY <1>1, <1>2, <1>3, <1>4, <1>5, <1>6, <1>7, <1>8, <1>9, Zenon DEF LiveStep

LEMMA BroughtStep ==
  ASSUME LiveTyped, LiveTyped', BroughtInv, OrderInv, LiveStep
  PROVE  BroughtInv'
<1>0. /\ Latest \in Nat /\ place \in 0 .. Latest /\ key \in 0 .. Latest /\ key' \in Nat
      /\ place' \in Nat /\ lot.positions \subseteq 1 .. Latest /\ lot.attributes \subseteq 1 .. Latest
  <2>1. lot.positions \subseteq 1 .. Latest /\ lot.attributes \subseteq 1 .. Latest
    BY LotMoves
  <2>2. \A k \in Nat : \A x \in 0 .. k : x \in Nat
    OBVIOUS
  <2> QED BY <2>1, <2>2 DEF LiveTyped
<1>q. ASSUME UNCHANGED said PROVE UNCHANGED Latest
  BY <1>q DEF Latest
<1> DEFINE Kept(n) ==
      /\ said'[n] \in Approved => PlaceComes(n)' \/ place' >= n
      /\ said'[n] \in Readings => KeyComes(n)' \/ key' >= n
<1>s. SUFFICES ASSUME NEW n \in (1 .. Latest') \ lost' PROVE Kept(n)
  BY Zenon DEF BroughtInv
<1>n. n \in Nat
  BY <1>s DEF LiveTyped
<1>h. ASSUME n \in (1 .. Latest) \ lost
      PROVE  /\ said[n] \in Approved => PlaceComes(n) \/ place >= n
             /\ said[n] \in Readings => KeyComes(n) \/ key >= n
  BY <1>h DEF BroughtInv
(* Nothing on its way moves, and what is shown is as new or what is lost.     *)
<1>k. ASSUME UNCHANGED <<said, batch, keys, frames, lot>>, lost \subseteq lost',
             place >= n => place' >= n, key' >= key
      PROVE  Kept(n)
  <2>1. n \in (1 .. Latest) \ lost
    BY <1>k, <1>q
  <2>2. key >= n => key' >= n
    BY <1>0, <1>k, <1>n
  <2>3. (PlaceComes(n) => PlaceComes(n)') /\ (KeyComes(n) => KeyComes(n)')
    BY <1>k DEF PlaceComes, KeyComes, PositionFrame, AnyFrame
  <2> QED BY <1>h, <1>k, <2>1, <2>2, <2>3
(* What is on its way stays so, and what is shown does not change.            *)
<1>m. ASSUME n \in (1 .. Latest) \ lost, said'[n] = said[n], UNCHANGED <<place, key>>,
             PlaceComes(n) => PlaceComes(n)', KeyComes(n) => KeyComes(n)'
      PROVE  Kept(n)
  BY <1>h, <1>m
<1>1. CASE \E kind \in SaidKinds : Say(kind)
  <2> PICK kind \in SaidKinds : Say(kind)
    BY <1>1
  <2>1. /\ Latest' = Latest + 1 /\ (\A x \in 1 .. Latest : said'[x] = said[x])
        /\ said'[Latest + 1] = kind /\ UNCHANGED <<frames, lot, place, key>>
    BY Said DEF Say, map
  <2>2. CASE n = Latest + 1
    <3>1. linked
      BY <1>s, <2>2 DEF Say
    <3>2. /\ kind \in Approved => n \in batch'
          /\ kind \in Readings => n \in batch' \cup keys'
      BY <2>2, <3>1 DEF Say, Hear, Approved, Readings
    <3> QED BY <2>1, <2>2, <3>2 DEF PlaceComes, KeyComes
  <2>3. CASE n # Latest + 1
    <3>1. n \in (1 .. Latest) \ lost
      BY <1>0, <1>s, <2>1, <2>3 DEF Say
    <3>2. batch \subseteq batch' /\ keys \subseteq keys'
      BY DEF Say, Hear
    <3> QED BY <1>m, <2>1, <3>1, <3>2 DEF PositionFrame, AnyFrame, PlaceComes, KeyComes
  <2> QED BY <2>2, <2>3
<1>2. CASE LinkLost \/ SocketUp \/ PollAsks \/ (\E r \in Roads : ReadFleet(r)) \/ UNCHANGED liveVars
  <2>1. UNCHANGED <<said, batch, keys, frames, lot, lost, place, key>>
    BY <1>2 DEF LinkLost, SocketUp, PollAsks, ReadFleet, liveVars, gateway, map
  <2> QED BY <1>0, <1>k, <2>1
<1>3. CASE LinkBack
  <2>1. UNCHANGED <<said, Latest, frames, lot, place, key>>
    BY <1>3, <1>q DEF LinkBack, map
  <2>2. batch \subseteq batch' /\ keys \subseteq keys'
    BY <1>3 DEF LinkBack, Hear
  <2>3. CASE n \notin lost
    BY <1>m, <2>1, <2>2, <2>3 DEF PositionFrame, AnyFrame, PlaceComes, KeyComes
  <2>4. CASE n \in lost
    <3>1. n = Latest /\ Latest # 0
      BY <1>3, <1>s, <2>4 DEF LinkBack
    <3>2. /\ said[n] \in Approved => n \in batch'
          /\ said[n] \in Readings => n \in batch' \cup keys'
      BY <1>3, <3>1 DEF LinkBack, Hear, Approved, Readings
    <3> QED BY <2>1, <3>2 DEF PlaceComes, KeyComes
  <2> QED BY <2>3, <2>4
<1>4. CASE FlushBatch
  <2>1. UNCHANGED <<said, Latest, lot, place, key>> /\ n \in (1 .. Latest) \ lost
    BY <1>4, <1>q DEF FlushBatch, map
  <2>2. CASE online
    <3>1. frames' = frames \o Frame("positions:batch", batch) \o Frame("attrs:batch", keys)
      BY <1>4, <2>2 DEF FlushBatch
    <3>2. PlaceComes(n) => PlaceComes(n)'
      BY <2>1, <3>1, FlushMoves DEF PlaceComes
    <3>3. KeyComes(n) => KeyComes(n)'
      BY <2>1, <3>1, FlushMoves DEF KeyComes
    <3> QED BY <1>m, <2>1, <3>2, <3>3
  <2>3. CASE ~online
    <3>1. n \notin batch \cup keys /\ UNCHANGED frames
      BY <1>4, <1>s, <2>3 DEF FlushBatch
    <3>2. (PlaceComes(n) => PlaceComes(n)') /\ (KeyComes(n) => KeyComes(n)')
      BY <2>1, <3>1 DEF PositionFrame, AnyFrame, PlaceComes, KeyComes
    <3> QED BY <1>m, <2>1, <3>2
  <2> QED BY <2>2, <2>3
<1>5. CASE GatewayRestarts \/ SocketLost
  <2>1. UNCHANGED <<said, Latest, lot, place, key>>
    BY <1>5, <1>q DEF GatewayRestarts, SocketLost, gateway, map
  <2>2. /\ n \in (1 .. Latest) \ lost /\ n \notin InFrames
        /\ (n \in batch => n \in batch') /\ (n \in keys => n \in keys')
    BY <1>5, <1>s, <2>1 DEF GatewayRestarts, SocketLost, gateway
  <2>3. ~AnyFrame(n) /\ ~(\E i \in 1 .. Len(frames) : PositionFrame(i, n))
    BY <2>2, FramesAreItems DEF AnyFrame, PositionFrame
  <2>4. (PlaceComes(n) => PlaceComes(n)') /\ (KeyComes(n) => KeyComes(n)')
    BY <2>1, <2>2, <2>3 DEF PlaceComes, KeyComes
  <2> QED BY <1>m, <2>1, <2>2, <2>4
<1>6. CASE FrameArrives
  <2>1. UNCHANGED <<said, Latest, batch, keys, lost, place, key>>
    BY <1>6, <1>q DEF FrameArrives, gateway, map
  <2>2. PlaceComes(n) => PlaceComes(n)'
    BY <1>6, <2>1, ArrivalMoves DEF PlaceComes
  <2>3. KeyComes(n) => KeyComes(n)'
    BY <1>6, <2>1, ArrivalMoves DEF KeyComes
  <2> QED BY <1>m, <2>1, <2>2, <2>3
<1>7. CASE HandleLote
  <2>1. /\ UNCHANGED <<said, Latest, batch, keys, frames, lost>>
        /\ n \in (1 .. Latest) \ lost
    BY <1>7, <1>q DEF HandleLote, gateway
  <2>2. ASSUME said[n] \in Readings PROVE KeyComes(n)' \/ key' >= n
    <3> DEFINE ns == lot.positions \cup lot.attributes
    <3>1. ns \in SUBSET (1 .. Latest) /\ key' = Remembered(ns)
      BY <1>0, <1>7 DEF HandleLote
    <3>2. key' >= key /\ (n \in ns => key' >= n)
      <4> HIDE DEF ns
      <4> QED BY <2>2, <3>1, RememberedIsGreatest
    <3>3. CASE key >= n
      BY <1>0, <1>n, <3>2, <3>3
    <3>4. CASE KeyComes(n)
      BY <2>1, <3>2, <3>4 DEF KeyComes, AnyFrame
    <3> QED BY <1>h, <2>1, <2>2, <3>3, <3>4
  <2>3. ASSUME said[n] \in Approved PROVE PlaceComes(n)' \/ place' >= n
    <3>1. CASE lot.positions = {}
      <4>1. place' = place /\ (PlaceComes(n) => PlaceComes(n)')
        BY <1>7, <2>1, <3>1 DEF HandleLote, PlaceComes, PositionFrame
      <4> QED BY <1>h, <2>1, <2>3, <4>1
    <3>2. CASE lot.positions # {}
      <4>1. /\ place' = Max(lot.positions) /\ Max(lot.positions) \in lot.positions
            /\ \A x \in lot.positions : x <= Max(lot.positions)
        <5>1. lot.positions \in SUBSET (0 .. Latest)
          BY <1>0
        <5> QED BY <1>0, <1>7, <3>2, <5>1, MaxIsGreatest DEF HandleLote
      <4>2. ASSUME n \in batch \/ \E i \in 1 .. Len(frames) : PositionFrame(i, n)
            PROVE  PlaceComes(n)'
        BY <2>1, <4>2 DEF PlaceComes, PositionFrame
      <4>3. CASE n \in lot.positions
        BY <4>1, <4>3
      <4>4. CASE place' < n
        <5>1. place' \in 1 .. (n - 1) /\ place' \in lot.positions /\ n \in 1 .. Latest /\ Heard(n)
          BY <1>0, <1>n, <2>1, <2>3, <4>1, <4>4 DEF Heard
        <5>2. PlaceComes(n)
          BY <5>1 DEF OrderInv
        <5>3. n \notin lot.positions
          BY <1>0, <4>1, <4>4
        <5> QED BY <4>2, <5>2, <5>3 DEF PlaceComes
      <4> QED BY <1>0, <1>n, <4>3, <4>4
    <3> QED BY <3>1, <3>2
  <2> QED BY <2>1, <2>2, <2>3
<1>8. CASE \E r \in Roads : Answered(r)
  <2> PICK r \in Roads : Answered(r)
    BY <1>8
  <2> DEFINE seen == load[r].seen
  <2>1. seen \in 0 .. Latest
    BY LoadTyped
  <2>2. /\ place' = IF r = "first" THEN seen ELSE Merged(place, seen)
        /\ key' = Remembered({seen} \ {0})
        /\ lost' = IF r = "first" \/ seen = 0 THEN lost \cup (seen + 1) .. place ELSE lost
        /\ UNCHANGED <<said, batch, keys, frames, lot>>
    BY DEF Answered, gateway
  <2> HIDE DEF seen
  <2>3. key' >= key
    <3>1. {seen} \ {0} \in SUBSET (1 .. Latest)
      BY <1>0, <2>1
    <3> QED BY <2>2, <3>1, RememberedIsGreatest
  <2>4. place >= n => place' >= n
    <3>1. CASE r = "first" \/ seen = 0
      <4>1. n \notin (seen + 1) .. place
        BY <1>s, <2>2, <3>1
      <4>2. place' = seen
        BY <2>2, <3>1 DEF Merged
      <4> QED BY <1>0, <1>n, <2>1, <4>1, <4>2
    <3>2. CASE ~(r = "first" \/ seen = 0)
      BY <1>0, <1>n, <2>1, <2>2, <3>2 DEF Merged
    <3> QED BY <3>1, <3>2
  <2>5. lost \subseteq lost'
    BY <2>2
  <2> QED BY <1>k, <2>2, <2>3, <2>4, <2>5
<1>9. CASE \E r \in Roads : RequestFails(r)
  <2> PICK r \in Roads : RequestFails(r)
    BY <1>9
  <2>1. UNCHANGED <<said, batch, keys, frames, lot, key>> /\ lost \subseteq lost'
    BY DEF RequestFails, gateway
  <2>2. place >= n => place' >= n
    BY <1>0, <1>n, <1>s DEF RequestFails
  <2> QED BY <1>0, <1>k, <2>1, <2>2
<1> QED BY <1>1, <1>2, <1>3, <1>4, <1>5, <1>6, <1>7, <1>8, <1>9, Zenon DEF LiveStep

--------------------------------------------------------------------------------

LEMMA LiveStarts ==
  ASSUME LiveInit
  PROVE  LiveInv
<1>1. Latest = 0
  BY DEF LiveInit, Latest
<1>2. /\ said \in Seq(SaidKinds) /\ frames \in Seq(FrameOf(0)) /\ lot \in LotOf(0)
      /\ load \in [Roads -> LoadOf(0)]
  <2>1. /\ NoLoad \in LoadOf(0) /\ [NoLoad EXCEPT !.at = "asked"] \in LoadOf(0)
        /\ NoLot \in LotOf(0)
    BY DEF LotOf, LoadOf, NoLot, NoLoad
  <2>2. said = <<>> /\ frames = <<>> /\ lot = NoLot
    BY DEF LiveInit
  <2>3. load \in [Roads -> LoadOf(0)]
    BY <2>1 DEF LiveInit
  <2>4. <<>> \in Seq(SaidKinds) /\ <<>> \in Seq(FrameOf(0))
    OBVIOUS
  <2> QED BY <2>1, <2>2, <2>3, <2>4
<1>3. LiveTyped
  <2>1. Latest \in Nat /\ Latest <= MaxSaid /\ mishaps \in 0 .. MaxMishaps
    BY <1>1, LiveBounds DEF LiveInit
  <2>4. linked \in BOOLEAN /\ online \in BOOLEAN
    BY Zenon DEF LiveInit
  <2>2. place \in 0 .. Latest /\ extras \in 0 .. Latest /\ key \in 0 .. Latest
    BY <1>1 DEF LiveInit
  <2>3. batch \subseteq 1 .. Latest /\ keys \subseteq 1 .. Latest /\ lost \subseteq 1 .. Latest
    BY DEF LiveInit
  <2> QED BY <1>1, <1>2, <2>1, <2>2, <2>3, <2>4 DEF LiveTyped
<1> QED BY <1>1, <1>3, LiveTypeMeans DEF LiveInv, BroughtInv, OrderInv

LEMMA LiveInvariant ==
  ASSUME LiveInv, [LiveNext]_liveVars
  PROVE  LiveInv'
<1>1. LiveTyped /\ BroughtInv /\ OrderInv /\ LiveStep
  BY LiveTypeMeans, LiveNextIsAStep DEF LiveInv
<1>2. LiveTyped'
  BY <1>1, LiveTypeStep
<1> QED BY <1>1, <1>2, LiveTypeMeans, BroughtStep, OrderStep DEF LiveInv

(* With nothing on its way every message the socket could bring is shown.     *)
LEMMA SettledFollows ==
  ASSUME LiveInv
  PROVE  SettledPanelIsNewest
<1> SUFFICES ASSUME batch \cup keys \cup InFrames \cup lot.positions \cup lot.attributes = {},
                    NEW n \in (1 .. Latest) \ lost
             PROVE  /\ said[n] \in Approved => place >= n
                    /\ said[n] \in Readings => key >= n
  BY DEF SettledPanelIsNewest
<1>1. LiveTyped /\ BroughtInv
  BY LiveTypeMeans DEF LiveInv
<1>2. ~AnyFrame(n) /\ ~(\E i \in 1 .. Len(frames) : PositionFrame(i, n))
  BY <1>1, FramesAreItems DEF AnyFrame, PositionFrame
<1>3. ~PlaceComes(n) /\ ~KeyComes(n)
  BY <1>2 DEF PlaceComes, KeyComes
<1> QED BY <1>1, <1>3 DEF BroughtInv

(* Each state of the gateway, the frames and the map has its type.            *)
THEOREM LiveTypeTheorem == LiveSpec => []LiveTypeOK
<1>1. LiveInv => LiveTypeOK
  BY DEF LiveInv
<1> QED BY <1>1, LiveStarts, LiveInvariant, PTL DEF LiveSpec

(* With nothing of the socket on its way, the map shows a place as new as any *)
(* approved message the socket could bring and the ignition of any reading,   *)
(* although handleLote writes a batch over a newer place.                     *)
THEOREM SettledPanelTheorem == LiveSpec => []SettledPanelIsNewest
BY LiveStarts, LiveInvariant, SettledFollows, PTL DEF LiveSpec
===============================================================================
