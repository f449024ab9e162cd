--------------------------- MODULE VehicleListProofs ---------------------------
(***************************************************************************)
(* Proofs about VehicleList for any number of changes, loads and faults.    *)
(*                                                                         *)
(* While nothing is lost, a screen that is not what the table is has news   *)
(* on its way: a sign of the change, or a load that will read or has read   *)
(* the table as it is.  An answer makes the loads before it late, so that   *)
(* is only inductive with the place of the load: behind every old answer    *)
(* that would still be shown there is a sign or a newer load.               *)
(***************************************************************************)
EXTENDS VehicleList, TLAPS

Sign == owing # {} \/ armed # {} \/ wire > 0 \/ timer \/ pending

(* What a load would show is the table as it is, at version v, or it is not. *)
Brings(l, v) == ~l.late /\ l.read \in {0, v}
Outdated(l, v) == ~l.late /\ l.read \notin {0, v}

ComesAfter(n) == \E m \in 1..Len(loads) : m > n /\ Brings(loads[m], version)

NewsInv ==
  ~missed =>
    /\ shown # version => Sign \/ ComesAfter(0)
    /\ \A n \in 1..Len(loads) : Outdated(loads[n], version) => Sign \/ ComesAfter(n)

-------------------------------------------------------------------------------
(* Loads.                                                                    *)

LEMMA LoadFields ==
  ASSUME NEW l \in Load
  PROVE  /\ l.kind \in {"first", "poll", "event"} /\ l.late \in BOOLEAN
         /\ l.read \in 0..(MaxTableChanges + 1)
BY DEF Load

LEMMA RowsOfLoads ==
  ASSUME NEW f \in Seq(Load)
  PROVE  Len(f) \in Nat /\ DOMAIN f = 1..Len(f) /\ \A k \in 1..Len(f) : f[k] \in Load
OBVIOUS

LEMMA TwoParts ==
  ASSUME NEW a \in Seq(Load), NEW b \in Seq(Load)
  PROVE  a \o b \in Seq(Load) /\ Len(a \o b) = Len(a) + Len(b)
OBVIOUS

(* Where the load of place k was before the one of place n left.             *)
From(k, n) == IF k < n THEN k ELSE k + 1

IsRemoved(g, f, n) ==
  /\ g \in Seq(Load) /\ Len(g) = Len(f) - 1
  /\ \A k \in 1..Len(g) : g[k] = f[From(k, n)]

LEMMA Removed ==
  ASSUME NEW f \in Seq(Load), NEW n \in 1..Len(f)
  PROVE  IsRemoved(RemoveAt(f, n), f, n)
<1> DEFINE a == SubSeq(f, 1, n - 1)
           b == SubSeq(f, n + 1, Len(f))
<1>0. Len(f) \in Nat /\ n \in Nat /\ n >= 1 /\ n <= Len(f)
  OBVIOUS
<1>1. a \in Seq(Load) /\ Len(a) = n - 1 /\ \A k \in 1..(n - 1) : a[k] = f[k]
  BY <1>0
<1>2. b \in Seq(Load) /\ Len(b) = Len(f) - n /\ \A k \in 1..(Len(f) - n) : b[k] = f[k + n]
  BY <1>0
<1>3. RemoveAt(f, n) = a \o b
  BY DEF RemoveAt
<1> HIDE DEF a, b
<1>4. a \o b \in Seq(Load) /\ Len(a \o b) = Len(f) - 1
  <2>1. a \o b \in Seq(Load) /\ Len(a \o b) = Len(a) + Len(b)
    BY <1>1, <1>2, TwoParts
  <2>2. (n - 1) + (Len(f) - n) = Len(f) - 1
    BY <1>0
  <2> QED BY <1>1, <1>2, <2>1, <2>2
<1>5. ASSUME NEW k \in 1..(Len(f) - 1) PROVE (a \o b)[k] = f[From(k, n)]
  <2>1. CASE k < n
    BY <1>0, <1>1, <1>2, <2>1 DEF From
  <2>2. CASE ~(k < n)
    <3>1. (a \o b)[k] = b[k - (n - 1)]
      BY <1>0, <1>1, <1>2, <2>2
    <3>2. k - (n - 1) \in 1..(Len(f) - n) /\ (k - (n - 1)) + n = k + 1
      BY <1>0, <2>2
    <3> QED BY <1>2, <2>2, <3>1, <3>2 DEF From
  <2> QED BY <2>1, <2>2
<1> QED BY <1>3, <1>4, <1>5 DEF IsRemoved

LEMMA Places ==
  ASSUME NEW l \in Nat, NEW n \in 1..l
  PROVE  /\ \A k \in 1..(l - 1) : From(k, n) \in 1..l /\ From(k, n) # n
         /\ \A j, k \in 1..(l - 1) : From(j, n) = From(k, n) => j = k
         /\ \A j, k \in 1..(l - 1) : From(j, n) < From(k, n) => j < k
         /\ \A j \in 1..l : j # n => \E k \in 1..(l - 1) : From(k, n) = j
<1>1. /\ \A k \in 1..(l - 1) : From(k, n) \in 1..l /\ From(k, n) # n
      /\ \A j, k \in 1..(l - 1) : From(j, n) = From(k, n) => j = k
      /\ \A j, k \in 1..(l - 1) : From(j, n) < From(k, n) => j < k
  BY DEF From
<1>2. ASSUME NEW j \in 1..l, j # n PROVE \E k \in 1..(l - 1) : From(k, n) = j
  <2>1. CASE j < n
    <3>1. j \in 1..(l - 1) /\ From(j, n) = j
      BY <2>1 DEF From
    <3> QED BY <3>1
  <2>2. CASE ~(j < n)
    <3>1. j - 1 \in 1..(l - 1) /\ From(j - 1, n) = j
      BY <1>2, <2>2 DEF From
    <3> QED BY <3>1
  <2> QED BY <2>1, <2>2
<1> QED BY <1>1, <1>2

(* The loads left when the load of place n leaves, taken or not.             *)
IsLeft(g, f, n, taken) ==
  /\ g \in Seq(Load) /\ Len(g) = Len(f) - 1
  /\ \A k \in 1..Len(g) :
       /\ g[k].kind = f[From(k, n)].kind /\ g[k].read = f[From(k, n)].read
       /\ g[k].late <=> f[From(k, n)].late \/ (taken /\ From(k, n) < n)

LEMMA LoadsLeft ==
  ASSUME loads \in Seq(Load), NEW n \in 1..Len(loads)
  PROVE  IsLeft(Taken(n), loads, n, TRUE) /\ IsLeft(Dropped(n), loads, n, FALSE)
<1> DEFINE f == [m \in 1..Len(loads) |-> [loads[m] EXCEPT !.late = @ \/ m < n]]
<1>0. Len(loads) \in Nat /\ \A k \in 1..Len(loads) : loads[k] \in Load
  OBVIOUS
<1>1. ASSUME NEW m \in 1..Len(loads)
      PROVE  /\ f[m] \in Load /\ f[m].kind = loads[m].kind /\ f[m].read = loads[m].read
             /\ f[m].late <=> loads[m].late \/ m < n
  <2>1. loads[m] \in Load /\ (loads[m].late \/ m < n) \in BOOLEAN
    BY <1>0
  <2> QED BY <2>1 DEF Load
<1>2. f \in Seq(Load) /\ Len(f) = Len(loads)
  <2>1. f \in [1..Len(loads) -> Load]
    BY <1>1
  <2> HIDE DEF f
  <2> QED BY <1>0, <2>1
<1>3. Taken(n) = RemoveAt(f, n) /\ Dropped(n) = RemoveAt(loads, n)
  BY DEF Taken, Dropped
<1> HIDE DEF f
<1>4. IsRemoved(RemoveAt(f, n), f, n) /\ IsRemoved(RemoveAt(loads, n), loads, n)
  BY <1>2, Removed
<1>5. \A k \in 1..(Len(loads) - 1) : From(k, n) \in 1..Len(loads)
  BY <1>0, Places
<1>6. IsLeft(RemoveAt(f, n), loads, n, TRUE)
  BY <1>1, <1>2, <1>4, <1>5 DEF IsRemoved, IsLeft
<1>7. IsLeft(RemoveAt(loads, n), loads, n, FALSE)
  BY <1>4 DEF IsRemoved, IsLeft
<1> QED BY <1>3, <1>6, <1>7

LEMMA LoadStarts ==
  ASSUME loads \in Seq(Load), NEW kind \in {"first", "poll", "event"}, StartLoad(kind)
  PROVE  /\ loads' \in Seq(Load) /\ Len(loads') = Len(loads) + 1 /\ Len(loads) < MaxLoads
         /\ \A k \in 1..Len(loads) : loads'[k] = loads[k]
         /\ loads'[Len(loads) + 1].kind = kind
         /\ loads'[Len(loads) + 1].read = 0 /\ loads'[Len(loads) + 1].late = FALSE
<1>1. New(kind) \in Load /\ New(kind).kind = kind /\ New(kind).read = 0 /\ New(kind).late = FALSE
  BY ListBoundsAssumption DEF New, Load
<1> HIDE DEF Load, New
<1>2. loads' = Append(loads, New(kind)) /\ Len(loads) < MaxLoads
  BY DEF StartLoad
<1> QED BY <1>1, <1>2

LEMMA LoadIsRead ==
  ASSUME loads \in Seq(Load), NEW n \in 1..Len(loads), version \in 1..(MaxTableChanges + 1),
         loads' = [loads EXCEPT ![n].read = version]
  PROVE  /\ loads' \in Seq(Load) /\ Len(loads') = Len(loads)
         /\ \A k \in 1..Len(loads) :
              /\ loads'[k].kind = loads[k].kind /\ (loads'[k].late <=> loads[k].late)
              /\ loads'[k].read = IF k = n THEN version ELSE loads[k].read
<1>0. Len(loads) \in Nat /\ \A k \in 1..Len(loads) : loads[k] \in Load
  OBVIOUS
<1> DEFINE l == [loads[n] EXCEPT !.read = version]
<1>1. version \in 0..(MaxTableChanges + 1)
  BY ListBoundsAssumption
<1>2. l \in Load /\ l.kind = loads[n].kind /\ (l.late <=> loads[n].late) /\ l.read = version
  BY <1>0, <1>1 DEF Load
<1>3. loads' = [loads EXCEPT ![n] = l]
  OBVIOUS
<1> HIDE DEF l
<1>4. loads' \in Seq(Load) /\ Len(loads') = Len(loads)
      /\ \A k \in 1..Len(loads) : loads'[k] = IF k = n THEN l ELSE loads[k]
  BY <1>2, <1>3
<1> QED BY <1>2, <1>4

-------------------------------------------------------------------------------
(* Typing.                                                                   *)

PollsOf(f) == {k \in 1..Len(f) : f[k].kind = "poll"}

ListTyped ==
  /\ version \in 1..(MaxTableChanges + 1) /\ shown \in 0..(MaxTableChanges + 1)
  /\ owing \subseteq Bells /\ armed \subseteq Bells /\ wire \in Nat
  /\ connected \in BOOLEAN /\ met \in BOOLEAN /\ hidden \in BOOLEAN /\ pending \in BOOLEAN
  /\ timer \in BOOLEAN /\ busy \in BOOLEAN /\ missed \in BOOLEAN
  /\ loads \in Seq(Load) /\ Len(loads) <= MaxLoads
  /\ busy <=> PollsOf(loads) # {}
  /\ \A m, n \in PollsOf(loads) : m = n
  /\ faults \in 0..MaxFaults /\ hides \in 0..MaxHides

LEMMA ListTypeMeans ==
  /\ ListTypeOK <=> ListTyped
  /\ ListTypeOK' <=> ListTyped'
<1>1. ListTypeOK <=> ListTyped
  BY DEF ListTypeOK, ListTyped, PollsOf
<1>2. ListTypeOK' <=> ListTyped'
  BY DEF ListTypeOK, ListTyped, PollsOf
<1> QED BY <1>1, <1>2

ListStep ==
  \/ \E b \in Bells : TableChanges(b)
  \/ \E b \in Bells : Announce(b)
  \/ \E b \in Bells : BellRings(b)
  \/ BackendRestarts \/ Connect \/ Disconnect \/ EventArrives
  \/ TimerFires \/ Hide \/ Show \/ Poll
  \/ \E n \in 1..Len(loads) : LoadReads(n)
  \/ \E n \in 1..Len(loads) : LoadAnswers(n)
  \/ \E n \in 1..Len(loads) : LoadFails(n)
  \/ UNCHANGED listVars

LEMMA ListNextIsAStep ==
  ASSUME [ListNext]_listVars
  PROVE  ListStep
BY Zenon DEF ListNext, ListStep, LoadMoves

(* How the polls in flight change with the loads.                            *)
LEMMA PollsMove ==
  ASSUME loads \in Seq(Load), loads' \in Seq(Load)
  PROVE  /\ \A kind \in {"poll", "event"} :
              StartLoad(kind) =>
                PollsOf(loads') = IF kind = "poll" THEN PollsOf(loads) \cup {Len(loads) + 1}
                                  ELSE PollsOf(loads)
         /\ \A n \in 1..Len(loads), taken \in BOOLEAN :
              IsLeft(loads', loads, n, taken) /\ (\A i, j \in PollsOf(loads) : i = j) =>
                /\ \A i, j \in PollsOf(loads') : i = j
                /\ PollsOf(loads') # {} <=> PollsOf(loads) # {} /\ loads[n].kind # "poll"
<1>0. Len(loads) \in Nat /\ Len(loads') \in Nat
  OBVIOUS
<1>1. ASSUME NEW kind \in {"poll", "event"}, StartLoad(kind)
      PROVE  PollsOf(loads') = IF kind = "poll" THEN PollsOf(loads) \cup {Len(loads) + 1}
                               ELSE PollsOf(loads)
  <2>1. /\ Len(loads') = Len(loads) + 1
        /\ \A k \in 1..Len(loads) : loads'[k] = loads[k]
        /\ loads'[Len(loads) + 1].kind = kind
    BY <1>1, LoadStarts
  <2>2. \A k : k \in 1..(Len(loads) + 1) <=> k \in 1..Len(loads) \/ k = Len(loads) + 1
    BY <1>0
  <2> QED BY <2>1, <2>2 DEF PollsOf
<1>2. ASSUME NEW n \in 1..Len(loads), NEW taken \in BOOLEAN,
             IsLeft(loads', loads, n, taken), \A i, j \in PollsOf(loads) : i = j
      PROVE  /\ \A i, j \in PollsOf(loads') : i = j
             /\ PollsOf(loads') # {} <=> PollsOf(loads) # {} /\ loads[n].kind # "poll"
  <2>1. /\ \A k \in 1..Len(loads') : From(k, n) \in 1..Len(loads) /\ From(k, n) # n
        /\ \A j, k \in 1..Len(loads') : From(j, n) = From(k, n) => j = k
        /\ \A j \in 1..Len(loads) : j # n => \E k \in 1..Len(loads') : From(k, n) = j
        /\ \A k \in 1..Len(loads') : loads'[k].kind = loads[From(k, n)].kind
    <3>1. /\ Len(loads') = Len(loads) - 1
          /\ \A k \in 1..Len(loads') : loads'[k].kind = loads[From(k, n)].kind
      BY <1>2 DEF IsLeft
    <3>2. /\ \A k \in 1..(Len(loads) - 1) : From(k, n) \in 1..Len(loads) /\ From(k, n) # n
          /\ \A j, k \in 1..(Len(loads) - 1) : From(j, n) = From(k, n) => j = k
          /\ \A j \in 1..Len(loads) : j # n => \E k \in 1..(Len(loads) - 1) : From(k, n) = j
      BY <1>0, Places
    <3> QED BY <3>1, <3>2
  <2>2. \A k : k \in PollsOf(loads') => From(k, n) \in PollsOf(loads) /\ From(k, n) # n
    BY <2>1 DEF PollsOf
  <2>3. \A i, j \in PollsOf(loads') : i = j
    BY <1>2, <2>1, <2>2 DEF PollsOf
  <2>4. ASSUME NEW i \in PollsOf(loads), loads[n].kind # "poll" PROVE PollsOf(loads') # {}
    <3>1. i \in 1..Len(loads) /\ i # n /\ loads[i].kind = "poll"
      BY <2>4 DEF PollsOf
    <3> QED BY <2>1, <3>1 DEF PollsOf
  <2>5. ASSUME NEW k \in PollsOf(loads') PROVE PollsOf(loads) # {} /\ loads[n].kind # "poll"
    <3>1. From(k, n) \in PollsOf(loads) /\ From(k, n) # n
      BY <2>2
    <3>2. n \notin PollsOf(loads)
      BY <1>2, <3>1
    <3> QED BY <3>1, <3>2 DEF PollsOf
  <2> QED BY <2>3, <2>4, <2>5
<1> QED BY <1>1, <1>2

LEMMA FaultTyped ==
  ASSUME ListTyped, Fault
  PROVE  faults' \in 0..MaxFaults
BY ListBoundsAssumption DEF ListTyped, Fault

LEMMA ListTypeStep ==
  ASSUME ListTyped, ListStep
  PROVE  ListTyped'
<1>0. /\ loads \in Seq(Load) /\ Len(loads) \in Nat /\ Len(loads) <= MaxLoads
      /\ (busy <=> PollsOf(loads) # {}) /\ (\A m, n \in PollsOf(loads) : m = n)
      /\ MaxTableChanges \in Nat /\ MaxLoads \in Nat /\ MaxHides \in Nat
  BY ListBoundsAssumption DEF ListTyped
<1> DEFINE Flags == /\ connected' \in BOOLEAN /\ met' \in BOOLEAN /\ hidden' \in BOOLEAN
                    /\ pending' \in BOOLEAN /\ timer' \in BOOLEAN /\ missed' \in BOOLEAN
           Numbers == /\ version' \in 1..(MaxTableChanges + 1)
                      /\ owing' \subseteq Bells /\ armed' \subseteq Bells /\ wire' \in Nat
                      /\ faults' \in 0..MaxFaults /\ hides' \in 0..MaxHides
           Loads == /\ loads' \in Seq(Load) /\ Len(loads') <= MaxLoads
                    /\ busy' \in BOOLEAN
                    /\ busy' <=> PollsOf(loads') # {}
                    /\ \A m, n \in PollsOf(loads') : m = n
                    /\ shown' \in 0..(MaxTableChanges + 1)
<1>s. SUFFICES Flags /\ Numbers /\ Loads
  BY DEF ListTyped
<1>k. ASSUME UNCHANGED <<loads, busy, shown>> PROVE Loads
  BY <1>k DEF ListTyped
<1>p. ASSUME ~busy, busy' = TRUE, StartLoad("poll"), UNCHANGED shown PROVE Loads
  <2>1. /\ loads' \in Seq(Load) /\ Len(loads') = Len(loads) + 1 /\ Len(loads) < MaxLoads
    BY <1>0, <1>p, LoadStarts
  <2>2. PollsOf(loads') = {Len(loads) + 1}
    BY <1>0, <1>p, <2>1, PollsMove
  <2>3. Len(loads') <= MaxLoads
    BY <1>0, <2>1
  <2>4. busy' \in BOOLEAN /\ shown' \in 0..(MaxTableChanges + 1)
    BY <1>p, Zenon DEF ListTyped
  <2> HIDE DEF PollsOf
  <2> QED BY <1>p, <2>1, <2>2, <2>3, <2>4
<1>l. ASSUME NEW n \in 1..Len(loads), NEW taken \in BOOLEAN, IsLeft(loads', loads, n, taken),
             busy' = (busy /\ loads[n].kind # "poll"), shown' \in 0..(MaxTableChanges + 1)
      PROVE  Loads
  <2>1. loads' \in Seq(Load) /\ Len(loads') = Len(loads) - 1 /\ Len(loads') <= MaxLoads
    BY <1>0, <1>l DEF IsLeft
  <2>2. /\ \A i, j \in PollsOf(loads') : i = j
        /\ PollsOf(loads') # {} <=> PollsOf(loads) # {} /\ loads[n].kind # "poll"
    BY <1>0, <1>l, <2>1, PollsMove
  <2>3. busy' \in BOOLEAN /\ (busy' <=> PollsOf(loads') # {})
    BY <1>0, <1>l, <2>2, Zenon
  <2> QED BY <1>l, <2>1, <2>2, <2>3
<1> HIDE DEF Loads
<1>1. CASE \E b \in Bells : TableChanges(b)
  <2>1. Flags
    BY <1>1 DEF TableChanges, ListTyped, socket, tab
  <2>2. Numbers
    BY <1>0, <1>1 DEF TableChanges, ListTyped, socket, tab
  <2>3. Loads
    BY <1>1, <1>k DEF TableChanges, screen
  <2> QED BY <2>1, <2>2, <2>3
<1>2. CASE \E b \in Bells : Announce(b)
  <2>1. Flags
    BY <1>2 DEF Announce, ListTyped, socket, tab
  <2>2. Numbers
    BY <1>2 DEF Announce, ListTyped, socket, tab
  <2>3. Loads
    BY <1>2, <1>k DEF Announce, screen
  <2> QED BY <2>1, <2>2, <2>3
<1>3. CASE \E b \in Bells : BellRings(b)
  <2>1. Flags
    BY <1>3 DEF BellRings, ListTyped, tab
  <2>2. Numbers
    BY <1>3 DEF BellRings, ListTyped, tab
  <2>3. Loads
    BY <1>3, <1>k DEF BellRings, screen
  <2> QED BY <2>1, <2>2, <2>3
<1>4. CASE BackendRestarts
  <2>1. Flags
    BY <1>4 DEF BackendRestarts, ListTyped, tab
  <2>2. Numbers
    BY <1>4, FaultTyped DEF BackendRestarts, ListTyped, tab
  <2>3. Loads
    BY <1>4, <1>k DEF BackendRestarts, screen
  <2> QED BY <2>1, <2>2, <2>3
<1>5. CASE Connect
  <2>1. Flags
    BY <1>5 DEF Connect, ListTyped, tab
  <2>2. Numbers
    BY <1>5 DEF Connect, ListTyped, tab, backend
  <2>3. CASE UNCHANGED <<busy, loads>>
    BY <1>5, <1>k, <2>1, <2>2, <2>3 DEF Connect
  <2>4. CASE StartPoll
    BY <1>5, <1>p, <2>1, <2>2, <2>4 DEF Connect, StartPoll, CanPoll
  <2> QED BY <1>5, <2>3, <2>4 DEF Connect
<1>6. CASE Disconnect
  <2>1. Flags
    BY <1>6 DEF Disconnect, ListTyped, tab
  <2>2. Numbers
    BY <1>6, FaultTyped DEF Disconnect, ListTyped, tab, backend
  <2>3. Loads
    BY <1>6, <1>k DEF Disconnect, screen
  <2> QED BY <2>1, <2>2, <2>3
<1>7. CASE EventArrives
  <2>1. Flags
    BY <1>7 DEF EventArrives, ListTyped
  <2>2. Numbers
    BY <1>7 DEF EventArrives, ListTyped, backend
  <2>3. Loads
    BY <1>7, <1>k DEF EventArrives, screen
  <2> QED BY <2>1, <2>2, <2>3
<1>8. CASE TimerFires
  <2>1. Flags
    BY <1>8 DEF TimerFires, ListTyped, socket
  <2>2. Numbers
    BY <1>8 DEF TimerFires, ListTyped, backend, socket
  <2>3. CASE UNCHANGED loads
    BY <1>8, <1>k, <2>1, <2>2, <2>3 DEF TimerFires
  <2>4. CASE StartLoad("event")
    <3>1. loads' \in Seq(Load) /\ Len(loads') = Len(loads) + 1 /\ Len(loads) < MaxLoads
      BY <1>0, <2>4, LoadStarts
    <3>2. PollsOf(loads') = PollsOf(loads) /\ Len(loads') <= MaxLoads
      BY <1>0, <2>4, <3>1, PollsMove
    <3>3. Loads
      <4>1. UNCHANGED <<busy, shown>>
        BY <1>8 DEF TimerFires
      <4> HIDE DEF PollsOf
      <4> QED BY <1>0, <3>1, <3>2, <4>1 DEF Loads, ListTyped
    <3> QED BY <2>1, <2>2, <3>3
  <2> QED BY <1>8, <2>3, <2>4 DEF TimerFires
<1>9. CASE Hide
  <2>1. Flags
    BY <1>9 DEF Hide, ListTyped, socket
  <2>2. Numbers
    BY <1>0, <1>9 DEF Hide, ListTyped, backend, socket
  <2>3. Loads
    BY <1>9, <1>k DEF Hide, screen
  <2> QED BY <2>1, <2>2, <2>3
<1>10. CASE Show
  <2>1. Flags
    BY <1>10 DEF Show, ListTyped, socket
  <2>2. Numbers
    BY <1>10 DEF Show, ListTyped, backend, socket
  <2>3. CASE UNCHANGED <<busy, loads>>
    BY <1>10, <1>k, <2>1, <2>2, <2>3 DEF Show
  <2>4. CASE ~busy /\ busy' = TRUE /\ StartLoad("poll")
    BY <1>10, <1>p, <2>1, <2>2, <2>4 DEF Show
  <2> QED BY <1>10, <2>3, <2>4 DEF Show
<1>11. CASE Poll
  <2>1. Flags
    BY <1>11 DEF Poll, ListTyped, socket, tab
  <2>2. Numbers
    BY <1>11 DEF Poll, ListTyped, backend, socket
  <2>3. Loads
    BY <1>11, <1>p DEF Poll, StartPoll, CanPoll
  <2> QED BY <2>1, <2>2, <2>3
<1>12. CASE \E n \in 1..Len(loads) : LoadReads(n)
  <2> PICK n \in 1..Len(loads) : LoadReads(n)
    BY <1>12
  <2>1. Flags
    BY DEF LoadReads, ListTyped, socket, tab
  <2>2. Numbers
    BY DEF LoadReads, ListTyped, backend, socket
  <2>3. /\ loads' \in Seq(Load) /\ Len(loads') = Len(loads)
        /\ \A k \in 1..Len(loads) : loads'[k].kind = loads[k].kind
    BY LoadIsRead DEF LoadReads, ListTyped
  <2>4. PollsOf(loads') = PollsOf(loads)
    BY <2>3 DEF PollsOf
  <2>5. Loads
    <3> HIDE DEF PollsOf
    <3> QED BY <1>0, <2>3, <2>4 DEF Loads, LoadReads, ListTyped
  <2> QED BY <2>1, <2>2, <2>5
<1>13. CASE \E n \in 1..Len(loads) : LoadAnswers(n)
  <2> PICK n \in 1..Len(loads) : LoadAnswers(n)
    BY <1>13
  <2>1. Flags
    BY DEF LoadAnswers, ListTyped, socket, tab
  <2>2. Numbers
    BY DEF LoadAnswers, ListTyped, backend, socket
  <2>3. shown' \in 0..(MaxTableChanges + 1)
    <3>1. loads[n] \in Load
      BY <1>0
    <3> QED BY <3>1, LoadFields DEF LoadAnswers, ListTyped
  <2>4. IsLeft(loads', loads, n, TRUE) \/ IsLeft(loads', loads, n, FALSE)
    BY <1>0, LoadsLeft, Zenon DEF LoadAnswers
  <2> QED BY <1>l, <2>1, <2>2, <2>3, <2>4 DEF LoadAnswers
<1>14. CASE \E n \in 1..Len(loads) : LoadFails(n)
  <2> PICK n \in 1..Len(loads) : LoadFails(n)
    BY <1>14
  <2>1. Flags
    BY DEF LoadFails, ListTyped, socket, tab
  <2>2. Numbers
    BY FaultTyped DEF LoadFails, ListTyped, backend, socket, tab
  <2>3. shown' \in 0..(MaxTableChanges + 1)
    BY <1>0 DEF LoadFails, ListTyped
  <2>4. IsLeft(loads', loads, n, TRUE) \/ IsLeft(loads', loads, n, FALSE)
    BY <1>0, LoadsLeft, Zenon DEF LoadFails
  <2> QED BY <1>l, <2>1, <2>2, <2>3, <2>4 DEF LoadFails, PollOver
<1>15. CASE UNCHANGED listVars
  <2>1. Flags /\ Numbers
    BY <1>15 DEF listVars, ListTyped
  <2>2. Loads
    BY <1>15, <1>k DEF listVars
  <2> QED BY <2>1, <2>2
<1> QED
  BY <1>1, <1>2, <1>3, <1>4, <1>5, <1>6, <1>7, <1>8, <1>9, <1>10, <1>11, <1>12,
     <1>13, <1>14, <1>15 DEF ListStep

-------------------------------------------------------------------------------
(* News.                                                                     *)

(* A load that starts is behind all the others and reads the table anew.     *)
LEMMA StartBrings ==
  ASSUME ListTyped, NEW kind \in {"poll", "event"}, StartLoad(kind)
  PROVE  \A n \in 0..Len(loads') : ComesAfter(n)' \/ n = Len(loads')
<1>1. /\ loads' \in Seq(Load) /\ Len(loads') = Len(loads) + 1
      /\ loads'[Len(loads) + 1].read = 0 /\ loads'[Len(loads) + 1].late = FALSE
      /\ Len(loads) \in Nat
  <2>1. loads \in Seq(Load) /\ kind \in {"first", "poll", "event"}
    BY Zenon DEF ListTyped
  <2>2. Len(loads) \in Nat
    BY <2>1
  <2> HIDE DEF Load
  <2> QED BY <2>1, <2>2, LoadStarts, Zenon
<1>2. Brings(loads'[Len(loads) + 1], version')
  BY <1>1 DEF Brings
<1> TAKE n \in 0..Len(loads')
<1>3. CASE n # Len(loads')
  <2>1. Len(loads) + 1 \in 1..Len(loads') /\ Len(loads) + 1 > n
    BY <1>1, <1>3
  <2> QED BY <1>2, <2>1 DEF ComesAfter
<1> QED BY <1>3

(* So there is news after every load that has anything to show.              *)
LEMMA StartIsNews ==
  ASSUME ListTyped, NEW kind \in {"poll", "event"}, StartLoad(kind)
  PROVE  NewsInv'
<1>1. /\ Len(loads') = Len(loads) + 1 /\ Len(loads) \in Nat
      /\ loads'[Len(loads) + 1].read = 0
  <2>1. loads \in Seq(Load) /\ kind \in {"first", "poll", "event"}
    BY Zenon DEF ListTyped
  <2>2. Len(loads) \in Nat
    BY <2>1
  <2> HIDE DEF Load
  <2> QED BY <2>1, <2>2, LoadStarts, Zenon
<1>2. ComesAfter(0)'
  BY <1>1, StartBrings
<1>3. ASSUME NEW n \in 1..Len(loads'), Outdated(loads'[n], version') PROVE ComesAfter(n)'
  <2>1. n # Len(loads')
    BY <1>1, <1>3 DEF Outdated
  <2>2. n \in 0..Len(loads')
    BY <1>1
  <2> QED BY <2>1, <2>2, StartBrings
<1> QED BY <1>2, <1>3, Zenon DEF NewsInv

LEMMA AnswerKeepsNews ==
  ASSUME ListTyped, ListTyped', NewsInv, ~missed, NEW n \in 1..Len(loads), LoadAnswers(n)
  PROVE  NewsInv'
<1>0. /\ loads \in Seq(Load) /\ Len(loads) \in Nat /\ UNCHANGED version
      /\ Sign' <=> Sign
  BY DEF ListTyped, LoadAnswers, backend, socket, tab, Sign
<1>1. PICK taken \in BOOLEAN :
        /\ taken <=> ~loads[n].late
        /\ IsLeft(loads', loads, n, taken)
        /\ shown' = IF taken THEN loads[n].read ELSE shown
  <2>1. CASE Applicable(loads[n])
    <3>1. ~loads[n].late /\ IsLeft(loads', loads, n, TRUE) /\ shown' = loads[n].read
      BY <1>0, <2>1, LoadsLeft DEF LoadAnswers, Applicable
    <3> QED BY <3>1
  <2>2. CASE ~Applicable(loads[n])
    <3>1. loads[n].late /\ IsLeft(loads', loads, n, FALSE) /\ shown' = shown
      BY <1>0, <2>2, LoadsLeft DEF LoadAnswers, Applicable
    <3> QED BY <3>1
  <2> QED BY <2>1, <2>2
<1>2. /\ Len(loads') = Len(loads) - 1
      /\ \A k \in 1..(Len(loads) - 1) :
           /\ loads'[k].read = loads[From(k, n)].read
           /\ loads'[k].late <=> loads[From(k, n)].late \/ (taken /\ From(k, n) < n)
  BY <1>1 DEF IsLeft
<1>3. /\ \A k \in 1..(Len(loads) - 1) : From(k, n) \in 1..Len(loads) /\ From(k, n) # n
      /\ \A j, k \in 1..(Len(loads) - 1) : From(j, n) < From(k, n) => j < k
      /\ \A j \in 1..Len(loads) : j # n => \E k \in 1..(Len(loads) - 1) : From(k, n) = j
  BY <1>0, Places
(* A load behind another one that the answer leaves still brings the table.  *)
<1>4. ASSUME NEW m \in 1..Len(loads), Brings(loads[m], version), m # n, taken => m > n
      PROVE  \E k \in 1..Len(loads') : From(k, n) = m /\ Brings(loads'[k], version')
  <2>1. PICK k \in 1..Len(loads') : From(k, n) = m
    BY <1>2, <1>3, <1>4
  <2>2. ~loads'[k].late /\ loads'[k].read = loads[m].read
    BY <1>0, <1>2, <1>4, <2>1 DEF Brings
  <2> QED BY <1>0, <1>4, <2>1, <2>2 DEF Brings
<1>5. ASSUME shown' # version PROVE Sign \/ ComesAfter(0)'
  <2>1. PICK m \in 1..Len(loads) : Sign \/ (Brings(loads[m], version) /\ m # n /\ (taken => m > n))
    <3>1. CASE taken
      <4>1. Outdated(loads[n], version)
        BY <1>1, <1>5, <3>1 DEF LoadAnswers, Outdated
      <4> QED BY <3>1, <4>1 DEF NewsInv, ComesAfter
    <3>2. CASE ~taken
      <4>1. shown # version /\ ~Brings(loads[n], version)
        BY <1>1, <1>5, <3>2 DEF Brings
      <4> QED BY <3>2, <4>1 DEF NewsInv, ComesAfter
    <3> QED BY <3>1, <3>2
  <2>2. CASE Sign
    BY <2>2
  <2>3. CASE ~Sign
    <3>1. PICK k \in 1..Len(loads') : Brings(loads'[k], version')
      BY <1>4, <2>1, <2>3
    <3>2. k > 0
      OBVIOUS
    <3> QED BY <3>1, <3>2 DEF ComesAfter
  <2> QED BY <2>2, <2>3
<1>6. ASSUME NEW k \in 1..Len(loads'), Outdated(loads'[k], version') PROVE Sign \/ ComesAfter(k)'
  <2> DEFINE j == From(k, n)
  <2>1. j \in 1..Len(loads) /\ Outdated(loads[j], version) /\ ~(taken /\ j < n) /\ j # n
    BY <1>0, <1>2, <1>3, <1>6 DEF Outdated
  <2>2. CASE Sign
    BY <2>2
  <2>3. CASE ~Sign
    <3>1. PICK m \in 1..Len(loads) : m > j /\ Brings(loads[m], version)
      BY <2>1, <2>3 DEF NewsInv, ComesAfter
    <3>2. m # n
      <4>1. CASE taken
        BY <1>0, <2>1, <3>1, <4>1
      <4>2. CASE ~taken
        BY <1>1, <3>1, <4>2 DEF Brings
      <4> QED BY <4>1, <4>2
    <3>3. taken => m > n
      BY <1>0, <2>1, <3>1
    <3>4. PICK l \in 1..Len(loads') : From(l, n) = m /\ Brings(loads'[l], version')
      BY <1>4, <3>1, <3>2, <3>3
    <3>5. l > k
      <4>1. k \in 1..(Len(loads) - 1) /\ l \in 1..(Len(loads) - 1) /\ From(k, n) < From(l, n)
        BY <1>0, <1>2, <2>1, <3>1, <3>4
      <4> QED BY <1>3, <4>1
    <3> QED BY <3>4, <3>5 DEF ComesAfter
  <2> QED BY <2>2, <2>3
<1> QED BY <1>0, <1>5, <1>6, Zenon DEF NewsInv

LEMMA NewsStep ==
  ASSUME ListTyped, ListTyped', NewsInv, ListStep
  PROVE  NewsInv'
<1>0. loads \in Seq(Load) /\ Len(loads) \in Nat /\ wire \in Nat
  BY DEF ListTyped
<1>m. ASSUME missed' PROVE NewsInv'
  BY <1>m DEF NewsInv
<1>s. ASSUME Sign' PROVE NewsInv'
  BY <1>s DEF NewsInv
<1>k. ASSUME UNCHANGED <<version, shown, loads, missed>>, Sign => Sign' PROVE NewsInv'
  <2>1. \A n : ComesAfter(n) => ComesAfter(n)'
    BY <1>k DEF ComesAfter, Brings
  <2>2. \A n \in 1..Len(loads) : Outdated(loads'[n], version') => Outdated(loads[n], version)
    BY <1>k DEF Outdated
  <2> QED BY <1>k, <2>1, <2>2 DEF NewsInv
<1>1. CASE \E b \in Bells : TableChanges(b)
  BY <1>1, <1>s DEF TableChanges, Sign
<1>2. CASE \E b \in Bells : Announce(b)
  BY <1>2, <1>s DEF Announce, Sign
<1>3. CASE \E b \in Bells : BellRings(b)
  <2>1. CASE connected
    <3>1. wire' > 0
      BY <1>0, <1>3, <2>1 DEF BellRings
    <3> QED BY <1>s, <3>1 DEF Sign
  <2>2. CASE ~connected
    BY <1>3, <1>m, <2>2 DEF BellRings
  <2> QED BY <2>1, <2>2
<1>4. CASE BackendRestarts \/ Disconnect \/ \E n \in 1..Len(loads) : LoadFails(n)
  BY <1>4, <1>m DEF BackendRestarts, Disconnect, LoadFails
<1>5. CASE EventArrives
  BY <1>5, <1>s DEF EventArrives, Sign
<1>6. CASE TimerFires
  <2>1. CASE hidden
    BY <1>6, <1>s, <2>1 DEF TimerFires, Sign
  <2>2. CASE ~hidden
    BY <1>6, <2>2, StartIsNews DEF TimerFires
  <2> QED BY <2>1, <2>2
<1>7. CASE Connect
  <2>1. CASE UNCHANGED loads
    BY <1>7, <1>k, <2>1 DEF Connect, backend, tab, Sign
  <2>2. CASE StartLoad("poll")
    BY <2>2, StartIsNews
  <2> QED BY <1>7, <2>1, <2>2 DEF Connect, StartPoll
<1>8. CASE Hide
  BY <1>8, <1>k DEF Hide, backend, socket, screen, Sign
<1>9. CASE Show
  <2>1. CASE UNCHANGED loads
    <3>1. Sign => Sign'
      BY <1>9 DEF Show, backend, socket, Sign
    <3> QED BY <1>9, <1>k, <2>1, <3>1 DEF Show, backend
  <2>2. CASE StartLoad("poll")
    BY <2>2, StartIsNews
  <2> QED BY <1>9, <2>1, <2>2 DEF Show
<1>10. CASE Poll
  BY <1>10, StartIsNews DEF Poll, StartPoll
<1>11. CASE \E n \in 1..Len(loads) : LoadReads(n)
  <2> PICK n \in 1..Len(loads) : LoadReads(n)
    BY <1>11
  <2>1. /\ Len(loads') = Len(loads)
        /\ \A k \in 1..Len(loads) :
             /\ loads'[k].late <=> loads[k].late
             /\ loads'[k].read = IF k = n THEN version ELSE loads[k].read
    BY LoadIsRead DEF LoadReads, ListTyped
  <2>2. UNCHANGED <<version, shown, missed>> /\ (Sign => Sign')
    BY DEF LoadReads, backend, socket, tab, Sign
  <2>3. \A k \in 1..Len(loads) : Brings(loads[k], version) => Brings(loads'[k], version')
    BY <2>1, <2>2 DEF Brings
  <2>4. \A k \in 1..Len(loads) : Outdated(loads'[k], version') => Outdated(loads[k], version)
    BY <2>1, <2>2 DEF Outdated
  <2>5. \A k : ComesAfter(k) => ComesAfter(k)'
    BY <2>1, <2>3 DEF ComesAfter
  <2> QED BY <2>1, <2>2, <2>4, <2>5 DEF NewsInv
<1>12. CASE \E n \in 1..Len(loads) : LoadAnswers(n)
  <2> PICK n \in 1..Len(loads) : LoadAnswers(n)
    BY <1>12
  <2>1. CASE missed
    BY <1>m, <2>1 DEF LoadAnswers
  <2>2. CASE ~missed
    BY <2>2, AnswerKeepsNews
  <2> QED BY <2>1, <2>2
<1>13. CASE UNCHANGED listVars
  BY <1>13, <1>k DEF listVars, Sign
<1> QED BY <1>1, <1>2, <1>3, <1>4, <1>5, <1>6, <1>7, <1>8, <1>9, <1>10, <1>11, <1>12,
           <1>13, Zenon DEF ListStep

-------------------------------------------------------------------------------

ListInv == ListTypeOK /\ NewsInv

LEMMA ListStarts ==
  ASSUME ListInit
  PROVE  ListInv
<1>1. New("first") \in Load /\ New("first").kind = "first" /\ New("first").read = 0
      /\ New("first").late = FALSE
  BY ListBoundsAssumption DEF New, Load
<1>2. /\ loads \in Seq(Load) /\ Len(loads) = 1 /\ loads[1] = New("first")
  <2> HIDE DEF New, Load
  <2> QED BY <1>1 DEF ListInit
<1>3. PollsOf(loads) = {}
  BY <1>1, <1>2 DEF PollsOf
<1>4. 1 <= MaxLoads /\ MaxTableChanges \in Nat /\ MaxFaults \in Nat /\ MaxHides \in Nat
  BY ListBoundsAssumption
<1>5. /\ version \in 1..(MaxTableChanges + 1) /\ shown \in 0..(MaxTableChanges + 1)
      /\ wire \in Nat /\ faults \in 0..MaxFaults /\ hides \in 0..MaxHides
      /\ Len(loads) <= MaxLoads /\ owing \subseteq Bells /\ armed \subseteq Bells
  BY <1>2, <1>4 DEF ListInit
<1>6. ListTyped
  BY <1>2, <1>3, <1>5, Zenon DEF ListInit, ListTyped
<1>7. ComesAfter(0)
  BY <1>1, <1>2 DEF ComesAfter, Brings
<1>8. ~Outdated(loads[1], version)
  BY <1>1, <1>2 DEF Outdated
<1> QED BY <1>2, <1>6, <1>7, <1>8, ListTypeMeans DEF ListInv, NewsInv

LEMMA ListInvariant ==
  ASSUME ListInv, [ListNext]_listVars
  PROVE  ListInv'
<1>1. ListTyped /\ NewsInv /\ ListStep
  BY ListTypeMeans, ListNextIsAStep DEF ListInv
<1>2. ListTyped'
  BY <1>1, ListTypeStep
<1> QED BY <1>1, <1>2, NewsStep, ListTypeMeans DEF ListInv

(* Each state of the backend's timers, the socket and the panel has its type:*)
(* above all, at most one cycle of the poll is waiting for its answers.      *)
THEOREM ListTypeTheorem == ListSpec => []ListTypeOK
<1>1. ListInv => ListTypeOK
  BY DEF ListInv
<1> QED BY <1>1, ListStarts, ListInvariant, PTL DEF ListSpec

LEMMA SettledIsCurrent ==
  ASSUME ListInv
  PROVE  SettledListIsCurrent
<1> SUFFICES ASSUME ~missed, owing = {}, armed = {}, wire = 0, ~timer, ~pending, loads = <<>>
             PROVE  shown = version
  BY DEF SettledListIsCurrent
<1>1. ~Sign /\ ~ComesAfter(0)
  BY DEF Sign, ComesAfter
<1> QED BY <1>1 DEF ListInv, NewsInv

(* With nothing lost and nothing on its way the panel shows the table as it  *)
(* is, in whatever order the answers of its loads came.                      *)
THEOREM SettledListTheorem == ListSpec => []SettledListIsCurrent
BY ListStarts, ListInvariant, SettledIsCurrent, PTL DEF ListSpec
===============================================================================
