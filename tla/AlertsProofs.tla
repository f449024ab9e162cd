---------------------------- MODULE AlertsProofs -----------------------------
(****************************************************************************)
(* Proofs about OfflineAlerts and CutAlerts for any trackers, rounds,       *)
(* readings, operators, threshold, window and length of time, and about the *)
(* specification that is checked of them together.                          *)
(*                                                                          *)
(* Silence.  RoundInv says what a round that has looked up the alerts still *)
(* knows of the cars it is going to tell of, and TellInv what has become of *)
(* the other cars it found silent.                                          *)
(*                                                                          *)
(* Cuts.  None of the three properties is inductive: each needs what a reading *)
(* or an operator that has looked still knows when it writes.  FlagInv is   *)
(* about the readings that are going to raise the flag, LookInv about those *)
(* that are going to write an alert, HandInv about the operators.           *)
(****************************************************************************)
EXTENDS MCAlerts, FiniteSetTheorems, TLAPS

-------------------------------------------------------------------------------
(* OfflineAlerts.                                                            *)

(* What is known of a car a round is about to tell of.                       *)
DueInv ==
  \A r \in Rounds : round[r].pc = "creating" =>
    \A v \in round[r].todo :
      /\ SilentIn(round[r], v)
      /\ v \notin round[r].news =>
           /\ lastAlert[v] = 0 \/ lastAlert[v] + Window < round[r].at
           /\ byEpisode => toldOf[v] # round[r].seen[v]

RoundInv ==
  /\ DueInv
  /\ \A v \in Trackers : toldOf[v] # 0 => lastAlert[v] > toldOf[v]

(* An alert that was not late was about the silence that still goes on, or   *)
(* the car has spoken since; and so it is for a round that asked after it.   *)
KnownInv ==
  \A v \in Trackers \ late : lastAlert[v] # 0 =>
    /\ contact[v] = toldOf[v] \/ contact[v] >= lastAlert[v]
    /\ \A r \in Rounds : round[r].pc # "idle" /\ lastAlert[v] < round[r].at =>
         round[r].seen[v] = toldOf[v] \/ round[r].seen[v] >= lastAlert[v]

(* v was told of as far as a round of the time at, that saw its last contact *)
(* at said, has to care.                                                     *)
Told(said, at, v) ==
  \/ toldOf[v] = said
  \/ lastAlert[v] + Window >= at
  \/ v \in late \cup refused

DoneInv ==
  \A r \in Rounds : round[r].pc = "creating" =>
    \A v \in Trackers \ round[r].todo :
      SilentIn(round[r], v) => Told(round[r].seen[v], round[r].at, v)

TellInv == KnownInv /\ DoneInv

OfflineStep ==
  \/ Tick
  \/ RoundsDie
  \/ \E v \in Trackers : Speaks(v)
  \/ \E r \in Rounds : RoundAsks(r)
  \/ \E r \in Rounds : RoundLooks(r)
  \/ \E r \in Rounds, v \in Trackers : RoundCreates(r, v)
  \/ \E r \in Rounds, v \in Trackers : RoundIsRefused(r, v)
  \/ UNCHANGED offlineVars

LEMMA OfflineNextIsAStep ==
  ASSUME [OfflineNext]_offlineVars
  PROVE  OfflineStep
BY Zenon DEF OfflineNext, OfflineStep

-------------------------------------------------------------------------------
(* Typing.                                                                   *)

RoundRow(now) == [pc : {"idle", "asked", "creating"}, at : 0..now,
                  seen : [Trackers -> 0..now],
                  todo : SUBSET Trackers, news : SUBSET Trackers]

(* Without the bounds that depend on the clock.                              *)
LEMMA OfflineTyped ==
  OfflineTypeOK =>
    /\ clock \in Nat \ {0} /\ clock <= MaxTime
    /\ contact \in [Trackers -> Nat] /\ \A v \in Trackers : contact[v] <= clock
    /\ lastAlert \in [Trackers -> Nat] /\ \A v \in Trackers : lastAlert[v] <= clock
    /\ toldOf \in [Trackers -> Nat] /\ \A v \in Trackers : toldOf[v] <= clock
    /\ round \in [Rounds -> RoundRow(clock)]
BY OfflineBounds DEF OfflineTypeOK, Times, RoundRow

LEMMA RoundLater ==
  ASSUME NEW now \in Nat, NEW rd \in RoundRow(now)
  PROVE  rd \in RoundRow(now + 1)
BY DEF RoundRow

LEMMA IdleRounds ==
  ASSUME NEW now \in Nat
  PROVE  /\ IdleRound \in RoundRow(now) /\ IdleRound.pc = "idle" /\ IdleRound.todo = {}
BY DEF IdleRound, RoundRow

LEMMA GoingOn ==
  ASSUME NEW now \in Nat, NEW rd \in RoundRow(now), NEW cars \in SUBSET Trackers
  PROVE  /\ Going(rd, cars) \in RoundRow(now)
         /\ Going(rd, cars).pc = IF cars = {} THEN "idle" ELSE "creating"
         /\ Going(rd, cars).todo = cars
         /\ cars # {} => /\ Going(rd, cars).at = rd.at /\ Going(rd, cars).seen = rd.seen
                         /\ Going(rd, cars).news = rd.news
BY IdleRounds DEF Going, RoundRow

LEMMA OfflineTypeInit == OfflineInit => OfflineTypeOK
<1> SUFFICES ASSUME OfflineInit PROVE OfflineTypeOK
  OBVIOUS
<1>1. clock = 1 /\ clock \in Times \ {0} /\ failures \in 0..MaxFailures
  BY OfflineBounds DEF OfflineInit, Times
<1>2. round \in [Rounds -> RoundRow(clock)]
      /\ \A r \in Rounds : round[r].pc = "creating" <=> round[r].todo # {}
  BY <1>1, IdleRounds DEF OfflineInit
<1> QED BY <1>1, <1>2 DEF OfflineInit, OfflineTypeOK, RoundRow

(* How a step changes the rounds, by the round.                              *)
LEMMA RoundsStep ==
  ASSUME OfflineTypeOK, OfflineStep
  PROVE  /\ round' \in [Rounds -> RoundRow(clock')]
         /\ \A r \in Rounds : round'[r].pc = "creating" <=> round'[r].todo # {}
<1>1. round \in [Rounds -> RoundRow(clock)] /\ clock \in Nat
      /\ \A r \in Rounds : round[r].pc = "creating" <=> round[r].todo # {}
  BY OfflineTyped DEF OfflineTypeOK
<1> PICK now \in Nat : now = clock
  BY <1>1
<1>2. CASE Tick
  <2>1. round' = round /\ clock' = now + 1
    BY <1>2 DEF Tick
  <2>2. \A r \in Rounds : round[r] \in RoundRow(now + 1)
    BY <1>1, RoundLater
  <2> QED BY <1>1, <2>1, <2>2
<1>3. CASE RoundsDie
  BY <1>1, <1>3, IdleRounds DEF RoundsDie, world
<1>4. CASE \E r \in Rounds : RoundAsks(r)
  <2> PICK r \in Rounds : RoundAsks(r)
    BY <1>4
  <2> DEFINE x == [pc |-> "asked", at |-> clock, seen |-> contact, todo |-> {}, news |-> {}]
  <2>1. contact \in [Trackers -> 0..clock] /\ clock \in 0..clock
    BY <1>1 DEF OfflineTypeOK
  <2>2. x \in RoundRow(clock) /\ x.pc = "asked" /\ x.todo = {}
    BY <2>1 DEF RoundRow
  <2>3. round' = [round EXCEPT ![r] = x] /\ clock' = clock
    BY DEF RoundAsks, world
  <2> QED BY <1>1, <2>2, <2>3
<1>5. CASE \E r \in Rounds : RoundLooks(r)
  <2> PICK r \in Rounds : RoundLooks(r)
    BY <1>5
  <2> PICK rd \in RoundRow(now) : rd = round[r]
    BY <1>1
  <2> PICK cars \in SUBSET Trackers : cars = Todo(round[r])
    BY DEF Todo
  <2>1. round' = [round EXCEPT ![r] = Going(rd, cars)] /\ clock' = clock
    BY DEF RoundLooks, world
  <2>2. Going(rd, cars) \in RoundRow(now)
        /\ (Going(rd, cars).pc = "creating" <=> Going(rd, cars).todo # {})
    BY GoingOn
  <2> QED BY <1>1, <2>1, <2>2
<1>6. CASE \E r \in Rounds, v \in Trackers : RoundCreates(r, v)
  <2> PICK r \in Rounds, v \in Trackers : RoundCreates(r, v)
    BY <1>6
  <2> PICK rd \in RoundRow(now) : rd = round[r]
    BY <1>1
  <2> PICK cars \in SUBSET Trackers : cars = round[r].todo \ {v}
    BY <1>1 DEF RoundRow
  <2>1. clock' = clock /\ round' = [q \in Rounds |->
          IF q = r THEN Going(rd, cars)
          ELSE IF round[q].pc = "creating"
               THEN [round[q] EXCEPT !.news = @ \cup {v}] ELSE round[q]]
    BY DEF RoundCreates, world
  <2>2. Going(rd, cars) \in RoundRow(now)
        /\ (Going(rd, cars).pc = "creating" <=> Going(rd, cars).todo # {})
    BY GoingOn
  <2>3. \A q \in Rounds : /\ [round[q] EXCEPT !.news = @ \cup {v}] \in RoundRow(now)
                          /\ [round[q] EXCEPT !.news = @ \cup {v}].pc = round[q].pc
                          /\ [round[q] EXCEPT !.news = @ \cup {v}].todo = round[q].todo
    BY <1>1 DEF RoundRow
  <2> QED BY <1>1, <2>1, <2>2, <2>3
<1>7. CASE \E r \in Rounds, v \in Trackers : RoundIsRefused(r, v)
  <2> PICK r \in Rounds, v \in Trackers : RoundIsRefused(r, v)
    BY <1>7
  <2> PICK rd \in RoundRow(now) : rd = round[r]
    BY <1>1
  <2> PICK cars \in SUBSET Trackers : cars = round[r].todo \ {v}
    BY <1>1 DEF RoundRow
  <2>1. round' = [round EXCEPT ![r] = Going(rd, cars)] /\ clock' = clock
    BY DEF RoundIsRefused, world
  <2>2. Going(rd, cars) \in RoundRow(now)
        /\ (Going(rd, cars).pc = "creating" <=> Going(rd, cars).todo # {})
    BY GoingOn
  <2> QED BY <1>1, <2>1, <2>2
<1>8. CASE UNCHANGED <<round, clock>>
  BY <1>1, <1>8
<1> QED BY <1>2, <1>3, <1>4, <1>5, <1>6, <1>7, <1>8
        DEF OfflineStep, Speaks, offlineVars

LEMMA OfflineTypeStep ==
  ASSUME OfflineTypeOK, OfflineStep
  PROVE  OfflineTypeOK'
<1>1. /\ clock \in Nat \ {0} /\ clock <= MaxTime /\ MaxTime \in Nat /\ MaxFailures \in Nat
      /\ contact \in [Trackers -> Nat] /\ \A v \in Trackers : contact[v] <= clock
      /\ lastAlert \in [Trackers -> Nat] /\ \A v \in Trackers : lastAlert[v] <= clock
      /\ toldOf \in [Trackers -> Nat] /\ \A v \in Trackers : toldOf[v] <= clock
  BY OfflineTyped, OfflineBounds
<1>2. clock' \in Times \ {0} /\ clock' >= clock
  <2>1. clock' = clock \/ (clock < MaxTime /\ clock' = clock + 1)
    BY DEF OfflineStep, Tick, RoundsDie, Speaks, RoundAsks, RoundLooks, RoundCreates,
           RoundIsRefused, world, offlineVars
  <2> QED BY <1>1, <2>1 DEF Times
<1>3. failures' \in 0..MaxFailures
  <2>1. failures' = failures \/ (failures < MaxFailures /\ failures' = failures + 1)
    BY DEF OfflineStep, Tick, RoundsDie, Speaks, RoundAsks, RoundLooks, RoundCreates,
           RoundIsRefused, offlineVars
  <2> QED BY <1>1, <2>1 DEF OfflineTypeOK
<1>4. contact' \in [Trackers -> Nat] /\ \A v \in Trackers : contact'[v] <= clock'
  <2>1. contact' = contact \/ \E v \in Trackers : contact' = [contact EXCEPT ![v] = clock]
    BY DEF OfflineStep, Tick, RoundsDie, Speaks, RoundAsks, RoundLooks, RoundCreates,
           RoundIsRefused, world, offlineVars
  <2>2. clock' \in Nat
    BY <1>2 DEF Times
  <2>3. contact' \in [Trackers -> Nat] /\ \A v \in Trackers : contact'[v] <= clock
    BY <1>1, <2>1
  <2> QED BY <1>1, <1>2, <2>2, <2>3
<1>5. CASE \E r \in Rounds, v \in Trackers : RoundCreates(r, v)
  <2> PICK r \in Rounds, v \in Trackers : RoundCreates(r, v)
    BY <1>5
  <2>1. round[r].seen[v] \in 0..clock
    BY OfflineTyped DEF RoundRow
  <2>2. lastAlert' \in [Trackers -> Nat] /\ \A w \in Trackers : lastAlert'[w] <= clock'
    BY <1>1 DEF RoundCreates, world
  <2>3. toldOf' \in [Trackers -> Nat] /\ \A w \in Trackers : toldOf'[w] <= clock'
    BY <1>1, <2>1 DEF RoundCreates, world
  <2>4. late' \subseteq Trackers /\ refused' \subseteq Trackers /\ byEpisode' \in BOOLEAN
    BY DEF OfflineTypeOK, RoundCreates, world
  <2> QED BY <1>2, <1>3, <1>4, <2>2, <2>3, <2>4, RoundsStep DEF OfflineTypeOK, RoundRow, Times
<1>6. CASE ~ \E r \in Rounds, v \in Trackers : RoundCreates(r, v)
  <2>1. UNCHANGED <<lastAlert, toldOf, late, byEpisode>> /\ refused' \subseteq Trackers
    BY <1>6 DEF OfflineTypeOK, OfflineStep, Tick, RoundsDie, Speaks, RoundAsks, RoundLooks,
                RoundIsRefused, world, told, offlineVars
  <2>2. \A v \in Trackers : lastAlert'[v] <= clock' /\ toldOf'[v] <= clock'
    BY <1>1, <1>2, <2>1 DEF Times
  <2> QED BY <1>1, <1>2, <1>3, <1>4, <2>1, <2>2, RoundsStep DEF OfflineTypeOK, RoundRow, Times
<1> QED BY <1>5, <1>6

(* Every reachable state is well typed: nothing is dated after the clock,    *)
(* and a round goes on exactly while it has cars to tell of.                 *)
THEOREM OfflineTypeTheorem == OfflineSpec => []OfflineTypeOK
<1>1. OfflineTypeOK /\ [OfflineNext]_offlineVars => OfflineTypeOK'
  BY OfflineNextIsAStep, OfflineTypeStep
<1> QED BY <1>1, OfflineTypeInit, PTL DEF OfflineSpec

-------------------------------------------------------------------------------
(* What a step does to the rounds, for the proofs below.                     *)

(* A round that goes on has the same time and the same answer of Traccar.    *)
Same(x, y) == x.pc = y.pc /\ x.at = y.at /\ x.seen = y.seen

LEMMA CreatesRounds ==
  ASSUME OfflineTypeOK, NEW r \in Rounds, NEW v \in Trackers, RoundCreates(r, v)
  PROVE  /\ round'[r].todo = round[r].todo \ {v}
         /\ round'[r].pc = "idle" \/ (Same(round'[r], round[r]) /\ round'[r].news = round[r].news)
         /\ \A q \in Rounds \ {r} :
              /\ Same(round'[q], round[q]) /\ round'[q].todo = round[q].todo
              /\ round[q].pc = "creating" => round'[q].news = round[q].news \cup {v}
         /\ round[r].pc = "creating"
         /\ round'[r].todo = {} => round'[r].pc = "idle"
<1>1. clock \in Nat /\ round \in [Rounds -> RoundRow(clock)]
  BY OfflineTyped
<1> PICK now \in Nat : now = clock
  BY <1>1
<1> PICK rd \in RoundRow(now) : rd = round[r]
  BY <1>1
<1> PICK cars \in SUBSET Trackers : cars = round[r].todo \ {v}
  BY <1>1 DEF RoundRow
<1>2. round' = [q \in Rounds |->
        IF q = r THEN Going(rd, cars)
        ELSE IF round[q].pc = "creating"
             THEN [round[q] EXCEPT !.news = @ \cup {v}] ELSE round[q]]
  BY DEF RoundCreates
<1>3. \A q \in Rounds : /\ Same([round[q] EXCEPT !.news = @ \cup {v}], round[q])
                        /\ [round[q] EXCEPT !.news = @ \cup {v}].todo = round[q].todo
                        /\ [round[q] EXCEPT !.news = @ \cup {v}].news = round[q].news \cup {v}
  BY <1>1 DEF RoundRow, Same
<1>4. round[r].pc = "creating" /\ v \in round[r].todo
  BY DEF OfflineTypeOK, RoundCreates
<1>5. /\ round'[r].todo = cars
      /\ round'[r].pc = "idle" \/ (Same(round'[r], rd) /\ round'[r].news = rd.news)
      /\ cars = {} => round'[r].pc = "idle"
  BY <1>2, <1>4, GoingOn DEF Same
<1>6. \A q \in Rounds \ {r} :
        /\ Same(round'[q], round[q]) /\ round'[q].todo = round[q].todo
        /\ round[q].pc = "creating" => round'[q].news = round[q].news \cup {v}
  BY <1>2, <1>3 DEF Same
<1> QED BY <1>4, <1>5, <1>6

LEMMA RefusedRounds ==
  ASSUME OfflineTypeOK, NEW r \in Rounds, NEW v \in Trackers, RoundIsRefused(r, v)
  PROVE  /\ round'[r].todo = round[r].todo \ {v}
         /\ round'[r].pc = "idle" \/ (Same(round'[r], round[r]) /\ round'[r].news = round[r].news)
         /\ \A q \in Rounds \ {r} : round'[q] = round[q]
         /\ round[r].pc = "creating"
<1>1. clock \in Nat /\ round \in [Rounds -> RoundRow(clock)]
  BY OfflineTyped
<1> PICK now \in Nat : now = clock
  BY <1>1
<1> PICK rd \in RoundRow(now) : rd = round[r]
  BY <1>1
<1> PICK cars \in SUBSET Trackers : cars = round[r].todo \ {v}
  BY <1>1 DEF RoundRow
<1>2. round' = [round EXCEPT ![r] = Going(rd, cars)]
  BY DEF RoundIsRefused
<1>3. round[r].pc = "creating"
  BY DEF OfflineTypeOK, RoundIsRefused
<1>4. /\ round'[r].todo = cars
      /\ round'[r].pc = "idle" \/ (Same(round'[r], rd) /\ round'[r].news = rd.news)
  BY <1>1, <1>2, <1>3, GoingOn DEF Same
<1> QED BY <1>1, <1>2, <1>3, <1>4

LEMMA LooksRounds ==
  ASSUME OfflineTypeOK, NEW r \in Rounds, RoundLooks(r)
  PROVE  /\ round'[r].todo = Todo(round[r])
         /\ \/ round'[r].pc = "idle"
            \/ round'[r].pc = "creating" /\ round'[r].at = round[r].at /\ round'[r].seen = round[r].seen
         /\ \A q \in Rounds \ {r} : round'[q] = round[q]
<1>1. clock \in Nat /\ round \in [Rounds -> RoundRow(clock)]
  BY OfflineTyped
<1> PICK now \in Nat : now = clock
  BY <1>1
<1> PICK rd \in RoundRow(now) : rd = round[r]
  BY <1>1
<1> PICK cars \in SUBSET Trackers : cars = Todo(round[r])
  BY DEF Todo
<1>2. round' = [round EXCEPT ![r] = Going(rd, cars)]
  BY DEF RoundLooks
<1>3. /\ round'[r].todo = cars
      /\ \/ round'[r].pc = "idle"
         \/ round'[r].pc = "creating" /\ round'[r].at = rd.at /\ round'[r].seen = rd.seen
  BY <1>1, <1>2, GoingOn
<1> QED BY <1>1, <1>2, <1>3

LEMMA RoundTimes ==
  ASSUME OfflineTypeOK, NEW r \in Rounds
  PROVE  /\ round[r].at \in Nat /\ round[r].at <= clock
         /\ \A v \in Trackers : round[r].seen[v] \in Nat /\ round[r].seen[v] <= clock
         /\ round[r].todo \subseteq Trackers
         /\ round[r].pc \in {"idle", "asked", "creating"}
<1>1. clock \in Nat /\ round[r] \in RoundRow(clock)
  BY OfflineTyped
<1> QED BY <1>1 DEF RoundRow

-------------------------------------------------------------------------------
(* Alerts are apart.                                                         *)

LEMMA DueStep ==
  ASSUME OfflineTypeOK, RoundInv, OfflineStep
  PROVE  RoundInv'
<1>1. /\ clock \in Nat \ {0} /\ Window \in Nat /\ Threshold \in Nat \ {0}
      /\ round \in [Rounds -> RoundRow(clock)]
      /\ lastAlert \in [Trackers -> Nat] /\ toldOf \in [Trackers -> Nat]
  BY OfflineTyped, TimesAssumption
<1>2. CASE \E r \in Rounds : RoundLooks(r)
  <2> PICK r \in Rounds : RoundLooks(r)
    BY <1>2
  <2>1. UNCHANGED <<byEpisode, lastAlert, toldOf>>
    BY DEF RoundLooks, world, told
  <2>2. ASSUME NEW v \in Todo(round[r])
        PROVE  /\ SilentIn(round[r], v) /\ round[r].seen[v] # 0 /\ v \in Trackers
               /\ lastAlert[v] = 0 \/ lastAlert[v] + Window < round[r].at
               /\ byEpisode => lastAlert[v] <= round[r].seen[v]
    <3>1. v \in Trackers
      BY <2>2 DEF Todo
    <3>2. round[r].at \in Nat /\ round[r].seen[v] \in Nat /\ lastAlert[v] \in Nat
      BY <1>1, <3>1, RoundTimes
    <3> QED BY <1>1, <2>2, <3>1, <3>2
            DEF Todo, SilentIn, Suppressed, ToldInWindow, ToldInEpisode
  <2>3. \A v \in Todo(round[r]) : byEpisode => toldOf[v] # round[r].seen[v]
    <3> SUFFICES ASSUME NEW v \in Todo(round[r]), byEpisode PROVE toldOf[v] # round[r].seen[v]
      OBVIOUS
    <3>1. round[r].seen[v] \in Nat /\ lastAlert[v] \in Nat /\ toldOf[v] \in Nat
      BY <1>1, <2>2, RoundTimes
    <3> QED BY <2>2, <3>1 DEF RoundInv
  <2>4. ASSUME round'[r].pc = "creating", NEW v \in round'[r].todo
        PROVE  /\ SilentIn(round'[r], v)
               /\ lastAlert[v] = 0 \/ lastAlert[v] + Window < round'[r].at
               /\ byEpisode => toldOf[v] # round'[r].seen[v]
    BY <2>2, <2>3, <2>4, LooksRounds DEF SilentIn
  <2> QED BY <2>1, <2>4, LooksRounds DEF RoundInv, DueInv, SilentIn
<1>3. CASE \E r \in Rounds, v \in Trackers : RoundCreates(r, v)
  <2> PICK r \in Rounds, v \in Trackers : RoundCreates(r, v)
    BY <1>3
  <2>1. /\ byEpisode' = byEpisode /\ lastAlert' = [lastAlert EXCEPT ![v] = clock]
        /\ toldOf' = [toldOf EXCEPT ![v] = round[r].seen[v]]
    BY DEF RoundCreates, world
  <2>2. clock > round[r].seen[v]
    <3>1. SilentIn(round[r], v)
      BY CreatesRounds DEF RoundInv, DueInv, RoundCreates
    <3> QED BY <1>1, <3>1, RoundTimes DEF SilentIn
  <2>3. \A w \in Trackers : toldOf'[w] # 0 => lastAlert'[w] > toldOf'[w]
    BY <1>1, <2>1, <2>2 DEF RoundInv
  <2>4. ASSUME NEW q \in Rounds, round'[q].pc = "creating", NEW w \in round'[q].todo
        PROVE  /\ SilentIn(round'[q], w)
               /\ w \notin round'[q].news =>
                    /\ lastAlert'[w] = 0 \/ lastAlert'[w] + Window < round'[q].at
                    /\ byEpisode => toldOf'[w] # round'[q].seen[w]
    <3>1. /\ round[q].pc = "creating" /\ w \in round[q].todo /\ w \in Trackers
          /\ Same(round'[q], round[q])
          /\ w # v => (w \notin round'[q].news => w \notin round[q].news)
          /\ w = v => w \in round'[q].news
      BY <2>4, CreatesRounds, RoundTimes DEF Same
    <3> QED BY <1>1, <2>1, <3>1 DEF RoundInv, DueInv, SilentIn, Same
  <2> QED BY <2>1, <2>3, <2>4 DEF RoundInv, DueInv
<1>4. CASE \E r \in Rounds, v \in Trackers : RoundIsRefused(r, v)
  <2> PICK r \in Rounds, v \in Trackers : RoundIsRefused(r, v)
    BY <1>4
  <2>1. UNCHANGED <<byEpisode, lastAlert, toldOf>>
    BY DEF RoundIsRefused, world
  <2>2. \A q \in Rounds : round'[q].pc = "creating" =>
          /\ round[q].pc = "creating" /\ round'[q].todo \subseteq round[q].todo
          /\ Same(round'[q], round[q]) /\ round'[q].news = round[q].news
    BY RefusedRounds DEF Same
  <2> QED BY <2>1, <2>2 DEF RoundInv, DueInv, SilentIn, Same
<1>5. CASE \E r \in Rounds : RoundAsks(r)
  <2>1. UNCHANGED <<byEpisode, lastAlert, toldOf>>
        /\ \A q \in Rounds : round'[q].pc = "creating" => round'[q] = round[q]
    BY <1>1, <1>5 DEF RoundAsks, world, told
  <2> QED BY <2>1 DEF RoundInv, DueInv, SilentIn
<1>6. CASE RoundsDie
  BY <1>1, <1>6, IdleRounds DEF RoundsDie, RoundInv, DueInv, told
<1>7. CASE UNCHANGED <<byEpisode, lastAlert, toldOf, round>>
  BY <1>7 DEF RoundInv, DueInv, SilentIn
<1> QED BY <1>2, <1>3, <1>4, <1>5, <1>6, <1>7
        DEF OfflineStep, Tick, Speaks, world, told, offlineVars

LEMMA RoundInvAlways == OfflineSpec => []RoundInv
<1>1. OfflineInit => RoundInv
  BY IdleRounds DEF OfflineInit, RoundInv, DueInv, IdleRound
<1>2. OfflineTypeOK /\ RoundInv /\ [OfflineNext]_offlineVars => RoundInv'
  BY OfflineNextIsAStep, DueStep
<1> QED BY <1>1, <1>2, OfflineTypeTheorem, PTL DEF OfflineSpec

(* A car that stays silent does not fill the screen of the operator: its     *)
(* alerts are more than a window apart, and by episode one silence gives one *)
(* alert, unless the second round had looked before the first was written    *)
(* (detectOffline, detectGpsSilent; alerts.cron.ts:278-338).                 *)
THEOREM ApartTheorem == OfflineSpec => AlertsStayApart
<1>1. OfflineTypeOK /\ RoundInv =>
        [\A r \in Rounds, v \in Trackers : RoundCreates(r, v) /\ v \notin round[r].news =>
           /\ lastAlert[v] = 0 \/ clock > lastAlert[v] + Window
           /\ byEpisode => toldOf[v] # round[r].seen[v]]_offlineVars
  <2> SUFFICES ASSUME OfflineTypeOK, RoundInv, NEW r \in Rounds, NEW v \in Trackers,
                      RoundCreates(r, v), v \notin round[r].news
               PROVE  /\ lastAlert[v] = 0 \/ clock > lastAlert[v] + Window
                      /\ byEpisode => toldOf[v] # round[r].seen[v]
    OBVIOUS
  <2>0. round[r].pc = "creating" /\ v \in round[r].todo
    <3>1. round[r].pc = "creating"
      BY CreatesRounds
    <3>2. v \in round[r].todo
      BY DEF RoundCreates
    <3> QED BY <3>1, <3>2
  <2>1. lastAlert[v] = 0 \/ lastAlert[v] + Window < round[r].at
    BY <2>0 DEF RoundInv, DueInv
  <2>2. lastAlert[v] = 0 \/ clock > lastAlert[v] + Window
    BY <2>1, RoundTimes, OfflineTyped, TimesAssumption
  <2>3. byEpisode => toldOf[v] # round[r].seen[v]
    BY <2>0 DEF RoundInv, DueInv
  <2> QED BY <2>2, <2>3
<1> QED BY <1>1, RoundInvAlways, OfflineTypeTheorem, PTL DEF AlertsStayApart

-------------------------------------------------------------------------------
(* No silence is lost.                                                       *)

(* What an alert changes for the cars: v is told of now, the others keep     *)
(* what they had.                                                            *)
LEMMA CreatesTold ==
  ASSUME OfflineTypeOK, NEW r \in Rounds, NEW v \in Trackers, RoundCreates(r, v)
  PROVE  /\ clock' = clock /\ contact' = contact
         /\ lastAlert'[v] = clock /\ toldOf'[v] = round[r].seen[v]
         /\ v \in late' \/ contact[v] = round[r].seen[v]
         /\ \A w \in Trackers \ {v} :
              /\ lastAlert'[w] = lastAlert[w] /\ toldOf'[w] = toldOf[w]
              /\ (w \in late' <=> w \in late) /\ (w \in refused' <=> w \in refused)
BY DEF RoundCreates, OfflineTypeOK, world

LEMMA KnownStep ==
  ASSUME OfflineTypeOK, KnownInv, OfflineStep
  PROVE  KnownInv'
<1>1. /\ clock \in Nat \ {0} /\ round \in [Rounds -> RoundRow(clock)]
      /\ lastAlert \in [Trackers -> Nat] /\ toldOf \in [Trackers -> Nat]
      /\ contact \in [Trackers -> Nat] /\ \A v \in Trackers : lastAlert[v] <= clock
  BY OfflineTyped
<1>2. CASE \E v \in Trackers : Speaks(v)
  <2> PICK v \in Trackers : Speaks(v)
    BY <1>2
  <2>1. UNCHANGED <<clock, round, lastAlert, toldOf, late>>
        /\ contact' = [contact EXCEPT ![v] = clock]
    BY DEF Speaks, told
  <2> QED BY <1>1, <2>1 DEF KnownInv
<1>3. CASE \E r \in Rounds : RoundAsks(r)
  <2> PICK r \in Rounds : RoundAsks(r)
    BY <1>3
  <2>1. UNCHANGED <<clock, contact, lastAlert, toldOf, late>>
    BY DEF RoundAsks, world, told
  <2>2. round'[r].seen = contact /\ \A q \in Rounds \ {r} : round'[q] = round[q]
    BY <1>1 DEF RoundAsks
  <2> QED BY <2>1, <2>2 DEF KnownInv
<1>4. CASE \E r \in Rounds : RoundLooks(r)
  <2> PICK r \in Rounds : RoundLooks(r)
    BY <1>4
  <2>1. UNCHANGED <<clock, contact, lastAlert, toldOf, late>> /\ round[r].pc # "idle"
    BY DEF RoundLooks, world, told
  <2> QED BY <2>1, LooksRounds DEF KnownInv
<1>5. CASE \E r \in Rounds, v \in Trackers : RoundCreates(r, v)
  <2> PICK r \in Rounds, v \in Trackers : RoundCreates(r, v)
    BY <1>5
  <2>1. ASSUME NEW q \in Rounds, round'[q].pc # "idle"
        PROVE  Same(round'[q], round[q])
    BY <2>1, CreatesRounds
  <2>2. \A q \in Rounds : round'[q].pc # "idle" => round'[q].at <= clock
    BY <2>1, RoundTimes DEF Same
  <2>3. \A w \in Trackers \ {v} : w \notin late' /\ lastAlert'[w] # 0 =>
          /\ contact'[w] = toldOf'[w] \/ contact'[w] >= lastAlert'[w]
          /\ \A q \in Rounds : round'[q].pc # "idle" /\ lastAlert'[w] < round'[q].at =>
               round'[q].seen[w] = toldOf'[w] \/ round'[q].seen[w] >= lastAlert'[w]
    BY <2>1, CreatesTold DEF KnownInv, Same
  <2>4. v \notin late' => contact'[v] = toldOf'[v]
    BY CreatesTold
  <2>5. \A q \in Rounds : ~(round'[q].pc # "idle" /\ lastAlert'[v] < round'[q].at)
    <3> SUFFICES ASSUME NEW q \in Rounds, round'[q].pc # "idle"
                 PROVE  ~(lastAlert'[v] < round'[q].at)
      OBVIOUS
    <3>1. lastAlert'[v] = clock /\ round'[q].at <= clock /\ round'[q].at \in Nat
      BY <2>1, <2>2, CreatesTold, RoundTimes DEF Same
    <3> QED BY <1>1, <3>1
  <2> QED BY <2>3, <2>4, <2>5 DEF KnownInv
<1>6. CASE \E r \in Rounds, v \in Trackers : RoundIsRefused(r, v)
  <2> PICK r \in Rounds, v \in Trackers : RoundIsRefused(r, v)
    BY <1>6
  <2>1. UNCHANGED <<clock, contact, lastAlert, toldOf, late>>
    BY DEF RoundIsRefused, world
  <2> QED BY <2>1, RefusedRounds DEF KnownInv, Same
<1>7. CASE RoundsDie
  <2>1. UNCHANGED <<contact, lastAlert, toldOf, late>>
        /\ \A r \in Rounds : round'[r].pc = "idle"
    BY <1>1, <1>7, IdleRounds DEF RoundsDie, world, told
  <2> QED BY <2>1 DEF KnownInv
<1>8. CASE UNCHANGED <<contact, lastAlert, toldOf, late, round>>
  BY <1>8 DEF KnownInv
<1> QED BY <1>2, <1>3, <1>4, <1>5, <1>6, <1>7, <1>8
        DEF OfflineStep, Tick, world, told, offlineVars

(* A car that a round finds silent and leaves out was told of already.       *)
LEMMA LooksTold ==
  ASSUME OfflineTypeOK, KnownInv, NEW r \in Rounds, RoundLooks(r),
         NEW v \in Trackers \ Todo(round[r]), SilentIn(round[r], v)
  PROVE  \/ toldOf'[v] = round[r].seen[v]
         \/ lastAlert'[v] + Window >= round[r].at
         \/ v \in late' \cup refused'
<1>1. UNCHANGED <<lastAlert, toldOf, late, refused>> /\ round[r].pc # "idle"
  BY DEF RoundLooks, told
<1>2. Suppressed(round[r], v)
  BY DEF Todo
<1>3. /\ lastAlert[v] \in Nat /\ round[r].at \in Nat /\ round[r].seen[v] \in Nat
      /\ Window \in Nat
  BY OfflineTyped, RoundTimes, TimesAssumption
<1>4. CASE ToldInWindow(round[r], v)
  BY <1>1, <1>4 DEF ToldInWindow
<1>5. CASE ToldInEpisode(round[r], v)
  <2>1. lastAlert[v] > round[r].seen[v] /\ lastAlert[v] # 0
    BY <1>3, <1>5 DEF ToldInEpisode
  <2>2. CASE lastAlert[v] >= round[r].at
    BY <1>1, <1>3, <2>2
  <2>3. CASE lastAlert[v] < round[r].at /\ v \notin late
    <3>1. round[r].seen[v] = toldOf[v] \/ round[r].seen[v] >= lastAlert[v]
      BY <1>1, <2>1, <2>3 DEF KnownInv
    <3> QED BY <1>1, <1>3, <2>1, <3>1
  <2> QED BY <1>1, <1>3, <2>2, <2>3
<1> QED BY <1>2, <1>4, <1>5 DEF Suppressed

(* A car that is told of, or that the database refuses, is done with.        *)
LEMMA WritesTold ==
  ASSUME OfflineTypeOK, NEW r \in Rounds, NEW u \in Trackers,
         RoundCreates(r, u) \/ RoundIsRefused(r, u),
         NEW q \in Rounds, NEW v \in Trackers,
         v = u \/ Told(round[q].seen[v], round[q].at, v)
  PROVE  \/ toldOf'[v] = round[q].seen[v]
         \/ lastAlert'[v] + Window >= round[q].at
         \/ v \in late' \cup refused'
<1>1. /\ clock \in Nat /\ round[q].at \in Nat /\ round[q].at <= clock /\ Window \in Nat
      /\ lastAlert[v] \in Nat
  BY OfflineTyped, RoundTimes, TimesAssumption
<1>2. CASE RoundCreates(r, u)
  <2>1. CASE v = u
    <3>1. lastAlert'[v] = clock
      BY <1>2, <2>1, CreatesTold
    <3> QED BY <1>1, <3>1
  <2>2. CASE v # u
    <3>1. /\ lastAlert'[v] = lastAlert[v] /\ toldOf'[v] = toldOf[v]
          /\ (v \in late' <=> v \in late) /\ (v \in refused' <=> v \in refused)
      BY <1>2, <2>2, CreatesTold
    <3> QED BY <2>2, <3>1 DEF Told
  <2> QED BY <2>1, <2>2
<1>3. CASE RoundIsRefused(r, u)
  BY <1>3 DEF RoundIsRefused, Told
<1> QED BY <1>2, <1>3

LEMMA DoneStep ==
  ASSUME OfflineTypeOK, KnownInv, DoneInv, OfflineStep
  PROVE  DoneInv'
<1>1. round \in [Rounds -> RoundRow(clock)]
  BY OfflineTyped
<1>2. CASE \E r \in Rounds : RoundLooks(r)
  <2> PICK r \in Rounds : RoundLooks(r)
    BY <1>2
  <2>1. UNCHANGED <<lastAlert, toldOf, late, refused>>
    BY DEF RoundLooks, told
  <2>2. ASSUME round'[r].pc = "creating", NEW v \in Trackers \ round'[r].todo,
               SilentIn(round'[r], v)
        PROVE  \/ toldOf'[v] = round'[r].seen[v]
               \/ lastAlert'[v] + Window >= round'[r].at
               \/ v \in late' \cup refused'
    <3>1. /\ v \in Trackers \ Todo(round[r]) /\ SilentIn(round[r], v)
          /\ round'[r].at = round[r].at /\ round'[r].seen = round[r].seen
      BY <2>2, LooksRounds DEF SilentIn
    <3> QED BY <3>1, LooksTold
  <2>3. \A q \in Rounds \ {r} : round'[q] = round[q]
    BY LooksRounds
  <2> QED BY <2>1, <2>2, <2>3 DEF DoneInv, Told, SilentIn
<1>3. CASE \E r \in Rounds, v \in Trackers : RoundCreates(r, v) \/ RoundIsRefused(r, v)
  <2> PICK r \in Rounds, u \in Trackers : RoundCreates(r, u) \/ RoundIsRefused(r, u)
    BY <1>3
  <2>1. ASSUME NEW q \in Rounds, round'[q].pc = "creating"
        PROVE  /\ Same(round'[q], round[q])
               /\ round[q].todo \ {u} \subseteq round'[q].todo
    BY <2>1, CreatesRounds, RefusedRounds DEF Same
  <2> SUFFICES ASSUME NEW q \in Rounds, round'[q].pc = "creating",
                      NEW v \in Trackers \ round'[q].todo, SilentIn(round'[q], v)
               PROVE  \/ toldOf'[v] = round'[q].seen[v]
                      \/ lastAlert'[v] + Window >= round'[q].at
                      \/ v \in late' \cup refused'
    BY DEF DoneInv, Told
  <2>2. /\ Same(round'[q], round[q]) /\ SilentIn(round[q], v) /\ round[q].pc = "creating"
        /\ v = u \/ v \notin round[q].todo
    BY <2>1 DEF Same, SilentIn
  <2>3. v = u \/ Told(round[q].seen[v], round[q].at, v)
    BY <2>2 DEF DoneInv
  <2> QED BY <2>2, <2>3, WritesTold DEF Same
<1>4. CASE \E r \in Rounds : RoundAsks(r)
  <2>1. UNCHANGED <<lastAlert, toldOf, late, refused>>
        /\ \A q \in Rounds : round'[q].pc = "creating" => round'[q] = round[q]
    BY <1>1, <1>4 DEF RoundAsks, told
  <2> QED BY <2>1 DEF DoneInv, Told, SilentIn
<1>5. CASE RoundsDie
  <2>1. \A r \in Rounds : round'[r].pc = "idle"
    BY <1>1, <1>5, IdleRounds DEF RoundsDie
  <2> QED BY <2>1 DEF DoneInv
<1>6. CASE UNCHANGED <<lastAlert, toldOf, late, refused, round>>
  BY <1>6 DEF DoneInv, Told, SilentIn
<1> QED BY <1>2, <1>3, <1>4, <1>5, <1>6
        DEF OfflineStep, Tick, Speaks, world, told, offlineVars

LEMMA TellInvAlways == OfflineSpec => []TellInv
<1>1. OfflineInit => TellInv
  BY IdleRounds DEF OfflineInit, TellInv, KnownInv, DoneInv, IdleRound
<1>2. OfflineTypeOK /\ TellInv /\ [OfflineNext]_offlineVars => TellInv'
  BY OfflineNextIsAStep, KnownStep, DoneStep DEF TellInv
<1> QED BY <1>1, <1>2, OfflineTypeTheorem, PTL DEF OfflineSpec

(* What keeps alerts apart loses none: when a round is over, every car it    *)
(* found silent was told of, but for a refusal of the database or an alert   *)
(* that came after the car was back (detectOffline, detectGpsSilent).        *)
THEOREM ToldTheorem == OfflineSpec => SilentIsTold
<1>1. OfflineTypeOK /\ OfflineTypeOK' /\ TellInv =>
        [\A r \in Rounds, v \in Trackers : EndsRound(r) /\ SilentIn(round[r], v) =>
           \/ toldOf'[v] = round[r].seen[v]
           \/ lastAlert'[v] + Window >= round[r].at
           \/ v \in late' \cup refused']_offlineVars
  <2> SUFFICES ASSUME OfflineTypeOK, OfflineTypeOK', TellInv,
                      NEW r \in Rounds, NEW v \in Trackers,
                      EndsRound(r), SilentIn(round[r], v)
               PROVE  \/ toldOf'[v] = round[r].seen[v]
                      \/ lastAlert'[v] + Window >= round[r].at
                      \/ v \in late' \cup refused'
    OBVIOUS
  <2>1. round'[r].todo = {}
    BY DEF EndsRound, OfflineTypeOK
  <2>2. CASE RoundLooks(r)
    <3>1. v \in Trackers \ Todo(round[r])
      BY <2>1, <2>2, LooksRounds
    <3> QED BY <2>2, <3>1, LooksTold DEF TellInv
  <2>3. CASE \E u \in Trackers : RoundCreates(r, u) \/ RoundIsRefused(r, u)
    <3> PICK u \in Trackers : RoundCreates(r, u) \/ RoundIsRefused(r, u)
      BY <2>3
    <3>1. round[r].pc = "creating" /\ round'[r].todo = round[r].todo \ {u}
      BY CreatesRounds, RefusedRounds
    <3>2. v = u \/ Told(round[r].seen[v], round[r].at, v)
      BY <2>1, <3>1 DEF TellInv, DoneInv
    <3> QED BY <3>2, WritesTold
  <2> QED BY <2>2, <2>3 DEF EndsRound
<1> QED BY <1>1, TellInvAlways, OfflineTypeTheorem, PTL DEF SilentIsTold

-------------------------------------------------------------------------------
(* CutAlerts.                                                                *)

FlagInv ==
  /\ FlagMeansTold
  /\ \A p \in Readings : reading[p].pc = "flag" => toldOfCut \/ crossed \/ lost

LookInv ==
  \A p \in Readings : reading[p].pc = "create" /\ ~reading[p].news =>
    \A b \in Alerts : ~(alert[b].fresh /\ Unresolved(b))

HandInv ==
  /\ \A o \in Operators : \A a \in operator[o].alerts : alert[a].status # "none"
  /\ \A o \in Operators : \A a \in operator[o].alerts \ raced : Allowed(operator[o].pc, a)
  /\ ClosedWithResolution

CutStep ==
  \/ \E p \in Readings, cut \in {"yes", "no", "unknown"} : ReadingArrives(p, cut)
  \/ \E p \in Readings : ReadingJudges(p)
  \/ \E p \in Readings : ReadingLooks(p)
  \/ \E p \in Readings, a \in Alerts : ReadingCreates(p, a)
  \/ \E p \in Readings : ReadingIsRefused(p)
  \/ \E p \in Readings : ReadingFlags(p)
  \/ \E a \in Alerts : AlertAges(a)
  \/ \E o \in Operators, a \in Alerts, kind \in Kinds : OperatorReads(o, kind, a)
  \/ \E o \in Operators, a \in Alerts : OperatorWrites(o, a)
  \/ CutRestart
  \/ UNCHANGED cutVars

LEMMA CutNextIsAStep ==
  ASSUME [CutNext]_cutVars
  PROVE  CutStep
BY Zenon DEF CutNext, CutStep

-------------------------------------------------------------------------------
(* Typing.                                                                   *)

Facts == [pc : {"idle", "waiting", "lookup", "create", "flag"},
          cut : {"yes", "no", "unknown"}, news : BOOLEAN]
Hands == [pc : {"idle"} \cup Kinds, alerts : SUBSET Alerts]

(* The part of the type that is about the readings, and the other parts.     *)
ReadingsTyped ==
  /\ reading \in [Readings -> Facts]
  /\ \A p \in Readings : reading[p].pc \in {"lookup", "create", "flag"} =>
                           reading[p].cut = "yes"
OperatorsTyped ==
  /\ operator \in [Operators -> Hands]
  /\ \A o \in Operators :
       Cardinality(operator[o].alerts) = IF operator[o].pc = "idle" THEN 0 ELSE 1
OthersTyped ==
  /\ powerCutOpen \in BOOLEAN /\ alert \in [Alerts -> Row]
  /\ toldOfCut \in BOOLEAN /\ crossed \in BOOLEAN /\ lost \in BOOLEAN
  /\ raced \subseteq Alerts /\ refusals \in 0..MaxRefusals

LEMMA CutTypedApart ==
  /\ CutTypeOK <=> ReadingsTyped /\ OperatorsTyped /\ OthersTyped
  /\ CutTypeOK' <=> ReadingsTyped' /\ OperatorsTyped' /\ OthersTyped'
BY DEF CutTypeOK, ReadingsTyped, OperatorsTyped, OthersTyped, Facts, Hands

LEMMA CutIdles ==
  /\ IdleReading \in Facts /\ IdleReading.pc = "idle"
  /\ IdleOperator \in Hands /\ IdleOperator.pc = "idle" /\ IdleOperator.alerts = {}
  /\ Cardinality({}) = 0
  /\ NoRow \in Row /\ NoRow.status = "none" /\ NoRow.fresh = FALSE /\ NoRow.closed = FALSE
BY FS_EmptySet DEF IdleReading, IdleOperator, NoRow, Facts, Hands, Row

LEMMA NewsTyped ==
  ASSUME NEW rs \in [Readings -> Facts]
  PROVE  /\ WithNews(rs) \in [Readings -> Facts]
         /\ \A p \in Readings : /\ WithNews(rs)[p].pc = rs[p].pc
                                /\ WithNews(rs)[p].cut = rs[p].cut
                                /\ rs[p].pc = "create" => WithNews(rs)[p].news
BY DEF WithNews, Facts

LEMMA WrittenTyped ==
  ASSUME NEW kind \in Kinds, NEW row \in Row
  PROVE  /\ Written(kind, row) \in Row
         /\ Written(kind, row).fresh = row.fresh
         /\ Written(kind, row).status = IF kind = "resolve" THEN "RESOLVED" ELSE "IN_PROGRESS"
         /\ kind = "resolve" => Written(kind, row).closed
         /\ kind = "reopen" => ~Written(kind, row).closed
         /\ kind = "assume" => Written(kind, row).closed = row.closed
BY DEF Written, Row, Kinds

LEMMA CutTypeInit == CutInit => CutTypeOK
<1> SUFFICES ASSUME CutInit PROVE CutTypeOK
  OBVIOUS
<1>1. ReadingsTyped
  BY CutIdles DEF CutInit, ReadingsTyped
<1>2. OperatorsTyped
  <2>1. \A o \in Operators : operator[o].alerts = {} /\ operator[o].pc = "idle"
    BY CutIdles DEF CutInit
  <2> QED BY <2>1, CutIdles DEF CutInit, OperatorsTyped
<1>3. OthersTyped
  <2>1. alert \in [Alerts -> Row]
    BY CutIdles DEF CutInit
  <2>2. refusals \in 0..MaxRefusals
    BY CutBounds DEF CutInit
  <2> QED BY <2>1, <2>2 DEF CutInit, OthersTyped
<1> QED BY <1>1, <1>2, <1>3, CutTypedApart

LEMMA ReadingsTypedStep ==
  ASSUME CutTypeOK, CutStep
  PROVE  ReadingsTyped'
<1>1. ReadingsTyped
  BY CutTypedApart
<1>2. CASE UNCHANGED reading
  BY <1>1, <1>2 DEF ReadingsTyped
<1>3. CASE \E p \in Readings, cut \in {"yes", "no", "unknown"} : ReadingArrives(p, cut)
  <2> PICK p \in Readings, cut \in {"yes", "no", "unknown"} : ReadingArrives(p, cut)
    BY <1>3
  <2>1. [IdleReading EXCEPT !.pc = "waiting", !.cut = cut] \in Facts
        /\ [IdleReading EXCEPT !.pc = "waiting", !.cut = cut].pc = "waiting"
    BY DEF IdleReading, Facts
  <2> QED BY <1>1, <2>1 DEF ReadingsTyped, ReadingArrives
<1>4. CASE \E p \in Readings : ReadingJudges(p)
  <2> PICK p \in Readings : ReadingJudges(p)
    BY <1>4
  <2>1. [reading[p] EXCEPT !.pc = "lookup"] \in Facts
        /\ [reading[p] EXCEPT !.pc = "lookup"].cut = reading[p].cut
    BY <1>1 DEF ReadingsTyped, Facts
  <2>2. CASE Suspicious(reading[p].cut)
    BY <1>1, <2>1, <2>2 DEF ReadingsTyped, ReadingJudges, Suspicious
  <2>3. CASE ~Suspicious(reading[p].cut)
    BY <1>1, <2>3, CutIdles DEF ReadingsTyped, ReadingJudges
  <2> QED BY <2>2, <2>3
<1>5. CASE \E p \in Readings : ReadingLooks(p) \/ ReadingIsRefused(p) \/ ReadingFlags(p)
  BY <1>1, <1>5, CutIdles DEF ReadingsTyped, ReadingLooks, ReadingIsRefused, ReadingFlags, Facts
<1>6. CASE \E p \in Readings, a \in Alerts : ReadingCreates(p, a)
  <2> PICK p \in Readings, a \in Alerts : ReadingCreates(p, a)
    BY <1>6
  <2> DEFINE rs == [reading EXCEPT ![p].pc = "flag"]
  <2>1. rs \in [Readings -> Facts] /\ reading' = WithNews(rs)
    BY <1>1 DEF ReadingsTyped, ReadingCreates, Facts
  <2>2. \A q \in Readings : rs[q].pc \in {"lookup", "create", "flag"} => rs[q].cut = "yes"
    BY <1>1 DEF ReadingsTyped, ReadingCreates, Facts
  <2> HIDE DEF rs
  <2>3. reading' \in [Readings -> Facts]
        /\ \A q \in Readings : reading'[q].pc = rs[q].pc /\ reading'[q].cut = rs[q].cut
    <3> PICK ss \in [Readings -> Facts] : ss = rs
      BY <2>1
    <3> QED BY <2>1, NewsTyped
  <2> QED BY <2>2, <2>3 DEF ReadingsTyped
<1>7. CASE \E o \in Operators, a \in Alerts : OperatorWrites(o, a)
  <2>1. reading' = WithNews(reading) \/ reading' = reading
    BY <1>7 DEF OperatorWrites
  <2>2. reading' \in [Readings -> Facts]
        /\ \A q \in Readings : reading'[q].pc = reading[q].pc /\ reading'[q].cut = reading[q].cut
    <3> PICK ss \in [Readings -> Facts] : ss = reading
      BY <1>1 DEF ReadingsTyped
    <3> QED BY <2>1, NewsTyped
  <2> QED BY <1>1, <2>2 DEF ReadingsTyped
<1>8. CASE CutRestart
  BY <1>8, CutIdles DEF ReadingsTyped, CutRestart
<1> QED BY <1>2, <1>3, <1>4, <1>5, <1>6, <1>7, <1>8
        DEF CutStep, AlertAges, OperatorReads, cutVars

LEMMA OperatorsTypedStep ==
  ASSUME CutTypeOK, CutStep
  PROVE  OperatorsTyped'
<1>1. OperatorsTyped
  BY CutTypedApart
<1>2. CASE UNCHANGED operator
  BY <1>1, <1>2 DEF OperatorsTyped
<1>3. CASE \E o \in Operators, a \in Alerts, kind \in Kinds : OperatorReads(o, kind, a)
  <2> PICK o \in Operators, a \in Alerts, kind \in Kinds : OperatorReads(o, kind, a)
    BY <1>3
  <2>1. Cardinality({a}) = 1 /\ kind # "idle"
    BY FS_Singleton DEF Kinds
  <2> QED BY <1>1, <2>1 DEF OperatorsTyped, OperatorReads, Hands
<1>4. CASE \E o \in Operators, a \in Alerts : OperatorWrites(o, a)
  BY <1>1, <1>4, CutIdles DEF OperatorsTyped, OperatorWrites
<1>5. CASE CutRestart
  BY <1>5, CutIdles DEF OperatorsTyped, CutRestart
<1> QED BY <1>2, <1>3, <1>4, <1>5
        DEF CutStep, ReadingArrives, ReadingJudges, ReadingLooks, ReadingCreates,
            ReadingIsRefused, ReadingFlags, AlertAges, cutVars

(* Whoever writes an alert holds it, with one of the three kinds.            *)
LEMMA WriterHolds ==
  ASSUME CutTypeOK, NEW o \in Operators, NEW a \in Alerts, OperatorWrites(o, a)
  PROVE  operator[o].pc \in Kinds /\ a \in operator[o].alerts
<1>1. operator[o].alerts = {a}
  BY DEF OperatorWrites
<1>2. Cardinality({a}) = 1
  BY FS_Singleton
<1>3. Cardinality(operator[o].alerts) = 1
  BY <1>1, <1>2
<1>4. operator[o].pc \in {"idle"} \cup Kinds
      /\ Cardinality(operator[o].alerts) = IF operator[o].pc = "idle" THEN 0 ELSE 1
  BY DEF CutTypeOK
<1> QED BY <1>1, <1>3, <1>4

LEMMA AlertTypedStep ==
  ASSUME CutTypeOK, CutStep
  PROVE  alert' \in [Alerts -> Row]
<1>1. alert \in [Alerts -> Row]
  BY DEF CutTypeOK
<1>2. CASE \E o \in Operators, a \in Alerts : OperatorWrites(o, a)
  <2> PICK o \in Operators, a \in Alerts : OperatorWrites(o, a)
    BY <1>2
  <2> PICK kind \in Kinds : kind = operator[o].pc
    BY WriterHolds
  <2> PICK row \in Row : row = alert[a]
    BY <1>1
  <2>1. Written(kind, row) \in Row
    BY WrittenTyped
  <2>2. alert' = [alert EXCEPT ![a] = Written(operator[o].pc, alert[a])]
    BY DEF OperatorWrites
  <2> QED BY <1>1, <2>1, <2>2
<1>3. CASE \E a \in Alerts : AlertAges(a)
  BY <1>1, <1>3 DEF AlertAges, Row
<1>4. CASE \E p \in Readings, a \in Alerts : ReadingCreates(p, a)
  BY <1>1, <1>4 DEF ReadingCreates, Row
<1>5. CASE UNCHANGED alert
  BY <1>1, <1>5
<1> QED BY <1>2, <1>3, <1>4, <1>5
        DEF CutStep, ReadingArrives, ReadingJudges, ReadingLooks, ReadingIsRefused,
            ReadingFlags, OperatorReads, CutRestart, cutVars

LEMMA OthersTypedStep ==
  ASSUME CutTypeOK, CutStep
  PROVE  OthersTyped'
<1>1. OthersTyped
  BY CutTypedApart
<1>2. refusals' \in 0..MaxRefusals
  <2>1. refusals' = refusals \/ Refused
    BY DEF CutStep, ReadingArrives, ReadingJudges, ReadingLooks, ReadingCreates,
           ReadingIsRefused, ReadingFlags, AlertAges, OperatorReads, OperatorWrites,
           CutRestart, cutVars
  <2> QED BY <1>1, <2>1, CutBounds DEF OthersTyped, Refused
<1>3. powerCutOpen' \in BOOLEAN
  BY <1>1
     DEF OthersTyped, CutStep, ReadingArrives, ReadingJudges, ReadingLooks, ReadingCreates,
         ReadingIsRefused, ReadingFlags, AlertAges, OperatorReads, OperatorWrites,
         CutRestart, FlagAfter, cutVars
<1>4. toldOfCut' \in BOOLEAN /\ crossed' \in BOOLEAN /\ lost' \in BOOLEAN /\ raced' \subseteq Alerts
  BY <1>1
     DEF OthersTyped, CutStep, ReadingArrives, ReadingJudges, ReadingLooks, ReadingCreates,
         ReadingIsRefused, ReadingFlags, AlertAges, OperatorReads, OperatorWrites,
         CutRestart, Recent, history, cutVars
<1> QED BY <1>2, <1>3, <1>4, AlertTypedStep DEF OthersTyped

(* Every reachable state is well typed: an operator has one alert in hand or *)
(* none, and only a reading of a cut is looked into.                         *)
THEOREM CutTypeTheorem == CutSpec => []CutTypeOK
<1>1. CutTypeOK /\ [CutNext]_cutVars => CutTypeOK'
  BY CutNextIsAStep, ReadingsTypedStep, OperatorsTypedStep, OthersTypedStep, CutTypedApart
<1> QED BY <1>1, CutTypeInit, PTL DEF CutSpec

-------------------------------------------------------------------------------
(* The flag.                                                                 *)

LEMMA FlagStep ==
  ASSUME CutTypeOK, FlagInv, CutStep
  PROVE  FlagInv'
<1>1. reading \in [Readings -> Facts]
  BY DEF CutTypeOK, Facts
<1>2. CASE \E p \in Readings : ReadingJudges(p)
  <2> PICK p \in Readings : ReadingJudges(p)
    BY <1>2
  <2>1. \A q \in Readings : reading'[q].pc = "flag" => reading[q].pc = "flag"
    BY <1>1, CutIdles DEF ReadingJudges, Facts
  <2>2. CASE reading[p].cut = "no"
    BY <2>1, <2>2 DEF ReadingJudges, FlagAfter, FlagInv, FlagMeansTold
  <2>3. CASE reading[p].cut # "no"
    BY <2>1, <2>3 DEF ReadingJudges, FlagAfter, FlagInv, FlagMeansTold
  <2> QED BY <2>2, <2>3
<1>3. CASE \E p \in Readings, a \in Alerts : ReadingCreates(p, a)
  BY <1>3 DEF ReadingCreates, FlagInv, FlagMeansTold
<1>4. CASE \E p \in Readings : ReadingIsRefused(p)
  BY <1>4 DEF ReadingIsRefused, FlagInv, FlagMeansTold
<1>5. CASE \E p \in Readings : ReadingFlags(p)
  BY <1>1, <1>5, CutIdles DEF ReadingFlags, FlagInv, FlagMeansTold, history
<1>6. CASE \E p \in Readings : ReadingLooks(p)
  <2>1. \A q \in Readings : reading'[q].pc = "flag" => reading[q].pc = "flag"
    BY <1>1, <1>6, CutIdles DEF ReadingLooks, Facts
  <2>2. (toldOfCut => toldOfCut') /\ UNCHANGED <<powerCutOpen, crossed, lost>>
    BY <1>6 DEF ReadingLooks
  <2> QED BY <2>1, <2>2 DEF FlagInv, FlagMeansTold
<1>7. CASE CutRestart
  BY <1>7, CutIdles DEF CutRestart, FlagInv, FlagMeansTold, history
<1>8. CASE \E o \in Operators, a \in Alerts : OperatorWrites(o, a)
  <2>1. \A q \in Readings : reading'[q].pc = reading[q].pc
    <3> PICK ss \in [Readings -> Facts] : ss = reading
      BY <1>1
    <3> QED BY <1>8, NewsTyped DEF OperatorWrites
  <2> QED BY <1>8, <2>1 DEF OperatorWrites, FlagInv, FlagMeansTold
<1>9. CASE \E p \in Readings, cut \in {"yes", "no", "unknown"} : ReadingArrives(p, cut)
  <2>1. \A q \in Readings : reading'[q].pc = "flag" => reading[q].pc = "flag"
    BY <1>1, <1>9 DEF ReadingArrives, IdleReading
  <2> QED BY <1>9, <2>1 DEF ReadingArrives, FlagInv, FlagMeansTold, history
<1>10. CASE UNCHANGED <<powerCutOpen, reading, toldOfCut, crossed, lost>>
  BY <1>10 DEF FlagInv, FlagMeansTold
<1> QED BY <1>2, <1>3, <1>4, <1>5, <1>6, <1>7, <1>8, <1>9, <1>10
        DEF CutStep, AlertAges, OperatorReads, history, cutVars

(* The flag that silences the readings of a cut stands for an alert that was *)
(* written or found, in every interleaving of readings and through restarts, *)
(* but for the two cases the property names (alerts.service.ts:115-129).     *)
THEOREM FlagTheorem == CutSpec => []FlagMeansTold
<1>1. CutInit => FlagInv
  BY CutIdles DEF CutInit, FlagInv, FlagMeansTold
<1>2. CutTypeOK /\ FlagInv /\ [CutNext]_cutVars => FlagInv'
  BY CutNextIsAStep, FlagStep
<1>3. FlagInv => FlagMeansTold
  BY DEF FlagInv
<1> QED BY <1>1, <1>2, <1>3, CutTypeTheorem, PTL DEF CutSpec

-------------------------------------------------------------------------------
(* The operators.                                                            *)

(* An alert that keeps its status and its resolution keeps what is said of   *)
(* it.                                                                       *)
LEMMA SameAlert ==
  ASSUME NEW kind, NEW a, alert'[a].status = alert[a].status
  PROVE  Allowed(kind, a)' <=> Allowed(kind, a)
BY DEF Allowed, Unresolved

LEMMA HandStep ==
  ASSUME CutTypeOK, HandInv, CutStep
  PROVE  HandInv'
<1>1. alert \in [Alerts -> Row] /\ operator \in [Operators -> Hands] /\ raced \subseteq Alerts
  BY DEF CutTypeOK, Hands
<1>2. CASE UNCHANGED <<alert, operator, raced>>
  BY <1>2 DEF HandInv, Allowed, Unresolved, ClosedWithResolution
<1>3. CASE \E p \in Readings, a \in Alerts : ReadingCreates(p, a)
  <2> PICK p \in Readings, a \in Alerts : ReadingCreates(p, a)
    BY <1>3
  <2>1. UNCHANGED <<operator, raced>> /\ \A b \in Alerts \ {a} : alert'[b] = alert[b]
    BY <1>1 DEF ReadingCreates
  <2>2. alert'[a].status = "OPEN" /\ ~alert'[a].closed
    BY <1>1 DEF ReadingCreates
  <2>3. \A o \in Operators : a \notin operator[o].alerts /\ operator[o].alerts \subseteq Alerts
    BY <1>1 DEF HandInv, ReadingCreates, Hands
  <2> QED BY <2>1, <2>2, <2>3 DEF HandInv, Allowed, Unresolved, ClosedWithResolution
<1>4. CASE \E a \in Alerts : AlertAges(a)
  <2>1. UNCHANGED <<operator, raced>>
        /\ \A b \in Alerts : alert'[b].status = alert[b].status /\ alert'[b].closed = alert[b].closed
    BY <1>1, <1>4 DEF AlertAges, history, Row
  <2>2. \A o \in Operators : operator[o].alerts \subseteq Alerts
    BY <1>1 DEF Hands
  <2> QED BY <2>1, <2>2 DEF HandInv, Allowed, Unresolved, ClosedWithResolution
<1>5. CASE \E o \in Operators, a \in Alerts, kind \in Kinds : OperatorReads(o, kind, a)
  <2> PICK o \in Operators, a \in Alerts, kind \in Kinds : OperatorReads(o, kind, a)
    BY <1>5
  <2>1. /\ UNCHANGED <<alert, raced>>
        /\ \A q \in Operators \ {o} : operator'[q] = operator[q]
        /\ operator'[o].pc = kind /\ operator'[o].alerts = {a}
    BY <1>1 DEF OperatorReads, history
  <2>2. Allowed(kind, a) /\ alert[a].status # "none"
    BY DEF OperatorReads, Allowed, Unresolved
  <2>3. \A q \in Operators : \A b \in operator'[q].alerts :
          q # o => b \in operator[q].alerts /\ operator'[q] = operator[q]
    BY <2>1
  <2>4. \A q \in Operators : \A b \in operator'[q].alerts : alert'[b].status # "none"
    BY <2>1, <2>2, <2>3 DEF HandInv
  <2>5. ASSUME NEW q \in Operators, NEW b \in operator'[q].alerts \ raced'
        PROVE  Allowed(operator[q].pc, b)'
    <3>1. CASE q = o
      <4>1. b = a /\ operator'[q].pc = kind
        BY <2>1, <3>1
      <4>2. Allowed(operator'[q].pc, b)
        BY <2>2, <4>1
      <4> QED BY <2>1, <4>2 DEF Allowed, Unresolved
    <3>2. CASE q # o
      BY <2>1, <2>3, <3>2 DEF HandInv, Allowed, Unresolved
    <3> QED BY <3>1, <3>2
  <2> QED BY <2>1, <2>4, <2>5 DEF HandInv, ClosedWithResolution
<1>6. CASE \E o \in Operators, a \in Alerts : OperatorWrites(o, a)
  <2> PICK o \in Operators, a \in Alerts : OperatorWrites(o, a)
    BY <1>6
  <2> DEFINE kind == operator[o].pc
  <2>1. kind \in Kinds /\ a \in operator[o].alerts
    BY WriterHolds
  <2>2. /\ alert'[a].status = IF kind = "resolve" THEN "RESOLVED" ELSE "IN_PROGRESS"
        /\ kind = "resolve" => alert'[a].closed
        /\ kind = "reopen" => ~alert'[a].closed
        /\ kind = "assume" => alert'[a].closed = alert[a].closed
    <3> PICK k \in Kinds : k = kind
      BY <2>1
    <3> PICK row \in Row : row = alert[a]
      BY <1>1
    <3>1. alert'[a] = Written(k, row)
      BY <1>1 DEF OperatorWrites
    <3> QED BY <3>1, WrittenTyped
  <2>3. \A b \in Alerts \ {a} : alert'[b] = alert[b]
    BY <1>1 DEF OperatorWrites
  <2>4. operator'[o].alerts = {} /\ \A q \in Operators \ {o} : operator'[q] = operator[q]
    BY <1>1, CutIdles DEF OperatorWrites
  <2>5. raced \subseteq raced'
        /\ (a \notin raced' => \A q \in Operators \ {o} : a \notin operator[q].alerts)
    BY DEF OperatorWrites
  <2>6. \A q \in Operators : operator[q].alerts \subseteq Alerts
    BY <1>1 DEF Hands
  <2>7. ASSUME NEW q \in Operators, NEW b \in operator'[q].alerts
        PROVE  alert'[b].status # "none"
               /\ (b \notin raced' => Allowed(operator[q].pc, b)' /\ operator'[q].pc = operator[q].pc)
    <3>1. q # o /\ b \in operator[q].alerts /\ operator'[q] = operator[q] /\ b \in Alerts
      BY <2>4, <2>6, <2>7
    <3>2. CASE b = a
      BY <2>2, <2>5, <3>1, <3>2
    <3>3. CASE b # a
      BY <2>3, <2>5, <3>1, <3>3 DEF HandInv, Allowed, Unresolved
    <3> QED BY <3>2, <3>3
  <2>8. ASSUME a \notin raced' PROVE alert'[a].closed <=> alert'[a].status = "RESOLVED"
    <3>1. Allowed(kind, a) /\ (alert[a].closed <=> alert[a].status = "RESOLVED")
      BY <2>1, <2>5, <2>8 DEF HandInv, ClosedWithResolution
    <3> QED BY <2>1, <2>2, <3>1 DEF Allowed, Unresolved, Kinds
  <2>9. ClosedWithResolution'
    BY <2>3, <2>5, <2>8 DEF HandInv, ClosedWithResolution
  <2> QED BY <2>7, <2>9 DEF HandInv, Allowed, Unresolved
<1>7. CASE CutRestart
  BY <1>7, CutIdles DEF CutRestart, HandInv, ClosedWithResolution, history
<1> QED BY <1>2, <1>3, <1>4, <1>5, <1>6, <1>7
        DEF CutStep, ReadingArrives, ReadingJudges, ReadingLooks, ReadingIsRefused,
            ReadingFlags, history, cutVars

(* A closed alert has its resolution and an open one has none, through any   *)
(* series of assume, resolve and reopen (alerts.service.ts:529-605), as long *)
(* as no two operators had it in hand at once.                               *)
THEOREM ClosedTheorem == CutSpec => []ClosedWithResolution
<1>1. CutInit => HandInv
  BY CutIdles DEF CutInit, HandInv, ClosedWithResolution
<1>2. CutTypeOK /\ HandInv /\ [CutNext]_cutVars => HandInv'
  BY CutNextIsAStep, HandStep
<1>3. HandInv => ClosedWithResolution
  BY DEF HandInv
<1> QED BY <1>1, <1>2, <1>3, CutTypeTheorem, PTL DEF CutSpec

-------------------------------------------------------------------------------
(* One alarm for one cut.                                                    *)

LEMMA LookStep ==
  ASSUME CutTypeOK, HandInv, LookInv, CutStep
  PROVE  LookInv'
<1>1. reading \in [Readings -> Facts] /\ alert \in [Alerts -> Row]
  BY DEF CutTypeOK, Facts
<1>2. ASSUME \A b \in Alerts : alert'[b].fresh /\ Unresolved(b)' => alert[b].fresh /\ Unresolved(b),
             \A q \in Readings : reading'[q].pc = "create" /\ ~reading'[q].news =>
                                 reading[q].pc = "create" /\ ~reading[q].news
      PROVE  LookInv'
  BY <1>2 DEF LookInv
<1>3. CASE \E p \in Readings, a \in Alerts : ReadingCreates(p, a)
  <2> PICK p \in Readings, a \in Alerts : ReadingCreates(p, a)
    BY <1>3
  <2> DEFINE rs == [reading EXCEPT ![p].pc = "flag"]
  <2>1. rs \in [Readings -> Facts] /\ reading' = WithNews(rs)
    BY <1>1 DEF ReadingCreates, Facts
  <2> HIDE DEF rs
  <2> PICK ss \in [Readings -> Facts] : ss = rs
    BY <2>1
  <2>2. \A q \in Readings : reading'[q].pc = "create" => reading'[q].news
    BY <2>1, NewsTyped
  <2> QED BY <2>2 DEF LookInv
<1>4. CASE \E o \in Operators, a \in Alerts : OperatorWrites(o, a)
  <2> PICK o \in Operators, a \in Alerts : OperatorWrites(o, a)
    BY <1>4
  <2> PICK ss \in [Readings -> Facts] : ss = reading
    BY <1>1
  <2>1. CASE alert[a].status = "RESOLVED"
    <3>1. \A q \in Readings : reading'[q].pc = "create" => reading'[q].news
      BY <2>1, NewsTyped DEF OperatorWrites
    <3> QED BY <3>1 DEF LookInv
  <2>2. CASE alert[a].status # "RESOLVED"
    <3>1. reading' = reading /\ \A b \in Alerts \ {a} : alert'[b] = alert[b]
      BY <1>1, <2>2 DEF OperatorWrites
    <3>2. operator[o].pc \in Kinds /\ alert[a].status # "none"
      BY WriterHolds DEF HandInv
    <3>3. Unresolved(a)
      BY <1>1, <2>2, <3>2 DEF Unresolved, Row
    <3>4. alert'[a].fresh = alert[a].fresh
      <4> PICK k \in Kinds : k = operator[o].pc
        BY <3>2
      <4> PICK row \in Row : row = alert[a]
        BY <1>1
      <4>1. alert'[a] = Written(k, row)
        BY <1>1 DEF OperatorWrites
      <4> QED BY <4>1, WrittenTyped
    <3> QED BY <1>2, <3>1, <3>3, <3>4 DEF Unresolved
  <2> QED BY <2>1, <2>2
<1>5. CASE \E p \in Readings : ReadingLooks(p)
  <2> PICK p \in Readings : ReadingLooks(p)
    BY <1>5
  <2>1. alert' = alert /\ \A q \in Readings \ {p} : reading'[q] = reading[q]
    BY <1>1 DEF ReadingLooks
  <2>2. reading'[p].pc = "create" => ~Recent
    BY <1>1, CutIdles DEF ReadingLooks
  <2> QED BY <2>1, <2>2 DEF LookInv, Recent, Unresolved
<1>6. CASE \E a \in Alerts : AlertAges(a)
  <2>1. reading' = reading
        /\ \A b \in Alerts : alert'[b].status = alert[b].status /\ (alert'[b].fresh => alert[b].fresh)
    BY <1>1, <1>6 DEF AlertAges, Row
  <2> QED BY <1>2, <2>1 DEF Unresolved
<1>7. CASE \E p \in Readings : ReadingIsRefused(p) \/ ReadingFlags(p) \/ ReadingJudges(p)
  <2> PICK p \in Readings : ReadingIsRefused(p) \/ ReadingFlags(p) \/ ReadingJudges(p)
    BY <1>7
  <2>1. alert' = alert
    BY DEF ReadingIsRefused, ReadingFlags, ReadingJudges
  <2>2. reading'[p].pc # "create" /\ \A q \in Readings \ {p} : reading'[q] = reading[q]
    <3>1. CASE ReadingIsRefused(p)
      BY <1>1, <3>1 DEF ReadingIsRefused
    <3>2. CASE ReadingFlags(p)
      BY <1>1, <3>2, CutIdles DEF ReadingFlags
    <3>3. CASE ReadingJudges(p)
      BY <1>1, <3>3, CutIdles DEF ReadingJudges, Facts
    <3> QED BY <3>1, <3>2, <3>3
  <2> QED BY <1>2, <2>1, <2>2 DEF Unresolved
<1>8. CASE \E p \in Readings, cut \in {"yes", "no", "unknown"} : ReadingArrives(p, cut)
  <2>1. alert' = alert
        /\ \A q \in Readings : reading'[q].pc = "create" => reading'[q] = reading[q]
    BY <1>1, <1>8 DEF ReadingArrives, IdleReading
  <2> QED BY <1>2, <2>1 DEF Unresolved
<1>9. CASE CutRestart
  BY <1>9, CutIdles DEF CutRestart, LookInv
<1>10. CASE UNCHANGED <<reading, alert>>
  BY <1>10 DEF LookInv, Unresolved
<1> QED BY <1>3, <1>4, <1>5, <1>6, <1>7, <1>8, <1>9, <1>10
        DEF CutStep, OperatorReads, cutVars

(* No second alert is written while a recent one is unresolved, unless that  *)
(* one came or was reopened after the reading had looked                     *)
(* (alerts.service.ts:294-306).                                              *)
THEOREM NoSecondTheorem == CutSpec => NoSecondAlarm
<1>1. CutInit => HandInv /\ LookInv
  BY CutIdles DEF CutInit, HandInv, ClosedWithResolution, LookInv
<1>2. CutTypeOK /\ HandInv /\ LookInv /\ [CutNext]_cutVars => HandInv' /\ LookInv'
  BY CutNextIsAStep, HandStep, LookStep
<1>3. LookInv =>
        [\A p \in Readings, a \in Alerts :
           ReadingCreates(p, a) =>
             \/ \A b \in Alerts : ~(alert[b].fresh /\ Unresolved(b))
             \/ reading[p].news]_cutVars
  BY DEF LookInv, ReadingCreates
<1> QED BY <1>1, <1>2, <1>3, CutTypeTheorem, PTL DEF CutSpec, NoSecondAlarm

-------------------------------------------------------------------------------
(* The two together.                                                         *)

(* The alerts of silence and those of a cut are of different types and never *)
(* meet, so the composition that is checked keeps to both specifications     *)
(* proved about.                                                             *)
THEOREM AlertsCompose == Spec => OfflineSpec /\ CutSpec
<1>1. Init => OfflineInit /\ CutInit
  BY DEF Init
<1>2. [Next]_<<offlineVars, cutVars, watched>> =>
        [OfflineNext]_offlineVars /\ [CutNext]_cutVars
  BY Zenon DEF Next
<1> QED BY <1>1, <1>2, PTL DEF Spec, OfflineSpec, CutSpec

(* Alerts, rounds, readings and operators keep their types.                  *)
THEOREM AlertTypesTheorem == Spec => []AlertTypesOK
<1>1. OfflineTypeOK /\ CutTypeOK => AlertTypesOK
  BY DEF AlertTypesOK
<1> QED BY <1>1, AlertsCompose, OfflineTypeTheorem, CutTypeTheorem, PTL
===============================================================================
