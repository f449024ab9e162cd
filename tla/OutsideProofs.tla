---------------------------- MODULE OutsideProofs ----------------------------
(****************************************************************************)
(* Proofs about SgaMirror and ReverseGeocode for any cars, pages, points,   *)
(* callers, intervals and penalties, and about the specification that is    *)
(* checked of them together.                                                *)
(*                                                                          *)
(* The mirror.  A scan reads the SGA page by page while cars move between the *)
(* situations, so what it knows is about the cars nothing disturbed: ReadInv *)
(* and ScanInv say that such a car is read and written as it is, or still   *)
(* ahead of the page the scan is at.                                        *)
(*                                                                          *)
(* The geocoders.  Callers at the gate of Nominatim hold places an interval *)
(* apart (GateInv), and during a penalty only who came before it (PenaltyInv). *)
(****************************************************************************)
EXTENDS MCOutside, FiniteSetTheorems, WellFoundedInduction, TLAPS

-------------------------------------------------------------------------------
(* SgaMirror.                                                                *)

Working == {"given", "pages", "count", "sweep"}

(* Where the scan is in its phases.                                          *)
AtInv ==
  /\ scan.pc = "pages" => scan.at <= Situations
  /\ scan.pc = "given" => scan.at = 2 /\ scan.page = 0

(* The reading of the actives has, or has before it, every active car that   *)
(* nothing disturbed, and while it waits to be handed over has just those.   *)
ReadInv ==
  /\ actives.pc = "pages" => \A c \in Codes \ actives.unseen :
       /\ c \in actives.list => situation[c] = 1
       /\ situation[c] = 1 => c \in actives.list \/ Before(c, Listed(1)) >= actives.page * Lote
  /\ actives.pc = "read" => \A c \in Codes \ actives.unseen :
       c \in actives.list <=> situation[c] = 1

(* A car the scan has still to bring.                                        *)
Ahead(c) ==
  \/ scan.pc = "given" /\ (situation[c] = 1 => c \in scan.given)
  \/ /\ scan.pc = "pages"
     /\ \/ situation[c] > scan.at
        \/ situation[c] = scan.at /\ Before(c, Listed(scan.at)) >= scan.page * Lote

(* What the scan wrote of a car that nothing disturbed is so, and the car is *)
(* written or ahead.                                                         *)
ScanInv ==
  scan.pc \in Working => \A c \in Codes \ scan.unseen :
    /\ c \in scan.fresh => row[c] = situation[c]
    /\ c \in scan.given => situation[c] = 1
    /\ situation[c] # 0 => c \in scan.fresh \/ Ahead(c)

-------------------------------------------------------------------------------
(* Counting.                                                                 *)

LEMMA LeastOf ==
  ASSUME NEW T \in SUBSET Nat, T # {}
  PROVE  \E m \in T : \A n \in T : m <= n
<1>1. IsWellFoundedOn(OpToRel(<, Nat), Nat)
  BY NatLessThanWellFounded, Zenon
<1>2. PICK m \in T : \A n \in T : ~ (<<n, m>> \in OpToRel(<, Nat))
  BY <1>1, WFMin, Zenon
<1>3. \A n \in T : ~(n < m)
  BY <1>2 DEF OpToRel
<1> QED BY <1>3

LEMMA CodesAreFinite ==
  ASSUME NEW S \in SUBSET Codes
  PROVE  IsFiniteSet(S) /\ Cardinality(S) \in Nat
<1>1. IsFiniteSet(S)
  BY CodesAssumption, FS_Subset
<1> QED BY <1>1, FS_CardinalityType

LEMMA BeforeIsNat ==
  ASSUME NEW S \in SUBSET Codes, NEW c \in Codes
  PROVE  /\ IsFiniteSet(S) /\ Cardinality(S) \in Nat
         /\ IsFiniteSet({d \in S : d < c}) /\ Before(c, S) \in Nat
<1>1. {d \in S : d < c} \in SUBSET Codes
  OBVIOUS
<1> QED BY <1>1, CodesAreFinite DEF Before

(* A car is not nearer to the front of a list with more cars before it.      *)
LEMMA BeforeGrows ==
  ASSUME NEW S \in SUBSET Codes, NEW T \in SUBSET Codes, NEW c \in Codes,
         \A d \in S : d < c => d \in T
  PROVE  Before(c, S) <= Before(c, T)
<1>1. {d \in S : d < c} \in SUBSET {d \in T : d < c}
  OBVIOUS
<1>2. IsFiniteSet({d \in T : d < c})
  BY BeforeIsNat
<1> QED BY <1>1, <1>2, FS_Subset DEF Before

(* A finite set has a last member.                                           *)
LEMMA GreatestOf ==
  ASSUME NEW S \in SUBSET Codes, S # {}
  PROVE  \E m \in S : \A n \in S : n <= m
<1> DEFINE Following(c) == {d \in S : c < d}
           Sizes == {Cardinality(Following(c)) : c \in S}
<1>1. \A c \in S : IsFiniteSet(Following(c)) /\ Cardinality(Following(c)) \in Nat
  <2> TAKE c \in S
  <2>1. Following(c) \in SUBSET Codes
    OBVIOUS
  <2> QED BY <2>1, CodesAreFinite
<1>2. PICK k \in Sizes : \A n \in Sizes : k <= n
  <2>1. Sizes \in SUBSET Nat /\ Sizes # {}
    BY <1>1
  <2> HIDE DEF Sizes
  <2> QED BY <2>1, LeastOf
<1>3. PICK m \in S : Cardinality(Following(m)) = k
  BY <1>2
<1>4. ASSUME NEW n \in S, m < n PROVE FALSE
  <2>0. \A c \in S : c \in Nat
    BY CodesAssumption
  <2>1. Following(n) \in SUBSET Following(m) /\ n \in Following(m) /\ n \notin Following(n)
    BY <1>4, <2>0
  <2>2. Cardinality(Following(n)) <= Cardinality(Following(m)) /\ Cardinality(Following(n)) # Cardinality(Following(m))
    BY <1>1, <2>1, FS_Subset
  <2>3. k <= Cardinality(Following(n))
    BY <1>2
  <2> QED BY <1>1, <1>3, <2>2, <2>3
<1>5. \A n \in S : n \in Nat
  BY CodesAssumption
<1>6. \A n \in S : n <= m
  BY <1>4, <1>5
<1> QED BY <1>6

(* At most as many cars as that have fewer than k before them.               *)
LEMMA AtMostSoMany ==
  ASSUME NEW S \in SUBSET Codes, NEW k \in Nat
  PROVE  Cardinality({c \in S : Before(c, S) < k}) <= k
<1> DEFINE B == {c \in S : Before(c, S) < k}
<1>1. CASE B = {}
  BY <1>1, FS_EmptySet
<1>2. CASE B # {}
  <2>1. PICK m \in B : \A n \in B : n <= m
    BY <1>2, GreatestOf
  <2> DEFINE P == {d \in S : d < m}
  <2>2. IsFiniteSet(P) /\ Cardinality(P) < k /\ Cardinality(P) \in Nat
    BY BeforeIsNat DEF Before
  <2>0. \A c \in B : c \in Nat
    BY CodesAssumption
  <2>3. B \in SUBSET (P \cup {m})
    BY <2>0, <2>1
  <2>4. IsFiniteSet(P \cup {m}) /\ Cardinality(P \cup {m}) <= Cardinality(P) + 1
    <3> HIDE DEF P
    <3>1. /\ IsFiniteSet(P \cup {m})
          /\ Cardinality(P \cup {m}) = IF m \in P THEN Cardinality(P) ELSE Cardinality(P) + 1
      BY <2>2, FS_AddElement
    <3> QED BY <2>2, <3>1
  <2>5. Cardinality(B) <= Cardinality(P \cup {m}) /\ IsFiniteSet(B)
    BY <2>3, <2>4, FS_Subset
  <2>6. Cardinality(B) \in Nat /\ Cardinality(P \cup {m}) \in Nat
    BY <2>4, <2>5, FS_CardinalityType
  <2> QED BY <2>2, <2>4, <2>5, <2>6
<1> QED BY <1>1, <1>2

(* And at least as many, when some car has k before it.                      *)
LEMMA AtLeastSoMany ==
  ASSUME NEW S \in SUBSET Codes, NEW k \in Nat, NEW x \in S, Before(x, S) >= k
  PROVE  Cardinality({c \in S : Before(c, S) < k}) >= k
<1> DEFINE A == {c \in S : Before(c, S) < k}
           Rest == {c \in S : Before(c, S) >= k}
<1>1. PICK m \in Rest : \A n \in Rest : m <= n
  <2>1. Rest \in SUBSET Nat /\ Rest # {}
    BY CodesAssumption
  <2> HIDE DEF Rest
  <2> QED BY <2>1, LeastOf
<1> DEFINE P == {d \in S : d < m}
<1>2. P \in SUBSET A
  <2> SUFFICES ASSUME NEW d \in S, d < m PROVE Before(d, S) < k
    OBVIOUS
  <2>1. d \in Nat /\ m \in Nat /\ Before(d, S) \in Nat
    BY BeforeIsNat, CodesAssumption
  <2>2. d \notin Rest
    BY <1>1, <2>1
  <2> QED BY <2>1, <2>2
<1>3. Cardinality(P) >= k /\ Cardinality(P) \in Nat
  BY BeforeIsNat DEF Before
<1>4. IsFiniteSet(A) /\ Cardinality(A) \in Nat
  BY CodesAssumption, FS_Subset, FS_CardinalityType
<1>5. Cardinality(P) <= Cardinality(A)
  BY <1>2, <1>4, FS_Subset
<1> QED BY <1>3, <1>4, <1>5

(* A page that is not the last is full: when a car has a * more * before it, *)
(* as many cars as that have a or more and fewer than b before them.         *)
LEMMA FullPage ==
  ASSUME NEW S \in SUBSET Codes, NEW a \in Nat, NEW b \in Nat, a <= b,
         NEW x \in S, Before(x, S) >= b
  PROVE  Cardinality({c \in S : Before(c, S) \in a .. (b - 1)}) >= b - a
<1> DEFINE A == {c \in S : Before(c, S) < a}
           B == {c \in S : Before(c, S) < b}
           M == {c \in S : Before(c, S) \in a .. (b - 1)}
<1>1. Cardinality(A) <= a /\ Cardinality(B) >= b
  BY AtMostSoMany, AtLeastSoMany
<1>2. IsFiniteSet(A) /\ IsFiniteSet(M) /\ IsFiniteSet(A \cap M)
  BY CodesAssumption, FS_Subset
<1>3. /\ Cardinality(A) \in Nat /\ Cardinality(M) \in Nat /\ Cardinality(A \cap M) \in Nat
  BY <1>2, FS_CardinalityType
<1>0. \A c \in S : Before(c, S) \in Nat
  BY BeforeIsNat
<1>4. A \cup M = B
  BY <1>0
<1>5. Cardinality(A \cup M) = Cardinality(A) + Cardinality(M) - Cardinality(A \cap M)
  BY <1>2, FS_Union
<1> HIDE DEF A, B, M
<1>6. Cardinality(M) >= b - a
  <2>1. Cardinality(A) + Cardinality(M) - Cardinality(A \cap M) >= b
    BY <1>1, <1>4, <1>5, Zenon
  <2> QED BY <1>1, <1>3, <2>1
<1> QED BY <1>6 DEF M

(* So a short page leaves no car of the list behind.                         *)
LEMMA ShortPageIsLast ==
  ASSUME NEW s, NEW page \in Nat, ShortPage(Page(s, page)), NEW c \in Listed(s),
         Before(c, Listed(s)) >= page * Lote
  PROVE  c \in Page(s, page)
<1> DEFINE a == page * Lote
<1>2. Listed(s) \in SUBSET Codes /\ c \in Codes
  BY DEF Listed
<1>1. a \in Nat /\ Lote \in Nat /\ Before(c, Listed(s)) \in Nat
  <2>1. Lote \in Nat /\ a \in Nat
    BY ScanAssumption
  <2>2. Before(c, Listed(s)) \in Nat
    BY <1>2, BeforeIsNat
  <2> QED BY <2>1, <2>2
<1>3. Page(s, page) = {d \in Listed(s) : Before(d, Listed(s)) \in a .. (a + Lote - 1)}
  BY DEF Page, Listed
<1> HIDE DEF a
<1>4. ASSUME Before(c, Listed(s)) >= a + Lote PROVE FALSE
  <2>1. Cardinality(Page(s, page)) >= (a + Lote) - a
    <3>1. a + Lote \in Nat /\ a <= a + Lote
      BY <1>1
    <3>2. Cardinality({d \in Listed(s) : Before(d, Listed(s)) \in a .. ((a + Lote) - 1)}) >= (a + Lote) - a
      BY <1>1, <1>2, <1>4, <3>1, FullPage
    <3>3. (a + Lote) - 1 = a + Lote - 1
      BY <1>1
    <3> QED BY <1>3, <3>2, <3>3, Zenon
  <2>2. Cardinality(Page(s, page)) \in Nat
    BY <1>2, <1>3, BeforeIsNat
  <2> QED BY <1>1, <2>1, <2>2 DEF ShortPage
<1>5. Before(c, Listed(s)) \in a .. (a + Lote - 1)
  BY <1>1, <1>4 DEF a
<1> QED BY <1>3, <1>5

-------------------------------------------------------------------------------
(* Typing.                                                                   *)

MirrorStep ==
  \/ \E c \in Codes : EditsType(c) \/ ContractChanges(c) \/ CarIsFitted(c)
  \/ \E c \in Codes, s \in 0..Situations : CarMoves(c, s)
  \/ ReadingStarts \/ ReadsActives \/ HandsOver \/ Refuses
  \/ FirstLoad \/ ReadingFails \/ ReadingCutShort \/ AssociatesCutShort
  \/ WritesGiven \/ WritesPage \/ Counts \/ Sweeps \/ Aligns \/ TypesBikes \/ TypesCars
  \/ EmptyPage \/ ScanFails \/ BackendRestarts
  \/ UNCHANGED mirrorVars

LEMMA MirrorNextIsAStep ==
  ASSUME [MirrorNext]_mirrorVars
  PROVE  MirrorStep
BY Zenon DEF MirrorNext, MirrorStep, ReadingStep, ScanStep

(* A walk that counts no more than it wrote, and writes nothing when idle.   *)
GoodWalk(w, codes) ==
  /\ w \in Walk
  /\ w.pc = "idle" => w.fresh = {} /\ w.total = 0
  /\ w.fresh \subseteq codes
  /\ Cardinality(w.fresh) <= w.total
  /\ w.pc = "pages" => w.at <= Situations
  /\ w.pc = "given" => w.at = 2 /\ w.page = 0

MirrorTyped ==
  /\ situation \in [Codes -> 0..Situations] /\ row \in [Codes -> 0..Situations]
  /\ wanted \subseteq Codes /\ pendings \subseteq Codes
  /\ moto \subseteq Codes /\ actives \in Reading /\ booted \in BOOLEAN
  /\ GoodWalk(scan, Rows)
  /\ moves \in 0..MaxMoves /\ mirrorFaults \in 0..MaxMirrorFaults

LEMMA MirrorTypeMeans ==
  /\ MirrorTypeOK /\ AtInv <=> MirrorTyped
  /\ MirrorTypeOK' /\ AtInv' <=> MirrorTyped'
BY DEF MirrorTypeOK, AtInv, MirrorTyped, GoodWalk, Rows

LEMMA NoScanIsGood ==
  ASSUME NEW codes
  PROVE  /\ GoodWalk(NoScan, codes) /\ NoScan.pc = "idle"
         /\ GoodWalk([NoScan EXCEPT !.pc = "align"], codes)
         /\ [NoScan EXCEPT !.pc = "align"].pc = "align"
BY ScanAssumption, FS_EmptySet DEF GoodWalk, NoScan, Walk

LEMMA NoReadingIsTyped ==
  /\ NoReading \in Reading /\ NoReading.pc = "idle"
  /\ LET r == [NoReading EXCEPT !.pc = "pages"]
     IN r \in Reading /\ r.pc = "pages" /\ r.page = 0 /\ r.list = {} /\ r.unseen = {}
BY DEF NoReading, Reading

(* A car of the walk is disturbed: the rest of the walk is as it was.        *)
Disturbed(w, cars) == [w EXCEPT !.unseen = @ \cup cars]
LEMMA DisturbedIsGood ==
  ASSUME NEW w \in Walk, NEW cars \in SUBSET Codes, NEW codes
  PROVE  /\ GoodWalk(w, codes) => GoodWalk(Disturbed(w, cars), codes)
         /\ Disturbed(w, cars).pc = w.pc /\ Disturbed(w, cars).at = w.at
         /\ Disturbed(w, cars).page = w.page /\ Disturbed(w, cars).given = w.given
         /\ Disturbed(w, cars).fresh = w.fresh
         /\ Disturbed(w, cars).unseen = w.unseen \cup cars
BY DEF GoodWalk, Walk, Disturbed

LEMMA ReadingMoves ==
  ASSUME NEW r \in Reading, NEW cars \in SUBSET Codes
  PROVE  /\ LET d == [r EXCEPT !.unseen = @ \cup cars]
            IN d \in Reading /\ d.pc = r.pc /\ d.page = r.page /\ d.list = r.list
               /\ d.unseen = r.unseen \cup cars
         /\ LET e == [r EXCEPT !.pc = "read", !.unseen = @ \cup cars]
            IN e \in Reading /\ e.pc = "read" /\ e.list = r.list
               /\ e.unseen = r.unseen \cup cars
         /\ LET a == [r EXCEPT !.asked = cars]
            IN a \in Reading /\ a.pc = r.pc /\ a.page = r.page /\ a.list = r.list
               /\ a.unseen = r.unseen
<1>1. r.unseen \cup cars \in SUBSET Codes
  BY DEF Reading
<1> QED BY <1>1 DEF Reading

LEMMA PageRead ==
  ASSUME actives \in Reading, NEW cars \in SUBSET Codes
  PROVE  /\ LET n == [Read(cars) EXCEPT !.page = @ + 1]
            IN n \in Reading /\ n.pc = actives.pc /\ n.page = actives.page + 1
               /\ n.list = actives.list \cup cars /\ n.unseen = actives.unseen
         /\ LET l == [Read(cars) EXCEPT !.pc = "read"]
            IN l \in Reading /\ l.pc = "read"
               /\ l.list = actives.list \cup cars /\ l.unseen = actives.unseen
<1> DEFINE r == Read(cars)
<1>1. /\ actives.page \in Nat /\ actives.page + 1 \in Nat
      /\ actives.list \cup cars \in SUBSET Codes
      /\ actives.asked \cup (cars \cap wanted) \in SUBSET Codes
      /\ actives.twice \cup (cars \cap actives.list) \in SUBSET Codes
  BY DEF Reading
<1>2. /\ r \in Reading /\ r.pc = actives.pc /\ r.page = actives.page
      /\ r.list = actives.list \cup cars /\ r.unseen = actives.unseen
  BY <1>1 DEF Reading, Read
<1> HIDE DEF r
<1>3. LET n == [r EXCEPT !.page = @ + 1]
      IN n \in Reading /\ n.pc = r.pc /\ n.page = r.page + 1 /\ n.list = r.list
         /\ n.unseen = r.unseen
  BY <1>1, <1>2 DEF Reading
<1>4. LET l == [r EXCEPT !.pc = "read"]
      IN l \in Reading /\ l.pc = "read" /\ l.list = r.list /\ l.unseen = r.unseen
  BY <1>2 DEF Reading
<1> QED BY <1>2, <1>3, <1>4 DEF r

LEMMA StartedIsGood ==
  ASSUME NEW list \in SUBSET Codes, NEW unseen \in SUBSET Codes, NEW codes,
         GoodWalk(scan, codes)
  PROVE  /\ GoodWalk(StartedWith(list, unseen), codes)
         /\ scan.pc # "idle" => StartedWith(list, unseen) = scan
         /\ scan.pc = "idle" =>
              LET w == StartedWith(list, unseen)
              IN /\ w.given = list /\ w.unseen = unseen /\ w.fresh = {} /\ w.page = 0
                 /\ w.pc = IF list = {} THEN "pages" ELSE "given"
                 /\ w.at = IF list = {} THEN 1 ELSE 2
<1>1. CASE scan.pc # "idle"
  BY <1>1 DEF StartedWith
<1>2. CASE scan.pc = "idle"
  <2> DEFINE pc == IF list = {} THEN "pages" ELSE "given"
             at == IF list = {} THEN 1 ELSE 2
             w == [NoScan EXCEPT !.pc = pc, !.at = at, !.given = list, !.unseen = unseen]
  <2>1. StartedWith(list, unseen) = w
    BY <1>2 DEF StartedWith
  <2>2. /\ pc \in {"pages", "given"} /\ at \in 1..(Situations + 1)
        /\ pc = "pages" => at <= Situations
        /\ pc = "given" => at = 2
    BY ScanAssumption
  <2> HIDE DEF pc, at
  <2>3. /\ w \in Walk /\ w.pc = pc /\ w.at = at /\ w.given = list /\ w.unseen = unseen
        /\ w.fresh = {} /\ w.page = 0 /\ w.total = 0
    BY <2>2 DEF NoScan, Walk
  <2> HIDE DEF w
  <2>4. Cardinality(w.fresh) = 0
    BY <2>3, FS_EmptySet
  <2>5. GoodWalk(w, codes)
    BY <2>2, <2>3, <2>4 DEF GoodWalk
  <2> QED BY <1>2, <2>1, <2>3, <2>5 DEF pc, at
<1> QED BY <1>1, <1>2

(* What is counted is at least what is new.                                  *)
LEMMA CountedIsGood ==
  ASSUME NEW cars \in SUBSET Codes, scan \in Walk, Cardinality(scan.fresh) <= scan.total
  PROVE  /\ Counted(cars) \in Walk
         /\ Cardinality(Counted(cars).fresh) <= Counted(cars).total
         /\ Counted(cars).fresh = scan.fresh \cup cars
         /\ Counted(cars).pc = scan.pc /\ Counted(cars).at = scan.at
         /\ Counted(cars).page = scan.page /\ Counted(cars).given = scan.given
         /\ Counted(cars).unseen = scan.unseen
<1>1. scan.fresh \in SUBSET Codes /\ scan.total \in Nat
  BY DEF Walk
<1>2. /\ IsFiniteSet(scan.fresh) /\ Cardinality(scan.fresh) \in Nat
      /\ IsFiniteSet(cars) /\ Cardinality(cars) \in Nat
      /\ Cardinality(scan.fresh \cap cars) \in Nat
  BY <1>1, CodesAreFinite
<1>3. Cardinality(scan.fresh \cup cars)
        = Cardinality(scan.fresh) + Cardinality(cars) - Cardinality(scan.fresh \cap cars)
  BY <1>2, FS_Union
<1>4. Cardinality(scan.fresh \cup cars) <= scan.total + Cardinality(cars)
  BY <1>1, <1>2, <1>3
<1>5. scan.total + Cardinality(cars) \in Nat /\ scan.fresh \cup cars \in SUBSET Codes
  BY <1>1, <1>2
<1>6. /\ Counted(cars) \in Walk /\ Counted(cars).total = scan.total + Cardinality(cars)
      /\ Counted(cars).fresh = scan.fresh \cup cars
      /\ Counted(cars).pc = scan.pc /\ Counted(cars).at = scan.at
      /\ Counted(cars).page = scan.page /\ Counted(cars).given = scan.given
      /\ Counted(cars).unseen = scan.unseen
  BY <1>5 DEF Counted, Walk
<1> QED BY <1>4, <1>6

LEMMA NextPageIsGood ==
  ASSUME NEW w \in Walk, NEW lote, w.at = scan.at, scan.pc = "pages", w.pc = "pages",
         scan.at <= Situations
  PROVE  LET n == NextPage(w, lote)
         IN /\ n \in Walk /\ n.pc \in {"pages", "count"}
            /\ n.fresh = w.fresh /\ n.total = w.total /\ n.unseen = w.unseen /\ n.given = w.given
            /\ n.pc = "pages" => n.at <= Situations
            /\ ~ShortPage(lote) => n.pc = "pages" /\ n.at = w.at /\ n.page = w.page + 1
            /\ ShortPage(lote) /\ n.pc = "pages" => n.at = w.at + 1 /\ n.page = 0
            /\ ShortPage(lote) /\ n.pc = "count" => w.at = Situations
<1>1. w.at \in Nat /\ Situations \in Nat /\ w.at + 1 \in 1..(Situations + 1)
  BY ScanAssumption DEF Walk
<1>2. CASE ~ShortPage(lote)
  BY <1>1, <1>2 DEF NextPage, Walk
<1>3. CASE ShortPage(lote)
  <2> DEFINE pc == IF AfterLast(scan.at) THEN "count" ELSE "pages"
             n == [w EXCEPT !.page = 0, !.at = @ + 1, !.pc = pc]
  <2>1. /\ pc \in {"count", "pages"}
        /\ pc = "pages" => w.at + 1 <= Situations
    BY <1>1 DEF AfterLast
  <2>2. pc = "count" => w.at = Situations
    BY <1>1 DEF AfterLast
  <2>3. NextPage(w, lote) = n
    BY <1>3 DEF NextPage
  <2> HIDE DEF pc
  <2>4. /\ n \in Walk /\ n.pc = pc /\ n.at = w.at + 1 /\ n.page = 0
        /\ n.fresh = w.fresh /\ n.total = w.total /\ n.unseen = w.unseen /\ n.given = w.given
    BY <1>1, <2>1 DEF Walk
  <2> QED BY <1>3, <2>1, <2>2, <2>3, <2>4
<1> QED BY <1>2, <1>3

LEMMA GoodWalkGrows ==
  ASSUME NEW w, NEW few, NEW more, GoodWalk(w, few), few \subseteq more
  PROVE  GoodWalk(w, more)
BY DEF GoodWalk

LEMMA RowsWritten ==
  ASSUME row \in [Codes -> 0..Situations], NEW cars \in SUBSET Codes, NEW s \in 1..Situations,
         Written(cars, s)
  PROVE  /\ row' \in [Codes -> 0..Situations] /\ Rows' = Rows \cup cars
         /\ \A c \in Codes : row'[c] = IF c \in cars THEN s ELSE row[c]
<1>1. Situations \in Nat /\ s \in 0..Situations /\ s # 0
  BY ScanAssumption
<1> QED BY <1>1 DEF Written, Rows

(* The slice of the given list, written.                                     *)
LEMMA GivenIsGood ==
  ASSUME NEW cars \in SUBSET Codes, NEW codes, GoodWalk(scan, codes), scan.pc = "given",
         NEW pc \in {"given", "pages", "count"}, pc = "pages" => Situations > 1
  PROVE  LET w == [Counted(cars) EXCEPT !.given = @ \ cars, !.pc = pc]
         IN /\ GoodWalk(w, codes \cup cars) /\ w.pc = pc /\ w.at = 2 /\ w.page = 0
            /\ w.given = scan.given \ cars /\ w.fresh = scan.fresh \cup cars
            /\ w.unseen = scan.unseen
<1> DEFINE w == [Counted(cars) EXCEPT !.given = @ \ cars, !.pc = pc]
<1>1. /\ scan \in Walk /\ Cardinality(scan.fresh) <= scan.total /\ scan.at = 2 /\ scan.page = 0
      /\ scan.fresh \subseteq codes
  BY DEF GoodWalk
<1>2. /\ Counted(cars) \in Walk
      /\ Cardinality(Counted(cars).fresh) <= Counted(cars).total
      /\ Counted(cars).fresh = scan.fresh \cup cars
      /\ Counted(cars).pc = scan.pc /\ Counted(cars).at = scan.at
      /\ Counted(cars).page = scan.page /\ Counted(cars).given = scan.given
      /\ Counted(cars).unseen = scan.unseen
  BY <1>1, CountedIsGood
<1> HIDE DEF w
<1>3. /\ w \in Walk /\ w.pc = pc /\ w.at = 2 /\ w.page = 0 /\ w.total = Counted(cars).total
      /\ w.given = scan.given \ cars /\ w.fresh = scan.fresh \cup cars
      /\ w.unseen = scan.unseen
  BY <1>1, <1>2 DEF Walk, w
<1>4. pc = "pages" => 2 <= Situations
  BY ScanAssumption
<1>5. Cardinality(w.fresh) <= w.total
  BY <1>2, <1>3
<1>6. GoodWalk(w, codes \cup cars)
  BY <1>1, <1>3, <1>4, <1>5 DEF GoodWalk
<1> QED BY <1>3, <1>6 DEF w

(* A page read and written, or taken for empty.                              *)
LEMMA PageIsGood ==
  ASSUME NEW cars \in SUBSET Codes, NEW codes, GoodWalk(scan, codes), scan.pc = "pages"
  PROVE  /\ GoodWalk(NextPage(Counted(cars), cars), codes \cup cars)
         /\ GoodWalk(Disturbed(NextPage(scan, {}), Listed(scan.at)), codes)
<1>1. /\ scan \in Walk /\ Cardinality(scan.fresh) <= scan.total /\ scan.at <= Situations
      /\ scan.fresh \subseteq codes
  BY DEF GoodWalk
<1>2. /\ Counted(cars) \in Walk
      /\ Cardinality(Counted(cars).fresh) <= Counted(cars).total
      /\ Counted(cars).fresh = scan.fresh \cup cars
      /\ Counted(cars).pc = scan.pc /\ Counted(cars).at = scan.at
  BY <1>1, CountedIsGood
<1> DEFINE n == NextPage(Counted(cars), cars)
           e == NextPage(scan, {})
<1>3. /\ n \in Walk /\ n.pc \in {"pages", "count"}
      /\ n.fresh = Counted(cars).fresh /\ n.total = Counted(cars).total
      /\ n.pc = "pages" => n.at <= Situations
  BY <1>1, <1>2, NextPageIsGood
<1>4. /\ e \in Walk /\ e.pc \in {"pages", "count"}
      /\ e.fresh = scan.fresh /\ e.total = scan.total
      /\ e.pc = "pages" => e.at <= Situations
  BY <1>1, NextPageIsGood
<1> HIDE DEF n, e
<1>5. GoodWalk(n, codes \cup cars)
  BY <1>1, <1>2, <1>3 DEF GoodWalk
<1>6. GoodWalk(e, codes)
  BY <1>1, <1>4 DEF GoodWalk
<1>7. GoodWalk(Disturbed(e, Listed(scan.at)), codes)
  <2>1. Listed(scan.at) \in SUBSET Codes
    BY DEF Listed
  <2> QED BY <1>4, <1>6, <2>1, DisturbedIsGood
<1> QED BY <1>5, <1>7 DEF n, e

(* The last phases of a scan write no row.                                   *)
LEMMA LatePhasesAreGood ==
  ASSUME NEW codes, GoodWalk(scan, codes)
  PROVE  /\ scan.pc = "count" => GoodWalk([scan EXCEPT !.pc = "sweep"], codes)
         /\ \A b \in SUBSET Codes, t \in SUBSET Codes :
              GoodWalk([scan EXCEPT !.pc = "bikes", !.tobike = b, !.tocar = t], codes)
         /\ GoodWalk([scan EXCEPT !.pc = "cars", !.tobike = {}], codes)
<1>0. /\ scan \in Walk /\ scan.fresh \subseteq codes
      /\ Cardinality(scan.fresh) <= scan.total
  BY DEF GoodWalk
<1>1. ASSUME scan.pc = "count" PROVE GoodWalk([scan EXCEPT !.pc = "sweep"], codes)
  <2>1. [scan EXCEPT !.pc = "sweep"] \in Walk
    BY <1>0 DEF Walk
  <2> QED BY <1>0, <2>1 DEF GoodWalk, Walk
<1>2. ASSUME NEW b \in SUBSET Codes, NEW t \in SUBSET Codes
      PROVE  GoodWalk([scan EXCEPT !.pc = "bikes", !.tobike = b, !.tocar = t], codes)
  <2>1. [scan EXCEPT !.pc = "bikes", !.tobike = b, !.tocar = t] \in Walk
    BY <1>0 DEF Walk
  <2> QED BY <1>0, <2>1 DEF GoodWalk, Walk
<1>3. GoodWalk([scan EXCEPT !.pc = "cars", !.tobike = {}], codes)
  <2>1. [scan EXCEPT !.pc = "cars", !.tobike = {}] \in Walk
    BY <1>0 DEF Walk
  <2> QED BY <1>0, <2>1 DEF GoodWalk, Walk
<1> QED BY <1>1, <1>2, <1>3

LEMMA FaultIsTyped ==
  ASSUME MirrorTyped, MirrorFault
  PROVE  mirrorFaults' \in 0..MaxMirrorFaults /\ moves' \in 0..MaxMoves
BY MirrorBoundsAssumption DEF MirrorTyped, MirrorFault

LEMMA MirrorTypeStep ==
  ASSUME MirrorTyped, MirrorStep
  PROVE  MirrorTyped'
<1> USE DEF MirrorTyped
<1>0. GoodWalk(scan, Rows) /\ scan \in Walk /\ actives \in Reading
  BY DEF GoodWalk
<1>a. MaxMoves \in Nat /\ Situations \in Nat \ {0}
  BY MirrorBoundsAssumption, ScanAssumption
<1>b. ASSUME UNCHANGED row, GoodWalk(scan', Rows) PROVE GoodWalk(scan', Rows')
  BY <1>b DEF Rows
<1>c. \A s : Listed(s) \in SUBSET Codes /\ \A p : Page(s, p) \in SUBSET Codes
  BY DEF Listed, Page
<1>1. CASE \E c \in Codes : EditsType(c)
  <2> PICK c \in Codes : EditsType(c)
    BY <1>1
  <2>1. UNCHANGED <<row, scan>> /\ moto' \subseteq Codes /\ moves' \in 0..MaxMoves
    BY <1>a DEF EditsType
  <2> QED BY <1>0, <1>b, <2>1 DEF EditsType
<1>20. CASE \E c \in Codes : ContractChanges(c) \/ CarIsFitted(c)
  <2> PICK c \in Codes : ContractChanges(c) \/ CarIsFitted(c)
    BY <1>20
  <2>1. /\ UNCHANGED <<situation, row, moto, scan, booted, mirrorFaults>>
        /\ wanted' \subseteq Codes /\ pendings' \subseteq Codes /\ moves' \in 0..MaxMoves
    BY <1>a DEF ContractChanges, CarIsFitted
  <2>2. actives' \in Reading
    <3>1. actives.asked \ {c} \in SUBSET Codes
      BY <1>0 DEF Reading
    <3>2. actives' \in {actives, [actives EXCEPT !.asked = actives.asked \ {c}]}
      BY DEF ContractChanges, CarIsFitted
    <3>3. [actives EXCEPT !.asked = actives.asked \ {c}] \in Reading
      BY <1>0, <3>1, ReadingMoves
    <3> QED BY <1>0, <3>2, <3>3, Zenon
  <2> QED BY <1>0, <1>b, <2>1, <2>2
<1>2. CASE \E c \in Codes, s \in 0..Situations : CarMoves(c, s)
  <2> PICK c \in Codes, s \in 0..Situations : CarMoves(c, s)
    BY <1>2
  <2> DEFINE shifted == {c} \cup {d \in Listed(situation[c]) : situation[c] # 0 /\ d > c}
  <2>1. shifted \in SUBSET Codes
    BY <1>c
  <2> HIDE DEF shifted
  <2>2. /\ actives' = IF actives.pc = "idle" THEN actives
                      ELSE [actives EXCEPT !.unseen = @ \cup shifted]
        /\ scan' = IF scan.pc \in {"given", "pages", "count", "sweep"}
                   THEN Disturbed(scan, shifted) ELSE scan
        /\ UNCHANGED <<wanted, pendings, row, moto, booted, mirrorFaults>>
    BY DEF CarMoves, shifted, Disturbed
  <2>3. actives' \in Reading
    BY <1>0, <2>1, <2>2, ReadingMoves
  <2>4. GoodWalk(scan', Rows')
    BY <1>0, <1>b, <2>1, <2>2, DisturbedIsGood
  <2>5. moves' \in 0..MaxMoves /\ situation' \in [Codes -> 0..Situations]
    BY <1>a DEF CarMoves
  <2> QED BY <2>2, <2>3, <2>4, <2>5
<1>3. CASE ReadingStarts
  BY <1>0, <1>3, <1>b, NoReadingIsTyped DEF ReadingStarts, mirrorCounts
<1>4. CASE ReadsActives
  <2>1. actives' \in Reading
    BY <1>0, <1>4, <1>c, PageRead DEF ReadsActives
  <2> QED BY <1>0, <1>4, <1>b, <2>1 DEF ReadsActives, mirrorCounts
<1>5. CASE HandsOver
  <2>1. /\ actives.list \in SUBSET Codes /\ actives.unseen \in SUBSET Codes
        /\ actives.asked \in SUBSET Codes
    BY <1>0 DEF Reading
  <2>2. GoodWalk(scan', Rows)
    BY <1>0, <1>5, <2>1, StartedIsGood DEF HandsOver
  <2> QED BY <1>5, <1>b, <2>1, <2>2, NoReadingIsTyped DEF HandsOver, mirrorCounts
<1>21. CASE Refuses
  BY <1>0, <1>21, <1>b, NoReadingIsTyped DEF Refuses, mirrorCounts
<1>6. CASE FirstLoad
  <2>1. GoodWalk(scan', Rows)
    BY <1>0, <1>6, StartedIsGood DEF FirstLoad
  <2> QED BY <1>6, <1>b, <2>1 DEF FirstLoad, mirrorCounts
<1>7. CASE ReadingFails
  BY <1>0, <1>7, <1>b, FaultIsTyped, NoReadingIsTyped DEF ReadingFails
<1>8. CASE ReadingCutShort
  <2>1. actives' \in Reading
    BY <1>0, <1>8, <1>c, ReadingMoves DEF ReadingCutShort
  <2> QED BY <1>0, <1>8, <1>b, <2>1, FaultIsTyped DEF ReadingCutShort
<1>22. CASE AssociatesCutShort
  <2>1. PICK left \in SUBSET actives.asked : actives' = [actives EXCEPT !.asked = left]
    BY <1>22 DEF AssociatesCutShort
  <2>2. left \in SUBSET Codes
    BY <1>0 DEF Reading
  <2>3. actives' \in Reading
    BY <1>0, <2>1, <2>2, ReadingMoves
  <2> QED BY <1>0, <1>22, <1>b, <2>3, FaultIsTyped DEF AssociatesCutShort
<1>9. CASE WritesGiven
  <2> DEFINE lote == {c \in scan.given : Before(c, scan.given) < Lote}
             pc == IF scan.given # lote THEN "given"
                   ELSE IF Situations > 1 THEN "pages" ELSE "count"
  <2>1. lote \in SUBSET Codes
    BY <1>0 DEF Walk
  <2>2. pc \in {"given", "pages", "count"} /\ (pc = "pages" => Situations > 1)
    OBVIOUS
  <2>3. /\ scan' = [Counted(lote) EXCEPT !.given = @ \ lote, !.pc = pc]
        /\ scan.pc = "given" /\ Written(lote, 1)
    BY <1>9 DEF WritesGiven
  <2> HIDE DEF lote, pc
  <2>4. row' \in [Codes -> 0..Situations] /\ Rows' = Rows \cup lote
    BY <1>a, <2>1, <2>3, RowsWritten
  <2>5. GoodWalk(scan', Rows')
    BY <1>0, <2>1, <2>2, <2>3, <2>4, GivenIsGood
  <2> QED BY <1>9, <2>4, <2>5 DEF WritesGiven, mirrorCounts
<1>10. CASE WritesPage
  <2> DEFINE lote == Page(scan.at, scan.page)
  <2>1. lote \in SUBSET Codes /\ scan.at \in 1..Situations
    <3>1. scan.pc = "pages"
      BY <1>10 DEF WritesPage
    <3>2. scan.at <= Situations
      BY <1>0, <3>1 DEF GoodWalk
    <3>3. scan.at \in 1..(Situations + 1)
      BY <1>0 DEF Walk
    <3> QED BY <1>a, <1>c, <3>2, <3>3
  <2>2. scan' = NextPage(Counted(lote), lote) /\ scan.pc = "pages" /\ Written(lote, scan.at)
    BY <1>10 DEF WritesPage
  <2> HIDE DEF lote
  <2>3. row' \in [Codes -> 0..Situations] /\ Rows' = Rows \cup lote
    BY <2>1, <2>2, RowsWritten
  <2>4. GoodWalk(scan', Rows')
    BY <1>0, <2>1, <2>2, <2>3, PageIsGood
  <2> QED BY <1>10, <2>3, <2>4 DEF WritesPage, mirrorCounts
<1>11. CASE Counts
  <2>1. GoodWalk(scan', Rows)
    BY <1>0, <1>11, LatePhasesAreGood, NoScanIsGood DEF Counts
  <2> QED BY <1>11, <1>b, <2>1 DEF Counts, mirrorCounts
<1>12. CASE Sweeps
  <2>1. GoodWalk(scan', Rows')
    BY <1>12, NoScanIsGood DEF Sweeps
  <2>2. row' \in [Codes -> 0..Situations]
    BY <1>12, <1>a DEF Sweeps
  <2> QED BY <1>12, <2>1, <2>2 DEF Sweeps, mirrorCounts
<1>13. CASE Aligns
  <2>1. Misfits(Bikes, moto) \in SUBSET Codes /\ Misfits(Codes \ Bikes, Codes \ moto) \in SUBSET Codes
    BY DEF Misfits, Rows
  <2>2. GoodWalk(scan', Rows)
    BY <1>0, <1>13, <2>1, LatePhasesAreGood, NoScanIsGood DEF Aligns
  <2> QED BY <1>13, <1>b, <2>2 DEF Aligns, mirrorCounts
<1>14. CASE TypesBikes
  <2>1. GoodWalk(scan', Rows) /\ moto' \subseteq Codes
    BY <1>0, <1>14, LatePhasesAreGood DEF TypesBikes, Walk
  <2> QED BY <1>14, <1>b, <2>1 DEF TypesBikes, mirrorCounts
<1>15. CASE TypesCars
  <2>1. GoodWalk(scan', Rows) /\ moto' \subseteq Codes
    BY <1>0, <1>15, NoScanIsGood DEF TypesCars
  <2> QED BY <1>15, <1>b, <2>1 DEF TypesCars, mirrorCounts
<1>16. CASE EmptyPage
  <2>1. GoodWalk(scan', Rows)
    BY <1>0, <1>16, PageIsGood DEF EmptyPage, Disturbed
  <2> QED BY <1>16, <1>b, <2>1, FaultIsTyped DEF EmptyPage
<1>17. CASE ScanFails
  <2>1. GoodWalk(scan', Rows)
    BY <1>17, NoScanIsGood DEF ScanFails, AfterFailure
  <2> QED BY <1>17, <1>b, <2>1, FaultIsTyped DEF ScanFails
<1>18. CASE BackendRestarts
  <2>1. GoodWalk(scan', Rows) /\ actives' \in Reading
    BY <1>18, NoScanIsGood, NoReadingIsTyped DEF BackendRestarts
  <2> QED BY <1>18, <1>b, <2>1, FaultIsTyped DEF BackendRestarts
<1>19. CASE UNCHANGED mirrorVars
  BY <1>0, <1>19, <1>b DEF mirrorVars
<1> QED
  BY <1>1, <1>2, <1>3, <1>4, <1>5, <1>6, <1>7, <1>8, <1>9, <1>10, <1>11, <1>12,
     <1>13, <1>14, <1>15, <1>16, <1>17, <1>18, <1>19, <1>20, <1>21, <1>22 DEF MirrorStep

-------------------------------------------------------------------------------
(* What a scan and a reading have found.                                     *)

LEMMA NoneBeforeTheFirst ==
  ASSUME NEW c \in Codes, NEW S \in SUBSET Codes
  PROVE  Before(c, S) >= 0 * Lote
<1>1. Before(c, S) \in Nat
  BY BeforeIsNat
<1>2. 0 * Lote = 0
  BY ScanAssumption
<1> QED BY <1>1, <1>2

(* A car nothing disturbed is no nearer to the front of its list.            *)
LEMMA UnshiftedKeepsItsPlace ==
  ASSUME situation \in [Codes -> 0..Situations], NEW b \in Codes, NEW s \in 0..Situations,
         situation' = [situation EXCEPT ![b] = s],
         NEW c \in Codes, c # b,
         situation[b] # 0 => ~(c \in Listed(situation[b]) /\ c > b)
  PROVE  /\ situation'[c] = situation[c]
         /\ \A t \in 1..Situations, k \in Nat :
              situation[c] = t /\ Before(c, Listed(t)) >= k
                => Before(c, {d \in Codes : situation'[d] = t}) >= k
<1>1. situation'[c] = situation[c]
  OBVIOUS
<1>2. SUFFICES ASSUME NEW t \in 1..Situations, NEW k \in Nat,
                      situation[c] = t, Before(c, Listed(t)) >= k
               PROVE  Before(c, {d \in Codes : situation'[d] = t}) >= k
  BY <1>1
<1> DEFINE L == Listed(t)
           M == {d \in Codes : situation'[d] = t}
<1>3. L \in SUBSET Codes /\ M \in SUBSET Codes
  BY DEF Listed
<1>4. \A d \in L : d < c => d \in M
  <2> SUFFICES ASSUME NEW d \in L, d < c, d = b PROVE FALSE
    BY DEF Listed
  <2>1. b \in Nat /\ c \in Nat /\ b < c
    BY CodesAssumption
  <2>2. c > b
    BY <2>1
  <2>3. situation[b] = t /\ t # 0 /\ c \in Listed(t)
    BY <1>2 DEF Listed
  <2> QED BY <2>2, <2>3
<1> HIDE DEF M
<1>5. Before(c, L) <= Before(c, M)
  BY <1>3, <1>4, BeforeGrows
<1>6. Before(c, L) \in Nat /\ Before(c, M) \in Nat
  BY <1>3, BeforeIsNat
<1>7. Before(c, M) >= k
  BY <1>2, <1>5, <1>6
<1> QED BY <1>7 DEF M

(* What is in no page up to this one comes after it.                         *)
LEMMA PastThePage ==
  ASSUME NEW s, NEW page \in Nat, NEW c \in Listed(s),
         Before(c, Listed(s)) >= page * Lote, c \notin Page(s, page)
  PROVE  Before(c, Listed(s)) >= (page + 1) * Lote
<1> DEFINE a == page * Lote
<1>1. a \in Nat /\ Lote \in Nat /\ (page + 1) * Lote = a + Lote
  BY ScanAssumption
<1>2. Listed(s) \in SUBSET Codes
  BY DEF Listed
<1>3. Before(c, Listed(s)) \in Nat /\ c \in Codes
  BY <1>2, BeforeIsNat
<1>4. ~(Before(c, Listed(s)) \in a .. (a + Lote - 1))
  BY <1>3 DEF Page
<1> HIDE DEF a
<1>5. Before(c, Listed(s)) >= a
  BY DEF a
<1>6. ASSUME NEW n \in Nat, n >= a, ~(n \in a .. (a + Lote - 1)) PROVE n >= a + Lote
  BY <1>1, <1>6
<1>7. Before(c, Listed(s)) >= a + Lote
  BY <1>3, <1>4, <1>5, <1>6
<1> QED BY <1>1, <1>7, Zenon

LEMMA ReadStep ==
  ASSUME MirrorTyped, ReadInv, MirrorStep
  PROVE  ReadInv'
<1>0. /\ scan \in Walk /\ actives \in Reading /\ situation \in [Codes -> 0..Situations]
      /\ actives.page \in Nat /\ Situations \in Nat \ {0}
  BY ScanAssumption DEF MirrorTyped, GoodWalk, Reading
<1>c. \A s : Listed(s) \in SUBSET Codes /\ \A p : Page(s, p) \in SUBSET Codes
  BY DEF Listed, Page
<1>1. CASE \E c \in Codes, s \in 0..Situations : CarMoves(c, s)
  <2> PICK b \in Codes, s \in 0..Situations : CarMoves(b, s)
    BY <1>1
  <2> DEFINE shifted == {b} \cup {d \in Listed(situation[b]) : situation[b] # 0 /\ d > b}
  <2>1. shifted \in SUBSET Codes
    BY <1>c
  <2>2. /\ actives' = IF actives.pc = "idle" THEN actives
                      ELSE [actives EXCEPT !.unseen = @ \cup shifted]
        /\ situation' = [situation EXCEPT ![b] = s]
    BY DEF CarMoves
  <2>3. \A c \in Codes \ shifted :
          c # b /\ (situation[b] # 0 => ~(c \in Listed(situation[b]) /\ c > b))
    OBVIOUS
  <2>4. \A c \in Codes \ shifted :
          /\ situation'[c] = situation[c]
          /\ \A t \in 1..Situations, k \in Nat :
               situation[c] = t /\ Before(c, Listed(t)) >= k
                 => Before(c, {d \in Codes : situation'[d] = t}) >= k
    BY <1>0, <2>2, <2>3, UnshiftedKeepsItsPlace
  <2> HIDE DEF shifted
  <2>5. /\ actives'.pc = actives.pc
        /\ actives.pc # "idle" => /\ actives'.page = actives.page /\ actives'.list = actives.list
                                  /\ actives'.unseen = actives.unseen \cup shifted
    BY <1>0, <2>1, <2>2, ReadingMoves
  <2>6. actives.page * Lote \in Nat /\ 1 \in 1..Situations
    BY <1>0, ScanAssumption
  <2>7. Listed(1)' = {d \in Codes : situation'[d] = 1}
    BY DEF Listed
  <2>8. ASSUME actives.pc = "pages", NEW c \in Codes \ actives'.unseen
        PROVE  /\ c \in actives'.list => situation'[c] = 1
               /\ situation'[c] = 1 => \/ c \in actives'.list
                                       \/ Before(c, Listed(1)') >= actives'.page * Lote
    <3>1. c \in Codes \ shifted /\ c \in Codes \ actives.unseen
      BY <2>5, <2>8
    <3> QED BY <2>4, <2>5, <2>6, <2>7, <2>8, <3>1 DEF ReadInv
  <2>9. ASSUME actives.pc = "read", NEW c \in Codes \ actives'.unseen
        PROVE  c \in actives'.list <=> situation'[c] = 1
    BY <2>4, <2>5, <2>9 DEF ReadInv
  <2> QED BY <2>5, <2>8, <2>9 DEF ReadInv, Before
<1>2. CASE ReadingStarts
  <2>1. actives'.list = {} /\ actives'.page = 0 /\ actives'.pc = "pages"
    BY <1>2, NoReadingIsTyped DEF ReadingStarts
  <2>2. \A c \in Codes : Before(c, Listed(1)) >= 0 * Lote
    BY <1>c, NoneBeforeTheFirst
  <2>3. situation' = situation /\ Listed(1)' = Listed(1)
    BY <1>2 DEF ReadingStarts, Listed
  <2>4. \A c \in Codes : Before(c, Listed(1)') >= actives'.page * Lote
    BY <2>1, <2>2, <2>3
  <2> QED BY <2>1, <2>4 DEF ReadInv, Before
<1>3. CASE ReadsActives
  <2> DEFINE lote == Page(1, actives.page)
  <2>1. /\ actives.pc = "pages" /\ actives'.list = actives.list \cup lote
        /\ actives'.unseen = actives.unseen
        /\ IF ShortPage(lote) THEN actives'.pc = "read"
           ELSE actives'.pc = "pages" /\ actives'.page = actives.page + 1
    BY <1>0, <1>3, <1>c, PageRead DEF ReadsActives
  <2>2. situation' = situation /\ Listed(1)' = Listed(1)
    BY <1>3 DEF ReadsActives, Listed
  <2>3. \A c \in lote : situation[c] = 1
    BY DEF Page, Listed
  <2>4. ASSUME NEW c \in Codes \ actives.unseen, situation[c] = 1
        PROVE  \/ c \in actives.list \cup lote
               \/ Before(c, Listed(1)) >= (actives.page + 1) * Lote
    <3>1. c \in Listed(1)
      BY <2>4 DEF Listed
    <3> QED BY <1>0, <2>1, <2>4, <3>1, PastThePage DEF ReadInv
  <2>6. ASSUME ShortPage(lote), NEW c \in Codes \ actives.unseen, situation[c] = 1
        PROVE  c \in actives.list \cup lote
    <3>1. c \in Listed(1)
      BY <2>6 DEF Listed
    <3> QED BY <1>0, <2>1, <2>6, <3>1, ShortPageIsLast DEF ReadInv
  <2> HIDE DEF lote
  <2>5. \A c \in Codes \ actives.unseen : c \in actives.list => situation[c] = 1
    BY <2>1 DEF ReadInv
  <2>7. CASE ShortPage(lote)
    BY <2>1, <2>2, <2>3, <2>5, <2>6, <2>7 DEF ReadInv
  <2>8. CASE ~ShortPage(lote)
    BY <2>1, <2>2, <2>3, <2>4, <2>5, <2>8 DEF ReadInv, Before
  <2> QED BY <2>7, <2>8
<1>4. ASSUME actives'.pc = "idle" PROVE ReadInv'
  BY <1>4 DEF ReadInv
<1>5. ASSUME UNCHANGED situation, actives'.pc = actives.pc, actives'.page = actives.page,
             actives'.list = actives.list, actives'.unseen = actives.unseen
      PROVE  ReadInv'
  BY <1>5 DEF ReadInv, Before, Listed
<1>6. CASE HandsOver \/ Refuses \/ ReadingFails \/ BackendRestarts
  BY <1>4, <1>6, NoReadingIsTyped DEF HandsOver, Refuses, ReadingFails, BackendRestarts
<1>8. CASE ReadingCutShort
  <2>1. /\ actives.pc = "pages" /\ actives'.pc = "read" /\ actives'.list = actives.list
        /\ actives'.unseen = actives.unseen \cup Listed(1) /\ UNCHANGED situation
    <3>1. Listed(1) \in SUBSET Codes
      BY DEF Listed
    <3>2. /\ actives.pc = "pages" /\ UNCHANGED situation
          /\ actives' = [actives EXCEPT !.pc = "read", !.unseen = @ \cup Listed(1)]
      BY <1>8 DEF ReadingCutShort
    <3> QED BY <1>0, <3>1, <3>2, ReadingMoves
  <2>2. \A c \in Codes \ actives'.unseen : situation[c] # 1 /\ c \notin actives.list
    BY <2>1 DEF ReadInv, Listed
  <2> QED BY <2>1, <2>2 DEF ReadInv
<1>9. CASE AssociatesCutShort \/ \E c \in Codes : CarIsFitted(c)
  <2>1. PICK left \in SUBSET Codes :
          actives' = [actives EXCEPT !.asked = left] /\ UNCHANGED situation
    <3>1. \A c : actives.asked \ {c} \in SUBSET Codes
      BY <1>0 DEF Reading
    <3>2. \A left \in SUBSET actives.asked : left \in SUBSET Codes
      BY <1>0 DEF Reading
    <3>3. actives = [actives EXCEPT !.asked = actives.asked] /\ actives.asked \in SUBSET Codes
      BY <1>0 DEF Reading
    <3>4. CASE AssociatesCutShort
      BY <3>2, <3>4 DEF AssociatesCutShort
    <3>5. CASE \E c \in Codes : CarIsFitted(c)
      BY <3>1, <3>3, <3>5 DEF CarIsFitted
    <3> QED BY <1>9, <3>4, <3>5
  <2> QED BY <1>0, <1>5, <2>1, ReadingMoves
<1>7. CASE \/ \E c \in Codes : EditsType(c) \/ ContractChanges(c)
           \/ FirstLoad \/ WritesGiven \/ WritesPage \/ Counts \/ Sweeps \/ Aligns
           \/ TypesBikes \/ TypesCars \/ EmptyPage \/ ScanFails \/ UNCHANGED mirrorVars
  <2>1. UNCHANGED <<actives, situation>>
    BY <1>7 DEF EditsType, ContractChanges, FirstLoad, WritesGiven, WritesPage, Counts, Sweeps, Aligns,
                TypesBikes, TypesCars, EmptyPage, ScanFails, mirrorVars
  <2> QED BY <1>5, <2>1
<1> QED BY <1>1, <1>2, <1>3, <1>6, <1>7, <1>8, <1>9, Zenon DEF MirrorStep

LEMMA StartedTells ==
  ASSUME MirrorTyped, ScanInv, NEW list \in SUBSET Codes, NEW unseen \in SUBSET Codes,
         scan' = StartedWith(list, unseen), UNCHANGED <<situation, row>>,
         \A c \in Codes \ unseen : c \in list => situation[c] = 1,
         list # {} => \A c \in Codes \ unseen : situation[c] = 1 => c \in list
  PROVE  ScanInv'
<1>0. GoodWalk(scan, Rows) /\ situation \in [Codes -> 0..Situations]
  BY DEF MirrorTyped
<1>1. CASE scan.pc # "idle"
  <2>1. UNCHANGED scan
    BY <1>0, <1>1, StartedIsGood
  <2> QED BY <2>1 DEF ScanInv, Ahead, Before, Listed
<1>2. CASE scan.pc = "idle"
  <2>1. /\ scan'.given = list /\ scan'.unseen = unseen /\ scan'.fresh = {} /\ scan'.page = 0
        /\ scan'.pc = IF list = {} THEN "pages" ELSE "given"
        /\ scan'.at = IF list = {} THEN 1 ELSE 2
    <3> DEFINE w == StartedWith(list, unseen)
    <3>1. /\ w.given = list /\ w.unseen = unseen /\ w.fresh = {} /\ w.page = 0
          /\ w.pc = IF list = {} THEN "pages" ELSE "given"
          /\ w.at = IF list = {} THEN 1 ELSE 2
      BY <1>2 DEF StartedWith, NoScan
    <3> HIDE DEF w
    <3>2. scan' = w
      BY DEF w
    <3> QED BY <3>1, <3>2
  <2>2. \A c \in Codes : Before(c, Listed(1)) >= 0 * Lote
    BY NoneBeforeTheFirst DEF Listed
  <2>3. ASSUME NEW c \in Codes \ unseen, situation[c] # 0
        PROVE  \/ scan'.pc = "given" /\ (situation[c] = 1 => c \in scan'.given)
               \/ /\ scan'.pc = "pages"
                  /\ \/ situation[c] > scan'.at
                     \/ situation[c] = scan'.at /\ Before(c, Listed(scan'.at)) >= scan'.page * Lote
    <3>1. CASE list # {}
      BY <2>1, <3>1
    <3>2. CASE list = {}
      <4>1. situation[c] > 1 \/ situation[c] = 1
        BY <1>0, <2>3, ScanAssumption
      <4>2. scan'.pc = "pages" /\ scan'.at = 1 /\ scan'.page = 0
        BY <2>1, <3>2
      <4> QED BY <2>2, <4>1, <4>2
    <3> QED BY <3>1, <3>2
  <2> QED BY <2>1, <2>3 DEF ScanInv, Ahead, Before, Listed
<1> QED BY <1>1, <1>2

LEMMA GivenTells ==
  ASSUME MirrorTyped, ScanInv, WritesGiven
  PROVE  ScanInv'
<1> DEFINE lote == {c \in scan.given : Before(c, scan.given) < Lote}
           pc == IF scan.given # lote THEN "given"
                 ELSE IF Situations > 1 THEN "pages" ELSE "count"
<1>0. /\ GoodWalk(scan, Rows) /\ situation \in [Codes -> 0..Situations]
      /\ row \in [Codes -> 0..Situations] /\ Situations \in Nat \ {0} /\ scan.pc = "given"
  BY ScanAssumption DEF MirrorTyped, WritesGiven
<1>1. lote \in SUBSET Codes /\ lote \in SUBSET scan.given
  BY <1>0 DEF Walk, GoodWalk
<1>2. /\ pc \in {"given", "pages", "count"} /\ (pc = "pages" => Situations > 1)
      /\ (pc # "given" => scan.given = lote) /\ (pc = "count" => Situations = 1)
  BY <1>0
<1>3. /\ scan' = [Counted(lote) EXCEPT !.given = @ \ lote, !.pc = pc]
      /\ Written(lote, 1) /\ UNCHANGED situation
  BY DEF WritesGiven
<1> HIDE DEF lote, pc
<1>4. \A c \in Codes : row'[c] = IF c \in lote THEN 1 ELSE row[c]
  BY <1>0, <1>1, <1>3, RowsWritten
<1>5. /\ scan'.pc = pc /\ scan'.at = 2 /\ scan'.page = 0
      /\ scan'.given = scan.given \ lote /\ scan'.fresh = scan.fresh \cup lote
      /\ scan'.unseen = scan.unseen
  <2> DEFINE w == [Counted(lote) EXCEPT !.given = @ \ lote, !.pc = pc]
  <2>1. /\ w.pc = pc /\ w.at = 2 /\ w.page = 0
        /\ w.given = scan.given \ lote /\ w.fresh = scan.fresh \cup lote
        /\ w.unseen = scan.unseen
    <3>1. scan \in Walk /\ scan.at = 2 /\ scan.page = 0
      BY <1>0 DEF GoodWalk
    <3> QED BY <3>1 DEF Counted, Walk
  <2> HIDE DEF w
  <2>2. scan' = w
    BY <1>3 DEF w
  <2> QED BY <2>1, <2>2
<1>6. \A c \in Codes : Before(c, Listed(2)) >= 0 * Lote
  BY NoneBeforeTheFirst DEF Listed
<1>7. \A c \in Codes \ scan.unseen :
        /\ c \in scan.fresh => row[c] = situation[c]
        /\ c \in scan.given => situation[c] = 1
        /\ situation[c] = 1 => c \in scan.fresh \/ c \in scan.given
  BY <1>0 DEF ScanInv, Working, Ahead
<1>8. ASSUME NEW c \in Codes \ scan.unseen
      PROVE  /\ c \in scan'.fresh => row'[c] = situation[c]
             /\ c \in scan'.given => situation[c] = 1
  BY <1>1, <1>4, <1>5, <1>7
<1>9. ASSUME NEW c \in Codes \ scan.unseen, situation[c] # 0, c \notin scan'.fresh
      PROVE  \/ scan'.pc = "given" /\ (situation[c] = 1 => c \in scan'.given)
             \/ /\ scan'.pc = "pages"
                /\ \/ situation[c] > scan'.at
                   \/ situation[c] = scan'.at /\ Before(c, Listed(scan'.at)) >= scan'.page * Lote
  <2>1. CASE pc = "given"
    BY <1>5, <1>7, <1>9, <2>1
  <2>2. CASE pc # "given"
    <3>1. situation[c] # 1
      BY <1>2, <1>5, <1>7, <1>9, <2>2
    <3>2. situation[c] \in 2..Situations
      BY <1>0, <1>9, <3>1
    <3>3. pc = "pages"
      BY <1>0, <1>2, <2>2, <3>2
    <3>4. situation[c] > 2 \/ situation[c] = 2
      BY <1>0, <3>2
    <3> QED BY <1>5, <1>6, <3>3, <3>4
  <2> QED BY <2>1, <2>2
<1> QED BY <1>3, <1>5, <1>8, <1>9 DEF ScanInv, Ahead, Before, Listed

LEMMA PageTells ==
  ASSUME MirrorTyped, ScanInv, WritesPage
  PROVE  ScanInv'
<1> DEFINE lote == Page(scan.at, scan.page)
<1>0. /\ GoodWalk(scan, Rows) /\ situation \in [Codes -> 0..Situations]
      /\ row \in [Codes -> 0..Situations] /\ Situations \in Nat \ {0} /\ scan.pc = "pages"
  BY ScanAssumption DEF MirrorTyped, WritesPage
<1>1. /\ scan \in Walk /\ scan.at \in 1..Situations /\ scan.page \in Nat
      /\ Cardinality(scan.fresh) <= scan.total /\ scan.at <= Situations
  BY <1>0 DEF GoodWalk, Walk
<1>2. /\ lote \in SUBSET Codes
      /\ \A c \in lote : situation[c] = scan.at
      /\ \A c \in Codes : situation[c] = scan.at <=> c \in Listed(scan.at)
  BY DEF Page, Listed
<1>3. scan' = NextPage(Counted(lote), lote) /\ Written(lote, scan.at) /\ UNCHANGED situation
  BY DEF WritesPage
<1>4. ASSUME NEW c \in Listed(scan.at), Before(c, Listed(scan.at)) >= scan.page * Lote,
             c \notin lote
      PROVE  ~ShortPage(lote) /\ Before(c, Listed(scan.at)) >= (scan.page + 1) * Lote
  BY <1>1, <1>4, ShortPageIsLast, PastThePage
<1> HIDE DEF lote
<1>5. \A c \in Codes : row'[c] = IF c \in lote THEN scan.at ELSE row[c]
  BY <1>0, <1>1, <1>2, <1>3, RowsWritten
<1> DEFINE w == Counted(lote)
<1>6. /\ w \in Walk /\ w.fresh = scan.fresh \cup lote /\ w.pc = scan.pc /\ w.at = scan.at
      /\ w.page = scan.page /\ w.given = scan.given /\ w.unseen = scan.unseen
  BY <1>1, <1>2, CountedIsGood
<1> HIDE DEF w
<1>7. /\ scan'.fresh = w.fresh /\ scan'.unseen = w.unseen /\ scan'.given = w.given
      /\ scan'.pc \in {"pages", "count"}
      /\ ~ShortPage(lote) => scan'.pc = "pages" /\ scan'.at = w.at /\ scan'.page = w.page + 1
      /\ ShortPage(lote) /\ scan'.pc = "pages" => scan'.at = w.at + 1 /\ scan'.page = 0
      /\ ShortPage(lote) /\ scan'.pc = "count" => w.at = Situations
  <2>1. scan' = NextPage(w, lote)
    BY <1>3 DEF w
  <2> QED BY <1>0, <1>1, <1>6, <2>1, NextPageIsGood
<1>8. \A c \in Codes \ scan.unseen :
        /\ c \in scan.fresh => row[c] = situation[c]
        /\ c \in scan.given => situation[c] = 1
        /\ situation[c] # 0 /\ c \notin scan.fresh =>
             \/ situation[c] > scan.at
             \/ situation[c] = scan.at /\ Before(c, Listed(scan.at)) >= scan.page * Lote
  BY <1>0 DEF ScanInv, Working, Ahead
<1>9. ASSUME NEW c \in Codes \ scan.unseen
      PROVE  /\ c \in scan'.fresh => row'[c] = situation[c]
             /\ c \in scan'.given => situation[c] = 1
  BY <1>2, <1>5, <1>6, <1>7, <1>8
<1>10. ASSUME NEW c \in Codes \ scan.unseen, situation[c] # 0, c \notin scan'.fresh
       PROVE  /\ scan'.pc = "pages"
              /\ \/ situation[c] > scan'.at
                 \/ situation[c] = scan'.at /\ Before(c, Listed(scan'.at)) >= scan'.page * Lote
  <2>0. situation[c] \in 1..Situations /\ c \notin scan.fresh /\ c \notin lote
    BY <1>0, <1>6, <1>7, <1>10
  <2>1. CASE situation[c] = scan.at
    BY <1>2, <1>4, <1>6, <1>7, <1>8, <1>10, <2>0, <2>1
  <2>2. CASE situation[c] > scan.at /\ ~ShortPage(lote)
    BY <1>6, <1>7, <2>2
  <2>3. CASE situation[c] > scan.at /\ ShortPage(lote)
    <3>1. scan.at # Situations
      BY <1>1, <2>0, <2>3
    <3>2. scan'.pc = "pages" /\ scan'.at = scan.at + 1 /\ scan'.page = 0
      BY <1>6, <1>7, <2>3, <3>1
    <3>3. situation[c] > scan.at + 1 \/ situation[c] = scan.at + 1
      BY <1>1, <2>0, <2>3
    <3>4. Before(c, Listed(scan.at + 1)) >= 0 * Lote
      BY NoneBeforeTheFirst DEF Listed
    <3> QED BY <3>2, <3>3, <3>4
  <2> QED BY <1>8, <1>10, <2>0, <2>1, <2>2, <2>3
<1> QED BY <1>3, <1>6, <1>7, <1>9, <1>10 DEF ScanInv, Ahead, Before, Listed

LEMMA ScanInvStep ==
  ASSUME MirrorTyped, MirrorTyped', ReadInv, ScanInv, MirrorStep
  PROVE  ScanInv'
<1>0. /\ GoodWalk(scan, Rows) /\ scan \in Walk /\ actives \in Reading
      /\ situation \in [Codes -> 0..Situations] /\ Situations \in Nat \ {0}
  BY ScanAssumption DEF MirrorTyped, GoodWalk
<1>c. \A s : Listed(s) \in SUBSET Codes /\ \A p : Page(s, p) \in SUBSET Codes
  BY DEF Listed, Page
<1>1. CASE \E c \in Codes, s \in 0..Situations : CarMoves(c, s)
  <2> PICK b \in Codes, s \in 0..Situations : CarMoves(b, s)
    BY <1>1
  <2> DEFINE shifted == {b} \cup {d \in Listed(situation[b]) : situation[b] # 0 /\ d > b}
  <2>1. shifted \in SUBSET Codes
    BY <1>c
  <2>2. /\ scan' = IF scan.pc \in {"given", "pages", "count", "sweep"}
                   THEN Disturbed(scan, shifted) ELSE scan
        /\ situation' = [situation EXCEPT ![b] = s] /\ UNCHANGED row
    BY DEF CarMoves, Disturbed
  <2>3. \A c \in Codes \ shifted :
          c # b /\ (situation[b] # 0 => ~(c \in Listed(situation[b]) /\ c > b))
    OBVIOUS
  <2>4. \A c \in Codes \ shifted :
          /\ situation'[c] = situation[c]
          /\ \A t \in 1..Situations, k \in Nat :
               situation[c] = t /\ Before(c, Listed(t)) >= k
                 => Before(c, {d \in Codes : situation'[d] = t}) >= k
    BY <1>0, <2>2, <2>3, UnshiftedKeepsItsPlace
  <2> HIDE DEF shifted
  <2>5. CASE scan.pc \notin Working
    BY <2>2, <2>5 DEF ScanInv, Working
  <2>6. CASE scan.pc \in Working
    <3>1. /\ scan'.pc = scan.pc /\ scan'.at = scan.at /\ scan'.page = scan.page
          /\ scan'.given = scan.given /\ scan'.fresh = scan.fresh
          /\ scan'.unseen = scan.unseen \cup shifted
      BY <1>0, <2>1, <2>2, <2>6, DisturbedIsGood DEF Working
    <3>2. scan.page * Lote \in Nat /\ (scan.pc = "pages" => scan.at \in 1..Situations)
      BY <1>0, ScanAssumption DEF Walk, GoodWalk
    <3>3. \A c \in Codes \ scan'.unseen :
            /\ c \in scan.fresh => row[c] = situation[c]
            /\ c \in scan.given => situation[c] = 1
            /\ situation[c] # 0 => c \in scan.fresh \/ Ahead(c)
      BY <2>6, <3>1 DEF ScanInv
    <3>4. ASSUME NEW c \in Codes \ scan'.unseen, Ahead(c)
          PROVE  \/ scan.pc = "given" /\ (situation'[c] = 1 => c \in scan.given)
                 \/ /\ scan.pc = "pages"
                    /\ \/ situation'[c] > scan.at
                       \/ /\ situation'[c] = scan.at
                          /\ Before(c, {d \in Codes : situation'[d] = scan.at}) >= scan.page * Lote
      <4>1. c \in Codes \ shifted
        BY <3>1
      <4> QED BY <2>4, <3>2, <3>4, <4>1 DEF Ahead
    <3>5. \A c \in Codes \ scan'.unseen : situation'[c] = situation[c]
      BY <2>4, <3>1
    <3>6. \A c \in Codes \ scan'.unseen :
            situation'[c] # 0 => \/ c \in scan'.fresh
                                 \/ scan'.pc = "given" /\ (situation'[c] = 1 => c \in scan'.given)
                                 \/ /\ scan'.pc = "pages"
                                    /\ \/ situation'[c] > scan'.at
                                       \/ /\ situation'[c] = scan'.at
                                          /\ Before(c, {d \in Codes : situation'[d] = scan'.at})
                                               >= scan'.page * Lote
      BY <3>1, <3>3, <3>4, <3>5
    <3> HIDE <3>4
    <3>7. \A c \in Codes \ scan'.unseen :
            /\ c \in scan'.fresh => row'[c] = situation'[c]
            /\ c \in scan'.given => situation'[c] = 1
      BY <2>2, <3>1, <3>3, <3>5
    <3> QED BY <3>6, <3>7 DEF ScanInv, Ahead, Before, Listed
  <2> QED BY <2>5, <2>6
<1>2. CASE HandsOver
  <2>1. actives.list \in SUBSET Codes /\ actives.unseen \in SUBSET Codes
    BY <1>0 DEF Reading
  <2>2. /\ actives.pc = "read" /\ UNCHANGED <<situation, row>>
        /\ scan' = StartedWith(actives.list, actives.unseen)
    BY <1>2 DEF HandsOver
  <2>3. \A c \in Codes \ actives.unseen : c \in actives.list <=> situation[c] = 1
    BY <2>2 DEF ReadInv
  <2> QED BY <2>1, <2>2, <2>3, StartedTells
<1>4. ASSUME UNCHANGED <<situation, row, scan>> PROVE ScanInv'
  BY <1>4 DEF ScanInv, Ahead, Before, Listed
<1>5. CASE FirstLoad
  <2>1. CASE UNCHANGED scan
    BY <1>4, <1>5, <2>1 DEF FirstLoad
  <2>2. CASE scan' = StartedWith({}, {})
    <3>1. UNCHANGED <<situation, row>>
      BY <1>5 DEF FirstLoad
    <3> QED BY <2>2, <3>1, StartedTells
  <2> QED BY <1>5, <2>1, <2>2 DEF FirstLoad
<1>6. CASE WritesGiven
  BY <1>6, GivenTells
<1>7. CASE WritesPage
  BY <1>7, PageTells
<1>8. CASE EmptyPage
  <2> DEFINE w == NextPage(scan, {})
  <2>0. scan.pc = "pages" /\ scan.at \in 1..Situations /\ scan.at <= Situations
    BY <1>0, <1>8 DEF EmptyPage, Walk, GoodWalk
  <2>1. ShortPage({})
    BY FS_EmptySet, ScanAssumption DEF ShortPage
  <2>2. /\ w \in Walk /\ w.pc \in {"pages", "count"}
        /\ w.fresh = scan.fresh /\ w.unseen = scan.unseen /\ w.given = scan.given
        /\ w.pc = "pages" => w.at = scan.at + 1 /\ w.page = 0
        /\ w.pc = "count" => scan.at = Situations
    BY <1>0, <2>0, <2>1, NextPageIsGood
  <2>3. scan' = Disturbed(w, Listed(scan.at)) /\ UNCHANGED <<situation, row>>
    BY <1>8 DEF EmptyPage, Disturbed
  <2> HIDE DEF w
  <2>4. /\ scan'.pc = w.pc /\ scan'.at = w.at /\ scan'.page = w.page /\ scan'.given = w.given
        /\ scan'.fresh = w.fresh /\ scan'.unseen = w.unseen \cup Listed(scan.at)
    BY <1>c, <2>2, <2>3, DisturbedIsGood
  <2>5. \A c \in Codes \ scan'.unseen :
          /\ c \in scan.fresh => row[c] = situation[c]
          /\ c \in scan.given => situation[c] = 1
          /\ situation[c] # 0 => c \in scan.fresh \/ situation[c] > scan.at
    BY <2>0, <2>2, <2>4 DEF ScanInv, Working, Ahead, Listed
  <2>6. ASSUME NEW c \in Codes, situation[c] > scan.at
        PROVE  /\ scan'.pc = "pages"
               /\ \/ situation[c] > scan'.at
                  \/ situation[c] = scan'.at /\ Before(c, Listed(scan'.at)) >= scan'.page * Lote
    <3>1. situation[c] \in 1..Situations /\ scan.at # Situations
      BY <1>0, <2>0, <2>6
    <3>2. scan'.pc = "pages" /\ scan'.at = scan.at + 1 /\ scan'.page = 0
      BY <2>2, <2>4, <3>1
    <3>3. situation[c] > scan.at + 1 \/ situation[c] = scan.at + 1
      BY <2>0, <2>6, <3>1
    <3>4. Before(c, Listed(scan.at + 1)) >= 0 * Lote
      BY <1>c, NoneBeforeTheFirst
    <3> QED BY <3>2, <3>3, <3>4
  <2> QED BY <2>2, <2>3, <2>4, <2>5, <2>6 DEF ScanInv, Ahead, Before, Listed
<1>9. CASE Counts
  <2>1. CASE scan' = NoScan
    BY <2>1, NoScanIsGood DEF ScanInv, Working
  <2>2. CASE scan' = [scan EXCEPT !.pc = "sweep"]
    <3>1. /\ scan.pc = "count" /\ scan'.pc = "sweep" /\ scan'.given = scan.given
          /\ scan'.fresh = scan.fresh /\ scan'.unseen = scan.unseen
      BY <1>0, <1>9, <2>2 DEF Counts, Walk
    <3> QED BY <1>9, <3>1 DEF Counts, ScanInv, Working, Ahead
  <2> QED BY <1>9, <2>1, <2>2 DEF Counts
<1>10. ASSUME scan'.pc \notin Working PROVE ScanInv'
  BY <1>10 DEF ScanInv
<1>11. CASE Sweeps \/ Aligns \/ TypesBikes \/ TypesCars \/ ScanFails \/ BackendRestarts
  <2>1. scan'.pc \notin Working
    BY <1>0, <1>11, NoScanIsGood
       DEF Sweeps, Aligns, TypesBikes, TypesCars, ScanFails, AfterFailure, BackendRestarts,
           Working, Walk
  <2> QED BY <1>10, <2>1
<1>12. CASE \/ \E c \in Codes : EditsType(c) \/ ContractChanges(c) \/ CarIsFitted(c)
            \/ ReadingStarts \/ ReadsActives \/ Refuses \/ ReadingFails
            \/ ReadingCutShort \/ AssociatesCutShort \/ UNCHANGED mirrorVars
  <2>1. UNCHANGED <<situation, row, scan>>
    BY <1>12 DEF EditsType, ContractChanges, CarIsFitted, ReadingStarts, ReadsActives, Refuses,
                 ReadingFails, ReadingCutShort, AssociatesCutShort, mirrorVars
  <2> QED BY <1>4, <2>1
<1> QED BY <1>1, <1>2, <1>5, <1>6, <1>7, <1>8, <1>9, <1>11, <1>12, Zenon DEF MirrorStep

-------------------------------------------------------------------------------

MirrorInv == MirrorTyped /\ ReadInv /\ ScanInv

LEMMA MirrorInvariant ==
  /\ MirrorInit => MirrorInv
  /\ MirrorInv /\ [MirrorNext]_mirrorVars => MirrorInv'
<1>1. ASSUME MirrorInit PROVE MirrorInv
  <2>1. MirrorTyped
    BY <1>1, NoScanIsGood, NoReadingIsTyped, MirrorBoundsAssumption, ScanAssumption
       DEF MirrorInit, MirrorTyped
  <2>2. ReadInv /\ ScanInv
    BY <1>1, NoScanIsGood, NoReadingIsTyped DEF MirrorInit, ReadInv, ScanInv, Working
  <2> QED BY <2>1, <2>2 DEF MirrorInv
<1>2. ASSUME MirrorInv, [MirrorNext]_mirrorVars PROVE MirrorInv'
  <2>1. MirrorTyped /\ ReadInv /\ ScanInv /\ MirrorStep
    BY <1>2, MirrorNextIsAStep DEF MirrorInv
  <2>2. MirrorTyped'
    BY <2>1, MirrorTypeStep
  <2> QED BY <2>1, <2>2, ReadStep, ScanInvStep DEF MirrorInv
<1> QED BY <1>1, <1>2

(* Each state of the mirror has its type: above all, the rows the scan says  *)
(* it wrote are rows of the table and no more than it counted.               *)
THEOREM MirrorTypeTheorem == MirrorSpec => []MirrorTypeOK
<1>1. MirrorInv => MirrorTypeOK
  BY MirrorTypeMeans DEF MirrorInv
<1> QED BY <1>1, MirrorInvariant, PTL DEF MirrorSpec

(* At a sweep nothing is ahead any more.                                     *)
LEMMA SweepKnows ==
  ASSUME MirrorInv, scan.pc = "sweep"
  PROVE  \A c \in Codes \ scan.unseen :
           /\ c \in scan.fresh => row[c] = situation[c]
           /\ situation[c] # 0 => c \in scan.fresh
BY DEF MirrorInv, ScanInv, Working, Ahead

(* A row goes only in a sweep, and the sweep of gravarPagina's deleteMany    *)
(* spares every car the SGA still lists, if nothing moved it or its page     *)
(* while the scan or the reading it was handed was under way.                *)
THEOREM SweepTheorem == MirrorSpec => SweepSparesTheListed
<1>1. ASSUME MirrorInv, [MirrorNext]_mirrorVars
      PROVE  [\A c \in Codes : row[c] # 0 /\ row'[c] = 0 =>
                situation[c] = 0 \/ c \in scan.unseen]_mirrorVars
  <2> SUFFICES ASSUME NEW c \in Codes, row[c] # 0, row'[c] = 0, c \notin scan.unseen
               PROVE  situation[c] = 0
    OBVIOUS
  <2>0. GoodWalk(scan, Rows) /\ row \in [Codes -> 0..Situations]
    BY <1>1 DEF MirrorInv, MirrorTyped
  <2>1. MirrorStep
    BY <1>1, MirrorNextIsAStep
  <2>2. ASSUME NEW cars \in SUBSET Codes, NEW s \in 1..Situations, Written(cars, s)
        PROVE  FALSE
    <3>1. row'[c] = (IF c \in cars THEN s ELSE row[c])
      BY <2>0, <2>2, RowsWritten
    <3>2. s # 0
      BY ScanAssumption
    <3> QED BY <3>1, <3>2
  <2>3. ~WritesGiven
    <3>1. {d \in scan.given : Before(d, scan.given) < Lote} \in SUBSET Codes /\ 1 \in 1..Situations
      BY <2>0, ScanAssumption DEF GoodWalk, Walk
    <3> QED BY <2>2, <3>1 DEF WritesGiven
  <2>4. ~WritesPage
    <3> SUFFICES ASSUME WritesPage PROVE FALSE
      OBVIOUS
    <3>1. Page(scan.at, scan.page) \in SUBSET Codes /\ scan.at \in 1..Situations
      BY <2>0, ScanAssumption DEF WritesPage, GoodWalk, Walk, Page, Listed
    <3> QED BY <2>2, <3>1 DEF WritesPage
  <2>5. row' # row
    OBVIOUS
  <2>6. Sweeps
    BY <2>1, <2>3, <2>4, <2>5
       DEF MirrorStep, EditsType, ContractChanges, CarIsFitted, CarMoves, ReadingStarts,
           ReadsActives, HandsOver, Refuses, FirstLoad, ReadingFails, ReadingCutShort,
           AssociatesCutShort, Counts, Aligns, TypesBikes, TypesCars, EmptyPage,
           ScanFails, BackendRestarts, mirrorVars
  <2>7. scan.pc = "sweep" /\ c \notin scan.fresh
    BY <2>6 DEF Sweeps, Stale
  <2> QED BY <1>1, <2>7, SweepKnows
<1> QED BY <1>1, MirrorInvariant, PTL DEF MirrorSpec, SweepSparesTheListed

(* A scan that no change of the SGA crossed and no empty page cut leaves the *)
(* table exactly as the SGA is.                                              *)
THEOREM ExactTheorem == MirrorSpec => UndisturbedScanIsExact
<1>1. ASSUME MirrorInv, [MirrorNext]_mirrorVars
      PROVE  [scan.pc = "sweep" /\ scan'.pc = "align" /\ scan.unseen = {} =>
                row' = situation]_mirrorVars
  <2> SUFFICES ASSUME scan.pc = "sweep", scan'.pc = "align", scan.unseen = {}
               PROVE  row' = situation
    OBVIOUS
  <2>0. /\ GoodWalk(scan, Rows) /\ scan \in Walk
        /\ row \in [Codes -> 0..Situations] /\ situation \in [Codes -> 0..Situations]
    BY <1>1 DEF MirrorInv, MirrorTyped, GoodWalk
  <2>1. MirrorStep
    BY <1>1, MirrorNextIsAStep
  <2>2. ~(\E c \in Codes, s \in 0..Situations : CarMoves(c, s))
    <3> SUFFICES ASSUME NEW c \in Codes, NEW s \in 0..Situations, CarMoves(c, s) PROVE FALSE
      OBVIOUS
    <3>1. \E cars : scan' = [scan EXCEPT !.unseen = @ \cup cars]
      BY DEF CarMoves
    <3> QED BY <2>0, <3>1 DEF Walk
  <2>3. ~HandsOver /\ ~FirstLoad
    BY DEF HandsOver, FirstLoad, StartedWith
  <2>4. Sweeps
    BY <2>1, <2>2, <2>3, NoScanIsGood
       DEF MirrorStep, EditsType, ContractChanges, CarIsFitted, ReadingStarts, ReadsActives,
           Refuses, ReadingFails, ReadingCutShort, AssociatesCutShort,
           WritesGiven, WritesPage, Counts, Aligns, TypesBikes, TypesCars, EmptyPage,
           ScanFails, AfterFailure, BackendRestarts, mirrorVars
  <2>5. row' = [c \in Codes |-> IF c \in Stale THEN 0 ELSE row[c]]
    BY <2>4 DEF Sweeps
  <2>6. \A c \in Codes : row'[c] = situation[c]
    BY <1>1, <2>0, <2>5, SweepKnows DEF Stale, Rows, GoodWalk
  <2> QED BY <2>0, <2>5, <2>6
<1> QED BY <1>1, MirrorInvariant, PTL DEF MirrorSpec, UndisturbedScanIsExact

-------------------------------------------------------------------------------
(* ReverseGeocode.                                                           *)

(* The part of the type that the gate is about.                              *)
GateTyped ==
  /\ call \in [Callers -> Call]
  /\ slot \in Nat
  /\ blocked \in [Providers -> 0..Penalty]
  /\ sinceCall \in 0..Interval

AtGate(q) == call[q].pc = "gate"

(* The places at the gate are an interval apart, the last one is an interval *)
(* before the gate is free, and the first one is an interval after the last  *)
(* call.                                                                     *)
PlacesApart ==
  \A q, r \in Callers :
    q # r /\ AtGate(q) /\ AtGate(r) =>
      \/ call[q].wait + Interval <= call[r].wait
      \/ call[r].wait + Interval <= call[q].wait
PlacesBeforeSlot ==
  \A q \in Callers : AtGate(q) => call[q].wait + Interval <= slot
PlacesAfterCall ==
  \A q \in Callers : AtGate(q) => Interval <= sinceCall + call[q].wait
SlotAfterCall == Interval <= sinceCall + slot
GateInv == PlacesApart /\ PlacesBeforeSlot /\ PlacesAfterCall /\ SlotAfterCall

(* During a penalty the gate holds only who was there when it began.         *)
PenaltyInv ==
  \A q \in Callers : AtGate(q) => blocked["nominatim"] = 0 \/ call[q].early

-------------------------------------------------------------------------------
(* Types.                                                                    *)

LEMMA IdleIsACall ==
  /\ NoCall \in Call /\ NoCall.pc = "idle" /\ NoCall.point = NoPoint
  /\ \A q : After(q) \in Call
  /\ \A q : After(q).pc = (IF q = Worker THEN "loop" ELSE "idle")
  /\ \A q : After(q).point = NoPoint
  /\ \A p \in Points : \A pc \in {"own", "missed"} :
       At(pc, p) \in Call /\ At(pc, p).pc = pc /\ At(pc, p).point = p
BY DEF NoCall, After, At, Call

LEMMA WorkerIsACaller == Worker \in Callers
BY DEF Callers

(* What becomes of the call of q when it is resolved.                        *)
LEMMA ResolvedCall ==
  ASSUME GateTyped, NEW q \in Callers, NEW p \in Points, ToNominatim(q, p)
  PROVE  /\ slot' \in Nat
         /\ \E c \in Call :
              /\ call' = [call EXCEPT ![q] = c]
              /\ c.pc \in {"idle", "loop"} <=> c.point = NoPoint
              /\ c.pc \notin {"missed", "asked"}
              /\ q = Worker => c.pc # "idle"
              /\ c.pc = "gate" => /\ c.wait = slot /\ slot' = slot + Interval
                                  /\ blocked["nominatim"] = 0
              /\ c.pc # "gate" => slot' = slot
<1> USE PaceAssumption, CallersAssumption
<1>1. CASE MayCall
  <2> DEFINE c == [pc |-> "gate", point |-> p, wait |-> slot, early |-> FALSE]
  <2>1. c \in Call /\ c.pc = "gate" /\ c.point = p /\ c.wait = slot
    BY DEF Call, GateTyped
  <2>2. call' = [call EXCEPT ![q] = c] /\ slot' = slot + Interval
    BY <1>1 DEF ToNominatim, SlotAfter
  <2>3. c.point # NoPoint
    BY <2>1
  <2>4. blocked["nominatim"] = 0 /\ slot' \in Nat
    BY <1>1, <2>2 DEF MayCall, GateTyped
  <2> HIDE DEF c
  <2> QED BY <2>1, <2>2, <2>3, <2>4
<1>2. CASE ~MayCall
  <2>1. call' = [call EXCEPT ![q] = After(q)] /\ slot' = slot
    BY <1>2 DEF ToNominatim
  <2> QED BY <2>1, IdleIsACall DEF GateTyped
<1> QED BY <1>1, <1>2

(* A step that gives one caller another call, which takes a place at the gate *)
(* if it is to wait there.                                                   *)
Moves(q) ==
  /\ slot' \in Nat
  /\ \E c \in Call :
       /\ call' = [call EXCEPT ![q] = c]
       /\ c.pc \in {"idle", "loop"} <=> c.point = NoPoint
       /\ c.pc # "asked"
       /\ IF q = Worker THEN c.pc = "idle" <=> ~working' ELSE working' <=> working
       /\ c.pc = "gate" => /\ c.wait = slot /\ slot' = slot + Interval
                           /\ blocked["nominatim"] = 0
       /\ c.pc # "gate" => slot' = slot
Penalised ==
  /\ blocked' \in [Providers -> 0..Penalty]
  /\ blocked'["nominatim"] = blocked["nominatim"]
GateMove == sinceCall' = sinceCall /\ Penalised /\ \E q \in Callers : Moves(q)

WorkerIsMarked == working <=> call[Worker].pc # "idle"
PointsAreKept == \A q \in Callers : call[q].pc \in {"idle", "loop"} <=> call[q].point = NoPoint

LEMMA ToNominatimMoves ==
  ASSUME GateTyped, NEW q \in Callers, NEW p \in Points, ToNominatim(q, p),
         IF q = Worker THEN working' ELSE working' <=> working
  PROVE  Moves(q)
BY ResolvedCall DEF Moves

LEMMA ResolveMoves ==
  ASSUME GateTyped, NEW q \in Callers, NEW p \in Points, Resolve(q, p),
         IF q = Worker THEN working' ELSE working' <=> working
  PROVE  Moves(q)
<1>1. CASE OwnGeocoder /\ blocked["own"] = 0
  <2>1. At("own", p) \in Call /\ At("own", p).pc = "own" /\ At("own", p).point = p
    BY IdleIsACall
  <2>2. p # NoPoint
    BY CallersAssumption
  <2>3. call' = [call EXCEPT ![q] = At("own", p)] /\ slot' = slot
    BY <1>1 DEF Resolve
  <2> QED BY <2>1, <2>2, <2>3 DEF Moves, GateTyped
<1>2. CASE ~(OwnGeocoder /\ blocked["own"] = 0)
  BY <1>2, ToNominatimMoves DEF Resolve
<1> QED BY <1>1, <1>2

(* Who is done goes back to where he came from.                              *)
LEMMA AfterMoves ==
  ASSUME GateTyped, NEW q \in Callers, call' = [call EXCEPT ![q] = After(q)],
         slot' = slot, IF q = Worker THEN working' ELSE working' <=> working
  PROVE  Moves(q)
<1>1. /\ After(q) \in Call /\ After(q).point = NoPoint
      /\ After(q).pc = (IF q = Worker THEN "loop" ELSE "idle")
  BY IdleIsACall
<1> QED BY <1>1 DEF Moves, GateTyped

-------------------------------------------------------------------------------
(* Every step but a call, a refusal and the clock is a move or leaves the    *)
(* gate alone.                                                               *)

GateVars == <<call, slot, blocked, sinceCall>>

LEMMA PenaltyStays ==
  ASSUME GateTyped, blocked' = blocked
  PROVE  Penalised
BY DEF GateTyped, Penalised

LEMMA CallStepMoves ==
  ASSUME GateTyped, WorkerIsMarked, PointsAreKept, NEW q \in Callers, CallStep(q)
  PROVE  GateMove \/ NominatimIsCalled(q) \/ NominatimRefuses(q)
<1>1. call[q].pc # "idle" /\ q = Worker => working
  BY DEF WorkerIsMarked
<1>2. call[q].pc \notin {"idle", "loop"} => call[q].point \in Points
  BY DEF GateTyped, Call, PointsAreKept
<1>3. CASE PointResolves(q)
  BY <1>1, <1>2, <1>3, ResolveMoves, PenaltyStays DEF PointResolves, Resolve, GateMove
<1>4. CASE OwnAnswers(q) \/ NominatimAnswers(q)
  <2>1. Answered(q) /\ call[q].pc # "idle"
    BY <1>4 DEF OwnAnswers, NominatimAnswers
  <2> QED BY <1>1, <2>1, AfterMoves, PenaltyStays DEF Answered, GateMove
<1>5. CASE OwnFails(q)
  BY <1>1, <1>2, <1>5, ToNominatimMoves, PenaltyStays DEF OwnFails, GateMove
<1>6. CASE OwnRefuses(q)
  <2>1. Penalised
    <3>1. PICK d \in 1..Penalty : blocked' = [blocked EXCEPT !["own"] = d]
      BY <1>6 DEF OwnRefuses
    <3> QED BY <3>1, PaceAssumption DEF GateTyped, Penalised, Providers
  <2> QED BY <1>1, <1>2, <1>6, <2>1, ToNominatimMoves DEF OwnRefuses, GateMove
<1> QED BY <1>3, <1>4, <1>5, <1>6 DEF CallStep

LEMMA OtherStepMoves ==
  ASSUME GateTyped, WorkerIsMarked,
         \/ \E q \in Callers, p \in Points : PointMissed(q, p)
         \/ \E ps \in SUBSET Points : ListMissed(ps)
         \/ \E p \in Points : Enqueue(p)
         \/ WorkerStep,
         queue \in Seq(Points)
  PROVE  GateMove \/ (UNCHANGED GateVars /\ (working' <=> working))
<1>1. CASE \E q \in Callers, p \in Points : PointMissed(q, p)
  <2>1. PICK q \in Callers, p \in Points : PointMissed(q, p)
    BY <1>1
  <2>2. At("missed", p) \in Call /\ At("missed", p).pc = "missed"
        /\ At("missed", p).point = p /\ p # NoPoint
    BY IdleIsACall, CallersAssumption
  <2>3. Moves(q)
    BY <2>1, <2>2 DEF PointMissed, Moves, GateTyped
  <2> QED BY <2>1, <2>3, PenaltyStays DEF PointMissed, GateMove
<1>2. CASE \E ps \in SUBSET Points : ListMissed(ps)
  BY <1>2 DEF ListMissed, GateVars
<1>3. CASE \E p \in Points : Enqueue(p)
  <2>1. PICK p \in Points : Enqueue(p)
    BY <1>3
  <2>2. CASE Admitted(p) /\ ~working
    <3>1. call' = [call EXCEPT ![Worker] = After(Worker)] /\ working' /\ slot' = slot
          /\ blocked' = blocked /\ sinceCall' = sinceCall
      BY <2>1, <2>2 DEF Enqueue
    <3> QED BY <3>1, AfterMoves, WorkerIsACaller, PenaltyStays DEF GateMove
  <2>3. CASE ~(Admitted(p) /\ ~working)
    BY <2>1, <2>3 DEF Enqueue, GateVars
  <2> QED BY <2>2, <2>3
<1>4. CASE WorkerTakes
  <2>1. Head(queue) \in Points
    BY <1>4 DEF WorkerTakes
  <2>2. working' = TRUE
    BY <1>4 DEF WorkerTakes, WorkerIsMarked
  <2> QED BY <1>4, <2>1, <2>2, ResolveMoves, WorkerIsACaller, PenaltyStays
          DEF WorkerTakes, Resolve, GateMove
<1>5. CASE WorkerStops
  <2>1. /\ call' = [call EXCEPT ![Worker] = NoCall] /\ slot' = slot
        /\ blocked' = blocked /\ sinceCall' = sinceCall /\ ~working'
    BY <1>5 DEF WorkerStops, WorkingAfter
  <2>2. Moves(Worker)
    BY <2>1, IdleIsACall DEF Moves, GateTyped
  <2> QED BY <2>1, <2>2, WorkerIsACaller, PenaltyStays DEF GateMove
<1> QED BY <1>1, <1>2, <1>3, <1>4, <1>5 DEF WorkerStep

-------------------------------------------------------------------------------
(* The gate and the calls stay well typed.                                   *)

CallsTyped == GateTyped /\ WorkerIsMarked /\ PointsAreKept

LEMMA MoveKeepsCallsTyped ==
  ASSUME CallsTyped, GateMove
  PROVE  CallsTyped'
<1>1. PICK q \in Callers : Moves(q)
  BY DEF GateMove
<1>2. PICK c \in Call :
        /\ call' = [call EXCEPT ![q] = c]
        /\ c.pc \in {"idle", "loop"} <=> c.point = NoPoint
        /\ IF q = Worker THEN c.pc = "idle" <=> ~working' ELSE working' <=> working
  BY <1>1 DEF Moves
<1>3. /\ call \in [Callers -> Call] /\ sinceCall' \in 0..Interval /\ slot' \in Nat
      /\ blocked' \in [Providers -> 0..Penalty]
  BY <1>1 DEF CallsTyped, GateTyped, GateMove, Penalised, Moves
<1>4. GateTyped'
  BY <1>2, <1>3 DEF GateTyped
<1>5. PointsAreKept'
  BY <1>2, <1>3 DEF CallsTyped, PointsAreKept
<1>6. WorkerIsMarked'
  BY <1>2, <1>3, WorkerIsACaller DEF CallsTyped, WorkerIsMarked
<1> QED BY <1>4, <1>5, <1>6 DEF CallsTyped

LEMMA CalledKeepsCallsTyped ==
  ASSUME CallsTyped, NEW q \in Callers, NominatimIsCalled(q)
  PROVE  CallsTyped'
<1>1. /\ call \in [Callers -> Call] /\ call[q].pc = "gate"
      /\ call' = [call EXCEPT ![q].pc = "asked"] /\ sinceCall' = 0
      /\ slot' = slot /\ blocked' = blocked /\ working' = working
  BY DEF CallsTyped, GateTyped, NominatimIsCalled
<1>2. [call[q] EXCEPT !.pc = "asked"] \in Call
  BY <1>1 DEF Call
<1>3. call' \in [Callers -> Call]
  BY <1>1, <1>2
<1>4. GateTyped'
  BY <1>1, <1>3, PaceAssumption DEF CallsTyped, GateTyped
<1>5. \A r \in Callers : /\ call'[r].point = call[r].point
                         /\ call'[r].pc = IF r = q THEN "asked" ELSE call[r].pc
  BY <1>1 DEF Call
<1> QED BY <1>1, <1>4, <1>5, WorkerIsACaller DEF CallsTyped, PointsAreKept, WorkerIsMarked

LEMMA RefusedKeepsCallsTyped ==
  ASSUME CallsTyped, NEW q \in Callers, NominatimRefuses(q)
  PROVE  CallsTyped'
<1>1. /\ call \in [Callers -> Call] /\ call[q].pc = "asked"
      /\ slot' = slot /\ sinceCall' = sinceCall /\ working' = working
      /\ call' = [r \in Callers |->
                    IF r = q THEN After(q)
                    ELSE [call[r] EXCEPT !.early = (call[r].pc = "gate")]]
  BY DEF CallsTyped, GateTyped, NominatimRefuses
<1>2. \A r \in Callers \ {q} : /\ call'[r] \in Call
                               /\ call'[r].pc = call[r].pc
                               /\ call'[r].point = call[r].point
  BY <1>1 DEF Call
<1>3. call'[q] = After(q)
  BY <1>1
<1>4. blocked' \in [Providers -> 0..Penalty]
  <2>1. PICK d \in 1..Penalty : blocked' = [blocked EXCEPT !["nominatim"] = d]
    BY DEF NominatimRefuses
  <2> QED BY <2>1, PaceAssumption DEF CallsTyped, GateTyped, Providers
<1>5. call' \in [Callers -> Call]
  BY <1>1, <1>2, <1>3, IdleIsACall
<1>6. GateTyped'
  BY <1>1, <1>4, <1>5 DEF CallsTyped, GateTyped
<1>7. PointsAreKept' /\ WorkerIsMarked'
  BY <1>1, <1>2, <1>3, IdleIsACall, WorkerIsACaller
     DEF CallsTyped, PointsAreKept, WorkerIsMarked
<1> QED BY <1>6, <1>7 DEF CallsTyped

LEMMA TickTurns ==
  ASSUME CallsTyped, GeoTick
  PROVE  /\ CallsTyped'
         /\ \A q \in Callers : /\ call'[q].pc = call[q].pc
                               /\ call'[q].early = call[q].early
                               /\ call'[q].wait = Less(call[q].wait)
<1>1. /\ call \in [Callers -> Call] /\ working' = working
      /\ call' = [q \in Callers |-> [call[q] EXCEPT !.wait = Less(@)]]
  BY DEF CallsTyped, GateTyped, GeoTick
<1>2. \A n \in Nat : Less(n) \in Nat
  BY DEF Less
<1>3. \A q \in Callers : /\ call'[q] \in Call
                         /\ call'[q].pc = call[q].pc
                         /\ call'[q].point = call[q].point
                         /\ call'[q].early = call[q].early
                         /\ call'[q].wait = Less(call[q].wait)
  BY <1>1, <1>2 DEF Call
<1>4. slot' \in Nat
  BY <1>2 DEF CallsTyped, GateTyped, GeoTick
<1>5. sinceCall' \in 0..Interval
  <2>1. /\ sinceCall \in 0..Interval /\ Interval \in Nat
        /\ sinceCall' = IF sinceCall = Interval THEN Interval ELSE sinceCall + 1
    BY PaceAssumption DEF CallsTyped, GateTyped, GeoTick
  <2> QED BY <2>1
<1>6. blocked' \in [Providers -> 0..Penalty]
  <2>1. /\ blocked \in [Providers -> 0..Penalty] /\ Penalty \in Nat
        /\ blocked' = [g \in Providers |-> Less(blocked[g])]
    BY PaceAssumption DEF CallsTyped, GateTyped, GeoTick
  <2>2. \A n \in 0..Penalty : Less(n) \in 0..Penalty
    BY <2>1 DEF Less
  <2> QED BY <2>1, <2>2
<1>7. GateTyped'
  BY <1>1, <1>3, <1>4, <1>5, <1>6 DEF GateTyped
<1>8. PointsAreKept' /\ WorkerIsMarked'
  BY <1>1, <1>3, WorkerIsACaller DEF CallsTyped, PointsAreKept, WorkerIsMarked
<1> QED BY <1>3, <1>7, <1>8 DEF CallsTyped

-------------------------------------------------------------------------------
(* The places at the gate.                                                   *)

LEMMA MoveKeepsGate ==
  ASSUME CallsTyped, GateInv, GateMove
  PROVE  GateInv'
<1>1. PICK q \in Callers : Moves(q)
  BY DEF GateMove
<1>2. PICK c \in Call :
        /\ call' = [call EXCEPT ![q] = c]
        /\ c.pc = "gate" => c.wait = slot /\ slot' = slot + Interval
        /\ c.pc # "gate" => slot' = slot
  BY <1>1 DEF Moves
<1>3. /\ call \in [Callers -> Call] /\ slot \in Nat /\ sinceCall \in Nat
      /\ sinceCall' = sinceCall /\ Interval \in Nat
  BY PaceAssumption DEF CallsTyped, GateTyped, GateMove
<1>4. \A r \in Callers : call[r].wait \in Nat
  BY <1>3 DEF Call
<1>5. call'[q] = c /\ \A r \in Callers \ {q} : call'[r] = call[r]
  BY <1>2, <1>3
<1>6. slot' \in Nat /\ slot <= slot'
  BY <1>2, <1>3
<1>7. PlacesBeforeSlot'
  BY <1>2, <1>3, <1>4, <1>5, <1>6 DEF GateInv, PlacesBeforeSlot, AtGate
<1>8. PlacesAfterCall'
  BY <1>2, <1>3, <1>4, <1>5, <1>6 DEF GateInv, PlacesAfterCall, SlotAfterCall, AtGate
<1>9. SlotAfterCall'
  <2>1. Interval <= sinceCall + slot
    BY DEF GateInv, SlotAfterCall
  <2>2. \A a, b, m, n \in Nat : m <= n /\ a <= b + m => a <= b + n
    OBVIOUS
  <2>3. Interval <= sinceCall + slot'
    BY <1>3, <1>6, <2>1, <2>2
  <2> QED BY <1>3, <2>3 DEF SlotAfterCall
<1>10. PlacesApart'
  BY <1>2, <1>3, <1>4, <1>5 DEF GateInv, PlacesApart, PlacesBeforeSlot, AtGate
<1> QED BY <1>7, <1>8, <1>9, <1>10 DEF GateInv

LEMMA CalledKeepsGate ==
  ASSUME CallsTyped, GateInv, NEW q \in Callers, NominatimIsCalled(q)
  PROVE  GateInv'
<1>1. /\ call \in [Callers -> Call] /\ slot \in Nat /\ Interval \in Nat \ {0}
      /\ AtGate(q) /\ call[q].wait = 0 /\ slot' = slot /\ sinceCall' = 0
      /\ call' = [call EXCEPT ![q].pc = "asked"]
  BY PaceAssumption DEF CallsTyped, GateTyped, NominatimIsCalled, AtGate
<1>2. \A r \in Callers : call[r].wait \in Nat
  BY <1>1 DEF Call
<1>3. call'[q].pc = "asked" /\ \A r \in Callers \ {q} : call'[r] = call[r]
  BY <1>1 DEF Call
<1>4. \A r \in Callers \ {q} : AtGate(r) => Interval <= call[r].wait
  BY <1>1, <1>2 DEF GateInv, PlacesApart
<1>5. PlacesAfterCall'
  BY <1>1, <1>2, <1>3, <1>4 DEF PlacesAfterCall, AtGate
<1>6. SlotAfterCall'
  BY <1>1 DEF GateInv, PlacesBeforeSlot, SlotAfterCall
<1>7. PlacesApart' /\ PlacesBeforeSlot'
  BY <1>1, <1>3 DEF GateInv, PlacesApart, PlacesBeforeSlot, AtGate
<1> QED BY <1>5, <1>6, <1>7 DEF GateInv

LEMMA RefusedKeepsGate ==
  ASSUME CallsTyped, GateInv, NEW q \in Callers, NominatimRefuses(q)
  PROVE  GateInv'
<1>1. /\ call \in [Callers -> Call] /\ slot' = slot /\ sinceCall' = sinceCall
      /\ call' = [r \in Callers |->
                    IF r = q THEN After(q)
                    ELSE [call[r] EXCEPT !.early = (call[r].pc = "gate")]]
  BY DEF CallsTyped, GateTyped, NominatimRefuses
<1>2. \A r \in Callers \ {q} : call'[r].pc = call[r].pc /\ call'[r].wait = call[r].wait
  BY <1>1 DEF Call
<1>3. call'[q].pc # "gate"
  BY <1>1, IdleIsACall
<1>4. \A r \in Callers : AtGate(r)' => AtGate(r) /\ call'[r].wait = call[r].wait
  BY <1>2, <1>3 DEF AtGate
<1> QED BY <1>1, <1>4
        DEF GateInv, PlacesApart, PlacesBeforeSlot, PlacesAfterCall, SlotAfterCall

LEMMA TickKeepsGate ==
  ASSUME CallsTyped, GateInv, GeoTick
  PROVE  GateInv'
<1>1. /\ call \in [Callers -> Call] /\ slot \in Nat /\ Interval \in Nat \ {0}
      /\ sinceCall \in 0..Interval
      /\ slot' = Less(slot)
      /\ sinceCall' = IF sinceCall = Interval THEN Interval ELSE sinceCall + 1
  BY PaceAssumption DEF CallsTyped, GateTyped, GeoTick
<1>2. \A q \in Callers : call[q].wait \in Nat
  BY <1>1 DEF Call
<1>3. \A q \in Callers : AtGate(q)' => AtGate(q) /\ call'[q].wait = call[q].wait - 1
  <2> SUFFICES ASSUME NEW q \in Callers, AtGate(q)'
               PROVE  AtGate(q) /\ call'[q].wait = call[q].wait - 1
    OBVIOUS
  <2>1. call[q].pc = "gate" /\ call'[q].wait = Less(call[q].wait)
    BY TickTurns DEF AtGate
  <2>2. call[q].wait # 0
    BY <2>1 DEF GeoTick
  <2> QED BY <2>1, <2>2 DEF AtGate, Less
<1>4. \A q \in Callers : AtGate(q) => call[q].wait + Interval <= slot
  BY DEF GateInv, PlacesBeforeSlot
<1>5. slot' \in Nat /\ (slot # 0 => slot' = slot - 1)
  BY <1>1 DEF Less
<1>6. PlacesBeforeSlot'
  BY <1>1, <1>2, <1>3, <1>4, <1>5 DEF PlacesBeforeSlot
<1>7. PlacesApart'
  BY <1>1, <1>2, <1>3 DEF GateInv, PlacesApart
<1>8. PlacesAfterCall'
  <2> SUFFICES ASSUME NEW q \in Callers, AtGate(q)'
               PROVE  Interval <= sinceCall' + call'[q].wait
    BY DEF PlacesAfterCall
  <2>1. /\ Interval <= sinceCall + call[q].wait
        /\ call'[q].wait = call[q].wait - 1 /\ call'[q].wait \in Nat
    <3>1. call'[q].wait \in Nat
      BY TickTurns DEF CallsTyped, GateTyped, Call
    <3> QED BY <1>3, <3>1 DEF GateInv, PlacesAfterCall
  <2> QED BY <1>1, <1>2, <2>1
<1>9. SlotAfterCall'
  <2>1. Interval <= sinceCall + slot
    BY DEF GateInv, SlotAfterCall
  <2> QED BY <1>1, <1>5, <2>1 DEF SlotAfterCall
<1> QED BY <1>6, <1>7, <1>8, <1>9 DEF GateInv

-------------------------------------------------------------------------------
(* The penalty.                                                              *)

LEMMA MoveKeepsPenalty ==
  ASSUME CallsTyped, PenaltyInv, GateMove
  PROVE  PenaltyInv'
<1>1. PICK q \in Callers : Moves(q)
  BY DEF GateMove
<1>2. PICK c \in Call :
        /\ call' = [call EXCEPT ![q] = c]
        /\ c.pc = "gate" => blocked["nominatim"] = 0
  BY <1>1 DEF Moves
<1>3. call \in [Callers -> Call] /\ blocked'["nominatim"] = blocked["nominatim"]
  BY DEF CallsTyped, GateTyped, GateMove, Penalised
<1> QED BY <1>2, <1>3 DEF PenaltyInv, AtGate

LEMMA CalledKeepsPenalty ==
  ASSUME CallsTyped, PenaltyInv, NEW q \in Callers, NominatimIsCalled(q)
  PROVE  PenaltyInv'
<1>1. /\ call \in [Callers -> Call] /\ blocked' = blocked
      /\ call' = [call EXCEPT ![q].pc = "asked"]
  BY DEF CallsTyped, GateTyped, NominatimIsCalled
<1>2. call'[q].pc = "asked" /\ \A r \in Callers \ {q} : call'[r] = call[r]
  BY <1>1 DEF Call
<1> QED BY <1>1, <1>2 DEF PenaltyInv, AtGate

LEMMA RefusedKeepsPenalty ==
  ASSUME CallsTyped, NEW q \in Callers, NominatimRefuses(q)
  PROVE  PenaltyInv'
<1>1. /\ call \in [Callers -> Call]
      /\ call' = [r \in Callers |->
                    IF r = q THEN After(q)
                    ELSE [call[r] EXCEPT !.early = (call[r].pc = "gate")]]
  BY DEF CallsTyped, GateTyped, NominatimRefuses
<1>2. \A r \in Callers \ {q} :
        call'[r].pc = call[r].pc /\ call'[r].early = (call[r].pc = "gate")
  BY <1>1 DEF Call
<1>3. call'[q].pc # "gate"
  BY <1>1, IdleIsACall
<1> QED BY <1>2, <1>3 DEF PenaltyInv, AtGate

LEMMA TickKeepsPenalty ==
  ASSUME CallsTyped, PenaltyInv, GeoTick
  PROVE  PenaltyInv'
<1>1. blocked'["nominatim"] = Less(blocked["nominatim"])
  BY DEF GeoTick, Providers
<1>2. \A q \in Callers : call'[q].pc = call[q].pc /\ call'[q].early = call[q].early
  BY TickTurns
<1> QED BY <1>1, <1>2 DEF PenaltyInv, AtGate, Less

-------------------------------------------------------------------------------
(* The inductive invariant.                                                  *)

GeoInv == GeoTypeOK /\ GateInv /\ PenaltyInv

(* What the calls do not tell: the cache, the queue and the bounds.          *)
RestTyped ==
  /\ cached \subseteq Points /\ absent \subseteq Points
  /\ queue \in Seq(Points) /\ working \in BOOLEAN
  /\ queue # <<>> => working
  /\ asks \in 0..MaxAsks /\ refusals \in 0..MaxRefusals

LEMMA PartsOfTheType == GeoTypeOK <=> CallsTyped /\ RestTyped
BY DEF GeoTypeOK, RestTyped, CallsTyped, GateTyped, WorkerIsMarked, PointsAreKept

LEMMA GeoInitHolds == GeoInit => GeoInv
<1> SUFFICES ASSUME GeoInit PROVE GeoInv
  OBVIOUS
<1> USE PaceAssumption, GeoBoundsAssumption DEF GeoInit
<1>1. \A q \in Callers : call[q] = NoCall /\ call[q] \in Call
                         /\ call[q].pc = "idle" /\ call[q].point = NoPoint
  BY IdleIsACall
<1>2. GeoTypeOK
  <2>1. call \in [Callers -> Call]
    BY <1>1
  <2>2. slot \in Nat /\ sinceCall \in 0..Interval /\ blocked \in [Providers -> 0..Penalty]
    OBVIOUS
  <2>3. queue \in Seq(Points) /\ cached \subseteq Points /\ absent \subseteq Points
    OBVIOUS
  <2>4. CallsTyped
    BY <1>1, <2>1, <2>2, WorkerIsACaller
       DEF CallsTyped, GateTyped, WorkerIsMarked, PointsAreKept
  <2>5. RestTyped
    <3>1. asks \in 0..MaxAsks /\ refusals \in 0..MaxRefusals
      OBVIOUS
    <3>2. working \in BOOLEAN /\ (queue # <<>> => working)
      OBVIOUS
    <3> QED BY <2>3, <3>1, <3>2 DEF RestTyped
  <2> QED BY <2>4, <2>5, PartsOfTheType
<1>3. GateInv /\ PenaltyInv
  BY <1>1 DEF GateInv, PlacesApart, PlacesBeforeSlot, PlacesAfterCall, SlotAfterCall,
              PenaltyInv, AtGate
<1> QED BY <1>2, <1>3 DEF GeoInv

LEMMA CallStepKeepsRest ==
  ASSUME GeoTypeOK, NEW q \in Callers, CallStep(q)
  PROVE  RestTyped'
<1> USE GeoBoundsAssumption DEF RestTyped
<1>0. RestTyped /\ call[q] \in Call
      /\ (call[q].pc \notin {"idle", "loop"} => call[q].point \in Points)
  BY PartsOfTheType DEF GeoTypeOK, Call
<1>1. CASE PointResolves(q)
  BY <1>0, <1>1 DEF PointResolves, Resolve
<1>2. CASE OwnAnswers(q) \/ NominatimAnswers(q)
  <2>1. cached' \subseteq Points
    BY <1>0, <1>2 DEF OwnAnswers, NominatimAnswers, Answered
  <2> QED BY <1>0, <1>2, <2>1 DEF OwnAnswers, NominatimAnswers, Answered
<1>3. CASE OwnFails(q)
  BY <1>0, <1>3 DEF OwnFails
<1>4. CASE OwnRefuses(q)
  BY <1>0, <1>4 DEF OwnRefuses, Refused
<1>5. CASE NominatimIsCalled(q)
  BY <1>0, <1>5 DEF NominatimIsCalled
<1>6. CASE NominatimRefuses(q)
  BY <1>0, <1>6 DEF NominatimRefuses, Refused
<1> QED BY <1>1, <1>2, <1>3, <1>4, <1>5, <1>6 DEF CallStep

LEMMA OtherStepKeepsRest ==
  ASSUME GeoTypeOK,
         \/ \E q \in Callers, p \in Points : PointMissed(q, p)
         \/ \E ps \in SUBSET Points : ListMissed(ps)
         \/ \E p \in Points : Enqueue(p)
         \/ WorkerStep \/ GeoTick
  PROVE  RestTyped'
<1> USE GeoBoundsAssumption DEF RestTyped
<1>0. RestTyped
  BY PartsOfTheType
<1>1. CASE \E q \in Callers, p \in Points : PointMissed(q, p)
  BY <1>0, <1>1 DEF PointMissed, Asked
<1>2. CASE \E ps \in SUBSET Points : ListMissed(ps)
  BY <1>0, <1>2 DEF ListMissed, Asked
<1>3. CASE \E p \in Points : Enqueue(p)
  <2>1. PICK p \in Points : Enqueue(p)
    BY <1>3
  <2>2. Append(queue, p) \in Seq(Points)
    BY <1>0
  <2> QED BY <1>0, <2>1, <2>2 DEF Enqueue
<1>4. CASE WorkerTakes
  <2>1. Tail(queue) \in Seq(Points) /\ working
    BY <1>0, <1>4 DEF WorkerTakes
  <2> QED BY <1>0, <1>4, <2>1 DEF WorkerTakes, Resolve
<1>5. CASE WorkerStops
  BY <1>0, <1>5 DEF WorkerStops, WorkingAfter
<1>6. CASE GeoTick
  BY <1>0, <1>6 DEF GeoTick
<1> QED BY <1>1, <1>2, <1>3, <1>4, <1>5, <1>6 DEF WorkerStep

LEMMA GeoStepKeeps == GeoInv /\ [GeoNext]_geoVars => GeoInv'
<1> SUFFICES ASSUME GeoInv, [GeoNext]_geoVars PROVE GeoInv'
  OBVIOUS
<1>0. CallsTyped /\ RestTyped /\ GateInv /\ PenaltyInv /\ GeoTypeOK
  BY PartsOfTheType DEF GeoInv
<1>1. ASSUME GateMove PROVE CallsTyped' /\ GateInv' /\ PenaltyInv'
  BY <1>0, <1>1, MoveKeepsCallsTyped, MoveKeepsGate, MoveKeepsPenalty
<1>2. ASSUME UNCHANGED GateVars, working' <=> working
      PROVE  CallsTyped' /\ GateInv' /\ PenaltyInv'
  BY <1>0, <1>2 DEF GateVars, CallsTyped, GateTyped, WorkerIsMarked, PointsAreKept,
     GateInv, PlacesApart, PlacesBeforeSlot, PlacesAfterCall, SlotAfterCall,
     PenaltyInv, AtGate
<1>3. ASSUME NEW q \in Callers, CallStep(q) PROVE GeoInv'
  <2>1. CallsTyped' /\ GateInv' /\ PenaltyInv'
    <3>1. GateMove \/ NominatimIsCalled(q) \/ NominatimRefuses(q)
      BY <1>0, <1>3, CallStepMoves DEF CallsTyped
    <3>2. CASE NominatimIsCalled(q)
      BY <1>0, <3>2, CalledKeepsCallsTyped, CalledKeepsGate, CalledKeepsPenalty
    <3>3. CASE NominatimRefuses(q)
      BY <1>0, <3>3, RefusedKeepsCallsTyped, RefusedKeepsGate, RefusedKeepsPenalty
    <3> QED BY <1>1, <3>1, <3>2, <3>3
  <2>2. RestTyped'
    BY <1>0, <1>3, CallStepKeepsRest
  <2> QED BY <2>1, <2>2, PartsOfTheType, PTL DEF GeoInv
<1>4. ASSUME \/ \E q \in Callers, p \in Points : PointMissed(q, p)
             \/ \E ps \in SUBSET Points : ListMissed(ps)
             \/ \E p \in Points : Enqueue(p)
             \/ WorkerStep
      PROVE  GeoInv'
  <2>1. GateMove \/ (UNCHANGED GateVars /\ (working' <=> working))
    BY <1>0, <1>4, OtherStepMoves DEF CallsTyped, RestTyped
  <2>2. CallsTyped' /\ GateInv' /\ PenaltyInv'
    BY <1>1, <1>2, <2>1
  <2>3. RestTyped'
    BY <1>0, <1>4, OtherStepKeepsRest
  <2> QED BY <2>2, <2>3, PartsOfTheType, PTL DEF GeoInv
<1>5. CASE GeoTick
  <2>1. CallsTyped' /\ GateInv' /\ PenaltyInv'
    BY <1>0, <1>5, TickTurns, TickKeepsGate, TickKeepsPenalty
  <2>2. RestTyped'
    BY <1>0, <1>5, OtherStepKeepsRest
  <2> QED BY <2>1, <2>2, PartsOfTheType, PTL DEF GeoInv
<1>6. CASE UNCHANGED geoVars
  <2>1. UNCHANGED GateVars /\ (working' <=> working)
    BY <1>6 DEF geoVars, GateVars
  <2>2. RestTyped'
    BY <1>0, <1>6 DEF geoVars, RestTyped
  <2> QED BY <1>2, <2>1, <2>2, PartsOfTheType, PTL DEF GeoInv
<1> QED BY <1>3, <1>4, <1>5, <1>6 DEF GeoNext

LEMMA GeoInvHolds == GeoSpec => []GeoInv
BY GeoInitHolds, GeoStepKeeps, PTL DEF GeoSpec

(* The state of the geocoder is well typed: a queue that is not empty has a  *)
(* worker that is marked as running, and a worker that waits for an address  *)
(* is marked too.                                                            *)
THEOREM GeoTypeTheorem == GeoSpec => []GeoTypeOK
<1>1. GeoInv => GeoTypeOK
  BY DEF GeoInv
<1> QED BY <1>1, GeoInvHolds, PTL

-------------------------------------------------------------------------------
(* Nominatim is spared.                                                      *)

LEMMA OnlyCalledLeavesTheGate ==
  ASSUME GeoTypeOK, GeoNext, NEW q \in Callers,
         call[q].pc = "gate", call'[q].pc = "asked"
  PROVE  NominatimIsCalled(q)
<1>0. /\ CallsTyped /\ RestTyped
      /\ GateTyped /\ WorkerIsMarked /\ PointsAreKept /\ queue \in Seq(Points)
      /\ call \in [Callers -> Call]
  BY PartsOfTheType DEF CallsTyped, GateTyped, RestTyped
<1>1. ~GateMove
  <2> SUFFICES ASSUME GateMove PROVE FALSE
    OBVIOUS
  <2>1. PICK r \in Callers : Moves(r)
    BY DEF GateMove
  <2>2. PICK c \in Call : call' = [call EXCEPT ![r] = c] /\ c.pc # "asked"
    BY <2>1 DEF Moves
  <2> QED BY <1>0, <2>2
<1>2. call' # call
  OBVIOUS
<1>3. ASSUME NEW r \in Callers, CallStep(r) PROVE NominatimIsCalled(q)
  <2>1. ~NominatimRefuses(r)
    <3> SUFFICES ASSUME NominatimRefuses(r) PROVE FALSE
      OBVIOUS
    <3>1. call' = [s \in Callers |->
                     IF s = r THEN After(r)
                     ELSE [call[s] EXCEPT !.early = (call[s].pc = "gate")]]
      BY DEF NominatimRefuses
    <3>2. CASE q = r
      BY <3>1, <3>2, IdleIsACall
    <3>3. CASE q # r
      <4>1. call'[q].pc = call[q].pc
        BY <1>0, <3>1, <3>3 DEF Call
      <4> QED BY <4>1
    <3> QED BY <3>2, <3>3
  <2>2. NominatimIsCalled(r)
    BY <1>0, <1>1, <1>3, <2>1, CallStepMoves
  <2>3. q = r
    <3>1. call' = [call EXCEPT ![r].pc = "asked"]
      BY <2>2 DEF NominatimIsCalled
    <3> QED BY <1>0, <3>1
  <2> QED BY <2>2, <2>3
<1>4. ~ \/ \E r \in Callers, p \in Points : PointMissed(r, p)
        \/ \E ps \in SUBSET Points : ListMissed(ps)
        \/ \E p \in Points : Enqueue(p)
        \/ WorkerStep
  BY <1>0, <1>1, <1>2, OtherStepMoves DEF GateVars
<1>5. ~GeoTick
  <2> SUFFICES ASSUME GeoTick PROVE call'[q].pc = call[q].pc
    OBVIOUS
  <2> QED BY <1>0, TickTurns
<1> QED BY <1>3, <1>4, <1>5 DEF GeoNext

(* The public service is spared: two calls are an interval apart however     *)
(* many callers there are and whichever way they come, and only those who    *)
(* were at the gate when a 429 came call during the penalty.                 *)
THEOREM SparedTheorem == GeoSpec => NominatimIsSpared
<1>1. ASSUME GeoInv, GeoInv', [GeoNext]_geoVars
      PROVE  [\A q \in Callers :
                call[q].pc = "gate" /\ call'[q].pc = "asked" =>
                  /\ sinceCall >= Interval
                  /\ blocked["nominatim"] = 0 \/ call[q].early]_geoVars
  <2> SUFFICES ASSUME GeoNext, NEW q \in Callers,
                      call[q].pc = "gate", call'[q].pc = "asked"
               PROVE  /\ sinceCall >= Interval
                      /\ blocked["nominatim"] = 0 \/ call[q].early
    BY <1>1
  <2>1. /\ GeoTypeOK /\ Interval \in Nat /\ sinceCall \in Nat
        /\ Interval <= sinceCall + call[q].wait
        /\ blocked["nominatim"] = 0 \/ call[q].early
    BY <1>1, PaceAssumption
       DEF GeoInv, GeoTypeOK, GateInv, PlacesAfterCall, PenaltyInv, AtGate
  <2>2. call[q].wait = 0
    BY <2>1, OnlyCalledLeavesTheGate DEF NominatimIsCalled
  <2> QED BY <2>1, <2>2
<1> QED BY <1>1, GeoInvHolds, PTL DEF GeoSpec, NominatimIsSpared

-------------------------------------------------------------------------------
(* The two together.                                                         *)

(* The scan of the SGA and the geocoders touch nothing of each other, so the *)
(* composition that is checked keeps to both specifications proved about.    *)
THEOREM OutsideCompose == FairSpec => MirrorSpec /\ GeoSpec
<1>1. Init => MirrorInit /\ GeoInit
  BY DEF Init
<1>2. [Next]_<<mirrorVars, geoVars, service>> =>
        [MirrorNext]_mirrorVars /\ [GeoNext]_geoVars
  BY Zenon DEF Next
<1> QED BY <1>1, <1>2, PTL DEF FairSpec, MirrorSpec, GeoSpec

(* The mirror and the geocoders keep their types: no page, count or wait     *)
(* leaves its range, whatever the services outside answer.                   *)
THEOREM OutsideTypesTheorem == FairSpec => []OutsideTypesOK
<1>1. MirrorTypeOK /\ GeoTypeOK => OutsideTypesOK
  BY DEF OutsideTypesOK
<1> QED BY <1>1, OutsideCompose, MirrorTypeTheorem, GeoTypeTheorem, PTL
===============================================================================
