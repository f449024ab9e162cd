---------------------------- MODULE LocationShares ----------------------------
(***************************************************************************)
(* The links with which one car can be followed for some hours: who makes  *)
(* them, the ten that may be active at a time, how they end, and what the  *)
(* public page answers while the car is sold to a new owner or deleted.    *)
(* Creating a link, answering the page and changing the owner each read    *)
(* the car, wait for something, and then write or answer without a lock.   *)
(***************************************************************************)
EXTENDS Naturals, FiniteSets

CONSTANTS
  Owners,      (* the associates; one of them has the car                     *)
  Panel,       (* who makes a link at the panel, for the company              *)
  Links,       (* the rows of location_shares there is room for               *)
  Creators, Viewers, Sellers,  (* bound: requests in flight at the same time, *)
               (* to make a link, to see its page and to change the owner     *)
  MaxActive,   (* MAX_ATIVOS_POR_VEICULO                                      *)
  MaxSales     (* bound: changes of owner, deletions and revivals             *)

ASSUME PanelAssumption == Panel \notin Owners
ASSUME ShareBounds ==
  /\ MaxActive \in Nat \ {0} /\ MaxSales \in Nat
  /\ IsFiniteSet(Links) /\ IsFiniteSet(Creators) /\ Creators # {}

VARIABLES
  owner,     (* associateId of the car                                        *)
  alive,     (* its deletedAt is null                                         *)
  tracked,   (* it has a traccarDeviceId                                      *)
  link,      (* location_shares                                               *)
  creation,  (* criar, for the requests in flight                             *)
  view,      (* publico, for the requests in flight                           *)
  transfer,  (* OwnershipTransferService.transfer, for the requests in flight *)
  sales      (* for the bound only                                            *)

carVars == <<owner, alive, tracked>>
shareVars == <<owner, alive, tracked, link, creation, view, transfer, sales>>

Makers == Owners \cup {Panel}
NoLink == [by |-> Panel, state |-> "none"]

(* turned, for the properties: the link or the car has changed since the     *)
(* page read it.                                                             *)
IdleView == [pc |-> "idle", links |-> {}, turned |-> FALSE]
IdleCreation == [pc |-> "idle", by |-> Panel]
IdleTransfer == [pc |-> "idle", to |-> Panel]

ShareTypeOK ==
  /\ owner \in Owners /\ alive \in BOOLEAN /\ tracked \in BOOLEAN
  /\ link \in [Links -> [by : Makers, state : {"none", "active", "revoked", "expired"}]]
  /\ creation \in [Creators -> [pc : {"idle", "car", "counted"}, by : Makers]]
  /\ view \in [Viewers -> [pc : {"idle", "link", "car"}, links : SUBSET Links,
                            turned : BOOLEAN]]
  /\ \A q \in Viewers : Cardinality(view[q].links) = IF view[q].pc = "idle" THEN 0 ELSE 1
  /\ \A q \in Viewers : \A l \in view[q].links : link[l].state # "none"
  /\ transfer \in [Sellers -> [pc : {"idle", "asked"}, to : Makers]]
  /\ \A q \in Sellers : transfer[q].pc = "asked" <=> transfer[q].to \in Owners
  /\ sales \in 0..MaxSales

ShareInit ==
  /\ owner \in Owners /\ alive = TRUE /\ tracked = TRUE
  /\ link = [l \in Links |-> NoLink]
  /\ creation = [q \in Creators |-> IdleCreation]
  /\ view = [q \in Viewers |-> IdleView]
  /\ transfer = [q \in Sellers |-> IdleTransfer]
  /\ sales = 0

Active == {l \in Links : link[l].state = "active"}
Turned(vs, which) ==
  [q \in Viewers |-> IF vs[q].pc = "car" /\ (vs[q].links \cap which # {})
                      THEN [vs[q] EXCEPT !.turned = TRUE] ELSE vs[q]]

-------------------------------------------------------------------------------
(* criar.                                                                    *)

MayAsk(by) == by = Panel \/ by = owner
CreateReadsCar(q, by) ==
  /\ creation[q].pc = "idle"
  /\ alive /\ tracked /\ MayAsk(by)
  /\ creation' = [creation EXCEPT ![q] = [pc |-> "car", by |-> by]]
  /\ UNCHANGED <<carVars, link, view, transfer, sales>>

(* Ten is refused, nine is not.                                              *)
RoomForOne_OneMore(n) == n <= MaxActive
RoomForOne(n) == n < MaxActive
CreateCounts(q) ==
  /\ creation[q].pc = "car"
  /\ creation' = [creation EXCEPT ![q] = IF RoomForOne(Cardinality(Active))
                                         THEN [@ EXCEPT !.pc = "counted"]
                                         ELSE IdleCreation]
  /\ UNCHANGED <<carVars, link, view, transfer, sales>>

CreateWrites(q, l) ==
  /\ creation[q].pc = "counted" /\ link[l].state = "none"
  /\ link' = [link EXCEPT ![l] = [by |-> creation[q].by, state |-> "active"]]
  /\ creation' = [creation EXCEPT ![q] = IdleCreation]
  /\ UNCHANGED <<carVars, view, transfer, sales>>

(* cancelar, by whoever made it or by the panel; a link revoked once keeps   *)
(* its date.  An expired one may still be revoked.                           *)
Revoke(l) ==
  /\ link[l].state \in {"active", "expired"}
  /\ link' = [link EXCEPT ![l].state = "revoked"]
  /\ view' = Turned(view, {l})
  /\ UNCHANGED <<carVars, creation, transfer, sales>>

Expire(l) ==
  /\ link[l].state = "active"
  /\ link' = [link EXCEPT ![l].state = "expired"]
  /\ view' = Turned(view, {l})
  /\ UNCHANGED <<carVars, creation, transfer, sales>>

-------------------------------------------------------------------------------
(* publico: the link, then the car, then the position from Traccar.          *)

Usable_NotRevoked(l) == link[l].state # "revoked"
Usable(l) == link[l].state = "active"
ViewReadsLink(q, l) ==
  /\ view[q].pc = "idle" /\ Usable(l)
  /\ view' = [view EXCEPT ![q] = [pc |-> "link", links |-> {l}, turned |-> FALSE]]
  /\ UNCHANGED <<carVars, link, creation, transfer, sales>>

(* A link of the associate ends with his ownership.                          *)
StillHis_Any(by) == alive
StillHis(by) == alive /\ (by \in Owners => by = owner)
ViewReadsCar(q) ==
  /\ view[q].pc = "link"
  /\ view' = [view EXCEPT ![q] =
       IF \A l \in view[q].links : StillHis(link[l].by)
       THEN [@ EXCEPT !.pc = "car", !.turned = \E l \in view[q].links : ~Usable(l)]
       ELSE IdleView]
  /\ UNCHANGED <<carVars, link, creation, transfer, sales>>

ViewAnswers(q) ==
  /\ view[q].pc = "car"
  /\ view' = [view EXCEPT ![q] = IdleView]
  /\ UNCHANGED <<carVars, link, creation, transfer, sales>>

-------------------------------------------------------------------------------
(* The car.                                                                  *)

Sale ==
  /\ sales < MaxSales
  /\ sales' = sales + 1

(* The SGA names the new owner; the one who has the car already is refused.  *)
TransferAsks(q, new) ==
  /\ transfer[q].pc = "idle"
  /\ alive /\ new # owner
  /\ transfer' = [transfer EXCEPT ![q] = [pc |-> "asked", to |-> new]]
  /\ UNCHANGED <<carVars, link, creation, view, sales>>

(* The transaction does not look at the owner again.                         *)
TransferWrites(q) ==
  /\ transfer[q].pc = "asked"
  /\ Sale
  /\ owner' = transfer[q].to
  /\ transfer' = [transfer EXCEPT ![q] = IdleTransfer]
  /\ view' = Turned(view, {l \in Links : link[l].by \in Owners \ {transfer[q].to}})
  /\ UNCHANGED <<alive, tracked, link, creation>>

(* The tracker is taken out, or another one put in.                          *)
TrackerChanges ==
  /\ Sale
  /\ tracked' = ~tracked
  /\ UNCHANGED <<owner, alive, link, creation, view, transfer>>

(* The car is deleted, or revived by an installation.                        *)
CarChanges ==
  /\ Sale
  /\ alive' = ~alive
  /\ view' = IF alive THEN Turned(view, Links) ELSE view
  /\ UNCHANGED <<owner, tracked, link, creation, transfer>>

ShareNext ==
  \/ \E q \in Creators : \/ \E by \in Makers : CreateReadsCar(q, by)
                        \/ CreateCounts(q)
                        \/ \E l \in Links : CreateWrites(q, l)
  \/ \E q \in Viewers : \/ \E l \in Links : ViewReadsLink(q, l)
                       \/ ViewReadsCar(q) \/ ViewAnswers(q)
  \/ \E q \in Sellers : (\E new \in Owners : TransferAsks(q, new)) \/ TransferWrites(q)
  \/ \E l \in Links : Revoke(l) \/ Expire(l)
  \/ TrackerChanges \/ CarChanges

ShareSpec == ShareInit /\ [][ShareNext]_shareVars

-------------------------------------------------------------------------------

(* The car has at most ten active links, and one more for each request but   *)
(* one that can be in flight: whoever has counted has found room for         *)
(* himself, however long ago.                                                *)
Counted == {q \in Creators : creation[q].pc = "counted"}
ActiveLinksAreBounded ==
  Cardinality(Active) + Cardinality(Counted) < MaxActive + Cardinality(Creators)

(* Who sold the car does not follow it: the page answers for a link that is  *)
(* active, of a car that is there, to the company or to the owner of the     *)
(* car, however links were made and owners changed before; only what changes *)
(* while it waits for Traccar comes too late for it.                         *)
AnswersForTheOwner ==
  [][\A q \in Viewers, l \in Links :
       ViewAnswers(q) /\ l \in view[q].links /\ ~view[q].turned =>
         /\ alive /\ link[l].state = "active"
         /\ link[l].by \in {Panel, owner}]_shareVars
===============================================================================
