----------------------------- MODULE MCAssociates -----------------------------
(* BoletoSync, LocationShares and TagSightings on small sets: what an        *)
(* associate sees of his bills, of his car and of his TAG.  They share       *)
(* nothing, so a behaviour is about one of them.                             *)
EXTENDS BoletoSync, LocationShares, TagSightings, TLC

VARIABLE screen

Init ==
  /\ screen \in {"bills", "link", "tag"}
  /\ BillInit /\ ShareInit /\ SightInit
  /\ screen # "bills" => crm = {}
  /\ owner = CHOOSE w \in Owners : TRUE

Next ==
  \/ screen = "bills" /\ BillNext /\ UNCHANGED <<shareVars, sightVars, screen>>
  \/ screen = "link" /\ ShareNext /\ UNCHANGED <<billVars, sightVars, screen>>
  \/ screen = "tag" /\ SightNext /\ UNCHANGED <<billVars, shareVars, screen>>

(* The robot comes back every working day, and a sync that runs goes on.     *)
BillFairness ==
  \A s \in Syncs : /\ WF_billVars(screen = "bills" /\ SyncBegins(s, TRUE))
                   /\ WF_billVars(screen = "bills" /\ BillStep(s))

(* The worker wakes up every half hour, and what the backend began goes on.  *)
SightFairness ==
  /\ WF_sightVars(screen = "tag" /\ CollectorStep)
  /\ \A k \in Requests : WF_sightVars(screen = "tag" /\ PostStep(k))

FairSpec ==
  /\ Init /\ [][Next]_<<billVars, shareVars, sightVars, screen>>
  /\ BillFairness /\ SightFairness

(* Bills, links and sightings are well typed.                                *)
AssociateTypesOK == BillTypeOK /\ ShareTypeOK /\ SightTypeOK

===============================================================================
