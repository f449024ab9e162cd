---------------------------- MODULE TrackerCustody ----------------------------
(***************************************************************************)
(* What the installation screens promise about one fleet's trackers: a     *)
(* tracker is either in hand or in exactly one car, a car holds at most    *)
(* one tracker, and a tracker reaches another car only after somebody has  *)
(* taken it out of the car it was in.  TrackerLifecycle implements it.     *)
(***************************************************************************)

CONSTANTS
  Imeis,      (* the trackers                                               *)
  Vehicles,   (* the cars                                                   *)
  InHand      (* the place of a tracker that is in no car                   *)

VARIABLE place

TypeOK == place \in [Imeis -> Vehicles \cup {InHand}]

Init == place = [i \in Imeis |-> InHand]

Install(i, v) ==
  /\ place[i] = InHand
  /\ \A j \in Imeis : place[j] # v
  /\ place' = [place EXCEPT ![i] = v]

TakeOut(i) ==
  /\ place[i] # InHand
  /\ place' = [place EXCEPT ![i] = InHand]

Next == \E i \in Imeis : TakeOut(i) \/ \E v \in Vehicles : Install(i, v)

Spec == Init /\ [][Next]_place

===============================================================================
