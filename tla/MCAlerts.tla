------------------------------- MODULE MCAlerts -------------------------------
(* OfflineAlerts and CutAlerts on small sets.  They write alerts of different *)
(* types and share nothing, so a behaviour is about one of them.              *)
EXTENDS OfflineAlerts, CutAlerts, TLC

VARIABLE watched

Symmetry ==
  Permutations(Trackers) \cup Permutations(Rounds)
    \cup Permutations(Readings) \cup Permutations(Operators) \cup Permutations(Alerts)

Init ==
  /\ watched \in {"silence", "cut"}
  /\ OfflineInit /\ CutInit
  /\ watched = "cut" => ~byEpisode /\ \A v \in Trackers : contact[v] = 0

Next ==
  \/ watched = "silence" /\ OfflineNext /\ UNCHANGED <<cutVars, watched>>
  \/ watched = "cut" /\ CutNext /\ UNCHANGED <<offlineVars, watched>>

Spec == Init /\ [][Next]_<<offlineVars, cutVars, watched>>

(* Alerts, rounds, readings and operators are well typed.                    *)
AlertTypesOK == OfflineTypeOK /\ CutTypeOK
===============================================================================
