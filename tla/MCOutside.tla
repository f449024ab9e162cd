------------------------------- MODULE MCOutside -------------------------------
(* SgaMirror and ReverseGeocode on small sets: what is asked, piece by piece, *)
(* of services outside.  They share nothing, so a behaviour is about one.     *)
(* Every car is active in the SGA at first, and the motorcycles have their   *)
(* tracker already.                                                          *)
EXTENDS SgaMirror, ReverseGeocode

VARIABLE service

Init ==
  /\ service \in {"sga", "geocoders"}
  /\ MirrorInit /\ GeoInit
  /\ situation = [c \in Codes |-> 1]
  /\ wanted = Codes \ Bikes

Next ==
  \/ service = "sga" /\ MirrorNext /\ UNCHANGED <<geoVars, service>>
  \/ service = "geocoders" /\ GeoNext /\ UNCHANGED <<mirrorVars, service>>

(* Time passes, the worker of the queue loops, and every call is answered or *)
(* exceeds its time.                                                         *)
GeoFairness ==
  /\ WF_geoVars(service = "geocoders" /\ GeoTick)
  /\ WF_geoVars(service = "geocoders" /\ WorkerStep)
  /\ \A q \in Callers : WF_geoVars(service = "geocoders" /\ CallStep(q))

FairSpec ==
  /\ Init /\ [][Next]_<<mirrorVars, geoVars, service>>
  /\ GeoFairness
  /\ WF_mirrorVars(service = "sga" /\ ReadingStep)
  /\ WF_mirrorVars(service = "sga" /\ ScanStep)

(* Both are well typed.                                                      *)
OutsideTypesOK == MirrorTypeOK /\ GeoTypeOK

(* What SgaMirror says of its end, said of the behaviours that are about it. *)
MirrorComesRight == service = "sga" => MirrorCatchesUp /\ TypesSettle
===============================================================================
