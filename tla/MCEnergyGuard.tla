---------------------------- MODULE MCEnergyGuard ----------------------------
(* Instances of EnergyGuard, and what a comment says about a target staged   *)
(* while another request removes the limit.                                  *)
EXTENDS EnergyGuard

MCWatts == {1, -2}
MCOneWatt == {1}

Requests == {asked[i] : i \in 1 .. Len(asked)}

(* control.go:115-117: staging does not contact the inverter, and "if a      *)
(* limit is currently active it is re-applied with the new value".  Where    *)
(* the only commands remove the limit and meet no mishap, it stays removed,  *)
(* whatever targets are staged meanwhile (control.go:128-131).               *)
RemovedStaysRemoved ==
    /\ Quiet /\ ~mishap /\ egEntity # NoEntity
    /\ \E r \in Requests : r.op # "target"
    /\ \A r \in Requests : r.op # "target" => ~r.active
    => ~device[egEntity].active
==============================================================================
