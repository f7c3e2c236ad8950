---------------------------- MODULE MCMonitoring ----------------------------
(* Two devices that report the same values.                                  *)
EXTENDS Monitoring, TLC

MCEnabled == {"mpc", "vapd"}
MCWatched == {<<"mpc", "Power">>, <<"vapd", "PVYieldTotal">>}

Symmetry == Permutations(Callbacks)
=============================================================================
