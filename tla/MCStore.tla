------------------------------- MODULE MCStore -------------------------------
(* Instances of Store and WatchedStore.                                      *)
EXTENDS WatchedStore

CONSTANTS rest1, rest2, ship1   \* two HTTP requests, one EEBUS callback
==============================================================================
