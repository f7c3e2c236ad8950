----------------------------- MODULE WatchedStore -----------------------------
(* Store as an implementation of Watch: the history of the bursts is added,  *)
(* and the rest maps directly.  Subscriber ids are the clients of Watch; a   *)
(* send on a closed channel is its fault.                                    *)
EXTENDS Store

VARIABLE bases      \* history: all the values of burstBase

WatchedInit == Init /\ bases = {burstBase}
WatchedNext == Next /\ bases' = bases \union {burstBase'}
WatchedSpec == WatchedInit /\ [][WatchedNext]_<<vars, bases>> /\ WriterFairness

W == INSTANCE Watch WITH
        Clients <- Subs, Unseen <- Empty, latest <- version,
        attached <- subscribers, seen <- received, faulted <- panicked # {}

(* However Updates overlap, with each other and with clients that attach,    *)
(* read and leave, each client sees what Watch promises; that it gets on     *)
(* also takes that it reads (store.go:157-174, and the seeding in :185).     *)
ImplementsWatch == W!Spec /\ (ReaderFairness => W!Progress)
==============================================================================
