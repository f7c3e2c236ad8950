----------------------------- MODULE Connections -----------------------------
(* Trust and connections of the manager: the map m.conns of                  *)
(* internal/eebus/manager.go, the requests Trust and Forget, the callbacks   *)
(* of handler.go and the copy of the map that syncConnections puts into the  *)
(* Store.  The map is changed and copied under m.mu, but each in a critical  *)
(* section of its own, and the Store is written after both.                  *)
(*                                                                           *)
(* The behaviour starts where Start calls svc.Start: the configured remotes  *)
(* are registered and published, and no callback has run.  A restart, after  *)
(* a crash or because the options were changed, leads there again, for the   *)
(* bridge and the library keep all of this in memory only.                   *)
EXTENDS Integers, Sequences

CONSTANTS
    Skis,         \* normalised SKIs of the remote devices
    Configured,   \* those of trusted_skis and inverter_ski
    Operators,    \* goroutines serving pairing/trust and pairing/forget
    Callbacks,    \* goroutines in which the library calls handler.go
    MaxEvents     \* bound on requests, on link changes and on announcements

ASSUME SkisAssumption == Skis # {} /\ Configured \subseteq Skis
ASSUME MaxEventsAssumption == MaxEvents \in Nat
ASSUME ProcsAssumption == Operators \intersect Callbacks = {}

Procs == Operators \union Callbacks

VARIABLES
    autoAccept,   \* the option auto_accept_trust
    known,        \* m.conns: the SKIs that have an entry,
    connected,    \*          those whose entry says Connected
    trusted,      \*          and those whose entry says Trusted
    registered,   \* external: the SKIs the library holds as trusted
    link,         \* external: the SKIs with a SHIP connection
    queue,        \* external: the calls of handler.go still to come, per SKI
    pc, arg,      \* each goroutine: its place, the SKI of its request
    list,         \* the copy syncConnections took
    published,    \* Connections in the Store
    anyConnected, \* Connected in the Store
    rev,          \* history: how often m.conns was changed
    listRev, publishedRev,   \* history: rev when a copy was taken
    newest,       \* history: the greatest rev of all copies written to the Store
    burstBase,    \* history: rev when the goroutines now running began
    granted,      \* history: SKIs a Trust request ever named
    forgotten,    \* history: SKIs forgotten and not trusted again since
    events        \* counter for the bound

conns == <<known, connected, trusted>>
external == <<registered, link, queue>>
copies == <<list, listRev>>
storeVars == <<published, anyConnected, publishedRev, newest>>
history == <<granted, forgotten>>
vars == <<autoAccept, known, connected, trusted, registered, link, queue, pc, arg,
          list, published, anyConnected, rev, listRev, publishedRev, newest, burstBase,
          granted, forgotten, events>>

Lists == [known : SUBSET Skis, connected : SUBSET Skis, trusted : SUBSET Skis]
Map == [known |-> known, connected |-> connected, trusted |-> trusted]
NoList == [known |-> {}, connected |-> {}, trusted |-> {}]
Calls == {"connected", "disconnected", "autoTrusted", "trustRemoved", "seen"}

AllIdle == \A p \in Procs : pc[p] = "idle"

Init ==
    /\ autoAccept \in BOOLEAN
    /\ known = Configured /\ connected = {} /\ trusted = Configured
    /\ registered = Configured
    /\ link = {}
    /\ queue = [s \in Skis |-> <<>>]
    /\ pc = [p \in Procs |-> "idle"]
    /\ arg = [p \in Procs |-> CHOOSE s \in Skis : TRUE]
    /\ list = [p \in Procs |-> NoList]
    /\ published = Map
    /\ anyConnected = FALSE
    /\ rev = 0
    /\ listRev = [p \in Procs |-> 0] /\ publishedRev = 0 /\ newest = 0
    /\ burstBase = -1
    /\ granted = {} /\ forgotten = {}
    /\ events = 0

(* AllowWaitingForTrust: may a pairing request of this remote proceed?       *)
AllowWaitingForTrust(s) == autoAccept \/ s \in Configured \/ s \in trusted

-----------------------------------------------------------------------------
(* A critical section that changed m.conns; syncConnections follows.         *)
Changed(p) ==
    /\ rev' = rev + 1
    /\ burstBase' = IF AllIdle THEN rev ELSE burstBase
    /\ pc' = [pc EXCEPT ![p] = "copy"]

(* The calls that bring trust and those that end a connection, and the       *)
(* entries there are with s.  Variants: an announcement is trust, a          *)
(* disconnect is not recorded, a new entry is not stored.                    *)
TrustingOrSeen == {"connected", "autoTrusted", "seen"}
Trusting == {"connected", "autoTrusted"}
NoneEnding == {}
Ending == {"disconnected"}
NotStored(s) == known
With(s) == known \union {s}

(* What each callback makes of the entry, which it creates if need be.       *)
Upsert(call, s) ==
    /\ known' = With(s)
    /\ connected' = IF call = "connected" THEN connected \union {s}
                    ELSE IF call \in Ending THEN connected \ {s}
                    ELSE connected
    /\ trusted' = IF call \in Trusting THEN trusted \union {s}
                  ELSE IF call = "trustRemoved" THEN trusted \ {s}
                  ELSE trusted

(* The library calls RemoteServiceConnected, RemoteServiceDisconnected,      *)
(* ServiceAutoTrusted, ServiceAutoTrustRemoved, or one of the two that only  *)
(* make an SKI known, VisibleRemoteMdnsServicesUpdated and ServiceUpdated.   *)
Callback(p, s) ==
    /\ pc[p] = "idle"
    /\ queue[s] # <<>>
    /\ queue' = [queue EXCEPT ![s] = Tail(@)]
    /\ Upsert(Head(queue[s]), s)
    /\ Changed(p)
    /\ UNCHANGED <<autoAccept, registered, link, arg, copies, storeVars, history,
                   events>>

(* Trust: registerTrusted first registers with the library ...               *)
Trust(p, s) ==
    /\ pc[p] = "idle"
    /\ events < MaxEvents
    /\ events' = events + 1
    /\ registered' = registered \union {s}
    /\ granted' = granted \union {s}
    /\ forgotten' = forgotten \ {s}
    /\ burstBase' = IF AllIdle THEN rev ELSE burstBase
    /\ arg' = [arg EXCEPT ![p] = s]
    /\ pc' = [pc EXCEPT ![p] = "trust"]
    /\ UNCHANGED <<autoAccept, conns, link, queue, copies, storeVars, rev>>

(* Variant: the copy is taken before the entry is marked.                    *)
MarkTrustedAfterCopy(p) ==
    /\ pc[p] = "trust"
    /\ known' = known \union {arg[p]}
    /\ trusted' = trusted \union {arg[p]}
    /\ rev' = rev + 1
    /\ list' = [list EXCEPT ![p] = Map]
    /\ listRev' = [listRev EXCEPT ![p] = rev]
    /\ pc' = [pc EXCEPT ![p] = "publish"]
    /\ UNCHANGED <<autoAccept, connected, external, arg, storeVars, burstBase,
                   history, events>>

(* ... then marks the entry.                                                 *)
MarkTrusted(p) ==
    /\ pc[p] = "trust"
    /\ known' = With(arg[p])
    /\ trusted' = trusted \union {arg[p]}
    /\ Changed(p)
    /\ UNCHANGED <<autoAccept, connected, external, arg, copies, storeVars, history,
                   events>>

(* The library drops a connection and will say so.                           *)
Drop(s) ==
    /\ link' = link \ {s}
    /\ queue' = [queue EXCEPT ![s] =
                      IF s \in link THEN Append(@, "disconnected") ELSE @]

(* Forget: unregister, which drops the connection ...                        *)
Forget(p, s) ==
    /\ pc[p] = "idle"
    /\ events < MaxEvents
    /\ events' = events + 1
    /\ registered' = registered \ {s}
    /\ Drop(s)
    /\ burstBase' = IF AllIdle THEN rev ELSE burstBase
    /\ arg' = [arg EXCEPT ![p] = s]
    /\ pc' = [pc EXCEPT ![p] = "forget"]
    /\ UNCHANGED <<autoAccept, conns, copies, storeVars, rev, granted, forgotten>>

(* ... then clear the entry, if there is one.                                *)
MarkForgotten(p) ==
    /\ pc[p] = "forget"
    /\ connected' = connected \ {arg[p]}
    /\ trusted' = trusted \ {arg[p]}
    /\ Changed(p)
    /\ forgotten' = forgotten \union {arg[p]}
    /\ UNCHANGED <<autoAccept, known, external, arg, copies, storeVars, granted,
                   events>>

(* syncConnections: copy the map under the lock ...                          *)
Copy(p) ==
    /\ pc[p] = "copy"
    /\ list' = [list EXCEPT ![p] = Map]
    /\ listRev' = [listRev EXCEPT ![p] = rev]
    /\ pc' = [pc EXCEPT ![p] = "publish"]
    /\ UNCHANGED <<autoAccept, conns, external, arg, storeVars, rev, burstBase,
                   history, events>>

(* ... and write the copy into the Store after releasing it.                 *)
Publish(p) ==
    /\ pc[p] = "publish"
    /\ published' = list[p]
    /\ anyConnected' = (list[p].connected # {})
    /\ publishedRev' = listRev[p]
    /\ newest' = IF listRev[p] > newest THEN listRev[p] ELSE newest
    /\ list' = [list EXCEPT ![p] = NoList]
    /\ listRev' = [listRev EXCEPT ![p] = 0]
    /\ pc' = [pc EXCEPT ![p] = "idle"]
    /\ UNCHANGED <<autoAccept, conns, external, arg, rev, burstBase, history, events>>

-----------------------------------------------------------------------------
(* External: the SHIP service.  It connects to registered remotes, and lets  *)
(* those pair that AllowWaitingForTrust admits.  The calls for one SKI are   *)
(* made in the order of the changes they report.                             *)
Report(s, calls) ==
    /\ events < MaxEvents
    /\ events' = events + 1
    /\ queue' = [queue EXCEPT ![s] = @ \o calls]
    /\ UNCHANGED <<autoAccept, conns, pc, arg, copies, storeVars, rev, burstBase,
                   granted, forgotten>>

Connect(s) ==
    /\ s \notin link
    /\ s \in registered \/ AllowWaitingForTrust(s)
    /\ link' = link \union {s}
    /\ registered' = IF autoAccept THEN registered \union {s} ELSE registered
    /\ Report(s, IF autoAccept THEN <<"autoTrusted", "connected">>
                               ELSE <<"connected">>)

Disconnect(s) ==
    /\ s \in link
    /\ link' = link \ {s}
    /\ Report(s, <<"disconnected">>)
    /\ UNCHANGED registered

AutoTrustRemoved(s) ==
    /\ autoAccept
    /\ s \in registered
    /\ registered' = registered \ {s}
    /\ Report(s, <<"trustRemoved">>)
    /\ UNCHANGED link

Announce(s) ==
    /\ Report(s, <<"seen">>)
    /\ UNCHANGED <<registered, link>>

(* The bridge starts anew: NewManager makes an empty map and a service that  *)
(* knows nobody, and Start registers what the options name.                  *)
Restart ==
    /\ events < MaxEvents
    /\ events' = events + 1
    /\ autoAccept' \in BOOLEAN
    /\ known' = Configured /\ connected' = {} /\ trusted' = Configured
    /\ registered' = Configured
    /\ link' = {}
    /\ queue' = [s \in Skis |-> <<>>]
    /\ pc' = [p \in Procs |-> "idle"]
    /\ list' = [p \in Procs |-> NoList]
    /\ published' = [known |-> Configured, connected |-> {}, trusted |-> Configured]
    /\ anyConnected' = FALSE
    /\ rev' = 0
    /\ listRev' = [p \in Procs |-> 0] /\ publishedRev' = 0 /\ newest' = 0
    /\ burstBase' = -1
    /\ UNCHANGED <<arg, history>>

Next ==
    \/ \E p \in Operators, s \in Skis : Trust(p, s) \/ Forget(p, s)
    \/ \E p \in Operators : MarkTrusted(p) \/ MarkForgotten(p)
    \/ \E p \in Callbacks, s \in Skis : Callback(p, s)
    \/ \E p \in Procs : Copy(p) \/ Publish(p)
    \/ \E s \in Skis : Connect(s) \/ Disconnect(s) \/ AutoTrustRemoved(s) \/ Announce(s)
    \/ Restart

Spec == Init /\ [][Next]_vars
-----------------------------------------------------------------------------
TypeOK ==
    /\ autoAccept \in BOOLEAN
    /\ known \subseteq Skis /\ connected \subseteq known /\ trusted \subseteq known
    /\ registered \subseteq Skis /\ link \subseteq Skis
    /\ queue \in [Skis -> Seq(Calls)]
    /\ pc \in [Procs -> {"idle", "trust", "forget", "copy", "publish"}]
    /\ arg \in [Procs -> Skis]
    /\ list \in [Procs -> Lists]
    /\ published \in Lists
    /\ anyConnected \in BOOLEAN
    /\ rev \in Nat
    /\ listRev \in [Procs -> Nat]
    /\ publishedRev \in Nat /\ newest \in Nat
    /\ burstBase \in Int
    /\ granted \subseteq Skis /\ forgotten \subseteq Skis
    /\ events \in 0 .. MaxEvents

(* handler.go:77-78: without auto-accept "only remotes the user has          *)
(* explicitly pre-trusted (config or runtime) are allowed".  No sequence of  *)
(* announcements, connections and callbacks gets another remote admitted.    *)
OnlyGrantedAllowed ==
    ~autoAccept =>
        \A s \in Skis : AllowWaitingForTrust(s) => s \in Configured \union granted

(* The last copy written to the Store was older than one written before it.  *)
Overtaken == publishedRev < newest

(* Once the calls for a remote without a connection have been made, the      *)
(* manager's map does not show one (handler.go:14-27, manager.go:161-168).   *)
(* Nor does the Store, once nobody is about to write it and unless an older  *)
(* copy of the map was written last.                                         *)
NoGhostConnection ==
    \A s \in Skis \ link : queue[s] = <<>> =>
        /\ s \notin connected
        /\ AllIdle /\ ~Overtaken => s \notin published.connected

(* manager.go:238: "syncConnections writes the current connection map into   *)
(* the store".  It copies the map under one lock and writes it under another,*)
(* so that an older copy may be written after the current one, and stay.     *)
(* What does hold when no goroutine is between changing the map and writing  *)
(* it: a copy with every change was written, it is still there unless it was *)
(* overtaken so, and what is there instead is no older than the overlapping  *)
(* changes now over.  Connected always belongs to the same copy as           *)
(* Connections (manager.go:239-266).                                         *)
StaleOnlyIfOvertaken ==
    /\ AllIdle => /\ newest = rev
                  /\ ~Overtaken => published = Map
                  /\ publishedRev > burstBase
    /\ anyConnected <=> published.connected # {}

(* manager.go:155: "Forget removes trust for a remote SKI": without          *)
(* auto-accept, a remote that is not configured and was forgotten may not    *)
(* pair again until it is trusted again.                                     *)
ForgetRevokes ==
    ~autoAccept =>
        \A s \in forgotten \ Configured : ~AllowWaitingForTrust(s)
=============================================================================
