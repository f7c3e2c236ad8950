-------------------------- MODULE ControllableSystem --------------------------
(* Home Assistant as controllable system, for one of the two directions:     *)
(* onCsLPC, refreshLPC and the setters SetLPCFailsafe and SetLPCNominalMax   *)
(* (onCsLPP and the others run the same code).  The library holds the data;  *)
(* the grid box writes it subject to approval, HTTP requests set it, and     *)
(* refreshLPC copies it into the Store: reads that are calls of their own,   *)
(* then one Update of the whole LPCState.  Callbacks and requests run in     *)
(* goroutines of their own and share no lock.                                *)
(*                                                                           *)
(* A value is the number of the change that set it; 0 is what setupUseCases  *)
(* seeded and published.  The flag HeartbeatOK is left out: nothing but the  *)
(* passing of time clears it, and that raises no event.                      *)
EXTENDS Integers, Sequences

CONSTANTS
    Callbacks,    \* goroutines that may serve calls of onCsLPC by the library,
    Handlers,     \* and failsafe and nominal_max requests; some may be both,
                  \* for one that is over leaves its place to another
    MaxChanges    \* bound on the writes of the grid box and the values set

ASSUME MaxChangesAssumption == MaxChanges \in Nat

Procs == Callbacks \union Handlers
Writable == {"limit", "failsafePower", "failsafeDuration"}   \* by the grid box
Config == Writable \union {"nominalMax"}
Reads == <<"limit", "failsafePower", "failsafeDuration", "nominalMax">>
Numbers == 1 .. MaxChanges
Writes == [number : Numbers, field : Writable]
Seed == [f \in Config |-> 0]
EventKinds == {"limitApproval", "configApproval", "dataUpdate"}

VARIABLES
    autoApprove,  \* the option auto_approve_limits; never changes
    lib,          \* external: the data points the library holds
    pending,      \* external: writes of the grid box that await approval
    events,       \* external: calls of onCsLPC not yet begun, by kind
    changes,      \* number of the last change
    pc,           \* the place of each goroutine
    todo,         \* each callback: writes it found pending and has not approved yet
    req,          \* each request: which of its two values the client gave
    copy, at,     \* LPCState as read so far; index of the next read
    shown,        \* LPC in the Store
    applied,      \* history: how often a data point has changed
    began,        \* history: applied when each running refresh began,
    shownBegan,   \*          and when the refresh began that wrote the Store last
    newest,       \* history: the greatest applied any that wrote the Store began with
    setAt,        \* history: the last change each request made
    abandoned,    \* history: changes made by requests that failed later
    limitBase,    \* history: the first of the last run of limits that waited together
    lapsed        \* history: one of that run was not answered in time

library == <<lib, pending, events, changes>>
locals == <<todo, req, copy, at>>
requestHistory == <<setAt, abandoned>>
refreshHistory == <<applied, began, shownBegan, newest>>
limitHistory == <<limitBase, lapsed>>
history == <<requestHistory, refreshHistory, limitHistory>>
vars == <<autoApprove, lib, pending, events, changes, pc, todo, req, copy, at, shown,
          applied, began, shownBegan, newest, setAt, abandoned, limitBase, lapsed>>

Refreshing(p) == pc[p] \in {"read", "publish"}
PendingLimits == {w \in pending : w.field = "limit"}

Init ==
    /\ autoApprove \in BOOLEAN
    /\ lib = Seed /\ shown = Seed
    /\ pending = {}
    /\ events = [k \in EventKinds |-> 0]
    /\ changes = 0
    /\ pc = [p \in Procs |-> "idle"]
    /\ todo = [p \in Callbacks |-> {}]
    /\ req = [p \in Handlers |-> {}]
    /\ copy = [p \in Procs |-> Seed]
    /\ at = [p \in Procs |-> 1]
    /\ applied = 0
    /\ began = [p \in Procs |-> 0]
    /\ shownBegan = 0 /\ newest = 0
    /\ setAt = [h \in Handlers |-> 0] /\ abandoned = {}
    /\ limitBase = 0 /\ lapsed = FALSE

-----------------------------------------------------------------------------
(* A data point changes.                                                     *)
Apply(f, n) ==
    /\ lib' = [lib EXCEPT ![f] = n]
    /\ applied' = applied + 1

Raise(k) == events' = [events EXCEPT ![k] = @ + 1]

(* refreshLPC begins, ...                                                    *)
Refresh(p) ==
    /\ pc' = [pc EXCEPT ![p] = "read"]
    /\ began' = [began EXCEPT ![p] = applied]

(* ... reads one value after the other ...                                   *)
Read(p) ==
    /\ pc[p] = "read"
    /\ copy' = [copy EXCEPT ![p][Reads[at[p]]] = lib[Reads[at[p]]]]
    /\ IF at[p] < Len(Reads)
         THEN at' = [at EXCEPT ![p] = @ + 1] /\ UNCHANGED pc
         ELSE at' = [at EXCEPT ![p] = 1] /\ pc' = [pc EXCEPT ![p] = "publish"]
    /\ UNCHANGED <<autoApprove, library, todo, req, shown, history>>

(* ... and writes the Store.                                                 *)
Publish(p) ==
    /\ pc[p] = "publish"
    /\ shown' = copy[p]
    /\ copy' = [copy EXCEPT ![p] = Seed]
    /\ pc' = [pc EXCEPT ![p] = "idle"]
    /\ shownBegan' = began[p]
    /\ newest' = IF began[p] > newest THEN began[p] ELSE newest
    /\ began' = [began EXCEPT ![p] = 0]
    /\ UNCHANGED <<autoApprove, library, todo, req, at, applied, requestHistory,
                   limitHistory>>

-----------------------------------------------------------------------------
Begin(c, k) ==
    /\ pc[c] = "idle"
    /\ events[k] > 0
    /\ events' = [events EXCEPT ![k] = @ - 1]

(* LimitWriteApprovalRequired and ConfigurationWriteApprovalRequired: with   *)
(* auto_approve_limits take the writes that are pending ...                  *)
ApprovalRequired(c, k, fields) ==
    /\ Begin(c, k)
    /\ todo' = [todo EXCEPT ![c] = IF autoApprove THEN {w \in pending : w.field \in fields}
                                                  ELSE {}]
    /\ pc' = [pc EXCEPT ![c] = IF todo'[c] = {} THEN "idle" ELSE "approve"]
    /\ UNCHANGED <<autoApprove, lib, pending, changes, req, copy, at, shown, history>>

LimitApprovalRequired(c) == ApprovalRequired(c, "limitApproval", {"limit"})

(* Variant: of the two configuration values only one is approved.            *)
ConfigApprovalPowerOnly(c) == ApprovalRequired(c, "configApproval", {"failsafePower"})

ConfigApprovalRequired(c) ==
    ApprovalRequired(c, "configApproval", {"failsafePower", "failsafeDuration"})

(* The verdict passed on every write.  Variant: the second argument is FALSE.*)
VerdictDenied == FALSE
Verdict == TRUE

(* Variant: a callback gives up when it meets a write that is pending no     *)
(* more, as if whoever answered that one would answer the others.            *)
ApproveUntilGone(c, w) ==
    /\ pc[c] = "approve"
    /\ w \in todo[c]
    /\ todo' = [todo EXCEPT ![c] = IF w \in pending THEN @ \ {w} ELSE {}]
    /\ pc' = [pc EXCEPT ![c] = IF todo'[c] = {} THEN "idle" ELSE "approve"]
    /\ pending' = pending \ {w}
    /\ IF w \in pending
         THEN Apply(w.field, w.number) /\ Raise("dataUpdate")
         ELSE UNCHANGED <<lib, applied, events>>
    /\ UNCHANGED <<autoApprove, changes, req, copy, at, shown, began, shownBegan, newest,
                   requestHistory, limitHistory>>

(* ... and approve each, in the order of a Go map: none.  The library        *)
(* applies the write, unless it is pending no more, and reports the change.  *)
Approve(c, w) ==
    /\ pc[c] = "approve"
    /\ w \in todo[c]
    /\ todo' = [todo EXCEPT ![c] = @ \ {w}]
    /\ pc' = [pc EXCEPT ![c] = IF todo[c] = {w} THEN "idle" ELSE "approve"]
    /\ pending' = pending \ {w}
    /\ IF w \in pending /\ Verdict
         THEN Apply(w.field, w.number) /\ Raise("dataUpdate")
         ELSE UNCHANGED <<lib, applied, events>>
    /\ UNCHANGED <<autoApprove, changes, req, copy, at, shown, began, shownBegan, newest,
                   requestHistory, limitHistory>>

(* Variant: DataUpdateHeartbeat is not one of the events that refresh.       *)
DataUpdateIgnored(c) ==
    /\ Begin(c, "dataUpdate")
    /\ UNCHANGED <<autoApprove, lib, pending, changes, pc, locals, shown, history>>

(* Variant: an event is skipped while a refresh is already running.          *)
DataUpdateCoalesced(c) ==
    /\ Begin(c, "dataUpdate")
    /\ IF \E p \in Procs : Refreshing(p)
         THEN UNCHANGED <<pc, began>>
         ELSE Refresh(c)
    /\ UNCHANGED <<autoApprove, lib, pending, changes, locals, shown, applied, shownBegan,
                   newest, requestHistory, limitHistory>>

(* DataUpdateLimit, DataUpdateFailsafe... and DataUpdateHeartbeat.           *)
DataUpdate(c) ==
    /\ Begin(c, "dataUpdate")
    /\ Refresh(c)
    /\ UNCHANGED <<autoApprove, lib, pending, changes, locals, shown, applied, shownBegan,
                   newest, requestHistory, limitHistory>>

-----------------------------------------------------------------------------
(* Was a power given?  Variant: its pointer is used without a look at it.    *)
PowerUnchecked(given) == TRUE
HasPower(given) == "failsafePower" \in given

(* POST .../failsafe with either value, both or none: SetLPCFailsafe.        *)
SetFailsafe(h, given) ==
    /\ pc[h] = "idle"
    /\ req' = [req EXCEPT ![h] = given]
    /\ pc' = [pc EXCEPT ![h] = IF HasPower(given) THEN "failsafePower"
                               ELSE IF "failsafeDuration" \in given THEN "failsafeDuration"
                               ELSE "refresh"]
    /\ UNCHANGED <<autoApprove, library, todo, copy, at, shown, history>>

(* POST .../nominal_max: SetLPCNominalMax.                                   *)
SetNominalMax(h) ==
    /\ pc[h] = "idle"
    /\ req' = [req EXCEPT ![h] = {"nominalMax"}]
    /\ pc' = [pc EXCEPT ![h] = "nominalMax"]
    /\ UNCHANGED <<autoApprove, library, todo, copy, at, shown, history>>

(* Where a request goes on when the library has taken value f.               *)
NextPlace(h, f) ==
    IF f = "failsafePower" /\ "failsafeDuration" \in req[h] THEN "failsafeDuration"
                                                            ELSE "refresh"

SetValue(h, f) ==
    /\ pc[h] = f
    /\ changes < MaxChanges
    /\ changes' = changes + 1
    /\ Apply(f, changes + 1)
    /\ pc' = [pc EXCEPT ![h] = NextPlace(h, f)]
    /\ setAt' = [setAt EXCEPT ![h] = applied + 1]
    /\ UNCHANGED <<autoApprove, pending, events, locals, shown, began, shownBegan, newest,
                   abandoned, limitHistory>>

(* The library refuses the value, and the request returns at once, with no   *)
(* refresh for the power it may have set before.                             *)
SetFails(h, f) ==
    /\ pc[h] = f
    /\ pc' = [pc EXCEPT ![h] = "idle"]
    /\ req' = [req EXCEPT ![h] = {}]
    /\ abandoned' = abandoned \union ({setAt[h]} \ {0})
    /\ setAt' = [setAt EXCEPT ![h] = 0]
    /\ UNCHANGED <<autoApprove, library, todo, copy, at, shown, refreshHistory,
                   limitHistory>>

RefreshAfterSet(h) ==
    /\ pc[h] = "refresh"
    /\ Refresh(h)
    /\ req' = [req EXCEPT ![h] = {}]
    /\ setAt' = [setAt EXCEPT ![h] = 0]
    /\ UNCHANGED <<autoApprove, library, todo, copy, at, shown, applied, shownBegan,
                   newest, abandoned, limitHistory>>

-----------------------------------------------------------------------------
(* External: the grid box and the library.                                   *)
ApprovalKind(f) == IF f = "limit" THEN "limitApproval" ELSE "configApproval"

GridWrite(f) ==
    /\ changes < MaxChanges
    /\ changes' = changes + 1
    /\ pending' = pending \union {[number |-> changes + 1, field |-> f]}
    /\ Raise(ApprovalKind(f))
    /\ IF f = "limit" /\ PendingLimits = {}
         THEN limitBase' = changes + 1 /\ lapsed' = FALSE
         ELSE UNCHANGED limitHistory
    /\ UNCHANGED <<autoApprove, lib, pc, locals, shown, requestHistory, refreshHistory>>

(* The library answers by itself a write nobody approved in time.            *)
TimeOut(w) ==
    /\ w \in pending
    /\ pending' = pending \ {w}
    /\ lapsed' = (lapsed \/ w.field = "limit")
    /\ UNCHANGED <<autoApprove, lib, events, changes, pc, locals, shown, requestHistory,
                   refreshHistory, limitBase>>

(* A heartbeat of the grid box.  They are far apart: the one before has been *)
(* passed to a callback.                                                     *)
Heartbeat ==
    /\ events["dataUpdate"] = 0
    /\ Raise("dataUpdate")
    /\ UNCHANGED <<autoApprove, lib, pending, changes, pc, locals, shown, history>>

-----------------------------------------------------------------------------
OnCsLPC(c) ==
    \/ LimitApprovalRequired(c) \/ ConfigApprovalRequired(c)
    \/ \E w \in todo[c] : Approve(c, w)
    \/ DataUpdate(c)

Request(h) ==
    \/ \E given \in SUBSET {"failsafePower", "failsafeDuration"} : SetFailsafe(h, given)
    \/ SetNominalMax(h)

Work(h) ==
    \/ \E f \in Config \ {"limit"} : SetValue(h, f) \/ SetFails(h, f)
    \/ RefreshAfterSet(h)

RefreshLPC(p) == Read(p) \/ Publish(p)

Next ==
    \/ \E c \in Callbacks : OnCsLPC(c)
    \/ \E h \in Handlers : Request(h) \/ Work(h)
    \/ \E p \in Procs : RefreshLPC(p)
    \/ \E f \in Writable : GridWrite(f)
    \/ \E w \in pending : TimeOut(w)
    \/ Heartbeat

Spec == Init /\ [][Next]_vars

(* The Go scheduler runs every goroutine that has something to do; a call of *)
(* onCsLPC that the library has to make gets its turn although the Callbacks *)
(* of the model may all be busy each time.                                   *)
Scheduling ==
    /\ SF_vars(\E c \in Callbacks : LimitApprovalRequired(c))
    /\ SF_vars(\E c \in Callbacks : ConfigApprovalRequired(c))
    /\ SF_vars(\E c \in Callbacks : DataUpdate(c))
    /\ \A c \in Callbacks : WF_vars(\E w \in todo[c] : Approve(c, w))
    /\ \A h \in Handlers : WF_vars(Work(h))
    /\ \A p \in Procs : WF_vars(RefreshLPC(p))

FairSpec == Spec /\ Scheduling
-----------------------------------------------------------------------------
TypeOK ==
    /\ autoApprove \in BOOLEAN
    /\ lib \in [Config -> 0 .. MaxChanges]
    /\ pending \subseteq Writes
    /\ events \in [EventKinds -> Nat]
    /\ changes \in 0 .. MaxChanges
    /\ pc \in [Procs -> Config \union {"idle", "approve", "refresh", "read", "publish"}]
    /\ todo \in [Callbacks -> SUBSET Writes]
    /\ req \in [Handlers -> SUBSET Config]
    /\ \A h \in Handlers : pc[h] \in Config => pc[h] \in req[h]
    /\ copy \in [Procs -> [Config -> 0 .. MaxChanges]]
    /\ at \in [Procs -> 1 .. Len(Reads)]
    /\ shown \in [Config -> 0 .. MaxChanges]
    /\ applied \in Nat /\ newest \in Nat /\ shownBegan \in Nat
    /\ began \in [Procs -> Nat]
    /\ setAt \in [Handlers -> Nat] /\ abandoned \subseteq Nat
    /\ limitBase \in 0 .. MaxChanges
    /\ lapsed \in BOOLEAN

Quiet ==
    /\ \A p \in Procs : pc[p] = "idle"
    /\ \A k \in EventKinds : events[k] = 0

(* Every change of a data point is read by a refresh that began after it and *)
(* wrote the Store, but for what a request changed that failed at its next   *)
(* value, and the Store shows what the library holds, unless such a change   *)
(* or an older refresh, overtaken by that one, came last.  Changes may fall  *)
(* into refreshes anywhere (usecases.go:91-118, control.go:180-208).         *)
StaleOnlyIfOvertaken ==
    Quiet =>
        /\ newest + 1 .. applied \subseteq abandoned
        /\ shownBegan = applied => shown = lib

(* With no limit waiting, the limit in force is the last the grid box wrote  *)
(* or one that waited together with it, in the order of a Go map, unless one *)
(* of these was not answered in time: no order of events, approvals and      *)
(* requests brings back a limit from before them (usecases.go:79-84).        *)
LimitInForceIsRecent ==
    PendingLimits = {} /\ ~lapsed => lib["limit"] >= limitBase

(* With auto_approve_limits no write is stranded: a call that will find it   *)
(* pending is still to come, or a callback that found it has yet to approve  *)
(* it, although one call may take the writes of several (usecases.go:79-90). *)
NoWriteStranded ==
    autoApprove => \A w \in pending :
        \/ events[ApprovalKind(w.field)] > 0
        \/ \E c \in Callbacks : pc[c] = "approve" /\ w \in todo[c]

(* With auto_approve_limits every write is answered, however many wait at    *)
(* once and whichever callbacks race for them: when the grid box writes no   *)
(* more, in the end none is waiting (usecases.go:79-90).                     *)
WritesAnswered ==
    autoApprove => <>[](pending = {})

(* While heartbeats keep coming, whatever a race or a failed request left    *)
(* stale in the Store is made good: each heartbeat reads everything again    *)
(* (usecases.go:91-95).                                                      *)
HeartbeatsHeal ==
    []<><<Heartbeat>>_vars => <>[](shown = lib)
=============================================================================
