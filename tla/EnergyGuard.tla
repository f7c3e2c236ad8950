----------------------------- MODULE EnergyGuard -----------------------------
(* Home Assistant as Energy Guard: limits written to an inverter through     *)
(* internal/eebus/control.go, for one of the two directions (they run the    *)
(* same code and share only the target entity and the staged duration).      *)
(*                                                                           *)
(* Each HTTP request runs in a goroutine of its own; the mutex of the        *)
(* manager and the lock of the Store cover single steps only, so requests    *)
(* interleave between staging, looking at the snapshot, writing to the wire  *)
(* and recording.  The inverter answers later, and each change it reports    *)
(* runs a callback that reads the library's copy and records it, again in    *)
(* two steps.                                                                *)
EXTENDS Integers, Sequences

CONSTANTS
    Handlers,      \* goroutines serving HTTP requests
    Callbacks,     \* goroutines running onEgLPC / onEgLPP for a limit update
    Entities,      \* remote entities that offer the use case
    NoEntity,      \* m.egEntity before any was discovered
    Production,    \* TRUE: LPP, whose wire values are negative; FALSE: LPC
    Watts,         \* values clients send
    MaxRequests,   \* bound on the requests
    MaxOwnChanges  \* bound on the changes an inverter makes by itself

ASSUME EntityAssumption == NoEntity \notin Entities
ASSUME ProductionAssumption == Production \in BOOLEAN
ASSUME WattsAssumption == Watts \subseteq Int
ASSUME BoundsAssumption == MaxRequests \in Nat /\ MaxOwnChanges \in Nat

VARIABLES
    staged,        \* InverterControl.*TargetW
    limit, active, \* InverterControl.*LimitW and *Active
    egEntity,      \* m.egEntity
    pc, req, dest, \* each handler: its place, the command it carries, its entity
    cbPc, cbLimit, \* each callback: its place, the limit it read
    toDevice,      \* limits written and not yet received, in order
    device,        \* external: the limit each entity holds
    toBridge,      \* external: changes notified and not yet received, in order
    cache, events, \* the library's copy for each entity; callbacks not started
    requests, ownChanges,    \* counters for the bounds
    asked, mishap, before,   \* history of the present activity, see Begin
    wanted         \* history: some client asked for an active limit

store == <<staged, limit, active>>
handler == <<pc, req, dest>>
callback == <<cbPc, cbLimit, events>>
wire == <<toDevice, device, toBridge, cache>>
history == <<asked, before, wanted>>
counters == <<requests, ownChanges>>
vars == <<staged, limit, active, egEntity, pc, req, dest, cbPc, cbLimit, toDevice,
          device, toBridge, cache, events, requests, ownChanges, asked, mishap,
          before, wanted>>

Abs(v) == IF v < 0 THEN -v ELSE v

(* The sign applied on the wire, control.go:100 against control.go:71, and   *)
(* the value recorded and read back, control.go:109 and :51.                 *)
OnWire(v) == IF Production THEN -Abs(v) ELSE v
Recorded(v) == IF Production THEN Abs(v) ELSE v

LimitOf(v, a) == [value |-> OnWire(v), active |-> a]
Limits == [value : {0} \union {OnWire(v) : v \in Watts}, active : BOOLEAN]
Commands == [op : {"limit", "target", "activate"}, value : {0} \union Watts,
             active : BOOLEAN]
NoCommand == [op |-> "limit", value |-> 0, active |-> FALSE]

(* Nothing is in progress anywhere.                                          *)
Quiet ==
    /\ \A h \in Handlers : pc[h] = "idle"
    /\ \A c \in Callbacks : cbPc[c] = "idle"
    /\ toDevice = <<>> /\ toBridge = <<>>
    /\ \A e \in Entities : events[e] = 0

(* The bridge has just started; an inverter may still hold an active limit,  *)
(* whose update the library has read but not yet passed to a callback.       *)
Init ==
    /\ staged = 0 /\ limit = 0 /\ active = FALSE
    /\ egEntity = NoEntity
    /\ pc = [h \in Handlers |-> "idle"]
    /\ req = [h \in Handlers |-> NoCommand]
    /\ dest = [h \in Handlers |-> NoEntity]
    /\ cbPc = [c \in Callbacks |-> "idle"]
    /\ cbLimit = [c \in Callbacks |-> LimitOf(0, FALSE)]
    /\ toDevice = <<>> /\ toBridge = <<>>
    /\ device \in [Entities -> {LimitOf(0, FALSE)} \union
                               {LimitOf(v, TRUE) : v \in Watts}]
    /\ cache = device
    /\ events = [e \in Entities |-> IF device[e].active THEN 1 ELSE 0]
    /\ requests = 0 /\ ownChanges = 0
    /\ wanted = \E e \in Entities : device[e].active
    /\ asked = <<>> /\ mishap = wanted
    /\ before = [active |-> FALSE, device |-> device]

-----------------------------------------------------------------------------
(* History: asked lists the requests since all was quiet, before holds what  *)
(* was so then, and mishap says whether something went wrong since: a write  *)
(* failed or was rejected, an inverter changed its limit by itself, or       *)
(* another entity became the target.                                         *)
Begin(r) ==
    /\ requests < MaxRequests
    /\ requests' = requests + 1
    /\ asked' = IF Quiet THEN <<r>> ELSE Append(asked, r)
    /\ mishap' = (mishap /\ ~Quiet)
    /\ before' = IF Quiet THEN [active |-> active, device |-> device] ELSE before
    /\ wanted' = (wanted \/ (r.op # "target" /\ r.active))

(* POST .../limit: straight to the wire.                                     *)
RequestLimit(h, v, a) ==
    /\ pc[h] = "idle"
    /\ req' = [req EXCEPT ![h] = [op |-> "limit", value |-> v, active |-> a]]
    /\ pc' = [pc EXCEPT ![h] = "lookup"]
    /\ Begin(req'[h])
    /\ UNCHANGED <<store, egEntity, dest, callback, wire, ownChanges>>

(* POST .../activate: ActivateEG... takes the staged value from a snapshot.  *)
RequestActivate(h, a) ==
    /\ pc[h] = "idle"
    /\ req' = [req EXCEPT ![h] = [op |-> "activate", value |-> staged, active |-> a]]
    /\ pc' = [pc EXCEPT ![h] = "lookup"]
    /\ Begin(req'[h])
    /\ UNCHANGED <<store, egEntity, dest, callback, wire, ownChanges>>

(* POST .../target: the first Store.Update of SetEG...Target.                *)
RequestTarget(h, v) ==
    /\ pc[h] = "idle"
    /\ req' = [req EXCEPT ![h] = [op |-> "target", value |-> v, active |-> TRUE]]
    /\ pc' = [pc EXCEPT ![h] = "peek"]
    /\ staged' = v
    /\ Begin(req'[h])
    /\ UNCHANGED <<limit, active, egEntity, dest, callback, wire, ownChanges>>

(* Is the new value sent at once?  Variants: never, always.                  *)
ReapplyNever == FALSE
ReapplyAlways == TRUE
Reapply == active

(* Its snapshot: an active limit is re-applied with the new value.           *)
Peek(h) ==
    /\ pc[h] = "peek"
    /\ pc' = [pc EXCEPT ![h] = IF Reapply THEN "lookup" ELSE "idle"]
    /\ UNCHANGED <<store, egEntity, req, dest, callback, wire, counters, history, mishap>>

(* No entity was discovered yet.  Variant: nobody checks.                    *)
UnknownUnchecked == FALSE
Unknown == egEntity = NoEntity

(* SetInverter...Limit reads the entity under the mutex.                     *)
Lookup(h) ==
    /\ pc[h] = "lookup"
    /\ dest' = [dest EXCEPT ![h] = egEntity]
    /\ pc' = [pc EXCEPT ![h] = IF Unknown THEN "idle" ELSE "write"]
    /\ mishap' = (mishap \/ Unknown)
    /\ UNCHANGED <<store, egEntity, req, callback, wire, counters, history>>

(* Write...Limit sends, or returns an error and nothing else happens.        *)
Write(h) ==
    /\ pc[h] = "write"
    /\ \/ /\ toDevice' = Append(toDevice, [to |-> dest[h],
                                          limit |-> LimitOf(req[h].value, req[h].active)])
          /\ pc' = [pc EXCEPT ![h] = "record"]
          /\ UNCHANGED mishap
       \/ /\ pc' = [pc EXCEPT ![h] = "idle"]
          /\ mishap' = TRUE
          /\ UNCHANGED toDevice
    /\ UNCHANGED <<store, egEntity, req, dest, callback, device, toBridge, cache,
                   counters, history>>

Record(h) ==
    /\ pc[h] = "record"
    /\ limit' = Recorded(req[h].value)
    /\ active' = req[h].active
    /\ pc' = [pc EXCEPT ![h] = "idle"]
    /\ UNCHANGED <<staged, egEntity, req, dest, callback, wire, counters, history, mishap>>

-----------------------------------------------------------------------------
(* An entity announces the use case with scenario 1; the last one to do so   *)
(* is the target, whatever device it belongs to.                             *)
UseCaseSupportUpdate(e) ==
    /\ egEntity # e
    /\ egEntity' = e
    /\ mishap' = TRUE
    /\ UNCHANGED <<store, handler, callback, wire, counters, history>>

(* DataUpdateLimit, first half: read the library's copy.                     *)
ReadUpdate(c, e) ==
    /\ cbPc[c] = "idle"
    /\ events[e] > 0
    /\ events' = [events EXCEPT ![e] = @ - 1]
    /\ cbLimit' = [cbLimit EXCEPT ![c] = cache[e]]
    /\ cbPc' = [cbPc EXCEPT ![c] = "record"]
    /\ UNCHANGED <<store, egEntity, handler, wire, counters, history, mishap>>

(* What is recorded of a report.  Variant: the sign of the wire, too.        *)
ReportedSigned(v) == v
Reported(v) == Recorded(v)

(* Second half: record it.                                                   *)
RecordUpdate(c) ==
    /\ cbPc[c] = "record"
    /\ limit' = Reported(cbLimit[c].value)
    /\ active' = cbLimit[c].active
    /\ cbPc' = [cbPc EXCEPT ![c] = "idle"]
    /\ UNCHANGED <<staged, egEntity, handler, cbLimit, events, wire, counters,
                   history, mishap>>

-----------------------------------------------------------------------------
(* External: the inverter and the SPINE connection.                          *)
Notify(e, l) ==
    /\ device' = [device EXCEPT ![e] = l]
    /\ toBridge' = IF device[e] = l THEN toBridge
                                    ELSE Append(toBridge, [from |-> e, limit |-> l])

(* The inverter takes the limit over, or rejects it; a rejection reaches     *)
(* writeResultCB, which only logs.                                           *)
DeviceReceives ==
    /\ toDevice # <<>>
    /\ toDevice' = Tail(toDevice)
    /\ \/ Notify(Head(toDevice).to, Head(toDevice).limit) /\ UNCHANGED mishap
       \/ mishap' = TRUE /\ UNCHANGED <<device, toBridge>>
    /\ UNCHANGED <<store, egEntity, handler, callback, cache, counters, history>>

(* A limit's duration ends.                                                  *)
DeviceExpires(e) ==
    /\ ownChanges < MaxOwnChanges
    /\ device[e].active
    /\ Notify(e, [device[e] EXCEPT !.active = FALSE])
    /\ ownChanges' = ownChanges + 1
    /\ mishap' = TRUE
    /\ UNCHANGED <<store, egEntity, handler, callback, toDevice, cache, requests, history>>

(* A notification updates the library's copy and starts a callback.          *)
Arrive ==
    /\ toBridge # <<>>
    /\ LET n == Head(toBridge)
       IN  /\ cache' = [cache EXCEPT ![n.from] = n.limit]
           /\ events' = [events EXCEPT ![n.from] = @ + 1]
    /\ toBridge' = Tail(toBridge)
    /\ UNCHANGED <<store, egEntity, handler, cbPc, cbLimit, toDevice, device,
                   counters, history, mishap>>

Handle(h) ==
    \/ \E v \in Watts : RequestTarget(h, v)
    \/ \E v \in Watts, a \in BOOLEAN : RequestLimit(h, v, a)
    \/ \E a \in BOOLEAN : RequestActivate(h, a)
    \/ Peek(h) \/ Lookup(h) \/ Write(h) \/ Record(h)

Next ==
    \/ \E h \in Handlers : Handle(h)
    \/ \E c \in Callbacks : RecordUpdate(c) \/ \E e \in Entities : ReadUpdate(c, e)
    \/ \E e \in Entities : UseCaseSupportUpdate(e) \/ DeviceExpires(e)
    \/ DeviceReceives \/ Arrive

Spec == Init /\ [][Next]_vars
-----------------------------------------------------------------------------
TypeOK ==
    /\ staged \in {0} \union Watts
    /\ limit \in Int
    /\ active \in BOOLEAN
    /\ egEntity \in Entities \union {NoEntity}
    /\ pc \in [Handlers -> {"idle", "peek", "lookup", "write", "record"}]
    /\ req \in [Handlers -> Commands]
    /\ dest \in [Handlers -> Entities \union {NoEntity}]
    /\ cbPc \in [Callbacks -> {"idle", "record"}]
    /\ cbLimit \in [Callbacks -> Limits]
    /\ toDevice \in Seq([to : Entities, limit : Limits])
    /\ device \in [Entities -> Limits]
    /\ toBridge \in Seq([from : Entities, limit : Limits])
    /\ cache \in [Entities -> Limits]
    /\ events \in [Entities -> Nat]
    /\ requests \in 0 .. MaxRequests
    /\ ownChanges \in 0 .. MaxOwnChanges
    /\ asked \in Seq(Commands)
    /\ mishap \in BOOLEAN
    /\ wanted \in BOOLEAN

(* A request that met no other and no mishap has done what it says once all  *)
(* is quiet, whichever way its own record and the inverter's report of the   *)
(* change raced: the inverter holds the commanded limit and the Store shows  *)
(* it; a new target changes the inverter exactly if a limit was active       *)
(* (control.go:58-163).                                                      *)
LoneRequestFulfilled ==
    Quiet /\ ~mishap /\ Len(asked) = 1 =>
        LET r == asked[1]
        IN  /\ r.op = "target" => staged = r.value
            /\ IF r.op = "target" /\ ~before.active
                  THEN device = before.device /\ ~active
                  ELSE /\ egEntity # NoEntity
                       /\ device[egEntity] = LimitOf(r.value, r.active)
                       /\ limit = Recorded(r.value)
                       /\ active = r.active

(* Staging targets never activates a limit: an inverter holds an active one  *)
(* only if it did before the bridge started or a client asked for one        *)
(* (control.go:115-117: "without contacting the inverter").                  *)
UnaskedNeverActive == (\E e \in Entities : device[e].active) => wanted

(* control.go:86-88: for LPP the limit on the wire is never positive, and    *)
(* what the Store shows is a magnitude, whatever sign clients send.          *)
SignsSeparated ==
    Production => /\ limit >= 0
                  /\ \A i \in 1 .. Len(toDevice) : toDevice[i].limit.value <= 0
=============================================================================
