------------------------------ MODULE Monitoring ------------------------------
(* The monitoring callbacks of internal/eebus/usecases.go: onMPC, onVABD and *)
(* onVAPD.  Each raised event runs one of them in a goroutine of its own.    *)
(* It enters Store.Update, and inside the mutator, so under the Store's      *)
(* lock, asks the library for the value of the entity the event names and    *)
(* copies it.  Events with no value only set Supported, which setupUseCases  *)
(* has set before.  A value is the number of the change that made it.        *)
EXTENDS Integers

CONSTANTS
    Enabled,     \* the use cases the options enable
    Watched,     \* the pairs of a use case and one of its values to look at
    Devices,     \* remote devices that report values
    NoDevice,    \* nothing is shown yet
    Callbacks,   \* goroutines running a callback
    NoOne,       \* nobody holds the Store's lock
    MaxChanges   \* bound on the changes of values

VARIABLES
    shown,       \* the fields of MPCState, BatteryState and InverterState
    lock,        \* Store.mu, as far as these callbacks take it
    at, job, got,         \* each callback: its place, its event, what it read
    cache,       \* external: the library's copy, for each device
    raised,      \* external: events raised and not yet handled
    changes      \* counter for the bound

callback == <<at, job, got>>
vars == <<shown, lock, at, job, got, cache, raised, changes>>

MPCValues == {"Power", "PowerPerPhase", "EnergyConsumed", "EnergyProduced",
              "CurrentsPerPhase", "VoltagePerPhase", "Frequency"}
BatteryValues == {"Power", "StateOfCharge", "EnergyCharged", "EnergyDischarged"}
InverterValues == {"Power", "PowerNominalPeak", "PVYieldTotal"}
ValuesOf == [mpc |-> MPCValues, vabd |-> BatteryValues, vapd |-> InverterValues]

ASSUME EnabledAssumption == Enabled \subseteq DOMAIN ValuesOf
ASSUME WatchedAssumption ==
    \A w \in Watched : w[1] \in DOMAIN ValuesOf /\ w[2] \in ValuesOf[w[1]]
ASSUME NamesAssumption == NoDevice \notin Devices /\ NoOne \notin Callbacks
ASSUME BoundAssumption == MaxChanges \in Nat

Nothing == [from |-> NoDevice, value |-> 0]
Fields == {Nothing} \union [from : Devices, value : Nat \ {0}]
Events == Devices \X Watched

(* Only an enabled use case has an object, and only it raises events.        *)
Init ==
    /\ shown = [w \in Watched |-> Nothing]
    /\ lock = NoOne
    /\ at = [c \in Callbacks |-> "idle"]
    /\ job \in [Callbacks -> Events]
    /\ got = [c \in Callbacks |-> 0]
    /\ cache = [e \in Events |-> 0]
    /\ raised = [e \in Events |-> 0]
    /\ changes = 0

-----------------------------------------------------------------------------
(* The callback of an event starts.                                          *)
Begin(c, e) ==
    /\ at[c] = "idle"
    /\ raised[e] > 0
    /\ raised' = [raised EXCEPT ![e] = @ - 1]
    /\ job' = [job EXCEPT ![c] = e]
    /\ at' = [at EXCEPT ![c] = "enter"]
    /\ UNCHANGED <<shown, lock, got, cache, changes>>

(* Store.Update takes the lock and calls the mutator.                        *)
EveryoneMayEnter == TRUE
Unlocked == lock = NoOne

Enter(c) ==
    /\ at[c] = "enter"
    /\ Unlocked
    /\ lock' = c
    /\ at' = [at EXCEPT ![c] = "read"]
    /\ UNCHANGED <<shown, job, got, cache, raised, changes>>

(* The mutator asks the library, which has nothing for a device that left.   *)
Read(c) ==
    /\ at[c] = "read"
    /\ got' = [got EXCEPT ![c] = cache[job[c]]]
    /\ at' = [at EXCEPT ![c] = "write"]
    /\ UNCHANGED <<shown, lock, job, cache, raised, changes>>

(* "if v, err := ...; err == nil": an error leaves the field as it is.       *)
ErrorIgnored(v) == TRUE
Succeeded(v) == v # 0

Write(c) ==
    /\ at[c] = "write"
    /\ shown' = IF Succeeded(got[c])
                  THEN [shown EXCEPT ![job[c][2]] =
                           [from |-> job[c][1], value |-> got[c]]]
                  ELSE shown
    /\ lock' = NoOne
    /\ at' = [at EXCEPT ![c] = "idle"]
    /\ UNCHANGED <<job, got, cache, raised, changes>>

-----------------------------------------------------------------------------
(* External: a device reports a value, and the library raises the event when *)
(* its copy is up to date; a device leaves, and its entities with it.        *)
Report(e) ==
    /\ changes < MaxChanges
    /\ e[2][1] \in Enabled
    /\ changes' = changes + 1
    /\ cache' = [cache EXCEPT ![e] = changes']
    /\ raised' = [raised EXCEPT ![e] = @ + 1]
    /\ UNCHANGED <<shown, lock, callback>>

Leave(d) ==
    /\ cache' = [e \in Events |-> IF e[1] = d THEN 0 ELSE cache[e]]
    /\ UNCHANGED <<shown, lock, callback, raised, changes>>

OnEvent(c) == Enter(c) \/ Read(c) \/ Write(c) \/ \E e \in Events : Begin(c, e)

Next ==
    \/ \E c \in Callbacks : OnEvent(c)
    \/ \E e \in Events : Report(e)
    \/ \E d \in Devices : Leave(d)

Spec == Init /\ [][Next]_vars
-----------------------------------------------------------------------------
TypeOK ==
    /\ shown \in [Watched -> Fields]
    /\ lock \in Callbacks \union {NoOne}
    /\ at \in [Callbacks -> {"idle", "enter", "read", "write"}]
    /\ job \in [Callbacks -> Events]
    /\ got \in [Callbacks -> Nat]
    /\ cache \in [Events -> Nat]
    /\ raised \in [Events -> Nat]
    /\ changes \in 0 .. MaxChanges

(* However the callbacks of one value overtake each other between the event  *)
(* and the lock, what is shown of a device is never replaced by something    *)
(* older of the same device, nor by nothing (usecases.go:171-203: the value  *)
(* is read under the lock, unlike in onEgLPC).                               *)
NeverOlder ==
    [][\A w \in Watched :
          shown'[w].from = shown[w].from => shown'[w].value >= shown[w].value]_vars

(* When all callbacks have returned, a value the library holds is shown, or  *)
(* another device's is: the last callback in the lock read it after the last *)
(* change.  What a device that left reported stays (usecases.go:175-177).    *)
SettledIsCurrent ==
    (\A e \in Events : raised[e] = 0) /\ (\A c \in Callbacks : at[c] = "idle") =>
        \A d \in Devices, w \in Watched :
            cache[<<d, w>>] # 0 =>
                /\ shown[w].from # NoDevice
                /\ shown[w].from = d => shown[w].value = cache[<<d, w>>]
===============================================================================
