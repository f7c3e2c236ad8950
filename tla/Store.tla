-------------------------------- MODULE Store --------------------------------
(* The state container of the bridge (internal/store/store.go) and its       *)
(* fan-out to the WebSocket handlers.  Every EEBUS callback and every HTTP   *)
(* request that changes something ends in Store.Update; every open           *)
(* WebSocket holds one channel of capacity 1 obtained from Store.Subscribe.  *)
(*                                                                           *)
(* State is represented by the number of mutations applied so far: the       *)
(* properties only ask whether one snapshot is older than another.  The part *)
(* of Update under the mutex is one step, and so is each select statement    *)
(* of the publishing loop, which runs after the mutex is released.           *)
EXTENDS Integers, FiniteSets

CONSTANTS
    Writers,      \* goroutines that call Update, one call at a time each
    HttpWriters,  \* those that serve an HTTP request: net/http recovers their panics
    MaxSubs,      \* bound on the calls of Subscribe
    MaxUpdates    \* bound on the calls of Update

ASSUME WritersAssumption == HttpWriters \subseteq Writers
ASSUME MaxSubsAssumption == MaxSubs \in Nat
ASSUME MaxUpdatesAssumption == MaxUpdates \in Nat

Subs == 0 .. MaxSubs - 1      \* the ids Subscribe hands out
Versions == 0 .. MaxUpdates
Empty == -1                   \* nothing buffered, nothing received, no snapshot held

VARIABLES
    version,      \* s.state
    nextSub,      \* s.nextSub
    subscribers,  \* the keys of s.subscribers; a smaller id that is missing was closed
    buffer,       \* the one slot of each channel
    received,     \* the last snapshot each handler took from its channel
    pc,           \* where each writer is in Update
    snap,         \* its local variable snapshot
    todo,         \* the channels of its local variable subs it is not done with
    target,       \* the channel it found full
    panicked,     \* writers that sent on a closed channel
    burstBase     \* history: version when the present run of overlapping Updates began

channels == <<nextSub, subscribers, buffer, received>>
locals == <<pc, snap, todo, target>>
vars == <<version, nextSub, subscribers, buffer, received, pc, snap, todo,
          target, panicked, burstBase>>

AllIdle == \A w \in Writers : pc[w] = "idle"

(* A panic outside an HTTP handler ends the process.                         *)
Alive == panicked \subseteq HttpWriters

Init ==
    /\ version = 0
    /\ nextSub = 0
    /\ subscribers = {}
    /\ buffer = [s \in Subs |-> Empty]
    /\ received = [s \in Subs |-> Empty]
    /\ pc = [w \in Writers |-> "idle"]
    /\ snap = [w \in Writers |-> Empty]
    /\ todo = [w \in Writers |-> {}]
    /\ target = [w \in Writers |-> 0]
    /\ panicked = {}
    /\ burstBase = Empty

-----------------------------------------------------------------------------
(* The channels Update copies.  Variant: by the counter, and one too many.   *)
CopiedByCounter == 0 .. nextSub
Copied == subscribers

(* Update: mutate, take the snapshot, copy the channels, all under the lock. *)
UpdateLocked(w) ==
    /\ Alive
    /\ pc[w] = "idle"
    /\ version < MaxUpdates
    /\ version' = version + 1
    /\ burstBase' = IF AllIdle THEN version ELSE burstBase
    /\ snap' = [snap EXCEPT ![w] = version + 1]
    /\ todo' = [todo EXCEPT ![w] = Copied]
    /\ pc' = [pc EXCEPT ![w] = IF Copied = {} THEN "idle" ELSE "send"]
    /\ UNCHANGED <<channels, target, panicked>>

(* The loop moves on to the next copied channel, or Update returns.          *)
Leave(w, s) ==
    /\ todo' = [todo EXCEPT ![w] = @ \ {s}]
    /\ pc' = [pc EXCEPT ![w] = IF todo[w] = {s} THEN "idle" ELSE "send"]

(* A send on a closed channel panics; the rest of the loop is lost.          *)
Panic(w) ==
    /\ panicked' = panicked \union {w}
    /\ todo' = [todo EXCEPT ![w] = {}]
    /\ pc' = [pc EXCEPT ![w] = "idle"]
    /\ UNCHANGED <<buffer, target>>

Deliver(w, s) ==
    /\ buffer[s] = Empty
    /\ buffer' = [buffer EXCEPT ![s] = snap[w]]
    /\ Leave(w, s)
    /\ UNCHANGED <<target, panicked>>

(* The channel is full.  Variants: drop the new snapshot, or wait for room.  *)
FoundFullDrops(w, s) == Leave(w, s) /\ UNCHANGED <<buffer, target, panicked>>
FoundFullWaits(w, s) == FALSE

FoundFull(w, s) ==
    /\ target' = [target EXCEPT ![w] = s]
    /\ pc' = [pc EXCEPT ![w] = "drain"]
    /\ UNCHANGED <<buffer, todo, panicked>>

(* The outer select: send, or find the channel full.  Ranging over a Go map  *)
(* fixes no order, so any copied channel may be next.                        *)
TrySend(w, s) ==
    /\ Alive
    /\ pc[w] = "send"
    /\ s \in todo[w]
    /\ \/ s \notin subscribers /\ Panic(w)
       \/ s \in subscribers /\ Deliver(w, s)
       \/ s \in subscribers /\ buffer[s] # Empty /\ FoundFull(w, s)
    /\ UNCHANGED <<version, nextSub, subscribers, received, snap, burstBase>>

(* The first inner select discards what is buffered, if anything still is.   *)
Drain(w) ==
    /\ Alive
    /\ pc[w] = "drain"
    /\ buffer' = [buffer EXCEPT ![target[w]] = Empty]
    /\ pc' = [pc EXCEPT ![w] = "resend"]
    /\ UNCHANGED <<version, nextSub, subscribers, received, snap, todo, target,
                   panicked, burstBase>>

(* The second inner select: send, or drop the snapshot if the slot is taken. *)
Resend(w) ==
    /\ Alive
    /\ pc[w] = "resend"
    /\ LET s == target[w]
       IN  \/ s \notin subscribers /\ Panic(w)
           \/ s \in subscribers /\ Deliver(w, s)
           \/ /\ s \in subscribers
              /\ buffer[s] # Empty
              /\ Leave(w, s)
              /\ UNCHANGED <<buffer, target, panicked>>
    /\ UNCHANGED <<version, nextSub, subscribers, received, snap, burstBase>>

(* What a new channel holds.  Variant: nothing.                              *)
Unseeded == Empty
Seed == version

(* Subscribe registers a channel seeded with the current state.              *)
Subscribe ==
    /\ Alive
    /\ nextSub < MaxSubs
    /\ nextSub' = nextSub + 1
    /\ subscribers' = subscribers \union {nextSub}
    /\ buffer' = [buffer EXCEPT ![nextSub] = Seed]
    /\ UNCHANGED <<version, received, locals, panicked, burstBase>>

(* The handler takes a snapshot from its channel.                            *)
Receive(s) ==
    /\ Alive
    /\ s \in subscribers
    /\ buffer[s] # Empty
    /\ received' = [received EXCEPT ![s] = buffer[s]]
    /\ buffer' = [buffer EXCEPT ![s] = Empty]
    /\ UNCHANGED <<version, nextSub, subscribers, locals, panicked, burstBase>>

(* The handler returns: its deferred unsubscribe deletes and closes.         *)
Unsubscribe(s) ==
    /\ Alive
    /\ s \in subscribers
    /\ subscribers' = subscribers \ {s}
    /\ UNCHANGED <<version, nextSub, buffer, received, locals, panicked, burstBase>>

Publish(w) == Drain(w) \/ Resend(w) \/ \E s \in Subs : TrySend(w, s)

Next ==
    \/ \E w \in Writers : UpdateLocked(w) \/ Publish(w)
    \/ Subscribe
    \/ \E s \in Subs : Receive(s) \/ Unsubscribe(s)

Spec == Init /\ [][Next]_vars

(* The Go scheduler runs every runnable goroutine, so a writer inside Update *)
(* goes on; nothing makes a caller start one.                                *)
WriterFairness == \A w \in Writers : WF_vars(Publish(w))

(* A handler whose channel holds a snapshot takes it: its loop has no other  *)
(* blocking step than a write with a 10 s deadline.                          *)
ReaderFairness == \A s \in Subs : WF_vars(Receive(s))

-----------------------------------------------------------------------------
TypeOK ==
    /\ version \in Versions
    /\ nextSub \in 0 .. MaxSubs
    /\ subscribers \in SUBSET Subs
    /\ buffer \in [Subs -> Versions \union {Empty}]
    /\ received \in [Subs -> Versions \union {Empty}]
    /\ pc \in [Writers -> {"idle", "send", "drain", "resend"}]
    /\ snap \in [Writers -> Versions \union {Empty}]
    /\ todo \in [Writers -> SUBSET Subs]
    /\ target \in [Writers -> Nat]
    /\ panicked \in SUBSET Writers
    /\ burstBase \in Versions \union {Empty}

(* What a handler knows or will read next.                                   *)
Content(s) == IF buffer[s] # Empty THEN buffer[s] ELSE received[s]

(* When every Update has returned and none panicked, each open client has    *)
(* something newer than the state before that run of overlapping Updates: at *)
(* least one of the run's snapshots reached it.  An Update that overlaps no  *)
(* other is therefore never lost, whatever readers and subscriptions do      *)
(* meanwhile.  This is what the coalescing drop of store.go:157-174 achieves.*)
BurstBounded ==
    panicked = {} /\ AllIdle => \A s \in subscribers : Content(s) > burstBase

(* Update never waits for a reader: every call returns under the scheduling  *)
(* of its own goroutine alone, unless the process has died.  The selects of  *)
(* store.go:162-173 all have a default branch.                               *)
UpdateReturns ==
    \A w \in Writers : pc[w] # "idle" ~> pc[w] = "idle" \/ ~Alive

(* store.go:121-122 calls Store "a concurrency-safe container": no schedule  *)
(* of its operations makes one of them panic.                                *)
UpdateNeverPanics == panicked = {}
==============================================================================
