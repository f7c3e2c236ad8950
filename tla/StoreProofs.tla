----------------------------- MODULE StoreProofs -----------------------------
(* Store for every set of writers and every bound, and its refinement of     *)
(* Watch.                                                                    *)
EXTENDS WatchedStore, TLAPS

(* A writer inside Update still has its current channel to finish.           *)
LocalsInv ==
    \A w \in Writers :
        /\ pc[w] = "idle" <=> todo[w] = {}
        /\ pc[w] \in {"drain", "resend"} => target[w] \in todo[w]

(* Only ids already handed out are in use.                                   *)
IdsInv ==
    /\ \A s \in subscribers : s < nextSub
    /\ \A w \in Writers : \A s \in todo[w] : s < nextSub

(* Every snapshot still being published was taken in the current burst.      *)
FreshInv ==
    /\ burstBase < version
    /\ \A w \in Writers : todo[w] # {} => snap[w] > burstBase

(* Whatever refills a channel after a writer drained it is from the burst.   *)
RefillInv ==
    \A w \in Writers :
        pc[w] = "resend" /\ buffer[target[w]] # Empty => buffer[target[w]] > burstBase

(* A client without news of the burst is still on some writer's list.        *)
ReachedInv ==
    panicked = {} =>
        \A s \in subscribers :
            Content(s) > burstBase \/ \E w \in Writers : s \in todo[w]

IInv == TypeOK /\ LocalsInv /\ IdsInv /\ FreshInv /\ RefillInv /\ ReachedInv

-----------------------------------------------------------------------------
USE WritersAssumption, MaxSubsAssumption, MaxUpdatesAssumption

LEMMA InitInv == Init => IInv
<1> SUFFICES ASSUME Init PROVE IInv
  OBVIOUS
<1>1. TypeOK
  BY DEF Init, TypeOK, Versions, Empty
<1>2. LocalsInv /\ IdsInv /\ RefillInv
  BY DEF Init, LocalsInv, IdsInv, RefillInv
<1>3. FreshInv /\ ReachedInv
  BY DEF Init, FreshInv, ReachedInv, Empty
<1> QED
  BY <1>1, <1>2, <1>3 DEF IInv

(* The locked part of Update: its snapshot is newer than the burst's base,   *)
(* and when it opens a burst every client is on its list.                    *)
LEMMA UpdateLockedInv ==
    ASSUME IInv, NEW w \in Writers, UpdateLocked(w)
    PROVE  IInv'
<1> USE DEF UpdateLocked, Copied, channels
<1>1. TypeOK'
  BY DEF IInv, TypeOK, Versions, Empty
<1>2. LocalsInv'
  BY DEF IInv, TypeOK, LocalsInv, AllIdle
<1>3. IdsInv'
  BY DEF IInv, TypeOK, IdsInv
<1>4. FreshInv'
  BY DEF IInv, TypeOK, LocalsInv, FreshInv, AllIdle, Versions, Empty
<1>5. RefillInv'
  BY DEF IInv, TypeOK, RefillInv, AllIdle
<1>6. ReachedInv'
  BY DEF IInv, TypeOK, LocalsInv, ReachedInv, AllIdle, Content
<1> QED
  BY <1>1, <1>2, <1>3, <1>4, <1>5, <1>6 DEF IInv

(* A panicking writer gives up its list, and ReachedInv promises no more.    *)
LEMMA PanicInv ==
    ASSUME IInv, NEW w \in Writers, Panic(w),
           UNCHANGED <<version, nextSub, subscribers, received, snap, burstBase>>
    PROVE  IInv'
<1> USE DEF Panic
<1>1. TypeOK'
  BY DEF IInv, TypeOK
<1>2. LocalsInv' /\ IdsInv'
  BY DEF IInv, TypeOK, LocalsInv, IdsInv
<1>3. FreshInv' /\ RefillInv'
  BY DEF IInv, TypeOK, FreshInv, RefillInv
<1>4. panicked' # {}
  BY DEF IInv, TypeOK
<1>5. ReachedInv'
  BY <1>4 DEF ReachedInv
<1> QED
  BY <1>1, <1>2, <1>3, <1>5 DEF IInv

(* A successful send puts a snapshot of the burst into the channel.          *)
LEMMA DeliverInv ==
    ASSUME IInv, NEW w \in Writers, NEW s \in todo[w], Deliver(w, s),
           UNCHANGED <<version, nextSub, subscribers, received, snap, burstBase>>
    PROVE  IInv'
<1> USE DEF Deliver, Leave
<1>1. s \in Subs /\ snap[w] > burstBase /\ snap[w] # Empty
  BY DEF IInv, TypeOK, FreshInv, Versions, Empty
<1>2. TypeOK'
  BY <1>1 DEF IInv, TypeOK
<1>3. LocalsInv' /\ IdsInv'
  BY DEF IInv, TypeOK, LocalsInv, IdsInv
<1>4. FreshInv'
  BY DEF IInv, TypeOK, FreshInv
<1>5. RefillInv'
  BY <1>1 DEF IInv, TypeOK, LocalsInv, RefillInv
<1>6. ReachedInv'
  <2> SUFFICES ASSUME panicked = {}, NEW t \in subscribers
               PROVE  Content(t)' > burstBase \/ \E v \in Writers : t \in todo'[v]
    BY DEF ReachedInv
  <2>1. CASE t = s
    BY <1>1, <2>1 DEF IInv, TypeOK, Content
  <2>2. CASE t # s
    BY <2>2 DEF IInv, TypeOK, ReachedInv, Content
  <2> QED
    BY <2>1, <2>2
<1> QED
  BY <1>2, <1>3, <1>4, <1>5, <1>6 DEF IInv

(* The outer select: panic, send, or note that the channel is full.          *)
LEMMA TrySendInv ==
    ASSUME IInv, NEW w \in Writers, NEW s \in Subs, TrySend(w, s)
    PROVE  IInv'
<1> USE DEF TrySend, FoundFull
<1>1. CASE Panic(w)
  BY <1>1, PanicInv
<1>2. CASE Deliver(w, s)
  BY <1>2, DeliverInv
<1>3. CASE /\ target' = [target EXCEPT ![w] = s]
           /\ pc' = [pc EXCEPT ![w] = "drain"]
           /\ UNCHANGED <<buffer, todo, panicked>>
  <2> USE <1>3
  <2>1. TypeOK'
    BY DEF IInv, TypeOK, Subs
  <2>2. LocalsInv' /\ IdsInv'
    BY DEF IInv, TypeOK, LocalsInv, IdsInv
  <2>3. FreshInv' /\ RefillInv'
    BY DEF IInv, TypeOK, FreshInv, RefillInv
  <2>4. ReachedInv'
    BY DEF IInv, ReachedInv, Content
  <2> QED
    BY <2>1, <2>2, <2>3, <2>4 DEF IInv
<1> QED
  BY <1>1, <1>2, <1>3

(* Draining may take the burst's news from the channel, but its writer still *)
(* has the channel on its list.                                              *)
LEMMA DrainInv ==
    ASSUME IInv, NEW w \in Writers, Drain(w)
    PROVE  IInv'
<1> USE DEF Drain
<1>1. target[w] \in todo[w]
  BY DEF IInv, LocalsInv
<1>2. TypeOK'
  BY DEF IInv, TypeOK
<1>3. LocalsInv' /\ IdsInv'
  BY DEF IInv, TypeOK, LocalsInv, IdsInv
<1>4. FreshInv' /\ RefillInv'
  BY DEF IInv, TypeOK, LocalsInv, FreshInv, RefillInv
<1>5. ReachedInv'
  BY <1>1 DEF IInv, TypeOK, ReachedInv, Content
<1> QED
  BY <1>2, <1>3, <1>4, <1>5 DEF IInv

(* The second inner select; a drop happens only when another writer of the   *)
(* burst refilled the channel.                                               *)
LEMMA ResendInv ==
    ASSUME IInv, NEW w \in Writers, Resend(w)
    PROVE  IInv'
<1> USE DEF Resend
<1>1. target[w] \in todo[w] /\ target[w] \in Subs
  BY DEF IInv, TypeOK, LocalsInv
<1>2. CASE Panic(w)
  BY <1>2, PanicInv
<1>3. CASE Deliver(w, target[w])
  BY <1>1, <1>3, DeliverInv
<1>4. CASE /\ buffer[target[w]] # Empty
           /\ Leave(w, target[w])
           /\ UNCHANGED <<buffer, target, panicked>>
  <2> USE <1>4 DEF Leave
  <2>1. TypeOK'
    BY DEF IInv, TypeOK
  <2>2. LocalsInv' /\ IdsInv'
    BY DEF IInv, TypeOK, LocalsInv, IdsInv
  <2>3. FreshInv' /\ RefillInv'
    BY DEF IInv, TypeOK, FreshInv, RefillInv
  <2>4. ReachedInv'
    <3> SUFFICES ASSUME panicked = {}, NEW t \in subscribers
                 PROVE  Content(t)' > burstBase \/ \E v \in Writers : t \in todo'[v]
      BY DEF ReachedInv
    <3>1. CASE t = target[w]
      BY <3>1 DEF IInv, RefillInv, Content
    <3>2. CASE t # target[w]
      BY <3>2 DEF IInv, TypeOK, ReachedInv, Content
    <3> QED
      BY <3>1, <3>2
  <2> QED
    BY <2>1, <2>2, <2>3, <2>4 DEF IInv
<1> QED
  BY <1>2, <1>3, <1>4

(* A new client is seeded with the current state, newer than the base.       *)
LEMMA SubscribeInv ==
    ASSUME IInv, Subscribe
    PROVE  IInv'
<1> USE DEF Subscribe, Seed, locals
<1>1. nextSub \in Subs /\ version > burstBase /\ version # Empty
  BY DEF IInv, TypeOK, FreshInv, Subs, Versions, Empty
<1>2. TypeOK'
  BY <1>1 DEF IInv, TypeOK, Versions
<1>3. LocalsInv' /\ IdsInv'
  BY DEF IInv, TypeOK, LocalsInv, IdsInv, Subs
<1>4. FreshInv' /\ RefillInv'
  BY <1>1 DEF IInv, TypeOK, LocalsInv, FreshInv, RefillInv
<1>5. ReachedInv'
  BY <1>1 DEF IInv, TypeOK, ReachedInv, Content
<1> QED
  BY <1>2, <1>3, <1>4, <1>5 DEF IInv

(* Receiving and leaving change no client's content.                         *)
LEMMA ReaderInv ==
    ASSUME IInv, NEW s \in Subs, Receive(s) \/ Unsubscribe(s)
    PROVE  IInv'
<1> USE DEF Receive, Unsubscribe, locals
<1>1. TypeOK'
  BY DEF IInv, TypeOK
<1>2. LocalsInv' /\ IdsInv'
  BY DEF IInv, TypeOK, LocalsInv, IdsInv
<1>3. FreshInv' /\ RefillInv'
  BY DEF IInv, TypeOK, FreshInv, LocalsInv, RefillInv
<1>4. ReachedInv'
  BY DEF IInv, TypeOK, ReachedInv, Content
<1> QED
  BY <1>1, <1>2, <1>3, <1>4 DEF IInv

LEMMA StutterInv == IInv /\ UNCHANGED vars => IInv'
  BY DEF IInv, vars, TypeOK, LocalsInv, IdsInv, FreshInv, RefillInv, ReachedInv, Content

LEMMA NextInv == IInv /\ [Next]_vars => IInv'
<1> SUFFICES ASSUME IInv, [Next]_vars PROVE IInv'
  OBVIOUS
<1>1. ASSUME NEW w \in Writers, UpdateLocked(w) PROVE IInv'
  BY <1>1, UpdateLockedInv
<1>2. ASSUME NEW w \in Writers, Publish(w) PROVE IInv'
  BY <1>2, DrainInv, ResendInv, TrySendInv DEF Publish
<1>3. CASE Subscribe
  BY <1>3, SubscribeInv
<1>4. ASSUME NEW s \in Subs, Receive(s) \/ Unsubscribe(s) PROVE IInv'
  BY <1>4, ReaderInv
<1>5. CASE UNCHANGED vars
  BY <1>5, StutterInv
<1> QED
  BY <1>1, <1>2, <1>3, <1>4, <1>5 DEF Next

THEOREM InvHolds == Spec => []IInv
  BY InitInv, NextInv, PTL DEF Spec

(* Every variable keeps its type in every reachable state of the Store.      *)
THEOREM TypeCorrect == Spec => []TypeOK
<1>1. IInv => TypeOK
  BY DEF IInv
<1> QED
  BY <1>1, InvHolds, PTL

(* Whatever the number of concurrent callers of Update, of clients coming    *)
(* and going and of updates: when the callers have returned, each client     *)
(* holds or has read a snapshot of their burst (store.go:146-175).           *)
THEOREM BurstReachesEveryone == Spec => []BurstBounded
<1>1. IInv => BurstBounded
  BY DEF IInv, LocalsInv, ReachedInv, BurstBounded, AllIdle
<1> QED
  BY <1>1, InvHolds, PTL
-----------------------------------------------------------------------------
(* Store implements Watch.                                                   *)

(* The present burst is the last one.                                        *)
BasesInv ==
    /\ burstBase \in bases
    /\ \A b \in bases : b \in Versions \union {Empty} /\ b <= burstBase

(* No snapshot anywhere is newer than the state, and an id not yet handed    *)
(* out has received none.                                                    *)
BoundInv ==
    /\ \A s \in Subs : buffer[s] <= version /\ received[s] <= version
    /\ \A w \in Writers : snap[w] <= version
    /\ \A s \in Subs : s >= nextSub => received[s] = Empty

(* A client that has received something of a burst finds nothing from before *)
(* the burst in its channel: what writers still hold is of the present one.  *)
OrderInv ==
    \A s \in Subs, b \in bases :
        received[s] > b /\ buffer[s] # Empty => buffer[s] > b

WatchInv == BasesInv /\ BoundInv /\ OrderInv

LEMMA WatchInit == WatchedInit => WatchInv
  BY DEF WatchedInit, Init, WatchInv, BasesInv, BoundInv, OrderInv, Subs, Versions, Empty

LEMMA WatchUpdateLocked ==
    ASSUME IInv, WatchInv, NEW w \in Writers, UpdateLocked(w),
           bases' = bases \union {burstBase'}
    PROVE  WatchInv'
<1> USE DEF UpdateLocked, channels, IInv, TypeOK, WatchInv
<1>1. BasesInv'
  BY DEF BasesInv, FreshInv, Versions, Empty
<1>2. BoundInv'
  BY DEF BoundInv, Versions, Empty
<1>3. OrderInv'
  <2> SUFFICES ASSUME NEW s \in Subs, NEW b \in bases', received[s] > b, buffer[s] # Empty
               PROVE  buffer[s] > b
    BY DEF OrderInv
  <2>1. b # version
    BY DEF BoundInv, Versions, Empty
  <2>2. b \in bases
    BY <2>1 DEF BasesInv
  <2> QED
    BY <2>2 DEF OrderInv
<1> QED
  BY <1>1, <1>2, <1>3

(* A step of the publishing loop puts a snapshot of the present burst into   *)
(* an empty channel, empties one, or leaves them alone.                      *)
LEMMA WatchPublish ==
    ASSUME IInv, WatchInv, NEW w \in Writers, Publish(w),
           bases' = bases \union {burstBase'}
    PROVE  WatchInv'
<1> USE DEF IInv, TypeOK, WatchInv
<1>0. UNCHANGED <<version, nextSub, received, snap, burstBase>> /\ bases' = bases
  BY DEF Publish, Drain, Resend, TrySend, BasesInv
<1>1. \A s \in Subs : \/ buffer'[s] = buffer[s]
                      \/ buffer'[s] = Empty
                      \/ buffer'[s] = snap[w] /\ snap[w] > burstBase
  <2>1. CASE Drain(w)
    BY <2>1 DEF Drain
  <2>2. ASSUME NEW s \in todo[w], Deliver(w, s)
        PROVE  \A t \in Subs : \/ buffer'[t] = buffer[t]
                               \/ buffer'[t] = snap[w] /\ snap[w] > burstBase
    BY <2>2 DEF Deliver, FreshInv
  <2>3. CASE Resend(w)
    BY <2>2, <2>3 DEF Resend, Panic, LocalsInv
  <2>4. ASSUME NEW s \in Subs, TrySend(w, s)
        PROVE  \A t \in Subs : \/ buffer'[t] = buffer[t]
                               \/ buffer'[t] = snap[w] /\ snap[w] > burstBase
    BY <2>2, <2>4 DEF TrySend, Panic, FoundFull
  <2> QED
    BY <2>1, <2>3, <2>4 DEF Publish
<1>2. BasesInv'
  BY <1>0, <1>1 DEF BasesInv
<1>3. BoundInv'
  BY <1>0, <1>1 DEF BoundInv, Versions, Empty
<1>4. OrderInv'
  BY <1>0, <1>1 DEF OrderInv, BasesInv, Versions, Empty
<1> QED
  BY <1>2, <1>3, <1>4

LEMMA WatchClients ==
    ASSUME IInv, WatchInv, Subscribe \/ \E s \in Subs : Receive(s) \/ Unsubscribe(s),
           bases' = bases \union {burstBase'}
    PROVE  WatchInv'
<1> USE DEF IInv, TypeOK, WatchInv, locals
<1>0. UNCHANGED <<version, snap, burstBase>> /\ bases' = bases
  BY DEF Subscribe, Receive, Unsubscribe, BasesInv
<1>1. BasesInv'
  BY <1>0 DEF BasesInv
<1>2. CASE Subscribe
  <2>1. BoundInv'
    BY <1>0, <1>2 DEF Subscribe, Seed, BoundInv, Subs, Versions, Empty
  <2>2. OrderInv'
    BY <1>0, <1>2 DEF Subscribe, Seed, OrderInv, BoundInv, BasesInv, Subs, Versions, Empty
  <2> QED
    BY <1>1, <2>1, <2>2
<1>3. ASSUME NEW s \in Subs, Receive(s) PROVE WatchInv'
  <2>1. BoundInv'
    BY <1>0, <1>3 DEF Receive, BoundInv, IdsInv, Subs, Versions, Empty
  <2>2. OrderInv'
    BY <1>0, <1>3 DEF Receive, OrderInv
  <2> QED
    BY <1>1, <2>1, <2>2
<1>4. ASSUME NEW s \in Subs, Unsubscribe(s) PROVE WatchInv'
  BY <1>0, <1>1, <1>4 DEF Unsubscribe, BoundInv, OrderInv
<1> QED
  BY <1>2, <1>3, <1>4

LEMMA WatchNext == IInv /\ WatchInv /\ [WatchedNext]_<<vars, bases>> => WatchInv'
<1> SUFFICES ASSUME IInv, WatchInv, [WatchedNext]_<<vars, bases>> PROVE WatchInv'
  OBVIOUS
<1>1. CASE WatchedNext
  BY <1>1, WatchUpdateLocked, WatchPublish, WatchClients DEF WatchedNext, Next
<1>2. CASE UNCHANGED <<vars, bases>>
  BY <1>2 DEF vars, WatchInv, BasesInv, BoundInv, OrderInv
<1> QED
  BY <1>1, <1>2

-----------------------------------------------------------------------------
(* Each step of Store is one of Watch, or none.                              *)
LEMMA PublishMaps ==
    ASSUME IInv, WatchInv, NEW w \in Writers, UpdateLocked(w),
           bases' = bases \union {burstBase'}
    PROVE  W!Publish
<1>1. bases' \in {bases, bases \union {version}}
  BY DEF UpdateLocked, WatchInv, BasesInv
<1> QED
  BY <1>1 DEF UpdateLocked, channels, W!Publish

LEMMA FaultMaps ==
    ASSUME IInv, WatchInv, NEW w \in Writers, Publish(w),
           bases' = bases \union {burstBase'}
    PROVE  W!Fault \/ UNCHANGED W!vars
<1>1. UNCHANGED <<version, subscribers, received>> /\ bases' = bases
  BY DEF Publish, Drain, Resend, TrySend, WatchInv, BasesInv
<1>2. panicked' = panicked \/ panicked' # {}
  BY DEF Publish, Drain, Resend, TrySend, Panic, Deliver, FoundFull
<1> QED
  BY <1>1, <1>2 DEF W!Fault, W!vars

LEMMA AttachMaps ==
    ASSUME IInv, WatchInv, Subscribe, bases' = bases \union {burstBase'}
    PROVE  \E c \in Subs : W!Attach(c)
<1>1. nextSub \in Subs /\ nextSub \notin subscribers /\ received[nextSub] = Empty
  BY DEF Subscribe, IInv, TypeOK, IdsInv, WatchInv, BoundInv, Subs
<1>2. bases' = bases
  BY DEF Subscribe, WatchInv, BasesInv
<1>3. W!Attach(nextSub)
  BY <1>1, <1>2 DEF Subscribe, locals, W!Attach
<1> QED
  BY <1>1, <1>3

(* What a client takes from its channel is of no earlier burst than what it  *)
(* has.                                                                      *)
LEMMA ObserveMaps ==
    ASSUME IInv, WatchInv, NEW s \in Subs, Receive(s), bases' = bases \union {burstBase'}
    PROVE  W!Observe(s)
<1>1. bases' = bases
  BY DEF Receive, WatchInv, BasesInv
<1>2. buffer[s] \in 0 .. version
  BY DEF Receive, IInv, TypeOK, WatchInv, BoundInv, Versions, Empty
<1>3. ~W!Before(buffer[s], received[s])
  <2> SUFFICES ASSUME NEW b \in bases, buffer[s] <= b, b < received[s] PROVE FALSE
    BY DEF W!Before
  <2>1. buffer[s] > b
    BY DEF Receive, WatchInv, OrderInv, BasesInv, IInv, TypeOK, Versions, Empty
  <2> QED
    BY <1>2, <2>1 DEF WatchInv, BasesInv, Versions, Empty
<1> QED
  BY <1>1, <1>2, <1>3 DEF Receive, locals, W!Observe

LEMMA DetachMaps ==
    ASSUME WatchInv, NEW s \in Subs, Unsubscribe(s), bases' = bases \union {burstBase'}
    PROVE  W!Detach(s)
BY DEF Unsubscribe, WatchInv, BasesInv, W!Detach

LEMMA StepMaps == IInv /\ WatchInv /\ [WatchedNext]_<<vars, bases>> => [W!Next]_W!vars
<1> SUFFICES ASSUME IInv, WatchInv, [WatchedNext]_<<vars, bases>> PROVE [W!Next]_W!vars
  OBVIOUS
<1>1. CASE WatchedNext
  BY <1>1, PublishMaps, FaultMaps, AttachMaps, ObserveMaps, DetachMaps
     DEF WatchedNext, Next, W!Next
<1>2. CASE UNCHANGED <<vars, bases>>
  BY <1>2 DEF vars, W!vars
<1> QED
  BY <1>1, <1>2

(* For any number of writers, clients and updates, what clients see of the   *)
(* Store is a behaviour of Watch: no client ever goes back to an earlier     *)
(* burst of updates (the first part of ImplementsWatch, store.go:146-197).   *)
THEOREM RefinesWatch == WatchedSpec => W!Spec
<1>1. WatchedInit => Init /\ W!Init
  BY DEF WatchedInit, Init, W!Init
<1>2. [WatchedNext]_<<vars, bases>> => [Next]_vars
  BY DEF WatchedNext
<1> QED
  BY <1>1, <1>2, InitInv, NextInv, WatchInit, WatchNext, StepMaps, PTL
     DEF WatchedSpec, W!Spec
==============================================================================
