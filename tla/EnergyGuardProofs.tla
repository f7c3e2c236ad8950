-------------------------- MODULE EnergyGuardProofs ---------------------------
(* EnergyGuard for all entities, goroutines, values and bounds, and for both *)
(* directions.                                                               *)
EXTENDS EnergyGuard, TLAPS

USE EntityAssumption, ProductionAssumption, WattsAssumption, BoundsAssumption

(* Only a goroutine that found an entity goes on to write.                   *)
WriteInv == \A h \in Handlers : pc[h] = "write" => dest[h] \in Entities

SignInv == Production => limit >= 0

(* Unless a client wanted it, no limit is active anywhere on the way from a  *)
(* request to the inverter and back to the Store.  A target asks for an      *)
(* active limit, but goes past "peek" only if the Store shows one.           *)
UnaskedInv ==
    ~wanted =>
        /\ active = FALSE
        /\ \A h \in Handlers :
               pc[h] \in {"lookup", "write", "record"} => req[h].active = FALSE
        /\ \A i \in 1 .. Len(toDevice) : toDevice[i].limit.active = FALSE
        /\ \A e \in Entities : device[e].active = FALSE
        /\ \A i \in 1 .. Len(toBridge) : toBridge[i].limit.active = FALSE
        /\ \A e \in Entities : cache[e].active = FALSE
        /\ \A c \in Callbacks : cbPc[c] = "record" => cbLimit[c].active = FALSE

IInv == TypeOK /\ WriteInv /\ SignInv /\ UnaskedInv

-----------------------------------------------------------------------------
(* What is written is a limit with the commanded activity.                   *)
LEMMA LimitOfTyped ==
    ASSUME NEW v \in {0} \union Watts, NEW a \in BOOLEAN
    PROVE  LimitOf(v, a) \in Limits /\ LimitOf(v, a).active = a
<1>1. OnWire(v) \in {0} \union {OnWire(w) : w \in Watts}
  BY DEF OnWire, Abs
<1> QED
  BY <1>1 DEF LimitOf, Limits

LEMMA LimitFields ==
    ASSUME NEW l \in Limits
    PROVE  /\ l.value \in Int /\ l.active \in BOOLEAN
           /\ Production => l.value <= 0
BY DEF Limits, OnWire, Abs

LEMMA ValuesAreIntegers ==
    ASSUME NEW v \in {0} \union Watts
    PROVE  v \in Int
OBVIOUS

LEMMA CommandFields ==
    ASSUME NEW r \in Commands
    PROVE  r.value \in {0} \union Watts /\ r.value \in Int /\ r.active \in BOOLEAN
<1>1. r.value \in {0} \union Watts
  BY DEF Commands
<1>2. r.active \in BOOLEAN
  BY DEF Commands
<1>3. r.value \in Int
  BY ONLY <1>1, ValuesAreIntegers
<1> QED
  BY <1>1, <1>2, <1>3

LEMMA RecordedTyped ==
    ASSUME NEW v \in Int
    PROVE  Recorded(v) \in Int /\ (Production => Recorded(v) >= 0)
BY DEF Recorded, Abs

(* What comes back from the wire is recorded as what was sent was.           *)
LEMMA RecordedOnWire ==
    ASSUME NEW v \in Int
    PROVE  Recorded(OnWire(v)) = Recorded(v)
BY DEF Recorded, OnWire, Abs

LEMMA Expired ==
    ASSUME NEW l \in Limits
    PROVE  [l EXCEPT !.active = FALSE] \in Limits /\ [l EXCEPT !.active = FALSE].active = FALSE
BY DEF Limits

LEMMA Element ==
    ASSUME NEW S, NEW s \in Seq(S), NEW i \in 1 .. Len(s)
    PROVE  s[i] \in S
OBVIOUS

(* Appending keeps what holds of all elements; the tail has no others.       *)
LEMMA AppendElements ==
    ASSUME NEW S, NEW s \in Seq(S), NEW x \in S
    PROVE  /\ Append(s, x) \in Seq(S)
           /\ \A i \in 1 .. Len(Append(s, x)) :
                  Append(s, x)[i] = x \/ \E j \in 1 .. Len(s) : Append(s, x)[i] = s[j]
OBVIOUS

LEMMA TailElements ==
    ASSUME NEW S, NEW s \in Seq(S), s # <<>>
    PROVE  /\ Tail(s) \in Seq(S) /\ Head(s) \in S
           /\ Head(s) = s[1] /\ 1 \in 1 .. Len(s)
           /\ \A i \in 1 .. Len(Tail(s)) : \E j \in 1 .. Len(s) : Tail(s)[i] = s[j]
<1>1. \A i \in 1 .. Len(Tail(s)) : Tail(s)[i] = s[i + 1] /\ i + 1 \in 1 .. Len(s)
  OBVIOUS
<1> QED
  BY <1>1

-----------------------------------------------------------------------------
LEMMA InitInv == Init => IInv
<1> SUFFICES ASSUME Init PROVE IInv
  OBVIOUS
<1>0. LimitOf(0, FALSE) \in Limits /\ \A v \in Watts : LimitOf(v, TRUE) \in Limits
  BY LimitOfTyped
<1>1. device \in [Entities -> Limits]
  <2> DEFINE S == {LimitOf(0, FALSE)} \union {LimitOf(v, TRUE) : v \in Watts}
  <2>1. S \subseteq Limits
    BY ONLY <1>0
  <2>2. device \in [Entities -> S]
    BY DEF Init
  <2> HIDE DEF S
  <2> QED
    BY ONLY <2>1, <2>2
<1>2. TypeOK
  <2>1. NoCommand \in Commands
    BY DEF NoCommand, Commands
  <2>2. wanted \in BOOLEAN
    BY DEF Init
  <2>3. mishap \in BOOLEAN
    BY <2>2 DEF Init
  <2>4. events \in [Entities -> Nat]
    BY <1>1 DEF Init
  <2>5. req \in [Handlers -> Commands] /\ cbLimit \in [Callbacks -> Limits]
    BY <1>0, <2>1 DEF Init
  <2>6. /\ pc \in [Handlers -> {"idle", "peek", "lookup", "write", "record"}]
        /\ dest \in [Handlers -> Entities \union {NoEntity}]
        /\ cbPc \in [Callbacks -> {"idle", "record"}]
    BY DEF Init
  <2>7. /\ toDevice \in Seq([to : Entities, limit : Limits])
        /\ toBridge \in Seq([from : Entities, limit : Limits])
        /\ asked \in Seq(Commands)
    BY DEF Init
  <2>8. /\ staged \in {0} \union Watts /\ limit \in Int /\ active \in BOOLEAN
        /\ egEntity \in Entities \union {NoEntity}
        /\ requests \in 0 .. MaxRequests /\ ownChanges \in 0 .. MaxOwnChanges
    <3>1. /\ staged = 0 /\ limit = 0 /\ active = FALSE /\ egEntity = NoEntity
          /\ requests = 0 /\ ownChanges = 0
      BY DEF Init
    <3>2. active \in BOOLEAN
      BY ONLY <3>1
    <3> QED
      BY ONLY <3>1, <3>2, BoundsAssumption
  <2>9. cache \in [Entities -> Limits]
    <3>1. cache = device
      BY DEF Init
    <3> QED
      BY ONLY <1>1, <3>1
  <2> QED
    BY ONLY <1>1, <2>2, <2>3, <2>4, <2>5, <2>6, <2>7, <2>8, <2>9 DEF TypeOK
<1>3. WriteInv /\ SignInv
  BY DEF Init, WriteInv, SignInv
<1>4. UnaskedInv
  <2> SUFFICES ASSUME ~wanted PROVE \A e \in Entities : device[e].active = FALSE
    BY DEF Init, UnaskedInv
  <2> SUFFICES ASSUME NEW e \in Entities PROVE device[e].active = FALSE
    OBVIOUS
  <2>1. ~device[e].active
    BY ONLY ~wanted, e \in Entities, Init DEF Init
  <2>2. device[e].active \in BOOLEAN
    BY <1>1, LimitFields
  <2> QED
    BY <2>1, <2>2
<1> QED
  BY <1>2, <1>3, <1>4 DEF IInv

-----------------------------------------------------------------------------
LEMMA BeginTyped ==
    ASSUME TypeOK, NEW r \in Commands, Begin(r)
    PROVE  /\ requests' \in 0 .. MaxRequests
           /\ asked' \in Seq(Commands)
           /\ mishap' \in BOOLEAN
           /\ wanted' \in BOOLEAN
           /\ ~wanted' => ~wanted /\ (r.op # "target" => r.active = FALSE)
<1>1. requests' \in 0 .. MaxRequests
  BY DEF TypeOK, Begin
<1>2. asked' \in Seq(Commands)
  BY DEF TypeOK, Begin
<1>3. mishap' \in BOOLEAN
  BY DEF TypeOK, Begin
<1>4. r.active \in BOOLEAN
  BY CommandFields
<1>5. wanted' \in BOOLEAN
  BY <1>4 DEF TypeOK, Begin
<1>6. ASSUME ~wanted' PROVE ~wanted /\ ~(r.op # "target" /\ r.active)
  BY <1>6, <1>4 DEF TypeOK, Begin
<1> QED
  BY <1>1, <1>2, <1>3, <1>4, <1>5, <1>6

(* A request that starts at place p with command r.                          *)
LEMMA RequestInv ==
    ASSUME IInv, NEW h \in Handlers, NEW r \in Commands,
           NEW p \in {"peek", "lookup"}, p = "lookup" => r.op # "target",
           pc' = [pc EXCEPT ![h] = p], req' = [req EXCEPT ![h] = r], Begin(r),
           staged' \in {0} \union Watts,
           UNCHANGED <<limit, active, egEntity, dest, callback, wire, ownChanges>>
    PROVE  IInv'
<1> USE DEF callback, wire
<1>1. TypeOK'
  BY BeginTyped DEF IInv, TypeOK
<1>2. WriteInv' /\ SignInv'
  BY DEF IInv, TypeOK, WriteInv, SignInv
<1>3. UnaskedInv'
  <2> SUFFICES ASSUME ~wanted' PROVE UnaskedInv'
    BY DEF UnaskedInv
  <2>1. ~wanted /\ (r.op # "target" => r.active = FALSE)
    BY BeginTyped DEF IInv
  <2>2. \A g \in Handlers :
            pc'[g] \in {"lookup", "write", "record"} => req'[g].active = FALSE
    BY <2>1 DEF IInv, TypeOK, UnaskedInv
  <2> QED
    BY <2>1, <2>2 DEF IInv, UnaskedInv
<1> QED
  BY <1>1, <1>2, <1>3 DEF IInv

LEMMA RequestLimitInv ==
    ASSUME IInv, NEW h \in Handlers, NEW v \in Watts, NEW a \in BOOLEAN,
           RequestLimit(h, v, a)
    PROVE  IInv'
<1> DEFINE r == [op |-> "limit", value |-> v, active |-> a]
<1>1. r \in Commands /\ r.op # "target"
  BY DEF Commands
<1>2. req' = [req EXCEPT ![h] = r] /\ req'[h] = r
  BY DEF RequestLimit, IInv, TypeOK
<1>3. staged' \in {0} \union Watts
  BY DEF RequestLimit, store, IInv, TypeOK
<1> QED
  BY <1>1, <1>2, <1>3, RequestInv DEF RequestLimit, store

LEMMA RequestActivateInv ==
    ASSUME IInv, NEW h \in Handlers, NEW a \in BOOLEAN, RequestActivate(h, a)
    PROVE  IInv'
<1> DEFINE r == [op |-> "activate", value |-> staged, active |-> a]
<1>1. r \in Commands /\ r.op # "target"
  BY DEF Commands, IInv, TypeOK
<1>2. req' = [req EXCEPT ![h] = r] /\ req'[h] = r
  BY DEF RequestActivate, IInv, TypeOK
<1>3. staged' \in {0} \union Watts
  BY DEF RequestActivate, store, IInv, TypeOK
<1> QED
  BY <1>1, <1>2, <1>3, RequestInv DEF RequestActivate, store

LEMMA RequestTargetInv ==
    ASSUME IInv, NEW h \in Handlers, NEW v \in Watts, RequestTarget(h, v)
    PROVE  IInv'
<1> DEFINE r == [op |-> "target", value |-> v, active |-> TRUE]
<1>1. r \in Commands
  BY DEF Commands
<1>2. req' = [req EXCEPT ![h] = r] /\ req'[h] = r
  BY DEF RequestTarget, IInv, TypeOK
<1> QED
  BY <1>1, <1>2, RequestInv DEF RequestTarget

LEMMA PeekInv ==
    ASSUME IInv, NEW h \in Handlers, Peek(h)
    PROVE  IInv'
<1> USE DEF Peek, Reapply, store, callback, wire, counters, history
<1>1. TypeOK'
  BY DEF IInv, TypeOK
<1>2. WriteInv' /\ SignInv'
  BY DEF IInv, TypeOK, WriteInv, SignInv
<1>3. UnaskedInv'
  BY DEF IInv, TypeOK, UnaskedInv
<1> QED
  BY <1>1, <1>2, <1>3 DEF IInv

LEMMA LookupInv ==
    ASSUME IInv, NEW h \in Handlers, Lookup(h)
    PROVE  IInv'
<1> USE DEF Lookup, Unknown, store, callback, wire, counters, history
<1>1. TypeOK'
  BY DEF IInv, TypeOK
<1>2. WriteInv' /\ SignInv'
  BY DEF IInv, TypeOK, WriteInv, SignInv
<1>3. UnaskedInv'
  BY DEF IInv, TypeOK, UnaskedInv
<1> QED
  BY <1>1, <1>2, <1>3 DEF IInv

LEMMA WriteStepInv ==
    ASSUME IInv, NEW h \in Handlers, Write(h)
    PROVE  IInv'
<1> USE DEF Write, store, callback, counters, history
<1> DEFINE l == LimitOf(req[h].value, req[h].active)
           m == [to |-> dest[h], limit |-> l]
<1>1. l \in Limits /\ l.active = req[h].active
  <2>1. req[h] \in Commands
    BY DEF IInv, TypeOK
  <2>2. req[h].value \in {0} \union Watts /\ req[h].active \in BOOLEAN
    BY ONLY <2>1, CommandFields
  <2> QED
    BY ONLY <2>2, LimitOfTyped
<1> HIDE DEF l
<1>2. m \in [to : Entities, limit : Limits] /\ m.limit.active = req[h].active
  <2>1. dest[h] \in Entities
    BY DEF IInv, WriteInv
  <2>2. m.limit = l
    OBVIOUS
  <2> QED
    BY <1>1, <2>1, <2>2
<1> HIDE DEF m
<1>3. toDevice' \in Seq([to : Entities, limit : Limits])
  <2>1. toDevice \in Seq([to : Entities, limit : Limits])
    BY DEF IInv, TypeOK
  <2>2. pc[h] = "write" /\ (toDevice' = Append(toDevice, m) \/ toDevice' = toDevice)
    BY DEF m, l
  <2>3. Append(toDevice, m) \in Seq([to : Entities, limit : Limits])
    BY ONLY <1>2, <2>1, AppendElements
  <2> QED
    BY ONLY <2>1, <2>2, <2>3
<1>4. TypeOK'
  BY <1>3 DEF IInv, TypeOK
<1>5. WriteInv' /\ SignInv'
  BY DEF IInv, TypeOK, WriteInv, SignInv
<1>6. UnaskedInv'
  <2> SUFFICES ASSUME ~wanted PROVE UnaskedInv'
    BY DEF UnaskedInv
  <2>1. \A g \in Handlers :
            pc'[g] \in {"lookup", "write", "record"} => req'[g].active = FALSE
    BY DEF IInv, TypeOK, UnaskedInv
  <2>2. \A i \in 1 .. Len(toDevice') : toDevice'[i].limit.active = FALSE
    <3>1. m.limit.active = FALSE
      BY <1>2 DEF IInv, UnaskedInv
    <3>2. CASE toDevice' = Append(toDevice, m)
      BY <1>2, <3>1, <3>2, AppendElements DEF IInv, TypeOK, UnaskedInv
    <3>3. CASE toDevice' = toDevice
      BY <3>3 DEF IInv, UnaskedInv
    <3>4. toDevice' = Append(toDevice, m) \/ toDevice' = toDevice
      BY DEF m, l
    <3> QED
      BY ONLY <3>2, <3>3, <3>4
  <2> QED
    BY <2>1, <2>2 DEF IInv, UnaskedInv
<1> QED
  BY <1>4, <1>5, <1>6 DEF IInv

LEMMA RecordInv ==
    ASSUME IInv, NEW h \in Handlers, Record(h)
    PROVE  IInv'
<1> USE DEF Record, callback, wire, counters, history
<1>1. /\ req[h].active \in BOOLEAN
      /\ Recorded(req[h].value) \in Int
      /\ Production => Recorded(req[h].value) >= 0
  BY CommandFields, RecordedTyped DEF IInv, TypeOK
<1>2. TypeOK'
  BY <1>1 DEF IInv, TypeOK
<1>3. WriteInv' /\ SignInv'
  BY <1>1 DEF IInv, TypeOK, WriteInv, SignInv
<1>4. UnaskedInv'
  BY DEF IInv, TypeOK, UnaskedInv
<1> QED
  BY <1>2, <1>3, <1>4 DEF IInv

-----------------------------------------------------------------------------
LEMMA UseCaseSupportUpdateInv ==
    ASSUME IInv, NEW e \in Entities, UseCaseSupportUpdate(e)
    PROVE  IInv'
<1> USE DEF UseCaseSupportUpdate, store, handler, callback, wire, counters, history
<1>1. TypeOK'
  BY DEF IInv, TypeOK
<1> QED
  BY <1>1 DEF IInv, WriteInv, SignInv, UnaskedInv

LEMMA ReadUpdateInv ==
    ASSUME IInv, NEW c \in Callbacks, NEW e \in Entities, ReadUpdate(c, e)
    PROVE  IInv'
<1> USE DEF ReadUpdate, store, handler, wire, counters, history
<1>1. TypeOK'
  BY DEF IInv, TypeOK
<1>2. WriteInv' /\ SignInv'
  BY DEF IInv, WriteInv, SignInv
<1>3. UnaskedInv'
  BY DEF IInv, TypeOK, UnaskedInv
<1> QED
  BY <1>1, <1>2, <1>3 DEF IInv

LEMMA RecordUpdateInv ==
    ASSUME IInv, NEW c \in Callbacks, RecordUpdate(c)
    PROVE  IInv'
<1> USE DEF RecordUpdate, Reported, handler, wire, counters, history
<1>1. /\ cbLimit[c].active \in BOOLEAN
      /\ Recorded(cbLimit[c].value) \in Int
      /\ Production => Recorded(cbLimit[c].value) >= 0
  BY LimitFields, RecordedTyped DEF IInv, TypeOK
<1>2. TypeOK'
  BY <1>1 DEF IInv, TypeOK
<1>3. WriteInv' /\ SignInv'
  BY <1>1 DEF IInv, WriteInv, SignInv
<1>4. UnaskedInv'
  BY DEF IInv, TypeOK, UnaskedInv
<1> QED
  BY <1>2, <1>3, <1>4 DEF IInv

-----------------------------------------------------------------------------
(* An inverter that comes to hold a limit which is active only if wanted.    *)
LEMMA NotifyInv ==
    ASSUME TypeOK, UnaskedInv, NEW e \in Entities, NEW l \in Limits,
           ~wanted => l.active = FALSE, Notify(e, l)
    PROVE  /\ device' \in [Entities -> Limits]
           /\ toBridge' \in Seq([from : Entities, limit : Limits])
           /\ ~wanted =>
                /\ \A d \in Entities : device'[d].active = FALSE
                /\ \A i \in 1 .. Len(toBridge') : toBridge'[i].limit.active = FALSE
<1> DEFINE m == [from |-> e, limit |-> l]
<1>1. m \in [from : Entities, limit : Limits] /\ m.limit.active = l.active
  OBVIOUS
<1>2. device' \in [Entities -> Limits]
  BY DEF Notify, TypeOK
<1>3. toBridge' \in Seq([from : Entities, limit : Limits])
  BY <1>1, AppendElements DEF Notify, TypeOK
<1>4. ASSUME ~wanted PROVE \A d \in Entities : device'[d].active = FALSE
  BY <1>4 DEF Notify, TypeOK, UnaskedInv
<1>5. ASSUME ~wanted PROVE \A i \in 1 .. Len(toBridge') : toBridge'[i].limit.active = FALSE
  <2>1. CASE toBridge' = Append(toBridge, m)
    BY <1>1, <1>5, <2>1, AppendElements DEF TypeOK, UnaskedInv
  <2>2. CASE toBridge' = toBridge
    BY <1>5, <2>2 DEF UnaskedInv
  <2> QED
    BY <2>1, <2>2 DEF Notify
<1> QED
  BY <1>2, <1>3, <1>4, <1>5

LEMMA DeviceReceivesInv ==
    ASSUME IInv, DeviceReceives
    PROVE  IInv'
<1> USE DEF DeviceReceives, store, handler, callback, counters, history
<1> DEFINE m == Head(toDevice)
<1>1. /\ m.to \in Entities /\ m.limit \in Limits
      /\ ~wanted => m.limit.active = FALSE
      /\ toDevice' \in Seq([to : Entities, limit : Limits])
      /\ \A i \in 1 .. Len(toDevice') : \E j \in 1 .. Len(toDevice) :
             toDevice'[i] = toDevice[j]
  <2> DEFINE S == [to : Entities, limit : Limits]
  <2>0. toDevice # <<>> /\ toDevice' = Tail(toDevice)
    OBVIOUS
  <2>1. toDevice \in Seq(S)
    BY DEF IInv, TypeOK
  <2>2. /\ toDevice' \in Seq(S)
        /\ m \in S /\ m = toDevice[1]
        /\ 1 \in 1 .. Len(toDevice)
        /\ \A i \in 1 .. Len(toDevice') : \E j \in 1 .. Len(toDevice) :
               toDevice'[i] = toDevice[j]
    <3> HIDE DEF S
    <3>1. /\ Tail(toDevice) \in Seq(S) /\ Head(toDevice) \in S
          /\ Head(toDevice) = toDevice[1] /\ 1 \in 1 .. Len(toDevice)
          /\ \A i \in 1 .. Len(Tail(toDevice)) : \E j \in 1 .. Len(toDevice) :
                 Tail(toDevice)[i] = toDevice[j]
      BY ONLY <2>0, <2>1, TailElements
    <3> QED
      BY ONLY <2>0, <3>1
  <2>3. ~wanted => m.limit.active = FALSE
    BY <2>2 DEF IInv, UnaskedInv
  <2> QED
    BY <2>2, <2>3
<1>2. /\ device' \in [Entities -> Limits]
      /\ toBridge' \in Seq([from : Entities, limit : Limits])
      /\ ~wanted =>
           /\ \A d \in Entities : device'[d].active = FALSE
           /\ \A i \in 1 .. Len(toBridge') : toBridge'[i].limit.active = FALSE
  <2>1. CASE Notify(m.to, m.limit)
    BY <1>1, <2>1, NotifyInv DEF IInv
  <2>2. CASE UNCHANGED <<device, toBridge>>
    BY <2>2 DEF IInv, TypeOK, UnaskedInv
  <2> QED
    BY <2>1, <2>2
<1>3. TypeOK'
  BY <1>1, <1>2 DEF IInv, TypeOK
<1>4. WriteInv' /\ SignInv'
  BY DEF IInv, WriteInv, SignInv
<1>5. UnaskedInv'
  BY <1>1, <1>2 DEF IInv, UnaskedInv
<1> QED
  BY <1>3, <1>4, <1>5 DEF IInv

LEMMA DeviceExpiresInv ==
    ASSUME IInv, NEW e \in Entities, DeviceExpires(e)
    PROVE  IInv'
<1> USE DEF DeviceExpires, store, handler, callback, history
<1> DEFINE l == [device[e] EXCEPT !.active = FALSE]
<1>1. l \in Limits /\ l.active = FALSE
  BY Expired DEF IInv, TypeOK
<1>2. /\ device' \in [Entities -> Limits]
      /\ toBridge' \in Seq([from : Entities, limit : Limits])
      /\ ~wanted =>
           /\ \A d \in Entities : device'[d].active = FALSE
           /\ \A i \in 1 .. Len(toBridge') : toBridge'[i].limit.active = FALSE
  BY <1>1, NotifyInv DEF IInv
<1>3. TypeOK'
  BY <1>2 DEF IInv, TypeOK
<1>4. WriteInv' /\ SignInv'
  BY DEF IInv, WriteInv, SignInv
<1>5. UnaskedInv'
  BY <1>2 DEF IInv, UnaskedInv
<1> QED
  BY <1>3, <1>4, <1>5 DEF IInv

LEMMA ArriveInv ==
    ASSUME IInv, Arrive
    PROVE  IInv'
<1> USE DEF Arrive, store, handler, counters, history
<1> DEFINE n == Head(toBridge)
<1>1. /\ n.from \in Entities /\ n.limit \in Limits
      /\ ~wanted => n.limit.active = FALSE
      /\ toBridge' \in Seq([from : Entities, limit : Limits])
      /\ \A i \in 1 .. Len(toBridge') : \E j \in 1 .. Len(toBridge) :
             toBridge'[i] = toBridge[j]
  <2> DEFINE S == [from : Entities, limit : Limits]
  <2>0. toBridge # <<>> /\ toBridge' = Tail(toBridge)
    OBVIOUS
  <2>1. toBridge \in Seq(S)
    BY DEF IInv, TypeOK
  <2>2. /\ toBridge' \in Seq(S)
        /\ n \in S /\ n = toBridge[1]
        /\ 1 \in 1 .. Len(toBridge)
        /\ \A i \in 1 .. Len(toBridge') : \E j \in 1 .. Len(toBridge) :
               toBridge'[i] = toBridge[j]
    <3> HIDE DEF S
    <3>1. /\ Tail(toBridge) \in Seq(S) /\ Head(toBridge) \in S
          /\ Head(toBridge) = toBridge[1] /\ 1 \in 1 .. Len(toBridge)
          /\ \A i \in 1 .. Len(Tail(toBridge)) : \E j \in 1 .. Len(toBridge) :
                 Tail(toBridge)[i] = toBridge[j]
      BY ONLY <2>0, <2>1, TailElements
    <3> QED
      BY ONLY <2>0, <3>1
  <2>3. ~wanted => n.limit.active = FALSE
    BY <2>2 DEF IInv, UnaskedInv
  <2> QED
    BY <2>2, <2>3
<1>2. TypeOK'
  BY <1>1 DEF IInv, TypeOK
<1>3. WriteInv' /\ SignInv'
  BY DEF IInv, WriteInv, SignInv
<1>4. UnaskedInv'
  <2>1. ASSUME ~wanted PROVE \A e \in Entities : cache'[e].active = FALSE
    BY <1>1, <2>1 DEF IInv, TypeOK, UnaskedInv
  <2> QED
    BY <1>1, <2>1 DEF IInv, UnaskedInv
<1> QED
  BY <1>2, <1>3, <1>4 DEF IInv

LEMMA StutterInv == IInv /\ UNCHANGED vars => IInv'
BY DEF vars, IInv, TypeOK, WriteInv, SignInv, UnaskedInv

-----------------------------------------------------------------------------
LEMMA NextInv == IInv /\ [Next]_vars => IInv'
<1> SUFFICES ASSUME IInv, [Next]_vars PROVE IInv'
  OBVIOUS
<1>1. ASSUME NEW h \in Handlers, Handle(h) PROVE IInv'
  BY <1>1, RequestTargetInv, RequestLimitInv, RequestActivateInv, PeekInv, LookupInv,
     WriteStepInv, RecordInv
     DEF Handle
<1>2. ASSUME NEW c \in Callbacks,
             RecordUpdate(c) \/ \E e \in Entities : ReadUpdate(c, e)
      PROVE  IInv'
  BY <1>2, RecordUpdateInv, ReadUpdateInv
<1>3. ASSUME NEW e \in Entities, UseCaseSupportUpdate(e) \/ DeviceExpires(e)
      PROVE  IInv'
  BY <1>3, UseCaseSupportUpdateInv, DeviceExpiresInv
<1>4. CASE DeviceReceives \/ Arrive
  BY <1>4, DeviceReceivesInv, ArriveInv
<1>5. CASE UNCHANGED vars
  BY <1>5, StutterInv
<1> QED
  BY <1>1, <1>2, <1>3, <1>4, <1>5 DEF Next

THEOREM InvHolds == Spec => []IInv
  BY InitInv, NextInv, PTL DEF Spec

(* All values keep their ranges; in particular what is on the way to an      *)
(* inverter is addressed to one.                                             *)
THEOREM TypeCorrect == Spec => []TypeOK
<1>1. IInv => TypeOK
  BY DEF IInv
<1> QED
  BY <1>1, InvHolds, PTL

(* Without a request for an active limit no inverter comes to hold one,      *)
(* whatever targets are staged and however their requests interleave with    *)
(* reports (control.go:115-151).                                             *)
THEOREM UnaskedStaysInactive == Spec => []UnaskedNeverActive
<1>1. IInv => UnaskedNeverActive
  BY DEF IInv, UnaskedInv, UnaskedNeverActive
<1> QED
  BY <1>1, InvHolds, PTL

(* For LPP nothing positive is sent and nothing negative recorded, whatever  *)
(* the clients send (control.go:86-112).                                     *)
THEOREM SignsKept == Spec => []SignsSeparated
<1>1. IInv => SignsSeparated
  <2> SUFFICES ASSUME IInv, Production, NEW i \in 1 .. Len(toDevice)
               PROVE  toDevice[i].limit.value <= 0
    BY DEF IInv, SignInv, SignsSeparated
  <2>1. toDevice \in Seq([to : Entities, limit : Limits])
    BY DEF IInv, TypeOK
  <2>2. toDevice[i] \in [to : Entities, limit : Limits]
    BY ONLY <2>1, i \in 1 .. Len(toDevice), Element
  <2>3. toDevice[i].limit \in Limits
    BY ONLY <2>2
  <2> QED
    BY <2>3, LimitFields
<1> QED
  BY <1>1, InvHolds, PTL

-----------------------------------------------------------------------------
(* A request that meets no other and no mishap: where it is, what it has     *)
(* left behind, and what still follows it.                                   *)
Lone == ~mishap /\ Len(asked) = 1

(* Does the request reach the wire?  A target only if a limit was active.    *)
Writes == asked[1].op # "target" \/ before.active

Unsent == \E h \in Handlers : pc[h] \in {"peek", "lookup", "write"}

Still ==
    /\ toDevice = <<>> /\ toBridge = <<>>
    /\ \A e \in Entities : events[e] = 0
    /\ \A c \in Callbacks : cbPc[c] = "idle"

(* Before the first request nothing moves but through a mishap.              *)
FirstInv == asked = <<>> /\ ~mishap => Quiet

(* One handler at most is busy, with this request.                           *)
PlaceInv ==
    Lone => \A h \in Handlers : pc[h] # "idle" =>
        /\ \A g \in Handlers : pc[g] # "idle" => g = h
        /\ req[h] = asked[1]
        /\ pc[h] = "peek" => asked[1].op = "target"
        /\ pc[h] # "peek" => Writes
        /\ pc[h] = "write" => dest[h] = egEntity

StagedInv == Lone /\ asked[1].op = "target" => staged = asked[1].value

(* Until it is on the wire, and for good if it never goes there, all is as   *)
(* it was.                                                                   *)
UnsentInv ==
    Lone /\ (Unsent \/ ~Writes) =>
        Still /\ device = before.device /\ active = before.active

(* What the request asks for on the wire.                                    *)
Sought == LimitOf(asked[1].value, asked[1].active)

(* From there on the commanded limit is all that moves: to the inverter,     *)
(* back, and into a callback.                                                *)
OnItsWay ==
    /\ egEntity # NoEntity
    /\ \A i \in 1 .. Len(toDevice) : toDevice[i] = [to |-> egEntity, limit |-> Sought]
    /\ toDevice = <<>> => device[egEntity] = Sought
    /\ \A i \in 1 .. Len(toBridge) : toBridge[i] = [from |-> egEntity, limit |-> Sought]
    /\ \A e \in Entities : events[e] > 0 => cache[e] = Sought
    /\ \A c \in Callbacks : cbPc[c] = "record" => cbLimit[c] = Sought

(* When its handler has recorded it, the Store shows it, and each callback   *)
(* writes the same again.                                                    *)
SentInv ==
    Lone /\ Writes /\ ~Unsent =>
        /\ OnItsWay
        /\ (\A h \in Handlers : pc[h] = "idle") =>
               limit = Recorded(asked[1].value) /\ active = asked[1].active

LoneInv == FirstInv /\ PlaceInv /\ StagedInv /\ UnsentInv /\ SentInv

LEMMA LoneInit == Init => LoneInv
<1> SUFFICES ASSUME Init PROVE LoneInv
  OBVIOUS
<1>1. asked = <<>> /\ ~Lone
  BY DEF Init, Lone
<1>2. FirstInv
  <2> SUFFICES ASSUME ~mishap PROVE Quiet
    BY DEF FirstInv
  <2>1. \A e \in Entities : ~device[e].active
    BY DEF Init
  <2>2. \A e \in Entities : events[e] = 0
    BY <2>1 DEF Init
  <2> QED
    BY <2>2 DEF Init, Quiet
<1> QED
  BY <1>1, <1>2 DEF LoneInv, PlaceInv, StagedInv, UnsentInv, SentInv

(* A new request is alone only if it begins when all is quiet.               *)
LEMMA BeginLone ==
    ASSUME IInv, FirstInv, NEW r \in Commands, Begin(r), Lone'
    PROVE  /\ Quiet /\ asked' = <<r>> /\ asked'[1] = r
           /\ before'.active = active /\ before'.device = device
<1>1. asked \in Seq(Commands)
  BY DEF IInv, TypeOK
<1>2. Quiet
  <2> SUFFICES ASSUME ~Quiet PROVE FALSE
    OBVIOUS
  <2>1. asked' = Append(asked, r) /\ Len(asked') = 1
    BY DEF Begin, Lone
  <2>2. asked = <<>>
    BY <1>1, <2>1
  <2>3. ~mishap
    BY DEF Begin, Lone, IInv, TypeOK
  <2> QED
    BY <2>2, <2>3 DEF FirstInv
<1> QED
  BY <1>2 DEF Begin

LEMMA RequestLone ==
    ASSUME IInv, LoneInv, NEW h \in Handlers, NEW r \in Commands,
           NEW p \in {"peek", "lookup"}, p = "peek" <=> r.op = "target",
           pc' = [pc EXCEPT ![h] = p], req' = [req EXCEPT ![h] = r], Begin(r),
           r.op = "target" => staged' = r.value,
           UNCHANGED <<limit, active, egEntity, dest, callback, wire, ownChanges>>
    PROVE  LoneInv'
<1> USE DEF callback, wire
<1>0. FirstInv /\ pc \in [Handlers -> {"idle", "peek", "lookup", "write", "record"}]
      /\ req \in [Handlers -> Commands] /\ asked \in Seq(Commands)
  BY DEF LoneInv, IInv, TypeOK
<1>1. FirstInv'
  <2>1. asked' # <<>>
    BY <1>0 DEF Begin
  <2> QED
    BY <2>1 DEF FirstInv
<1> SUFFICES ASSUME Lone'
             PROVE  PlaceInv' /\ StagedInv' /\ UnsentInv' /\ SentInv'
  BY <1>1 DEF LoneInv, PlaceInv, StagedInv, UnsentInv, SentInv
<1>2. /\ Quiet /\ asked'[1] = r
      /\ before'.active = active /\ before'.device = device
  BY <1>0, BeginLone
<1>3. /\ pc'[h] = p /\ req'[h] = r
      /\ \A g \in Handlers : g # h => pc'[g] = "idle"
  BY <1>0, <1>2 DEF Quiet
<1>4. PlaceInv'
  BY <1>2, <1>3 DEF PlaceInv, Writes
<1>5. StagedInv'
  BY <1>2 DEF StagedInv
<1>6. UnsentInv'
  BY <1>2 DEF UnsentInv, Still, Quiet
<1>7. SentInv'
  BY <1>3 DEF SentInv, Unsent
<1> QED
  BY <1>4, <1>5, <1>6, <1>7

LEMMA RequestsLone ==
    ASSUME IInv, LoneInv, NEW h \in Handlers,
           \/ \E v \in Watts : RequestTarget(h, v)
           \/ \E v \in Watts, a \in BOOLEAN : RequestLimit(h, v, a)
           \/ \E a \in BOOLEAN : RequestActivate(h, a)
    PROVE  LoneInv'
<1> USE DEF IInv, TypeOK, store
<1>1. ASSUME NEW v \in Watts, RequestTarget(h, v) PROVE LoneInv'
  <2> DEFINE r == [op |-> "target", value |-> v, active |-> TRUE]
  <2>1. r \in Commands /\ r.op = "target" /\ r.value = v
    BY DEF Commands
  <2>2. req' = [req EXCEPT ![h] = r] /\ req'[h] = r
    BY <1>1 DEF RequestTarget
  <2> QED
    BY <1>1, <2>1, <2>2, RequestLone DEF RequestTarget
<1>2. ASSUME NEW v \in Watts, NEW a \in BOOLEAN, RequestLimit(h, v, a) PROVE LoneInv'
  <2> DEFINE r == [op |-> "limit", value |-> v, active |-> a]
  <2>1. r \in Commands /\ r.op # "target"
    BY DEF Commands
  <2>2. req' = [req EXCEPT ![h] = r] /\ req'[h] = r
    BY <1>2 DEF RequestLimit
  <2> QED
    BY <1>2, <2>1, <2>2, RequestLone DEF RequestLimit
<1>3. ASSUME NEW a \in BOOLEAN, RequestActivate(h, a) PROVE LoneInv'
  <2> DEFINE r == [op |-> "activate", value |-> staged, active |-> a]
  <2>1. r \in Commands /\ r.op # "target"
    BY DEF Commands
  <2>2. req' = [req EXCEPT ![h] = r] /\ req'[h] = r
    BY <1>3 DEF RequestActivate
  <2> QED
    BY <1>3, <2>1, <2>2, RequestLone DEF RequestActivate
<1> QED
  BY <1>1, <1>2, <1>3

LEMMA SoughtKept ==
    ASSUME UNCHANGED asked
    PROVE  Sought' = Sought
BY DEF Sought, LimitOf, OnWire, Abs

(* A step of a busy handler before its limit is on the wire: nothing else    *)
(* moves.                                                                    *)
LEMMA PeekLone ==
    ASSUME IInv, LoneInv, NEW h \in Handlers, Peek(h)
    PROVE  LoneInv'
<1> USE DEF Peek, Reapply, store, callback, wire, counters, history
<1>0. /\ pc \in [Handlers -> {"idle", "peek", "lookup", "write", "record"}]
      /\ FirstInv /\ PlaceInv /\ StagedInv /\ UnsentInv /\ SentInv
  BY DEF LoneInv, IInv, TypeOK
<1>1. FirstInv'
  BY <1>0 DEF FirstInv, Quiet
<1> SUFFICES ASSUME Lone
             PROVE  PlaceInv' /\ StagedInv' /\ UnsentInv' /\ SentInv'
  BY <1>1 DEF LoneInv, PlaceInv, StagedInv, UnsentInv, SentInv, Lone
<1>2. /\ \A g \in Handlers : pc[g] # "idle" => g = h
      /\ req[h] = asked[1] /\ asked[1].op = "target"
      /\ Still /\ device = before.device /\ active = before.active
  BY <1>0 DEF PlaceInv, UnsentInv, Unsent
<1>3. Still' /\ (Writes' <=> Writes) /\ asked' = asked /\ before' = before
  BY <1>2 DEF Still, Writes
<1>4. CASE active
  <2>1. Writes /\ pc' = [pc EXCEPT ![h] = "lookup"]
    BY <1>2, <1>4 DEF Writes
  <2>2. Unsent'
    BY <1>0, <2>1 DEF Unsent
  <2> QED
    BY <1>0, <1>2, <1>3, <2>1, <2>2 DEF PlaceInv, StagedInv, UnsentInv, SentInv, Lone
<1>5. CASE ~active
  <2>1. ~Writes /\ pc' = [pc EXCEPT ![h] = "idle"]
    BY <1>2, <1>5 DEF Writes
  <2> QED
    BY <1>0, <1>2, <1>3, <2>1 DEF PlaceInv, StagedInv, UnsentInv, SentInv, Lone
<1> QED
  BY <1>4, <1>5

LEMMA LookupLone ==
    ASSUME IInv, LoneInv, NEW h \in Handlers, Lookup(h)
    PROVE  LoneInv'
<1> USE DEF Lookup, store, callback, wire, counters, history
<1>0. /\ pc \in [Handlers -> {"idle", "peek", "lookup", "write", "record"}]
      /\ dest \in [Handlers -> Entities \union {NoEntity}]
      /\ FirstInv /\ PlaceInv /\ StagedInv /\ UnsentInv /\ SentInv
  BY DEF LoneInv, IInv, TypeOK
<1>1. FirstInv'
  BY <1>0 DEF FirstInv, Quiet
<1> SUFFICES ASSUME Lone'
             PROVE  PlaceInv' /\ StagedInv' /\ UnsentInv' /\ SentInv'
  BY <1>1 DEF LoneInv, PlaceInv, StagedInv, UnsentInv, SentInv
<1>2. Lone /\ pc' = [pc EXCEPT ![h] = "write"] /\ dest' = [dest EXCEPT ![h] = egEntity]
  BY DEF Lone
<1>3. /\ \A g \in Handlers : pc[g] # "idle" => g = h
      /\ req[h] = asked[1] /\ Writes
      /\ Still /\ device = before.device /\ active = before.active
  BY <1>0, <1>2 DEF PlaceInv, UnsentInv, Unsent
<1>4. Still' /\ Writes' /\ asked' = asked /\ before' = before /\ Unsent'
  BY <1>0, <1>2, <1>3 DEF Still, Writes, Unsent
<1> QED
  BY <1>0, <1>2, <1>3, <1>4 DEF PlaceInv, StagedInv, UnsentInv, SentInv

LEMMA WriteLone ==
    ASSUME IInv, LoneInv, NEW h \in Handlers, Write(h)
    PROVE  LoneInv'
<1> USE DEF Write, store, callback, counters, history
<1>0. /\ pc \in [Handlers -> {"idle", "peek", "lookup", "write", "record"}]
      /\ FirstInv /\ PlaceInv /\ StagedInv /\ UnsentInv /\ SentInv /\ WriteInv
  BY DEF LoneInv, IInv, TypeOK
<1>1. FirstInv'
  BY <1>0 DEF FirstInv, Quiet
<1> SUFFICES ASSUME Lone'
             PROVE  PlaceInv' /\ StagedInv' /\ UnsentInv' /\ SentInv'
  BY <1>1 DEF LoneInv, PlaceInv, StagedInv, UnsentInv, SentInv
<1> DEFINE l == LimitOf(req[h].value, req[h].active)
           m == [to |-> dest[h], limit |-> l]
<1>2. Lone /\ toDevice' = Append(toDevice, m) /\ pc' = [pc EXCEPT ![h] = "record"]
  BY DEF Lone
<1>3. /\ \A g \in Handlers : pc[g] # "idle" => g = h
      /\ req[h] = asked[1] /\ Writes /\ dest[h] = egEntity /\ egEntity \in Entities
      /\ Still
  BY <1>0, <1>2 DEF PlaceInv, UnsentInv, Unsent, WriteInv
<1>4. Writes' /\ ~Unsent' /\ asked' = asked /\ pc'[h] = "record"
  BY <1>0, <1>2, <1>3 DEF Writes, Unsent
<1>5. OnItsWay'
  <2>0. Sought' = l
    BY <1>3, <1>4 DEF Sought, LimitOf, OnWire, Abs
  <2> HIDE DEF l
  <2>1. toDevice' = <<m>> /\ m = [to |-> egEntity', limit |-> l]
    BY <1>2, <1>3 DEF Still
  <2>2. /\ toDevice' # <<>>
        /\ \A i \in 1 .. Len(toDevice') : toDevice'[i] = [to |-> egEntity', limit |-> l]
    BY <2>1
  <2> QED
    BY <1>3, <2>0, <2>2 DEF OnItsWay, Still
<1>6. SentInv'
  BY <1>3, <1>4, <1>5 DEF SentInv
<1> QED
  BY <1>0, <1>2, <1>3, <1>4, <1>6 DEF PlaceInv, StagedInv, UnsentInv

LEMMA RecordLone ==
    ASSUME IInv, LoneInv, NEW h \in Handlers, Record(h)
    PROVE  LoneInv'
<1> USE DEF Record, callback, wire, counters, history
<1>0. /\ pc \in [Handlers -> {"idle", "peek", "lookup", "write", "record"}]
      /\ FirstInv /\ PlaceInv /\ StagedInv /\ UnsentInv /\ SentInv
  BY DEF LoneInv, IInv, TypeOK
<1>1. FirstInv'
  BY <1>0 DEF FirstInv, Quiet
<1> SUFFICES ASSUME Lone
             PROVE  PlaceInv' /\ StagedInv' /\ UnsentInv' /\ SentInv'
  BY <1>1 DEF LoneInv, PlaceInv, StagedInv, UnsentInv, SentInv, Lone
<1>2. /\ \A g \in Handlers : pc[g] # "idle" => g = h
      /\ req[h] = asked[1] /\ Writes /\ ~Unsent
  BY <1>0 DEF PlaceInv, Unsent
<1>3. Writes' /\ ~Unsent' /\ asked' = asked /\ before' = before
  BY <1>0, <1>2 DEF Writes, Unsent
<1>4. OnItsWay'
  BY <1>0, <1>2, <1>3, SoughtKept DEF SentInv, OnItsWay
<1>5. SentInv'
  BY <1>2, <1>3, <1>4 DEF SentInv, Recorded
<1> QED
  BY <1>0, <1>2, <1>3, <1>5 DEF PlaceInv, StagedInv, UnsentInv, Lone

(* Whatever moves on the wire or in a callback while the request is alone    *)
(* is its limit.                                                             *)
LEMMA MovingLone ==
    ASSUME LoneInv, Lone, ~Still
    PROVE  Writes /\ ~Unsent /\ OnItsWay
BY DEF LoneInv, UnsentInv, SentInv

(* A step outside the handlers keeps what is said of them, if what is under  *)
(* way stays the request's limit and the Store, when it changes, shows it.   *)
LEMMA OutsideLone ==
    ASSUME IInv, LoneInv, Lone, ~Still, UNCHANGED <<handler, history, egEntity, mishap>>,
           staged' = staged, OnItsWay => OnItsWay',
           \/ UNCHANGED <<limit, active>>
           \/ limit' = Recorded(asked[1].value) /\ active' = asked[1].active
    PROVE  LoneInv'
<1> USE DEF handler, history
<1>1. Writes /\ ~Unsent /\ OnItsWay
  BY MovingLone
<1>2. Writes' /\ ~Unsent' /\ OnItsWay' /\ Lone'
  BY <1>1 DEF Writes, Unsent, Lone
<1>3. FirstInv'
  BY <1>2 DEF Lone, FirstInv, IInv, TypeOK
<1>4. PlaceInv' /\ StagedInv' /\ UnsentInv'
  BY <1>1, <1>2 DEF LoneInv, PlaceInv, StagedInv, UnsentInv
<1>5. SentInv'
  <2>1. Recorded(asked[1].value)' = Recorded(asked[1].value)
    BY DEF Recorded, Abs
  <2>2. ASSUME \A h \in Handlers : pc'[h] = "idle"
        PROVE  limit' = Recorded(asked[1].value) /\ active' = asked[1].active
    BY <1>1, <2>2 DEF LoneInv, SentInv
  <2> QED
    BY <1>2, <2>1, <2>2 DEF SentInv
<1> QED
  BY <1>3, <1>4, <1>5 DEF LoneInv

(* Such a step is impossible before the first request, and changes nothing   *)
(* of a request that is not alone.                                           *)
LEMMA OutsideOther ==
    ASSUME LoneInv, ~Still, UNCHANGED history, mishap => mishap', ~(Lone /\ Lone')
    PROVE  LoneInv'
<1> USE DEF history
<1>1. ~Lone'
  BY DEF Lone
<1>2. FirstInv'
  BY DEF LoneInv, FirstInv, Quiet, Still
<1> QED
  BY <1>1, <1>2 DEF LoneInv, PlaceInv, StagedInv, UnsentInv, SentInv

LEMMA UseCaseSupportUpdateLone ==
    ASSUME IInv, LoneInv, NEW e \in Entities, UseCaseSupportUpdate(e)
    PROVE  LoneInv'
<1>1. mishap'
  BY DEF UseCaseSupportUpdate
<1> QED
  BY <1>1 DEF LoneInv, FirstInv, PlaceInv, StagedInv, UnsentInv, SentInv, Lone

LEMMA DeviceExpiresLone ==
    ASSUME IInv, LoneInv, NEW e \in Entities, DeviceExpires(e)
    PROVE  LoneInv'
<1>1. mishap'
  BY DEF DeviceExpires
<1> QED
  BY <1>1 DEF LoneInv, FirstInv, PlaceInv, StagedInv, UnsentInv, SentInv, Lone

LEMMA ReadUpdateLone ==
    ASSUME IInv, LoneInv, NEW c \in Callbacks, NEW e \in Entities, ReadUpdate(c, e)
    PROVE  LoneInv'
<1> USE DEF ReadUpdate, store, wire, counters
<1>1. ~Still /\ UNCHANGED <<history, mishap>>
  BY DEF Still
<1> SUFFICES ASSUME Lone PROVE LoneInv'
  BY <1>1, OutsideOther
<1>2. ASSUME OnItsWay PROVE OnItsWay'
  BY <1>2, SoughtKept DEF OnItsWay, history, IInv, TypeOK
<1> QED
  BY <1>1, <1>2, OutsideLone

LEMMA RecordUpdateLone ==
    ASSUME IInv, LoneInv, NEW c \in Callbacks, RecordUpdate(c)
    PROVE  LoneInv'
<1> USE DEF RecordUpdate, Reported, wire, counters
<1>1. ~Still /\ UNCHANGED <<history, mishap>>
  BY DEF Still
<1> SUFFICES ASSUME Lone PROVE LoneInv'
  BY <1>1, OutsideOther
<1> DEFINE r == asked[1]
<1>2. cbLimit[c] = LimitOf(r.value, r.active) /\ r \in Commands
  <2>1. asked \in Seq(Commands) /\ Len(asked) = 1
    BY DEF IInv, TypeOK, Lone
  <2> QED
    BY <1>1, <2>1, MovingLone DEF OnItsWay, Sought
<1>3. Recorded(cbLimit[c].value) = Recorded(r.value) /\ cbLimit[c].active = r.active
  BY <1>2, CommandFields, RecordedOnWire DEF LimitOf
<1>4. ASSUME OnItsWay PROVE OnItsWay'
  BY <1>4, SoughtKept DEF OnItsWay, history, IInv, TypeOK
<1> QED
  BY <1>1, <1>3, <1>4, OutsideLone

LEMMA DeviceReceivesLone ==
    ASSUME IInv, LoneInv, DeviceReceives
    PROVE  LoneInv'
<1> USE DEF DeviceReceives, store, callback, counters
<1>1. ~Still /\ UNCHANGED history /\ (mishap => mishap')
  BY DEF Still
<1> SUFFICES ASSUME Lone, Lone' PROVE LoneInv'
  BY <1>1, OutsideOther
<1>2. /\ Notify(Head(toDevice).to, Head(toDevice).limit)
      /\ UNCHANGED mishap
  BY DEF Lone
<1>3. ASSUME OnItsWay PROVE OnItsWay'
  <2>1. toDevice \in Seq([to : Entities, limit : Limits]) /\ toDevice # <<>>
    BY DEF IInv, TypeOK
  <2>2. Head(toDevice) = [to |-> egEntity, limit |-> Sought] /\ egEntity \in Entities
    BY <1>3, <2>1, TailElements DEF OnItsWay, IInv, TypeOK
  <2>3. \A i \in 1 .. Len(toDevice') : toDevice'[i] = [to |-> egEntity, limit |-> Sought]
    BY <1>3, <2>1, TailElements DEF OnItsWay
  <2>4. device'[egEntity] = Sought
    BY <1>2, <2>2 DEF Notify, IInv, TypeOK
  <2>5. \A i \in 1 .. Len(toBridge') : toBridge'[i] = [from |-> egEntity, limit |-> Sought]
    BY <1>2, <1>3, <2>2 DEF Notify, OnItsWay, IInv, TypeOK
  <2> QED
    BY <1>3, <2>3, <2>4, <2>5, SoughtKept DEF OnItsWay, history
<1> QED
  BY <1>1, <1>2, <1>3, OutsideLone

LEMMA ArriveLone ==
    ASSUME IInv, LoneInv, Arrive
    PROVE  LoneInv'
<1> USE DEF Arrive, store, counters
<1>1. ~Still /\ UNCHANGED <<history, mishap>>
  BY DEF Still
<1> SUFFICES ASSUME Lone PROVE LoneInv'
  BY <1>1, OutsideOther
<1>2. ASSUME OnItsWay PROVE OnItsWay'
  <2>1. toBridge \in Seq([from : Entities, limit : Limits]) /\ toBridge # <<>>
    BY DEF IInv, TypeOK
  <2>2. Head(toBridge) = [from |-> egEntity, limit |-> Sought] /\ egEntity \in Entities
    BY <1>2, <2>1, TailElements DEF OnItsWay, IInv, TypeOK
  <2>3. \A i \in 1 .. Len(toBridge') : toBridge'[i] = [from |-> egEntity, limit |-> Sought]
    BY <1>2, <2>1, TailElements DEF OnItsWay
  <2>4. \A e \in Entities : events'[e] > 0 => cache'[e] = Sought
    BY <1>2, <2>2 DEF OnItsWay, IInv, TypeOK
  <2> QED
    BY <1>2, <2>3, <2>4, SoughtKept DEF OnItsWay, history
<1> QED
  BY <1>1, <1>2, OutsideLone

LEMMA LoneNext == IInv /\ LoneInv /\ [Next]_vars => LoneInv'
<1> SUFFICES ASSUME IInv, LoneInv, [Next]_vars PROVE LoneInv'
  OBVIOUS
<1>1. ASSUME NEW h \in Handlers, Handle(h) PROVE LoneInv'
  BY <1>1, RequestsLone, PeekLone, LookupLone, WriteLone, RecordLone DEF Handle
<1>2. ASSUME NEW c \in Callbacks,
             RecordUpdate(c) \/ \E e \in Entities : ReadUpdate(c, e)
      PROVE  LoneInv'
  BY <1>2, RecordUpdateLone, ReadUpdateLone
<1>3. ASSUME NEW e \in Entities, UseCaseSupportUpdate(e) \/ DeviceExpires(e)
      PROVE  LoneInv'
  BY <1>3, UseCaseSupportUpdateLone, DeviceExpiresLone
<1>4. CASE DeviceReceives \/ Arrive
  BY <1>4, DeviceReceivesLone, ArriveLone
<1>5. CASE UNCHANGED vars
  BY <1>5 DEF vars, LoneInv, FirstInv, PlaceInv, StagedInv, UnsentInv, SentInv, Lone,
     Writes, Unsent, Still, Quiet, OnItsWay, Sought, LimitOf, OnWire, Recorded
<1> QED
  BY <1>1, <1>2, <1>3, <1>4, <1>5 DEF Next

(* A request that met no other and no mishap has done what it says when all  *)
(* is quiet, for any number of entities, values and callbacks and in both    *)
(* directions, whichever of its record and the inverter's report came first  *)
(* (control.go:58-163).                                                      *)
THEOREM LoneFulfilled == Spec => []LoneRequestFulfilled
<1>1. IInv /\ LoneInv => LoneRequestFulfilled
  <2> SUFFICES ASSUME IInv, LoneInv, Quiet, Lone
               PROVE  LET r == asked[1]
                      IN  /\ r.op = "target" => staged = r.value
                          /\ IF r.op = "target" /\ ~before.active
                                THEN device = before.device /\ ~active
                                ELSE /\ egEntity # NoEntity
                                     /\ device[egEntity] = LimitOf(r.value, r.active)
                                     /\ limit = Recorded(r.value)
                                     /\ active = r.active
    BY DEF LoneRequestFulfilled, Lone
  <2>1. asked[1].op = "target" => staged = asked[1].value
    BY DEF LoneInv, StagedInv
  <2>2. CASE ~Writes
    BY <2>1, <2>2 DEF LoneInv, UnsentInv, Writes
  <2>3. CASE Writes
    <3>1. ~Unsent
      BY DEF Quiet, Unsent
    <3> QED
      BY <2>1, <2>3, <3>1 DEF LoneInv, SentInv, OnItsWay, Sought, Quiet, Writes
  <2> QED
    BY <2>2, <2>3
<1> QED
  BY <1>1, InvHolds, LoneInit, LoneNext, PTL DEF Spec
==============================================================================
