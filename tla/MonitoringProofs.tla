--------------------------- MODULE MonitoringProofs ---------------------------
(* What is shown of a device never goes back, and is current once all        *)
(* callbacks have returned, for all devices, values and callbacks.           *)
EXTENDS Monitoring, TLAPS

(* The lock is held from before the library is asked until the field is set. *)
LockInv == \A c \in Callbacks : at[c] \in {"read", "write"} => lock = c

(* What was read is not older than what is shown, nor newer than the library *)
(* has; a device that left has nothing, but its next value will be newer.    *)
ShownInv ==
    \A d \in Devices, w \in Watched :
        /\ cache[<<d, w>>] <= changes
        /\ shown[w].from = d =>
              /\ shown[w].value <= changes
              /\ cache[<<d, w>>] # 0 => shown[w].value <= cache[<<d, w>>]

GotInv ==
    \A c \in Callbacks : at[c] = "write" /\ got[c] # 0 =>
        /\ got[c] <= changes
        /\ cache[job[c]] # 0 => got[c] <= cache[job[c]]
        /\ shown[job[c][2]].from = job[c][1] => shown[job[c][2]].value <= got[c]

(* A callback for the event will still read.                                 *)
Waiting(e) == raised[e] > 0 \/ \E c \in Callbacks : job[c] = e /\ at[c] = "enter"

Current(d, w) ==
    /\ shown[w].from # NoDevice
    /\ shown[w].from = d => shown[w].value = cache[<<d, w>>]

(* What a callback in the lock read is the library's value, unless a later   *)
(* event waits for the lock.                                                 *)
ReadInv ==
    \A c \in Callbacks : at[c] = "write" /\ cache[job[c]] # 0 =>
        got[c] = cache[job[c]] \/ Waiting(job[c])

(* Unless a value is shown, a callback is on its way to it.                  *)
DueInv ==
    \A d \in Devices, w \in Watched : cache[<<d, w>>] # 0 =>
        \/ Current(d, w)
        \/ Waiting(<<d, w>>)
        \/ \E c \in Callbacks : job[c] = <<d, w>> /\ at[c] \in {"read", "write"}

IInv == TypeOK /\ LockInv /\ ShownInv /\ GotInv /\ ReadInv /\ DueInv

USE NamesAssumption, BoundAssumption

LEMMA InitInv == Init => IInv
BY DEF Init, IInv, TypeOK, LockInv, ShownInv, GotInv, ReadInv, DueInv, Fields, Nothing,
       Events

LEMMA BeginInv ==
    ASSUME IInv, NEW c \in Callbacks, NEW e \in Events, Begin(c, e)
    PROVE  IInv'
<1> USE DEF IInv, TypeOK, Begin
<1>1. TypeOK'
  OBVIOUS
<1>2. LockInv' /\ ShownInv' /\ GotInv'
  BY DEF LockInv, ShownInv, GotInv, Events
<1>3. \A f \in Events : Waiting(f) => Waiting(f)'
  BY DEF Waiting
<1>4. ReadInv'
  BY <1>3 DEF ReadInv
<1>5. DueInv'
  BY <1>3 DEF DueInv, Current, Events
<1> QED BY <1>1, <1>2, <1>4, <1>5

LEMMA EnterInv ==
    ASSUME IInv, NEW c \in Callbacks, Enter(c)
    PROVE  IInv'
<1> USE DEF IInv, TypeOK, Enter, Unlocked
<1>1. TypeOK'
  OBVIOUS
<1>2. \A b \in Callbacks : at[b] \notin {"read", "write"}
  BY DEF LockInv
<1>3. LockInv' /\ ShownInv' /\ GotInv' /\ ReadInv'
  BY <1>2 DEF LockInv, ShownInv, GotInv, ReadInv
<1>4. DueInv'
  BY <1>2 DEF DueInv, Current, Waiting, Events
<1> QED BY <1>1, <1>3, <1>4

LEMMA ReadStep ==
    ASSUME IInv, NEW c \in Callbacks, Read(c)
    PROVE  IInv'
<1> USE DEF IInv, TypeOK, Read
<1>1. TypeOK'
  OBVIOUS
<1>2. \A b \in Callbacks : at[b] = "write" => FALSE
  BY DEF LockInv
<1>3. LockInv' /\ ShownInv'
  BY DEF LockInv, ShownInv
<1>4. GotInv' /\ ReadInv'
  BY <1>2 DEF GotInv, ReadInv, ShownInv, Events
<1>5. DueInv'
  BY DEF DueInv, Current, Waiting, Events
<1> QED BY <1>1, <1>3, <1>4, <1>5

LEMMA WriteInv ==
    ASSUME IInv, NEW c \in Callbacks, Write(c)
    PROVE  IInv'
<1> USE DEF IInv, TypeOK, Write, Succeeded
<1>0. PICK d \in Devices, w \in Watched : job[c] = <<d, w>>
  BY DEF Events
<1>1. TypeOK'
  BY <1>0 DEF Fields, Nothing
<1>2. \A b \in Callbacks : b # c => at[b] \notin {"read", "write"}
  BY DEF LockInv
<1>3. LockInv' /\ GotInv' /\ ReadInv'
  BY <1>2 DEF LockInv, GotInv, ReadInv
<1>4. ShownInv'
  <2> SUFFICES ASSUME NEW x \in Devices, NEW y \in Watched
               PROVE  /\ cache[<<x, y>>] <= changes
                      /\ shown'[y].from = x =>
                            /\ shown'[y].value <= changes
                            /\ cache[<<x, y>>] # 0 => shown'[y].value <= cache[<<x, y>>]
    BY DEF ShownInv
  <2>1. CASE shown'[y] = shown[y]
    BY <2>1 DEF ShownInv
  <2>2. CASE y = w /\ got[c] # 0
    <3>1. shown'[y] = [from |-> d, value |-> got[c]]
      BY <1>0, <2>2
    <3>2. cache[<<x, y>>] <= changes
      BY DEF ShownInv
    <3> QED BY <1>0, <2>2, <3>1, <3>2 DEF GotInv
  <2> QED BY <1>0, <2>1, <2>2
<1>5. \A f \in Events : Waiting(f) => Waiting(f)'
  BY DEF Waiting
<1>6. DueInv'
  <2> SUFFICES ASSUME NEW x \in Devices, NEW y \in Watched, cache[<<x, y>>] # 0
               PROVE  Current(x, y)' \/ Waiting(<<x, y>>)'
    BY DEF DueInv
  <2>1. CASE <<x, y>> = <<d, w>>
    <3>1. got[c] = cache[<<d, w>>] \/ Waiting(<<d, w>>)
      BY <1>0, <2>1 DEF ReadInv
    <3>2. got[c] = cache[<<d, w>>] => Current(x, y)'
      BY <1>0, <2>1 DEF Current
    <3> QED BY <1>0, <1>5, <2>1, <3>1, <3>2 DEF Events
  <2>2. CASE <<x, y>> # <<d, w>>
    <3>1. Current(x, y) \/ Waiting(<<x, y>>)
      BY <1>0, <1>2, <2>2 DEF DueInv
    <3>2. Current(x, y) => Current(x, y)'
      BY <1>0, <2>2 DEF Current
    <3> QED BY <1>5, <3>1, <3>2 DEF Events
  <2> QED BY <2>1, <2>2
<1> QED BY <1>1, <1>3, <1>4, <1>6

LEMMA ReportInv ==
    ASSUME IInv, NEW e \in Events, Report(e)
    PROVE  IInv'
<1> USE DEF IInv, TypeOK, Report, callback
<1>1. TypeOK'
  OBVIOUS
<1>2. LockInv'
  BY DEF LockInv
<1>3. ShownInv'
  <2> SUFFICES ASSUME NEW x \in Devices, NEW y \in Watched
               PROVE  /\ cache'[<<x, y>>] <= changes'
                      /\ shown[y].from = x =>
                            /\ shown[y].value <= changes'
                            /\ cache'[<<x, y>>] # 0 => shown[y].value <= cache'[<<x, y>>]
    BY DEF ShownInv
  <2>1. <<x, y>> \in Events /\ shown[y].value \in Nat /\ changes \in Nat
    BY DEF Events, Fields, Nothing
  <2>2. /\ cache[<<x, y>>] <= changes
        /\ shown[y].from = x =>
              /\ shown[y].value <= changes
              /\ cache[<<x, y>>] # 0 => shown[y].value <= cache[<<x, y>>]
    BY DEF ShownInv
  <2> QED BY <2>1, <2>2
<1>4. GotInv'
  BY DEF GotInv, Events
<1>5. Waiting(e)' /\ \A f \in Events : Waiting(f) => Waiting(f)'
  BY DEF Waiting
<1>6. ReadInv'
  BY <1>5 DEF ReadInv
<1>7. DueInv'
  BY <1>5 DEF DueInv, Current, Events
<1> QED BY <1>1, <1>2, <1>3, <1>4, <1>6, <1>7

LEMMA LeaveInv ==
    ASSUME IInv, NEW d \in Devices, Leave(d)
    PROVE  IInv'
<1> USE DEF IInv, TypeOK, Leave, callback
<1>1. TypeOK'
  OBVIOUS
<1>2. \A e \in Events : cache'[e] # 0 => cache'[e] = cache[e]
  OBVIOUS
<1>3. LockInv' /\ ShownInv' /\ GotInv'
  BY <1>2 DEF LockInv, ShownInv, GotInv, Events
<1>4. \A f \in Events : Waiting(f) => Waiting(f)'
  BY DEF Waiting
<1>5. ReadInv'
  BY <1>2, <1>4 DEF ReadInv
<1>6. DueInv'
  BY <1>2, <1>4 DEF DueInv, Current, Events
<1> QED BY <1>1, <1>3, <1>5, <1>6

LEMMA NextInv == IInv /\ [Next]_vars => IInv'
<1> SUFFICES ASSUME IInv, [Next]_vars PROVE IInv'
  OBVIOUS
<1>1. CASE UNCHANGED vars
  <2> USE <1>1 DEF vars
  <2>1. TypeOK' /\ LockInv' /\ ShownInv' /\ GotInv'
    BY DEF IInv, TypeOK, LockInv, ShownInv, GotInv
  <2>2. ReadInv' /\ DueInv'
    BY DEF IInv, ReadInv, DueInv, Waiting, Current
  <2> QED BY <2>1, <2>2 DEF IInv
<1>2. CASE \E c \in Callbacks : OnEvent(c)
  BY <1>2, BeginInv, EnterInv, ReadStep, WriteInv DEF OnEvent
<1>3. CASE \E e \in Events : Report(e)
  BY <1>3, ReportInv
<1>4. CASE \E d \in Devices : Leave(d)
  BY <1>4, LeaveInv
<1> QED BY <1>1, <1>2, <1>3, <1>4 DEF Next

LEMMA AlwaysInv == Spec => []IInv
BY InitInv, NextInv, PTL DEF Spec

(* Fields, goroutines and counters keep their types, and only callbacks hold *)
(* the lock, for all devices, values and callbacks.                          *)
THEOREM TypeCorrect == Spec => []TypeOK
<1>1. IInv => TypeOK
  BY DEF IInv
<1> QED BY AlwaysInv, <1>1, PTL

(* When all callbacks have returned, the values the library holds are shown  *)
(* (usecases.go:171-203, 212-232, 241-257).                                  *)
THEOREM SettledShown == Spec => []SettledIsCurrent
<1>1. IInv => SettledIsCurrent
  BY DEF IInv, TypeOK, DueInv, Waiting, Current, SettledIsCurrent, Events
<1> QED BY AlwaysInv, <1>1, PTL

(* What is shown of a device is never replaced by something older of it,     *)
(* because it is read under the lock it is written under (usecases.go:171).  *)
THEOREM NothingOlder == Spec => NeverOlder
<1> DEFINE Kept == \A w \in Watched :
               shown'[w].from = shown[w].from => shown'[w].value >= shown[w].value
<1>1. IInv /\ [Next]_vars => [Kept]_vars
  <2> SUFFICES ASSUME IInv, Next PROVE Kept
    OBVIOUS
  <2>1. ASSUME NEW c \in Callbacks, Write(c) PROVE Kept
    BY <2>1 DEF Write, Succeeded, IInv, TypeOK, GotInv, Events, Fields, Nothing
  <2>2. CASE UNCHANGED shown
    BY <2>2 DEF IInv, TypeOK, Fields, Nothing
  <2> QED BY <2>1, <2>2 DEF Next, OnEvent, Begin, Enter, Read, Report, Leave
<1> QED BY AlwaysInv, <1>1, PTL DEF Spec, NeverOlder
===============================================================================
