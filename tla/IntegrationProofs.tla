-------------------------- MODULE IntegrationProofs ---------------------------
(* Integration for every number of changes and lost messages.                *)
EXTENDS Integration, TLAPS

USE BoundsAssumption

(* An answered poll has brought a state.                                     *)
AnswerInv == \A k \in Polls : poll[k] = "answered" => answer[k] # None

(* Without a coordinator nothing is asked, and during a setup there is only  *)
(* the first poll.                                                           *)
PollInv ==
    /\ ~Listening => ~wanted /\ poll["requested"] = Idle
    /\ entry = "unloaded" => poll["timer"] = Idle

IInv == TypeOK /\ AnswerInv /\ PollInv /\ ListensWhileLoaded

LEMMA InitInv == Init => IInv
<1> SUFFICES ASSUME Init PROVE IInv
  OBVIOUS
<1>1. TypeOK
  <2>1. wire \in Seq(Versions)
    BY DEF Init
  <2>2. latest \in Versions /\ first \in 0 .. latest /\ glitches \in 0 .. MaxGlitches
    BY DEF Init, Versions
  <2> QED
    BY <2>1, <2>2 DEF Init, TypeOK, Listening
<1>2. AnswerInv /\ PollInv /\ ListensWhileLoaded
  BY DEF Init, AnswerInv, PollInv, ListensWhileLoaded, Listening, Idle, Polls
<1> QED
  BY <1>1, <1>2 DEF IInv

(* The state of the bridge moves on, and may go out on the wire.             *)
LEMMA PublishTyped ==
    ASSUME TypeOK, Publish
    PROVE  /\ up' \in BOOLEAN /\ latest' \in Versions /\ first' \in 0 .. latest'
           /\ session' \in BOOLEAN /\ wire' \in Seq(Versions)
           /\ glitches' \in 0 .. MaxGlitches
<1>1. latest' \in Versions /\ first' \in 0 .. latest'
  BY DEF Publish, TypeOK, Versions
<1>2. \A v \in first .. latest' : v \in Versions
  BY <1>1 DEF TypeOK, Versions
<1>3. wire' \in Seq(Versions)
  BY <1>2 DEF Publish, TypeOK
<1> QED
  BY <1>1, <1>3 DEF Publish, TypeOK

LEMMA BridgeInv ==
    ASSUME IInv, Change \/ Crash \/ Restart \/ Command
    PROVE  IInv'
<1> USE DEF shown, polling, channel, IInv
<1>1. CASE Change
  BY <1>1, PublishTyped DEF Change, Publish, TypeOK, AnswerInv, PollInv, ListensWhileLoaded,
     Listening
<1>2. CASE Command
  BY <1>2, PublishTyped DEF Command, Publish, TypeOK, AnswerInv, PollInv,
     ListensWhileLoaded, Listening
<1>3. CASE Crash
  BY <1>3 DEF Crash, TypeOK, AnswerInv, PollInv, ListensWhileLoaded, Listening
<1>4. CASE Restart
  BY <1>4 DEF Restart, TypeOK, Versions, AnswerInv, PollInv, ListensWhileLoaded, Listening
<1> QED
  BY <1>1, <1>2, <1>3, <1>4

LEMMA EntryInv ==
    ASSUME IInv, Setup \/ Unload
    PROVE  IInv'
<1> USE DEF bridge, channel, shown, polling, IInv
<1>1. CASE Setup
  BY <1>1 DEF Setup, TypeOK, AnswerInv, PollInv, ListensWhileLoaded, Listening, Versions,
     None, Idle, Polls
<1>2. CASE Unload
  <2>1. wire' \in Seq(Versions) /\ wanted' \in BOOLEAN
    BY <1>2 DEF Unload, TypeOK, Stops
  <2>2. TypeOK'
    BY <1>2, <2>1 DEF Unload, TypeOK, Listening, Stops
  <2>3. AnswerInv' /\ PollInv' /\ ListensWhileLoaded'
    BY <1>2 DEF Unload, Stops, TypeOK, AnswerInv, PollInv, ListensWhileLoaded, Listening,
       Idle, Polls
  <2> QED
    BY <2>2, <2>3
<1> QED
  BY <1>1, <1>2

LEMMA AskInv ==
    ASSUME IInv, NEW k \in Polls, StartPoll(k) \/ Answer(k)
    PROVE  IInv'
<1> USE DEF bridge, channel, shown, polling, IInv
<1>1. CASE StartPoll(k)
  BY <1>1 DEF StartPoll, TypeOK, AnswerInv, PollInv, ListensWhileLoaded, Listening, Idle
<1>2. CASE Answer(k)
  BY <1>2 DEF Answer, TypeOK, AnswerInv, PollInv, ListensWhileLoaded, Listening, Versions,
     None, Idle
<1> QED
  BY <1>1, <1>2

(* What ends a setup is its first poll, for there is no other.               *)
LEMMA FirstPoll ==
    ASSUME IInv, NEW k \in Polls, poll[k] # Idle
    PROVE  entry # "unloaded" /\ (entry = "setup" => k = "timer")
BY DEF IInv, PollInv, Listening, Polls

LEMMA CompleteInv ==
    ASSUME IInv, NEW k \in Polls, Complete(k)
    PROVE  IInv'
<1> USE DEF Complete, EndPoll, Taken, bridge, channel
<1>1. answer[k] \in Versions /\ answer[k] # None /\ poll[k] # Idle
  BY DEF IInv, TypeOK, AnswerInv, None, Idle
<1>2. entry # "unloaded" /\ (entry = "setup" => k = "timer")
  BY <1>1, FirstPoll
<1>3. TypeOK'
  BY <1>1 DEF IInv, TypeOK, Listening
<1>4. AnswerInv'
  BY DEF IInv, TypeOK, AnswerInv, Idle
<1>5. PollInv'
  BY <1>1, <1>2 DEF IInv, TypeOK, PollInv, Listening, Polls
<1>6. ListensWhileLoaded'
  BY <1>2 DEF IInv, TypeOK, ListensWhileLoaded, Listening
<1> QED
  BY <1>3, <1>4, <1>5, <1>6 DEF IInv

LEMMA RaiseInv ==
    ASSUME IInv, NEW k \in Polls, poll[k] # Idle, Raise(k), glitches' \in 0 .. MaxGlitches
    PROVE  IInv'
<1> USE DEF Raise, EndPoll, EntryAfterError, SuccessAfterError, bridge, channel
<1>2. entry # "unloaded" /\ (entry = "setup" => k = "timer")
  BY FirstPoll
<1>3. TypeOK'
  BY DEF IInv, TypeOK, Listening, None
<1>4. AnswerInv'
  BY DEF IInv, TypeOK, AnswerInv, Idle
<1>5. PollInv'
  BY <1>2 DEF IInv, TypeOK, PollInv, Listening, Polls
<1>6. ListensWhileLoaded'
  BY <1>2 DEF IInv, TypeOK, ListensWhileLoaded, Listening
<1> QED
  BY <1>3, <1>4, <1>5, <1>6 DEF IInv

LEMMA PollErrorInv ==
    ASSUME IInv, NEW k \in Polls, PollFails(k) \/ PollLost(k)
    PROVE  IInv'
<1>1. poll[k] # Idle /\ Raise(k)
  BY DEF PollFails, PollLost, Idle
<1>2. glitches' \in 0 .. MaxGlitches
  BY DEF PollFails, PollLost, Glitch, IInv, TypeOK
<1> QED
  BY <1>1, <1>2, RaiseInv

LEMMA ListenInv ==
    ASSUME IInv,
           Connect \/ ConnectFails \/ Deliver \/ Break \/ Disturb \/ WakeUp
    PROVE  IInv'
<1> USE DEF bridge, channel, shown, polling, IInv
<1>1. CASE Connect
  BY <1>1 DEF Connect, TypeOK, AnswerInv, PollInv, ListensWhileLoaded, Listening
<1>2. CASE ConnectFails
  BY <1>2 DEF ConnectFails, Glitch, TypeOK, AnswerInv, PollInv, ListensWhileLoaded, Listening
<1>3. CASE Deliver
  <2>1. wire \in Seq(Versions) /\ wire # <<>>
    BY <1>3 DEF Deliver, TypeOK
  <2>2. Head(wire) \in Versions /\ Head(wire) # None /\ Tail(wire) \in Seq(Versions)
    BY <2>1 DEF Versions, None
  <2> QED
    BY <1>3, <2>2 DEF Deliver, TypeOK, AnswerInv, PollInv, ListensWhileLoaded, Listening
<1>4. CASE Break \/ Disturb
  <2>1. SessionEnds /\ ws = "open" /\ glitches' \in 0 .. MaxGlitches
    BY <1>4 DEF Break, Disturb, Glitch, TypeOK
  <2>2. wire' \in Seq(Versions)
    BY <2>1 DEF SessionEnds
  <2> QED
    BY <2>1, <2>2 DEF SessionEnds, Again, TypeOK, AnswerInv, PollInv, ListensWhileLoaded,
       Listening
<1>5. CASE WakeUp
  BY <1>5 DEF WakeUp, TypeOK, AnswerInv, PollInv, ListensWhileLoaded, Listening
<1> QED
  BY <1>1, <1>2, <1>3, <1>4, <1>5

LEMMA NextInv == IInv /\ [Next]_vars => IInv'
<1> SUFFICES ASSUME IInv, [Next]_vars PROVE IInv'
  OBVIOUS
<1>1. CASE Next
  BY <1>1, BridgeInv, EntryInv, AskInv, CompleteInv, PollErrorInv, ListenInv DEF Next
<1>2. CASE UNCHANGED vars
  BY <1>2 DEF vars, IInv, TypeOK, AnswerInv, PollInv, ListensWhileLoaded, Listening
<1> QED
  BY <1>1, <1>2

THEOREM InvHolds == Spec => []IInv
  BY InitInv, NextInv, PTL DEF Spec

(* All values keep their ranges; in particular the entities of a loaded      *)
(* entry, and of one that could not be unloaded, always have a state to show *)
(* (coordinator.py:41-45, entity.py).                                        *)
THEOREM TypeCorrect == Spec => []TypeOK
<1>1. IInv => TypeOK
  BY DEF IInv
<1> QED
  BY <1>1, InvHolds, PTL

(* Through any number of reloads, failed setups and lost sessions, listen    *)
(* runs exactly while the entry is loaded, and no setup waits for nothing    *)
(* (__init__.py:30-67, coordinator.py:47-66).                                *)
THEOREM ListensExactlyWhileLoaded == Spec => []ListensWhileLoaded
<1>1. IInv => ListensWhileLoaded
  BY DEF IInv
<1> QED
  BY <1>1, InvHolds, PTL
==============================================================================
