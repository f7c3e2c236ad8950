----------------------------- MODULE Integration ------------------------------
(* The Home Assistant side (custom_components/eebus): the coordinator, which *)
(* polls GET /api/state and takes what the WebSocket pushes, and the loop    *)
(* EebusApiClient.listen, which keeps that WebSocket open.  Both write the   *)
(* same field, and each message is under way while other things happen.      *)
(*                                                                           *)
(* States of the bridge are numbered in the order it published them, also    *)
(* over its restarts.  Of the bridge only what module Store shows is used:   *)
(* a new session is seeded with the current state, what it pushes later are  *)
(* states of the present process, some may be skipped, and the last one      *)
(* pushed need not be the latest when updates overlap.                       *)
EXTENDS Integers, Sequences

CONSTANTS
    MaxChanges,   \* bound on the states of the bridge after the first
    MaxGlitches   \* bound on messages lost although the bridge is up

ASSUME BoundsAssumption == MaxChanges \in Nat /\ MaxGlitches \in Nat

None == -1
Versions == 0 .. MaxChanges
Polls == {"timer", "requested"}   \* by update_interval; by async_request_refresh
Idle == "idle"

VARIABLES
    up,           \* external: the bridge runs and can be reached
    latest,       \* external: its state
    first,        \* external: the state the present process began with
    session,      \* external: it has a subscriber for our WebSocket
    wire,         \* external: snapshots sent over it and not yet read
    glitches,     \* counter for the bound
    entry,        \* the config entry: unloaded, setup, loaded, or failed to unload
    data,         \* coordinator.data
    success,      \* coordinator.last_update_success, the entities' availability
    poll,         \* external: the poll of each kind: idle, sent, or answered
    answer,       \* external: the state in the answer
    wanted,       \* external: a refresh was requested and is not begun
    ws            \* listen: off, connect, open or sleep

bridge == <<up, latest, first>>
channel == <<session, wire>>
shown == <<data, success>>
polling == <<poll, answer, wanted>>
vars == <<up, latest, first, session, wire, glitches, entry, data, success, poll,
          answer, wanted, ws>>

(* Entities listen, so that the coordinator goes on polling.                 *)
Listening == entry \in {"loaded", "failed"}

Init ==
    /\ up = TRUE /\ latest = 0 /\ first = 0
    /\ session = FALSE /\ wire = <<>>
    /\ glitches = 0
    /\ entry = "unloaded"
    /\ data = None /\ success = TRUE
    /\ poll = [k \in Polls |-> Idle] /\ answer = [k \in Polls |-> None]
    /\ wanted = FALSE
    /\ ws = "off"

-----------------------------------------------------------------------------
(* External: the bridge publishes a state.  An open session gets it, or, with*)
(* Updates overlapping, an older one or none.                                *)
Publish ==
    /\ up
    /\ latest < MaxChanges
    /\ latest' = latest + 1
    /\ wire' \in IF session THEN {wire} \union {Append(wire, v) : v \in first .. latest'}
                            ELSE {wire}
    /\ UNCHANGED <<up, first, session, glitches>>

Change ==
    /\ Publish
    /\ UNCHANGED <<entry, shown, polling, ws>>

(* The bridge goes down, without a farewell if need be, and comes back.      *)
Crash ==
    /\ up
    /\ up' = FALSE
    /\ session' = FALSE
    /\ UNCHANGED <<latest, first, wire, glitches, entry, shown, polling, ws>>

Restart ==
    /\ ~up
    /\ latest < MaxChanges
    /\ up' = TRUE
    /\ latest' = latest + 1 /\ first' = latest + 1
    /\ UNCHANGED <<channel, glitches, entry, shown, polling, ws>>

Glitch ==
    /\ glitches < MaxGlitches
    /\ glitches' = glitches + 1

-----------------------------------------------------------------------------
(* async_setup_entry: a new coordinator, whose first refresh is awaited.     *)
Setup ==
    /\ entry = "unloaded"
    /\ entry' = "setup"
    /\ data' = None /\ success' = TRUE
    /\ poll' = [k \in Polls |-> IF k = "timer" THEN "sent" ELSE Idle]
    /\ answer' = [k \in Polls |-> None]
    /\ wanted' = FALSE
    /\ UNCHANGED <<bridge, channel, glitches, ws>>

(* After which outcomes async_stop is called: all.  Variant: only when the   *)
(* platforms could be unloaded.                                              *)
StopsIfUnloaded == {"unloaded"}
Stops == {"unloaded", "failed"}

(* async_unload_entry: async_stop sets the event and cancels listen.         *)
Unload ==
    /\ Listening
    /\ entry' \in {"unloaded", "failed"}
    /\ IF entry' \in Stops THEN ws' = "off" /\ session' = FALSE /\ wire' = <<>>
                            ELSE UNCHANGED <<ws, session, wire>>
    /\ poll' = IF entry' = "failed" THEN poll ELSE [k \in Polls |-> Idle]
    /\ answer' = IF entry' = "failed" THEN answer ELSE [k \in Polls |-> None]
    /\ wanted' = (wanted /\ entry' = "failed")
    /\ UNCHANGED <<bridge, glitches, shown>>

(* A switch or a number: its request changes the state of the bridge, and    *)
(* then it requests a refresh.                                               *)
Command ==
    /\ Listening
    /\ Publish
    /\ wanted' = TRUE
    /\ UNCHANGED <<entry, shown, poll, answer, ws>>

StartPoll(k) ==
    /\ Listening
    /\ poll[k] = Idle
    /\ k = "requested" => wanted
    /\ poll' = [poll EXCEPT ![k] = "sent"]
    /\ wanted' = FALSE
    /\ UNCHANGED <<bridge, channel, glitches, entry, shown, answer, ws>>

(* handleState answers with a snapshot.                                      *)
Answer(k) ==
    /\ up
    /\ poll[k] = "sent"
    /\ poll' = [poll EXCEPT ![k] = "answered"]
    /\ answer' = [answer EXCEPT ![k] = latest]
    /\ UNCHANGED <<bridge, channel, glitches, entry, shown, wanted, ws>>

EndPoll(k) ==
    /\ poll' = [poll EXCEPT ![k] = Idle]
    /\ answer' = [answer EXCEPT ![k] = None]

(* The data a poll brings.  Variant: an open WebSocket's are left alone.     *)
TakenUnlessOpen(k) == IF ws = "open" THEN data ELSE answer[k]
Taken(k) == answer[k]

(* _async_update_data returns; the first time, the entry becomes loaded and  *)
(* async_start_websocket starts listen.                                      *)
Complete(k) ==
    /\ poll[k] = "answered"
    /\ EndPoll(k)
    /\ data' = Taken(k)
    /\ success' = TRUE
    /\ IF entry = "setup"
         THEN entry' = "loaded" /\ ws' = "connect"
         ELSE UNCHANGED <<entry, ws>>
    /\ UNCHANGED <<bridge, channel, glitches, wanted>>

(* What an error leaves.  Variants: success, with the data there is; a setup *)
(* that goes on without a first state.                                       *)
SuccessKept == TRUE
SuccessAfterError == FALSE
LoadedAnyway == IF entry = "setup" THEN "loaded" ELSE entry
EntryAfterError == IF entry = "setup" THEN "unloaded" ELSE entry

(* _async_update_data raises UpdateFailed; during setup that ends the setup, *)
(* which Home Assistant tries again later.                                   *)
Raise(k) ==
    /\ EndPoll(k)
    /\ entry' = EntryAfterError
    /\ success' = SuccessAfterError
    /\ UNCHANGED <<bridge, channel, data, wanted, ws>>

PollFails(k) ==
    /\ poll[k] = "sent" /\ ~up
    /\ Raise(k)
    /\ UNCHANGED glitches

PollLost(k) ==
    /\ poll[k] # Idle
    /\ Raise(k)
    /\ Glitch

-----------------------------------------------------------------------------
Connect ==
    /\ ws = "connect" /\ up
    /\ ws' = "open"
    /\ session' = TRUE /\ wire' = <<latest>>
    /\ UNCHANGED <<bridge, glitches, entry, shown, polling>>

ConnectFails ==
    /\ ws = "connect"
    /\ \/ ~up /\ UNCHANGED glitches
       \/ up /\ Glitch
    /\ ws' = "sleep"
    /\ UNCHANGED <<bridge, channel, entry, shown, polling>>

(* A text message: _on_ws_state, which also drops a requested refresh.       *)
Deliver ==
    /\ ws = "open" /\ wire # <<>>
    /\ data' = Head(wire) /\ success' = TRUE
    /\ wire' = Tail(wire)
    /\ wanted' = FALSE
    /\ UNCHANGED <<bridge, session, glitches, entry, poll, answer, ws>>

(* Where listen goes on after a session.  Variant: it ends with the first.   *)
NoMore == "off"
Again == "sleep"

SessionEnds ==
    /\ ws' = Again
    /\ session' = FALSE /\ wire' = <<>>
    /\ UNCHANGED <<bridge, entry, shown, polling>>

(* The other side is gone: a close, a reset, or no pong for the heartbeat.   *)
Break ==
    /\ ws = "open" /\ ~session
    /\ SessionEnds
    /\ UNCHANGED glitches

Disturb ==
    /\ ws = "open" /\ session
    /\ SessionEnds
    /\ Glitch

(* The backoff is over.                                                      *)
WakeUp ==
    /\ ws = "sleep"
    /\ ws' = "connect"
    /\ UNCHANGED <<bridge, channel, glitches, entry, shown, polling>>

Next ==
    \/ Change \/ Crash \/ Restart
    \/ Setup \/ Unload \/ Command
    \/ \E k \in Polls :
           StartPoll(k) \/ Answer(k) \/ Complete(k) \/ PollFails(k) \/ PollLost(k)
    \/ Connect \/ ConnectFails \/ Deliver \/ Break \/ Disturb \/ WakeUp

Spec == Init /\ [][Next]_vars

(* update_interval starts a poll while entities listen; a request is answered*)
(* or fails (its timeout is 15 s); the event loop runs what is ready, and the*)
(* heartbeat of the WebSocket notices a dead peer.  Nothing obliges the      *)
(* bridge, the user, or Home Assistant's retry of a setup.                   *)
Fairness ==
    /\ WF_vars(StartPoll("timer"))
    /\ \A k \in Polls : /\ WF_vars(Answer(k) \/ PollFails(k))
                        /\ WF_vars(Complete(k))
    /\ WF_vars(Connect \/ ConnectFails)
    /\ WF_vars(Deliver) /\ WF_vars(Break) /\ WF_vars(WakeUp)

FairSpec == Spec /\ Fairness
-----------------------------------------------------------------------------
TypeOK ==
    /\ up \in BOOLEAN /\ latest \in Versions /\ first \in 0 .. latest
    /\ session \in BOOLEAN /\ wire \in Seq(Versions)
    /\ glitches \in 0 .. MaxGlitches
    /\ entry \in {"unloaded", "setup", "loaded", "failed"}
    /\ data \in Versions \union {None} /\ success \in BOOLEAN
    /\ Listening => data # None
    /\ poll \in [Polls -> {Idle, "sent", "answered"}]
    /\ answer \in [Polls -> Versions \union {None}]
    /\ wanted \in BOOLEAN
    /\ ws \in {"off", "connect", "open", "sleep"}

(* listen runs exactly while the entry is loaded, also after an unload that  *)
(* half failed; the bridge keeps no session nobody reads; and a setup that   *)
(* has not ended still has its first poll, without which Home Assistant would*)
(* never try again (__init__.py:41-42, 54-58, coordinator.py:49-66).         *)
ListensWhileLoaded ==
    /\ ws # "off" <=> entry = "loaded"
    /\ session => ws = "open"
    /\ entry = "setup" => poll["timer"] # Idle

(* If the bridge stays up, the entities in the end show its latest state and *)
(* are available: polls heal what an answer that was overtaken, a push out of*)
(* order or a lost session left stale (coordinator.py:41-59).                *)
EventuallyCurrent ==
    <>[](up /\ Listening) => <>[](data = latest /\ success)

(* If it stays down, they become unavailable and stay so, although pushes    *)
(* still on the wire set last_update_success again (coordinator.py:41-45).   *)
EventuallyUnavailable == <>[](~up /\ Listening) => <>[]~success

(* api.py:147-149: listen "Reconnects with backoff on failure": if the bridge*)
(* stays up the WebSocket is open again in the end, whatever broke it.       *)
EventuallyOpen == <>[](up /\ entry = "loaded") => <>[](ws = "open" /\ session)
=============================================================================
