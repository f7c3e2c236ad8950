--------------------------------- MODULE Api ---------------------------------
(* The process of the bridge as its clients and its supervisor see it:       *)
(* main.go from the start of the API server to its end, and the handlers of  *)
(* internal/httpapi/server.go.  Every request is served in a goroutine of    *)
(* its own, a WebSocket in two; Shutdown waits for the former only.          *)
EXTENDS Integers, Sequences, FiniteSetsExt

CONSTANTS
    Requests,    \* REST requests
    Sockets,     \* WebSocket connections
    Tokens       \* api_token, a sequence of characters "s", "+" and " "

VARIABLES
    token,             \* Server.token; the clients are given the same
    main, svc,         \* the main goroutine's place; the EEBUS service
    server,            \* what api.Start is doing
    signalled, grace,  \* SIGTERM was sent; the five seconds are over
    at, kind, effect,  \* each request: its handler's place, its kind, whether
                       \* the operation it asks for was carried out
    client,            \* the answer its client got
    ws, reader, peer   \* each WebSocket: its handler, its reader, its client

proc == <<main, svc, server, signalled, grace>>
rest == <<at, kind, effect, client>>
sockets == <<ws, reader, peer>>
vars == <<token, main, svc, server, signalled, grace, at, kind, effect, client,
          ws, reader, peer>>

Init ==
    /\ token \in Tokens
    /\ main = "starting" /\ svc = "running" /\ server = "none"
    /\ signalled = FALSE /\ grace = FALSE
    /\ at = [r \in Requests |-> "none"]
    /\ kind \in [Requests -> {"health", "state", "post"}]
    /\ effect = [r \in Requests |-> FALSE]
    /\ client = [r \in Requests |-> "none"]
    /\ ws = [k \in Sockets |-> "none"]
    /\ reader = [k \in Sockets |-> "none"]
    /\ peer = [k \in Sockets |-> "there"]

Ended == main \in {"exited", "fatal", "killed"}
InProgress(r) == at[r] \in {"received", "decode", "operate"}

-----------------------------------------------------------------------------
(* main: start the server's goroutine, ask for signals, wait for one.        *)
Launch ==
    /\ main = "starting"
    /\ main' = "launched" /\ server' = "binding"
    /\ UNCHANGED <<token, svc, signalled, grace, rest, sockets>>

Notify ==
    /\ main = "launched"
    /\ main' = "waiting"
    /\ UNCHANGED <<token, svc, server, signalled, grace, rest, sockets>>

(* Before signal.Notify a signal kills the process.                          *)
Signal ==
    /\ main \in {"starting", "launched", "waiting"} /\ ~signalled
    /\ signalled' = TRUE
    /\ main' = IF main = "waiting" THEN "draining" ELSE "killed"
    /\ UNCHANGED <<token, svc, server, grace, rest, sockets>>

(* Server.Start: ErrServerClosed is the end Shutdown asks for; any other     *)
(* error ends the process in log.Fatalf, which runs no deferred call.        *)
ClosedIsAnError == FALSE
ClosedIsNoError == TRUE

Bind ==
    /\ server = "binding"
    /\ \/ server' = "serving" /\ main \in {"launched", "waiting"} /\ UNCHANGED main
       \/ server' = "failed" /\ ~Ended /\ main' = "fatal"
    /\ UNCHANGED <<token, svc, signalled, grace, rest, sockets>>

ServeReturns ==
    /\ server \in {"binding", "serving"} /\ main \in {"draining", "drained", "stopped"}
    /\ server' = "closed"
    /\ main' = IF ClosedIsNoError THEN main ELSE "fatal"
    /\ UNCHANGED <<token, svc, signalled, grace, rest, sockets>>

(* Shutdown returns when no request is in progress or the context is over.   *)
SocketsWaitedFor == {r \in Requests : InProgress(r)} \union {k \in Sockets : ws[k] = "open"}
WaitedFor == {r \in Requests : InProgress(r)}

GraceEnds ==
    /\ main = "draining" /\ ~grace
    /\ grace' = TRUE
    /\ UNCHANGED <<token, main, svc, server, signalled, rest, sockets>>

ShutdownReturns ==
    /\ main = "draining"
    /\ WaitedFor = {} \/ grace
    /\ main' = "drained"
    /\ UNCHANGED <<token, svc, server, signalled, grace, rest, sockets>>

(* The deferred mgr.Shutdown, and the end of main.                           *)
StopService ==
    /\ main = "drained"
    /\ svc' = "stopped" /\ main' = "stopped"
    /\ UNCHANGED <<token, server, signalled, grace, rest, sockets>>

Exit ==
    /\ main = "stopped"
    /\ main' = "exited"
    /\ UNCHANGED <<token, svc, server, signalled, grace, rest, sockets>>

-----------------------------------------------------------------------------
(* checkToken: the header's token is trimmed, and a plus sign in a query     *)
(* stands for a space.  The integration puts the token into the header of    *)
(* its requests, and as it is into the query of its WebSocket.               *)
InHeader(t) ==
    LET kept == {i \in DOMAIN t : t[i] # " "}
    IN  IF kept = {} THEN <<>> ELSE SubSeq(t, Min(kept), Max(kept))
InQuery(t) == [i \in DOMAIN t |-> IF t[i] = "+" THEN " " ELSE t[i]]
CheckToken(given) == token = <<>> \/ given = token

Receive(r) ==
    /\ server = "serving" /\ main \in {"launched", "waiting"}
    /\ at[r] = "none"
    /\ at' = [at EXCEPT ![r] = "received"]
    /\ UNCHANGED <<token, proc, kind, effect, client, sockets>>

(* Variant: the handler goes on without an answer.                           *)
AnswerForgotten(r, code, place) == at' = [at EXCEPT ![r] = place] /\ UNCHANGED client

(* writeJSON: the client gets the answer unless it has given up; the handler *)
(* goes on at the given place.                                               *)
Answer(r, code, place) ==
    /\ client' = [client EXCEPT ![r] = IF @ = "none" THEN code ELSE @]
    /\ at' = [at EXCEPT ![r] = place]

(* auth, and the handlers that only read: health, state and pairing.         *)
Authorise(r) ==
    /\ at[r] = "received" /\ ~Ended
    /\ IF kind[r] # "health" /\ ~CheckToken(InHeader(token)) THEN Answer(r, "401", "done")
       ELSE IF kind[r] # "post" THEN Answer(r, "200", "done")
       ELSE at' = [at EXCEPT ![r] = "decode"] /\ UNCHANGED client
    /\ UNCHANGED <<token, proc, kind, effect, sockets>>

(* decode: the body may be malformed, or never come to its end.              *)
AfterBadBodyGoOn == "operate"
AfterBadBody == "done"

Decode(r) ==
    /\ at[r] = "decode" /\ ~Ended
    /\ \/ Answer(r, "400", AfterBadBody)
       \/ at' = [at EXCEPT ![r] = "operate"] /\ UNCHANGED client
    /\ UNCHANGED <<token, proc, kind, effect, sockets>>

(* The Controller's operation, and respond.                                  *)
Operate(r) ==
    /\ at[r] = "operate" /\ ~Ended
    /\ \/ effect' = [effect EXCEPT ![r] = TRUE] /\ Answer(r, "200", "done")
       \/ Answer(r, "502", "done") /\ UNCHANGED effect
    /\ UNCHANGED <<token, proc, kind, sockets>>

(* External: after 15 s the client gives up; the handler does not notice.    *)
GiveUp(r) ==
    /\ InProgress(r) /\ client[r] = "none"
    /\ client' = [client EXCEPT ![r] = "failed"]
    /\ UNCHANGED <<token, proc, at, kind, effect, sockets>>

-----------------------------------------------------------------------------
(* handleWS: check the token, upgrade, subscribe, start the reader.          *)
Dial(k) ==
    /\ server = "serving" /\ main \in {"launched", "waiting"}
    /\ ws[k] = "none"
    /\ IF CheckToken(InQuery(token))
         THEN ws' = [ws EXCEPT ![k] = "open"] /\ reader' = [reader EXCEPT ![k] = "reading"]
         ELSE ws' = [ws EXCEPT ![k] = "refused"] /\ UNCHANGED reader
    /\ UNCHANGED <<token, proc, rest, peer>>

(* External: the client closes the connection, or is gone without a word.    *)
PeerLeaves(k) ==
    /\ ws[k] = "open" /\ peer[k] = "there"
    /\ \E how \in {"closed", "vanished"} : peer' = [peer EXCEPT ![k] = how]
    /\ UNCHANGED <<token, proc, rest, ws, reader>>

(* The reader ends when the client or the handler has closed.                *)
ReaderEnds(k) ==
    /\ reader[k] = "reading" /\ ~Ended
    /\ peer[k] = "closed" \/ ws[k] = "left"
    /\ reader' = [reader EXCEPT ![k] = "ended"]
    /\ UNCHANGED <<token, proc, rest, ws, peer>>

(* The handler returns, unsubscribes and closes when its reader has ended,   *)
(* or when a ping cannot be written.                                         *)
PingNeverFails(k) == FALSE
PingFails(k) == peer[k] # "there"

HandlerReturns(k) ==
    /\ ws[k] = "open" /\ ~Ended
    /\ reader[k] = "ended" \/ PingFails(k)
    /\ ws' = [ws EXCEPT ![k] = "left"]
    /\ UNCHANGED <<token, proc, rest, reader, peer>>

-----------------------------------------------------------------------------
Main == Launch \/ Notify \/ ShutdownReturns \/ StopService \/ Exit
Socket(k) == ReaderEnds(k) \/ HandlerReturns(k)

Next ==
    \/ Main \/ Signal \/ Bind \/ ServeReturns \/ GraceEnds
    \/ \E r \in Requests : Receive(r) \/ Authorise(r) \/ Decode(r) \/ Operate(r) \/ GiveUp(r)
    \/ \E k \in Sockets : Dial(k) \/ PeerLeaves(k) \/ Socket(k)

(* Goroutines that can go on do so, and pings are written every 30 s.  No    *)
(* request need be sent, read to its end or carried out.                     *)
Spec == Init /\ [][Next]_vars /\ WF_vars(Main) /\ \A k \in Sockets : WF_vars(Socket(k))
-----------------------------------------------------------------------------
TypeOK ==
    /\ token \in Tokens
    /\ main \in {"starting", "launched", "waiting", "draining", "drained", "stopped",
                 "exited", "fatal", "killed"}
    /\ svc \in {"running", "stopped"}
    /\ server \in {"none", "binding", "serving", "failed", "closed"}
    /\ signalled \in BOOLEAN /\ grace \in BOOLEAN
    /\ at \in [Requests -> {"none", "received", "decode", "operate", "done"}]
    /\ kind \in [Requests -> {"health", "state", "post"}]
    /\ effect \in [Requests -> BOOLEAN]
    /\ client \in [Requests -> {"none", "failed", "200", "400", "401", "502"}]
    /\ \A r \in Requests : at[r] = "done" => client[r] # "none"
    /\ ws \in [Sockets -> {"none", "open", "refused", "left"}]
    /\ reader \in [Sockets -> {"none", "reading", "ended"}]
    /\ peer \in [Sockets -> {"there", "closed", "vanished"}]

(* Once asked to stop, the bridge ends only after the EEBUS service was      *)
(* shut down, and no operation is cut off or runs on a stopped service       *)
(* before the five seconds are over (main.go:48, 72-75; server.go:86-97): the *)
(* end of api.Start in the other goroutine does not end the process, unless  *)
(* it never could bind its port.                                             *)
StopsInOrder ==
    /\ main = "exited" \/ (main = "fatal" /\ server # "failed") => svc = "stopped"
    /\ svc = "stopped" => grace \/ \A r \in Requests : ~InProgress(r)

(* A client that is told an operation was done can rely on it, and one that  *)
(* is told its request was refused can rely on that, however its handler,    *)
(* its own time-out and the shutdown interleave (server.go:100-107, 324-341).*)
AnswersAreTrue ==
    \A r \in Requests :
        /\ client[r] = "200" /\ kind[r] = "post" => effect[r]
        /\ client[r] \in {"400", "401"} => ~effect[r]

(* Asked to stop, the bridge ends: within the five seconds if requests hang, *)
(* and without them if none does, however many WebSockets are open           *)
(* (main.go:73-75).                                                          *)
ShutdownEnds ==
    WF_vars(GraceEnds) \/ <>[](\A r \in Requests : ~InProgress(r)) => (signalled ~> Ended)

(* A WebSocket whose client is gone, with or without a word, is given up:    *)
(* its channel is unsubscribed and both its goroutines end, unless the       *)
(* process ends first (server.go:285-320).                                   *)
GoneIsReleased ==
    \A k \in Sockets :
        peer[k] # "there" ~> Ended \/ (ws[k] = "left" /\ reader[k] = "ended")
==============================================================================
