------------------------------ MODULE ApiProofs -------------------------------
(* Api for any number of requests and WebSockets: the order of its end, and  *)
(* the truth of its answers.                                                 *)
EXTENDS Api, TLAPS

(* Where the main goroutine is tells what became of the service; once it has *)
(* drained nothing is in progress, and nothing new is received.              *)
EndInv ==
    /\ main \in {"stopped", "exited"} => svc = "stopped"
    /\ svc = "stopped" => main \in {"stopped", "exited", "fatal"}
    /\ main = "fatal" => server = "failed"
    /\ main = "drained" \/ svc = "stopped" => grace \/ \A r \in Requests : ~InProgress(r)

(* A handler is over when it has answered, and an operation is its last act. *)
AnswerInv ==
    \A r \in Requests :
        /\ client[r] \in {"200", "400", "401"} => at[r] = "done"
        /\ effect[r] => at[r] = "done"

IInv == TypeOK /\ EndInv /\ AnswerInv /\ AnswersAreTrue

LEMMA InitInv == Init => IInv
<1> SUFFICES ASSUME Init PROVE IInv
  OBVIOUS
<1>1. TypeOK
  <2>1. /\ at \in [Requests -> {"none", "received", "decode", "operate", "done"}]
        /\ effect \in [Requests -> BOOLEAN]
        /\ client \in [Requests -> {"none", "failed", "200", "400", "401", "502"}]
    BY DEF Init
  <2>2. /\ ws \in [Sockets -> {"none", "open", "refused", "left"}]
        /\ reader \in [Sockets -> {"none", "reading", "ended"}]
        /\ peer \in [Sockets -> {"there", "closed", "vanished"}]
    BY DEF Init
  <2>3. \A r \in Requests : at[r] = "none"
    BY DEF Init
  <2> QED
    BY <2>1, <2>2, <2>3 DEF Init, TypeOK
<1>2. EndInv
  BY DEF Init, EndInv
<1>3. AnswerInv /\ AnswersAreTrue
  BY DEF Init, AnswerInv, AnswersAreTrue
<1> QED
  BY <1>1, <1>2, <1>3 DEF IInv

(* Steps of the process leave every request where it is.                     *)
LEMMA ProcessInv ==
    ASSUME IInv, Main \/ Signal \/ Bind \/ ServeReturns \/ GraceEnds
    PROVE  IInv'
<1> USE DEF IInv, rest, sockets
<1>1. token' = token /\ UNCHANGED rest /\ UNCHANGED sockets
  BY DEF Main, Launch, Notify, Signal, Bind, ServeReturns, GraceEnds,
         ShutdownReturns, StopService, Exit
<1>2. AnswerInv' /\ AnswersAreTrue'
  BY <1>1 DEF AnswerInv, AnswersAreTrue
<1>3. \A r \in Requests : InProgress(r)' <=> InProgress(r)
  BY <1>1 DEF InProgress
<1>4. TypeOK'
  BY <1>1 DEF TypeOK, Main, Launch, Notify, Signal, Bind, ServeReturns, GraceEnds,
              ShutdownReturns, StopService, Exit
<1>5. EndInv'
  <2>1. CASE Main
    BY <2>1, <1>3 DEF TypeOK, EndInv, Main, Launch, Notify, ShutdownReturns, StopService,
                      Exit, WaitedFor
  <2>2. CASE Signal
    BY <2>2, <1>3 DEF TypeOK, EndInv, Signal
  <2>3. CASE Bind
    BY <2>3, <1>3 DEF TypeOK, EndInv, Bind, Ended
  <2>4. CASE ServeReturns
    BY <2>4, <1>3 DEF TypeOK, EndInv, ServeReturns, ClosedIsNoError
  <2>5. CASE GraceEnds
    BY <2>5, <1>3 DEF TypeOK, EndInv, GraceEnds
  <2> QED
    BY <2>1, <2>2, <2>3, <2>4, <2>5
<1> QED
  BY <1>2, <1>4, <1>5

(* Steps of a handler touch its own request only; no request comes into      *)
(* progress once the process drains.                                         *)
LEMMA RequestInv ==
    ASSUME IInv, NEW r \in Requests,
           Receive(r) \/ Authorise(r) \/ Decode(r) \/ Operate(r) \/ GiveUp(r)
    PROVE  IInv'
<1> USE DEF IInv, proc, sockets, TypeOK
<1>1. token' = token /\ UNCHANGED proc /\ kind' = kind /\ UNCHANGED sockets
  BY DEF Receive, Authorise, Decode, Operate, GiveUp
<1>2. /\ TypeOK' /\ AnswerInv' /\ AnswersAreTrue'
      /\ main \in {"launched", "waiting"} \/
            \A q \in Requests : InProgress(q)' => InProgress(q)
  <2>1. CASE Receive(r)
    BY <2>1, <1>1 DEF Receive, AnswerInv, AnswersAreTrue
  <2>2. CASE Authorise(r)
    BY <2>2, <1>1 DEF Authorise, Answer, AnswerInv, AnswersAreTrue, InProgress
  <2>3. CASE Decode(r)
    BY <2>3, <1>1 DEF Decode, Answer, AfterBadBody, AnswerInv, AnswersAreTrue, InProgress
  <2>4. CASE Operate(r)
    <3>1. /\ at' = [at EXCEPT ![r] = "done"] /\ at[r] = "operate"
          /\ client[r] \in {"none", "failed", "502"}
      BY <2>4 DEF Operate, Answer, AnswerInv
    <3>2. CASE effect' = [effect EXCEPT ![r] = TRUE] /\ Answer(r, "200", "done")
      <4>1. client'[r] \in {"200", "failed", "502"}
        BY <3>1, <3>2 DEF Answer
      <4>2. TypeOK'
        BY <1>1, <3>1, <3>2 DEF Answer
      <4> QED
        BY <1>1, <3>1, <3>2, <4>1, <4>2 DEF Answer, AnswerInv, AnswersAreTrue, InProgress
    <3>3. CASE effect' = effect /\ Answer(r, "502", "done")
      BY <1>1, <3>1, <3>3 DEF Answer, AnswerInv, AnswersAreTrue, InProgress
    <3> QED
      BY <2>4, <3>2, <3>3 DEF Operate
  <2>5. CASE GiveUp(r)
    BY <2>5, <1>1 DEF GiveUp, AnswerInv, AnswersAreTrue, InProgress
  <2> QED
    BY <2>1, <2>2, <2>3, <2>4, <2>5
<1>3. EndInv'
  BY <1>1, <1>2 DEF EndInv
<1> QED
  BY <1>2, <1>3

(* WebSockets are waited for by nobody.                                      *)
LEMMA SocketInv ==
    ASSUME IInv, NEW k \in Sockets, Dial(k) \/ PeerLeaves(k) \/ Socket(k)
    PROVE  IInv'
<1> USE DEF IInv, proc, rest
<1>1. token' = token /\ UNCHANGED proc /\ UNCHANGED rest
  BY DEF Dial, PeerLeaves, Socket, ReaderEnds, HandlerReturns
<1>2. TypeOK'
  BY <1>1 DEF TypeOK, Dial, PeerLeaves, Socket, ReaderEnds, HandlerReturns
<1> QED
  BY <1>1, <1>2 DEF EndInv, AnswerInv, AnswersAreTrue, InProgress

THEOREM InvHolds == Spec => []IInv
<1>1. IInv /\ [Next]_vars => IInv'
  <2> SUFFICES ASSUME IInv, [Next]_vars PROVE IInv'
    OBVIOUS
  <2>1. CASE Next
    BY <2>1, ProcessInv, RequestInv, SocketInv DEF Next
  <2>2. CASE UNCHANGED vars
    BY <2>2 DEF vars, IInv, TypeOK, EndInv, AnswerInv, AnswersAreTrue, InProgress
  <2> QED
    BY <2>1, <2>2
<1> QED
  BY InitInv, <1>1, PTL DEF Spec

(* Every part of the state keeps its type, and a handler is never over       *)
(* without its client having got an answer or given up.                      *)
THEOREM TypeCorrect == Spec => []TypeOK
<1>1. IInv => TypeOK
  BY DEF IInv
<1> QED
  BY <1>1, InvHolds, PTL

(* However many requests and WebSockets are under way, and wherever the      *)
(* signal meets them, the service is stopped last and not under a request.   *)
THEOREM EndsInOrder == Spec => []StopsInOrder
<1>1. IInv => StopsInOrder
  BY DEF IInv, EndInv, StopsInOrder
<1> QED
  BY <1>1, InvHolds, PTL

(* No answer to any request says what did not happen.                        *)
THEOREM AnswersHold == Spec => []AnswersAreTrue
<1>1. IInv => AnswersAreTrue
  BY DEF IInv
<1> QED
  BY <1>1, InvHolds, PTL
==============================================================================
