-------------------------- MODULE ConnectionsProofs --------------------------
(* Connections for every set of remotes, goroutines and every bound.         *)
EXTENDS Connections, TLAPS

USE SkisAssumption, MaxEventsAssumption, ProcsAssumption

(* Without auto-accept nothing the manager or the library holds of a remote  *)
(* can lead to trust in it unless it was configured or trusted on request.   *)
MayTrust(s) == s \in Configured \union granted

TrustInv ==
    ~autoAccept =>
        /\ \A s \in trusted : MayTrust(s)
        /\ \A s \in registered : MayTrust(s)
        /\ \A s \in Skis : \A i \in 1 .. Len(queue[s]) :
               queue[s][i] \in {"connected", "autoTrusted"} => MayTrust(s)
        /\ \A p \in Procs : pc[p] = "trust" => MayTrust(arg[p])

(* Of a remote without a connection, what the map and then the calls still   *)
(* to come say last of its connection is that there is none.                 *)
SaysGone(s, i) == IF i = 0 THEN s \notin connected ELSE queue[s][i] = "disconnected"

GhostInv ==
    \A s \in Skis \ link :
        \E i \in 0 .. Len(queue[s]) :
            /\ SaysGone(s, i)
            /\ \A j \in i + 1 .. Len(queue[s]) : queue[s][j] # "connected"

(* A copy is newer than the burst's base, for its goroutine changed the map  *)
(* within the burst before copying it.                                       *)
BurstInv ==
    /\ burstBase <= rev
    /\ \A p \in Procs : pc[p] = "copy" => rev > burstBase
    /\ \A p \in Procs : pc[p] = "publish" => listRev[p] > burstBase
    /\ AllIdle => publishedRev > burstBase
    /\ anyConnected <=> published.connected # {}

(* A copy with the present rev is the map as it is, whoever holds it, and    *)
(* unless the Store has had one, somebody is to take or to write one.        *)
Fresh(p) == pc[p] = "copy" \/ (pc[p] = "publish" /\ listRev[p] = rev)

MapInv ==
    /\ publishedRev <= newest /\ newest <= rev
    /\ publishedRev = rev => published = Map
    /\ \A p \in Procs : pc[p] = "publish" =>
           listRev[p] <= rev /\ (listRev[p] = rev => list[p] = Map)
    /\ newest = rev \/ \E p \in Procs : Fresh(p)

IInv == TypeOK /\ TrustInv /\ GhostInv /\ BurstInv /\ MapInv

-----------------------------------------------------------------------------
LEMMA InitInv == Init => IInv
<1> SUFFICES ASSUME Init PROVE IInv
  OBVIOUS
<1> USE DEF Init
<1>1. TypeOK
  <2>1. queue \in [Skis -> Seq(Calls)]
    OBVIOUS
  <2>2. arg \in [Procs -> Skis]
    OBVIOUS
  <2>3. NoList \in Lists /\ published \in Lists
    BY DEF NoList, Lists, Map
  <2>4. list \in [Procs -> Lists] /\ listRev \in [Procs -> Nat]
    BY <2>3
  <2>5. known \subseteq Skis /\ trusted \subseteq known /\ registered \subseteq Skis
    OBVIOUS
  <2>6. events \in 0 .. MaxEvents /\ burstBase \in Int
    OBVIOUS
  <2>7. pc \in [Procs -> {"idle", "trust", "forget", "copy", "publish"}]
    OBVIOUS
  <2>8. anyConnected \in BOOLEAN /\ autoAccept \in BOOLEAN
    OBVIOUS
  <2>9. rev \in Nat /\ publishedRev \in Nat /\ newest \in Nat /\ connected \subseteq known
        /\ granted \subseteq Skis /\ forgotten \subseteq Skis /\ link \subseteq Skis
    OBVIOUS
  <2> QED
    BY ONLY <2>1, <2>2, <2>3, <2>4, <2>5, <2>6, <2>7, <2>8, <2>9 DEF TypeOK
<1>2. TrustInv
  BY DEF TrustInv, MayTrust
<1>3. GhostInv
  <2>1. ASSUME NEW s \in Skis
        PROVE  /\ SaysGone(s, 0) /\ 0 \in 0 .. Len(queue[s])
               /\ \A j \in 0 + 1 .. Len(queue[s]) : FALSE
    BY DEF SaysGone
  <2> QED
    BY <2>1 DEF GhostInv
<1>4. BurstInv
  BY DEF BurstInv, Map
<1>5. MapInv
  BY DEF MapInv
<1> QED
  BY <1>1, <1>2, <1>3, <1>4, <1>5 DEF IInv

-----------------------------------------------------------------------------
(* The part of the burst argument common to all changes of the map.          *)
LEMMA ChangedBurst ==
    ASSUME IInv, NEW p \in Procs, Changed(p), UNCHANGED <<storeVars, copies>>
    PROVE  BurstInv'
  BY DEF IInv, TypeOK, BurstInv, Changed, AllIdle, storeVars, copies

(* A change leaves every copy behind, and whoever made it will take another. *)
LEMMA ChangedMap ==
    ASSUME IInv, NEW p \in Procs, pc[p] # "publish", Changed(p),
           UNCHANGED <<storeVars, copies>>
    PROVE  MapInv'
<1> USE DEF Changed, storeVars, copies
<1>1. /\ rev' = rev + 1 /\ rev \in Nat /\ newest \in Nat /\ publishedRev \in Nat
      /\ pc'[p] = "copy" /\ \A q \in Procs \ {p} : pc'[q] = pc[q]
  BY DEF IInv, TypeOK
<1>2. ASSUME NEW q \in Procs, pc'[q] = "publish" PROVE listRev[q] <= rev
                                                       /\ listRev[q] \in Nat
  BY <1>1, <1>2 DEF IInv, TypeOK, MapInv
<1>3. Fresh(p)'
  BY <1>1 DEF Fresh
<1>4. publishedRev' <= newest' /\ newest' <= rev' /\ publishedRev' # rev'
  BY <1>1 DEF IInv, MapInv
<1>5. ASSUME NEW q \in Procs, pc'[q] = "publish"
      PROVE  listRev'[q] <= rev' /\ listRev'[q] # rev'
  BY <1>1, <1>2, <1>5
<1> QED
  BY <1>3, <1>4, <1>5 DEF MapInv

(* What touches neither the map nor its copies.                              *)
LEMMA SameMap ==
    ASSUME IInv, UNCHANGED <<conns, rev, copies, storeVars>>,
           \A p \in Procs : pc'[p] \in {"copy", "publish"} => pc'[p] = pc[p],
           \A p \in Procs : pc[p] \in {"copy", "publish"} => pc'[p] = pc[p]
    PROVE  MapInv'
  BY DEF IInv, MapInv, Fresh, Map, conns, copies, storeVars

LEMMA CallbackInv ==
    ASSUME IInv, NEW p \in Callbacks, NEW s \in Skis, Callback(p, s)
    PROVE  IInv'
<1> USE DEF Callback
<1> DEFINE q == queue[s]
<1>0. p \in Procs
  BY DEF Procs
<1>1. /\ q \in Seq(Calls) /\ Len(q) \in Nat /\ Len(q) > 0
      /\ Head(q) = q[1]
      /\ Tail(q) \in Seq(Calls) /\ Len(Tail(q)) = Len(q) - 1
      /\ \A i \in 1 .. Len(Tail(q)) : Tail(q)[i] = q[i + 1]
  BY DEF IInv, TypeOK
<1>2. queue' \in [Skis -> Seq(Calls)] /\ queue'[s] = Tail(q)
      /\ \A t \in Skis \ {s} : queue'[t] = queue[t]
  BY <1>1 DEF IInv, TypeOK
<1>3. TypeOK'
  <2>1. known' \subseteq Skis /\ connected' \subseteq known' /\ trusted' \subseteq known'
    BY DEF IInv, TypeOK, Upsert, Ending, Trusting, With
  <2> QED
    BY <1>0, <1>2, <2>1 DEF IInv, TypeOK, Changed, copies, storeVars, history
<1>4. TrustInv'
  <2> SUFFICES ASSUME ~autoAccept
               PROVE  /\ \A t \in trusted' : MayTrust(t)
                      /\ \A t \in Skis : \A i \in 1 .. Len(queue'[t]) :
                             queue'[t][i] \in {"connected", "autoTrusted"} => MayTrust(t)
                      /\ \A r \in Procs : pc'[r] = "trust" => MayTrust(arg[r])
    BY DEF IInv, TrustInv, MayTrust, history
  <2>1. \A t \in trusted' : MayTrust(t)
    BY <1>1 DEF IInv, TrustInv, Upsert, Ending, Trusting, With
  <2>2. \A t \in Skis : \A i \in 1 .. Len(queue'[t]) :
            queue'[t][i] \in {"connected", "autoTrusted"} => MayTrust(t)
    BY <1>1, <1>2 DEF IInv, TrustInv
  <2>3. \A r \in Procs : pc'[r] = "trust" => MayTrust(arg[r])
    BY DEF IInv, TypeOK, TrustInv, Changed
  <2> QED
    BY <2>1, <2>2, <2>3
<1>5. GhostInv'
  <2> SUFFICES ASSUME NEW t \in Skis \ link
               PROVE  \E i \in 0 .. Len(queue'[t]) :
                          /\ SaysGone(t, i)'
                          /\ \A j \in i + 1 .. Len(queue'[t]) : queue'[t][j] # "connected"
    BY DEF GhostInv
  <2>1. PICK i \in 0 .. Len(queue[t]) :
            /\ SaysGone(t, i)
            /\ \A j \in i + 1 .. Len(queue[t]) : queue[t][j] # "connected"
    BY DEF IInv, GhostInv
  <2>2. CASE t # s
    <3>1. SaysGone(t, i)'
      BY <1>2, <2>1, <2>2 DEF SaysGone, Upsert, Ending, Trusting, With
    <3> QED
      BY <1>2, <2>1, <2>2, <3>1
  <2>3. CASE t = s /\ i > 1
    <3>1. i - 1 \in 0 .. Len(queue'[t])
      BY <1>1, <1>2, <2>1, <2>3
    <3>2. SaysGone(t, i - 1)'
      BY <1>1, <1>2, <2>1, <2>3 DEF SaysGone
    <3>3. \A j \in (i - 1) + 1 .. Len(queue'[t]) : queue'[t][j] # "connected"
      BY <1>1, <1>2, <2>1, <2>3
    <3> WITNESS i - 1 \in 0 .. Len(queue'[t])
    <3> QED
      BY <3>1, <3>2, <3>3
  <2>4. CASE t = s /\ i \in {0, 1}
    <3>1. s \notin connected'
      BY <1>1, <2>1, <2>4 DEF SaysGone, Upsert, Ending, Trusting, With
    <3>2. 0 \in 0 .. Len(queue'[t])
      BY <1>1, <1>2, <2>4
    <3>3. SaysGone(t, 0)'
      BY <2>4, <3>1 DEF SaysGone
    <3>4. \A j \in 0 + 1 .. Len(queue'[t]) : queue'[t][j] # "connected"
      BY <1>1, <1>2, <2>1, <2>4
    <3> WITNESS 0 \in 0 .. Len(queue'[t])
    <3> QED
      BY <3>2, <3>3, <3>4
  <2>5. t # s \/ (t = s /\ i > 1) \/ (t = s /\ i \in {0, 1})
    BY <2>1
  <2> QED
    BY ONLY <2>2, <2>3, <2>4, <2>5
<1>6. BurstInv' /\ MapInv'
  BY <1>0, ChangedBurst, ChangedMap
<1> QED
  BY <1>3, <1>4, <1>5, <1>6 DEF IInv

(* What no step of the manager's own goroutines can disturb: they leave the  *)
(* library's calls alone, and never record a connection.                     *)
LEMMA SameGhost ==
    ASSUME IInv, connected' \subseteq connected, link' = link, queue' = queue
    PROVE  GhostInv'
<1> SUFFICES ASSUME NEW t \in Skis \ link
             PROVE  \E i \in 0 .. Len(queue[t]) :
                        /\ SaysGone(t, i)'
                        /\ \A j \in i + 1 .. Len(queue[t]) : queue[t][j] # "connected"
  BY DEF GhostInv
<1>1. PICK i \in 0 .. Len(queue[t]) :
          /\ SaysGone(t, i)
          /\ \A j \in i + 1 .. Len(queue[t]) : queue[t][j] # "connected"
  BY DEF IInv, GhostInv
<1> WITNESS i \in 0 .. Len(queue[t])
<1> QED
  BY <1>1 DEF SaysGone

LEMMA TrustStepInv ==
    ASSUME IInv, NEW p \in Operators, NEW s \in Skis, Trust(p, s)
    PROVE  IInv'
<1> USE DEF Trust, conns, copies, storeVars
<1>0. p \in Procs
  BY DEF Procs
<1>1. TypeOK'
  BY <1>0 DEF IInv, TypeOK
<1>2. TrustInv'
  BY <1>0 DEF IInv, TypeOK, TrustInv, MayTrust
<1>3. GhostInv'
  BY SameGhost
<1>4. BurstInv'
  BY <1>0 DEF IInv, TypeOK, BurstInv, AllIdle
<1>5. MapInv'
  BY <1>0, SameMap DEF IInv, TypeOK
<1> QED
  BY <1>1, <1>2, <1>3, <1>4, <1>5 DEF IInv

LEMMA MarkTrustedInv ==
    ASSUME IInv, NEW p \in Operators, MarkTrusted(p)
    PROVE  IInv'
<1> USE DEF MarkTrusted, With, external, copies, storeVars, history
<1>0. p \in Procs
  BY DEF Procs
<1>1. TypeOK'
  BY <1>0 DEF IInv, TypeOK, Changed
<1>2. TrustInv'
  BY <1>0 DEF IInv, TypeOK, TrustInv, MayTrust, Changed
<1>3. GhostInv'
  BY SameGhost
<1>4. BurstInv' /\ MapInv'
  BY <1>0, ChangedBurst, ChangedMap
<1> QED
  BY <1>1, <1>2, <1>3, <1>4 DEF IInv

LEMMA MarkForgottenInv ==
    ASSUME IInv, NEW p \in Operators, MarkForgotten(p)
    PROVE  IInv'
<1> USE DEF MarkForgotten, external, copies, storeVars, history
<1>0. p \in Procs
  BY DEF Procs
<1>1. TypeOK'
  BY <1>0 DEF IInv, TypeOK, Changed
<1>2. TrustInv'
  BY <1>0 DEF IInv, TypeOK, TrustInv, MayTrust, Changed
<1>3. GhostInv'
  BY SameGhost
<1>4. BurstInv' /\ MapInv'
  BY <1>0, ChangedBurst, ChangedMap
<1> QED
  BY <1>1, <1>2, <1>3, <1>4 DEF IInv

LEMMA CopyInv ==
    ASSUME IInv, NEW p \in Procs, Copy(p)
    PROVE  IInv'
<1> USE DEF Copy, conns, external, storeVars, history
<1>1. TypeOK'
  BY DEF IInv, TypeOK, Lists, Map
<1>2. TrustInv'
  BY DEF IInv, TypeOK, TrustInv, MayTrust
<1>3. GhostInv'
  BY SameGhost
<1>4. BurstInv'
  BY DEF IInv, TypeOK, BurstInv, AllIdle
<1>5. MapInv'
  <2>1. /\ Map' = Map
        /\ list'[p] = Map /\ listRev'[p] = rev /\ pc'[p] = "publish"
        /\ \A q \in Procs \ {p} : /\ pc'[q] = pc[q] /\ list'[q] = list[q]
                                  /\ listRev'[q] = listRev[q]
    BY DEF IInv, TypeOK, Map
  <2>2. Fresh(p)'
    BY <2>1 DEF Fresh
  <2>3. rev \in Nat
    BY DEF IInv, TypeOK
  <2>4. ASSUME NEW q \in Procs, pc'[q] = "publish"
        PROVE  listRev'[q] <= rev /\ (listRev'[q] = rev => list'[q] = Map)
    BY <2>1, <2>3, <2>4 DEF IInv, MapInv
  <2> QED
    BY <2>1, <2>2, <2>4 DEF IInv, MapInv
<1> QED
  BY <1>1, <1>2, <1>3, <1>4, <1>5 DEF IInv

LEMMA PublishInv ==
    ASSUME IInv, NEW p \in Procs, Publish(p)
    PROVE  IInv'
<1> USE DEF Publish, conns, external, history
<1>1. TypeOK'
  BY DEF IInv, TypeOK, Lists, NoList
<1>2. TrustInv'
  BY DEF IInv, TypeOK, TrustInv, MayTrust
<1>3. GhostInv'
  BY SameGhost
<1>4. BurstInv'
  BY DEF IInv, TypeOK, BurstInv, AllIdle
<1>5. MapInv'
  <2>1. /\ Map' = Map /\ pc'[p] = "idle"
        /\ \A q \in Procs \ {p} : /\ pc'[q] = pc[q] /\ list'[q] = list[q]
                                  /\ listRev'[q] = listRev[q]
    BY DEF IInv, TypeOK, Map
  <2>2. /\ rev \in Nat /\ newest \in Nat /\ listRev[p] \in Nat
        /\ listRev[p] <= rev /\ (listRev[p] = rev => list[p] = Map)
    BY DEF IInv, TypeOK, MapInv
  <2>3. publishedRev' <= newest' /\ newest' <= rev'
        /\ (publishedRev' = rev' => published' = Map')
    BY <2>1, <2>2 DEF IInv, MapInv
  <2>4. newest' = rev' \/ \E q \in Procs : Fresh(q)'
    <3>1. CASE newest = rev
      BY <2>2, <3>1 DEF IInv, MapInv
    <3>2. CASE Fresh(p)
      BY <2>2, <3>2 DEF Fresh, IInv, MapInv
    <3>3. CASE \E q \in Procs \ {p} : Fresh(q)
      BY <2>1, <3>3 DEF Fresh
    <3> QED
      BY <3>1, <3>2, <3>3 DEF IInv, MapInv
  <2> QED
    BY <2>1, <2>3, <2>4 DEF IInv, MapInv
<1> QED
  BY <1>1, <1>2, <1>3, <1>4, <1>5 DEF IInv

-----------------------------------------------------------------------------
(* Calls appended to a queue: what the types and the trust argument need of  *)
(* them is that each is a call, made for a remote that may be trusted.       *)
LEMMA AppendedCalls ==
    ASSUME IInv, NEW s \in Skis, NEW calls \in Seq(Calls),
           queue' = [queue EXCEPT ![s] = @ \o calls]
    PROVE  /\ queue' \in [Skis -> Seq(Calls)]
           /\ Len(queue'[s]) = Len(queue[s]) + Len(calls)
           /\ \A i \in 1 .. Len(queue[s]) : queue'[s][i] = queue[s][i]
           /\ \A i \in 1 .. Len(queue'[s]) \ 1 .. Len(queue[s]) :
                  /\ i - Len(queue[s]) \in 1 .. Len(calls)
                  /\ queue'[s][i] = calls[i - Len(queue[s])]
           /\ \A t \in Skis \ {s} : queue'[t] = queue[t]
  BY DEF IInv, TypeOK

LEMMA AppendTrust ==
    ASSUME IInv, NEW s \in Skis, NEW calls \in Seq(Calls),
           queue' = [queue EXCEPT ![s] = @ \o calls],
           UNCHANGED <<autoAccept, trusted, granted>>,
           registered' \subseteq registered \union {s},
           autoAccept \/ MayTrust(s) \/
               /\ registered' \subseteq registered
               /\ \A i \in 1 .. Len(calls) : calls[i] \notin {"connected", "autoTrusted"},
           \A p \in Procs : pc'[p] = "trust" => pc[p] = "trust" /\ arg'[p] = arg[p]
    PROVE  TrustInv'
<1> SUFFICES ASSUME ~autoAccept PROVE TrustInv'
  BY DEF TrustInv
<1>1. \A t \in Skis : \A i \in 1 .. Len(queue'[t]) :
          queue'[t][i] \in {"connected", "autoTrusted"} => MayTrust(t)
  <2> SUFFICES ASSUME NEW t \in Skis, NEW i \in 1 .. Len(queue'[t]),
                      queue'[t][i] \in {"connected", "autoTrusted"}
               PROVE  MayTrust(t)
    OBVIOUS
  <2>1. CASE t # s \/ i \in 1 .. Len(queue[s])
    BY <2>1, AppendedCalls DEF IInv, TrustInv
  <2>2. CASE t = s /\ i \notin 1 .. Len(queue[s])
    <3>1. i - Len(queue[s]) \in 1 .. Len(calls)
          /\ queue'[s][i] = calls[i - Len(queue[s])]
      BY <2>2, AppendedCalls
    <3> QED
      BY <2>2, <3>1
  <2> QED
    BY <2>1, <2>2
<1>2. \A t \in trusted \union registered' : MayTrust(t)
  BY DEF IInv, TrustInv
<1>3. \A p \in Procs : pc'[p] = "trust" => MayTrust(arg'[p])
  BY DEF IInv, TrustInv
<1> QED
  BY <1>1, <1>2, <1>3 DEF TrustInv, MayTrust

(* A call saying "connected" is only made for a remote with a connection,    *)
(* and "disconnected" comes last when the connection goes.                   *)
LEMMA AppendGhost ==
    ASSUME IInv, NEW s \in Skis, NEW calls \in Seq(Calls),
           queue' = [queue EXCEPT ![s] = @ \o calls], connected' = connected,
           link \subseteq link' \union {s},
           s \in link' \/ \A i \in 1 .. Len(calls) : calls[i] # "connected",
           s \in link' \/ s \notin link
               \/ (Len(calls) > 0 /\ calls[Len(calls)] = "disconnected")
    PROVE  GhostInv'
<1> SUFFICES ASSUME NEW t \in Skis, t \notin link'
             PROVE  \E i \in 0 .. Len(queue'[t]) :
                        /\ SaysGone(t, i)'
                        /\ \A j \in i + 1 .. Len(queue'[t]) : queue'[t][j] # "connected"
  BY DEF GhostInv
<1>0. Len(queue[s]) \in Nat /\ Len(calls) \in Nat
  BY DEF IInv, TypeOK
<1>1. CASE t \notin link
  <2>1. PICK i \in 0 .. Len(queue[t]) :
            /\ SaysGone(t, i)
            /\ \A j \in i + 1 .. Len(queue[t]) : queue[t][j] # "connected"
    BY <1>1 DEF IInv, GhostInv
  <2>2. CASE t # s
    BY <2>1, <2>2, AppendedCalls DEF SaysGone
  <2>3. CASE t = s
    <3>1. i \in 0 .. Len(queue'[t])
      BY <1>0, <2>1, <2>3, AppendedCalls
    <3>2. SaysGone(t, i)'
      BY <1>0, <2>1, <2>3, AppendedCalls DEF SaysGone
    <3>3. ASSUME NEW j \in i + 1 .. Len(queue'[t])
          PROVE  queue'[t][j] # "connected"
      <4>1. CASE j \in 1 .. Len(queue[s])
        BY <1>0, <2>1, <2>3, <4>1, AppendedCalls
      <4>2. CASE j \notin 1 .. Len(queue[s])
        <5>1. j \in 1 .. Len(queue'[s])
          BY <2>1, <2>3
        <5>2. j - Len(queue[s]) \in 1 .. Len(calls)
              /\ queue'[s][j] = calls[j - Len(queue[s])]
          BY <4>2, <5>1, AppendedCalls
        <5> QED
          BY <2>3, <5>2
      <4> QED
        BY <4>1, <4>2
    <3> WITNESS i \in 0 .. Len(queue'[t])
    <3> QED
      BY <3>2, <3>3
  <2> QED
    BY <2>2, <2>3
<1>2. CASE t \in link
  <2>1. t = s /\ Len(calls) > 0 /\ calls[Len(calls)] = "disconnected"
    BY <1>2
  <2>0. Len(queue'[s]) = Len(queue[s]) + Len(calls)
    BY AppendedCalls
  <2>2. PICK k \in Nat : k = Len(queue[s]) + Len(calls)
    BY <1>0
  <2>3. k = Len(queue'[s]) /\ k > 0
    BY ONLY <1>0, <2>0, <2>1, <2>2
  <2>4. queue'[s][k] = "disconnected"
    <3>1. k \in 1 .. Len(queue'[s]) /\ k \notin 1 .. Len(queue[s])
      BY ONLY <1>0, <2>1, <2>2, <2>3
    <3>2. queue'[s][k] = calls[k - Len(queue[s])]
      BY <3>1, AppendedCalls
    <3>3. k - Len(queue[s]) = Len(calls)
      BY ONLY <1>0, <2>2
    <3> QED
      BY <2>1, <3>2, <3>3
  <2>5. SaysGone(t, k)'
    BY <2>1, <2>3, <2>4 DEF SaysGone
  <2>6. k \in 0 .. Len(queue'[t]) /\ \A j \in k + 1 .. Len(queue'[t]) : FALSE
    BY <2>1, <2>3
  <2> USE <2>6
  <2> WITNESS k \in 0 .. Len(queue'[t])
  <2> QED
    BY <2>5, <2>6
<1> QED
  BY <1>1, <1>2

(* A report changes nothing but the queue and the bound.                     *)
LEMMA ReportInv ==
    ASSUME IInv, NEW s \in Skis, NEW calls \in Seq(Calls), Report(s, calls),
           registered' \subseteq Skis, link' \subseteq Skis
    PROVE  TypeOK' /\ BurstInv' /\ MapInv'
<1> USE DEF Report, conns, copies, storeVars, history
<1>1. queue' \in [Skis -> Seq(Calls)]
  BY AppendedCalls
<1>2. TypeOK'
  BY <1>1 DEF IInv, TypeOK
<1>3. BurstInv' /\ MapInv'
  BY SameMap DEF IInv, TypeOK, BurstInv, AllIdle
<1> QED
  BY <1>2, <1>3

(* Only a remote that may be trusted gets a connection without auto-accept.  *)
LEMMA ConnectInv ==
    ASSUME IInv, NEW s \in Skis, Connect(s)
    PROVE  IInv'
<1> DEFINE calls == IF autoAccept THEN <<"autoTrusted", "connected">>
                                  ELSE <<"connected">>
<1>1. calls \in Seq(Calls)
  <2>1. "autoTrusted" \in Calls /\ "connected" \in Calls
    BY DEF Calls
  <2> HIDE DEF Calls
  <2> QED
    BY <2>1
<1>2. Report(s, calls) /\ registered' \subseteq registered \union {s}
      /\ link' = link \union {s}
  BY DEF Connect
<1>3. autoAccept \/ MayTrust(s)
  BY DEF Connect, AllowWaitingForTrust, IInv, TrustInv, MayTrust
<1> HIDE DEF calls
<1> USE DEF Report, conns, history
<1>4. TypeOK' /\ BurstInv' /\ MapInv'
  BY <1>1, <1>2, ReportInv DEF IInv, TypeOK
<1>5. TrustInv'
  BY <1>1, <1>2, <1>3, AppendTrust
<1>6. GhostInv'
  BY <1>1, <1>2, AppendGhost
<1> QED
  BY <1>4, <1>5, <1>6 DEF IInv

(* A report of one call that brings no trust and no connection.              *)
LEMMA PlainReport ==
    ASSUME IInv, NEW s \in Skis, NEW call \in Calls \ {"connected", "autoTrusted"},
           Report(s, <<call>>), registered' \subseteq registered,
           link' = link \/ (link' = link \ {s} /\ call = "disconnected")
    PROVE  IInv'
<1>0. <<call>> \in Seq(Calls)
  <2>1. call \in Calls
    OBVIOUS
  <2> QED
    BY ONLY <2>1
<1>1. PICK calls \in Seq(Calls) : calls = <<call>>
  BY ONLY <1>0
<1>2. Len(calls) = 1 /\ calls[1] = call
  BY ONLY <1>1
<1>3. /\ Report(s, calls)
      /\ queue' = [queue EXCEPT ![s] = @ \o calls]
      /\ UNCHANGED <<autoAccept, trusted, granted>>
      /\ connected' = connected /\ pc' = pc /\ arg' = arg
  BY <1>1 DEF Report, conns, history
<1>4. \A i \in 1 .. Len(calls) : calls[i] \notin {"connected", "autoTrusted"}
  BY <1>2
<1>5. TypeOK' /\ BurstInv' /\ MapInv'
  BY <1>3, ReportInv DEF IInv, TypeOK
<1>6. TrustInv'
  BY <1>3, <1>4, AppendTrust
<1>7. GhostInv'
  <2>1. link \subseteq link' \union {s}
    OBVIOUS
  <2>2. \A i \in 1 .. Len(calls) : calls[i] # "connected"
    BY <1>4
  <2>3. s \in link' \/ s \notin link
            \/ (Len(calls) > 0 /\ calls[Len(calls)] = "disconnected")
    BY <1>2
  <2> QED
    BY ONLY IInv, s \in Skis, calls \in Seq(Calls), <1>3, <2>1, <2>2, <2>3, AppendGhost
<1> QED
  BY <1>5, <1>6, <1>7 DEF IInv

LEMMA OtherReportsInv ==
    ASSUME IInv, NEW s \in Skis, Disconnect(s) \/ AutoTrustRemoved(s) \/ Announce(s)
    PROVE  IInv'
<1>1. CASE Disconnect(s)
  BY <1>1, PlainReport DEF Disconnect, Calls
<1>2. CASE AutoTrustRemoved(s)
  BY <1>2, PlainReport DEF AutoTrustRemoved, Calls
<1>3. CASE Announce(s)
  BY <1>3, PlainReport DEF Announce, Calls
<1> QED
  BY <1>1, <1>2, <1>3

(* Unregistering drops the connection, if there is one, and says so.         *)
LEMMA ForgetInv ==
    ASSUME IInv, NEW p \in Operators, NEW s \in Skis, Forget(p, s)
    PROVE  IInv'
<1>0. p \in Procs /\ "disconnected" \in Calls
  BY DEF Procs, Calls
<1> DEFINE calls == IF s \in link THEN <<"disconnected">> ELSE <<>>
<1>1. /\ calls \in Seq(Calls)
      /\ s \in link => Len(calls) = 1 /\ calls[1] = "disconnected"
      /\ s \notin link => Len(calls) = 0
  BY <1>0
<1>2. queue' = [queue EXCEPT ![s] = @ \o calls]
  <2>1. queue[s] \in Seq(Calls) /\ queue \in [Skis -> Seq(Calls)]
    BY DEF IInv, TypeOK
  <2>2. CASE s \in link
    <3>1. queue[s] \o calls = Append(queue[s], "disconnected")
      BY ONLY <1>0, <2>1, <2>2
    <3>2. queue' = [queue EXCEPT ![s] = Append(queue[s], "disconnected")]
      BY <2>2 DEF Forget, Drop
    <3> QED
      BY <3>1, <3>2
  <2>3. CASE s \notin link
    <3>1. queue[s] \o calls = queue[s]
      BY ONLY <2>1, <2>3
    <3>2. queue' = [queue EXCEPT ![s] = queue[s]]
      BY <2>3 DEF Forget, Drop
    <3> QED
      BY <3>1, <3>2
  <2> QED
    BY <2>2, <2>3
<1>3. link' = link \ {s} /\ registered' = registered \ {s}
  BY DEF Forget, Drop
<1> HIDE DEF calls
<1> USE DEF Forget, conns, copies, storeVars, history
<1>4. TypeOK'
  <2>1. queue' \in [Skis -> Seq(Calls)]
    BY <1>1, <1>2, AppendedCalls
  <2> QED
    BY <1>0, <1>3, <2>1 DEF IInv, TypeOK
<1>5. TrustInv'
  <2>1. \A r \in Procs : pc'[r] = "trust" => pc[r] = "trust" /\ arg'[r] = arg[r]
    BY DEF IInv, TypeOK
  <2>2. \A i \in 1 .. Len(calls) : calls[i] \notin {"connected", "autoTrusted"}
    BY <1>1
  <2> QED
    BY <1>1, <1>2, <1>3, <2>1, <2>2, AppendTrust
<1>6. GhostInv'
  <2>1. link \subseteq link' \union {s}
    BY <1>3
  <2>2. \A i \in 1 .. Len(calls) : calls[i] # "connected"
    BY <1>1
  <2>3. s \in link' \/ s \notin link
            \/ (Len(calls) > 0 /\ calls[Len(calls)] = "disconnected")
    BY <1>1
  <2>4. connected' = connected
    OBVIOUS
  <2> QED
    BY ONLY IInv, s \in Skis, <1>1, <1>2, <2>1, <2>2, <2>3, <2>4, AppendGhost
<1>7. BurstInv'
  BY <1>0 DEF IInv, TypeOK, BurstInv, AllIdle
<1>8. MapInv'
  BY <1>0, SameMap DEF IInv, TypeOK
<1> QED
  BY <1>4, <1>5, <1>6, <1>7, <1>8 DEF IInv

-----------------------------------------------------------------------------
(* A restart leads to a state like the initial ones.                         *)
LEMMA RestartInv == ASSUME IInv, Restart PROVE IInv'
<1> USE DEF Restart, history
<1>1. TypeOK'
  <2>1. NoList \in Lists /\ published' \in Lists
    BY DEF NoList, Lists
  <2>2. /\ queue' \in [Skis -> Seq(Calls)]
        /\ list' \in [Procs -> Lists] /\ listRev' \in [Procs -> Nat]
        /\ pc' \in [Procs -> {"idle", "trust", "forget", "copy", "publish"}]
    BY <2>1
  <2>3. events' \in 0 .. MaxEvents /\ burstBase' \in Int
    BY DEF IInv, TypeOK
  <2> QED
    BY <2>1, <2>2, <2>3 DEF IInv, TypeOK
<1>2. TrustInv'
  BY DEF TrustInv, MayTrust
<1>3. GhostInv'
  <2>1. ASSUME NEW s \in Skis
        PROVE  /\ SaysGone(s, 0)' /\ 0 \in 0 .. Len(queue'[s])
               /\ \A j \in 0 + 1 .. Len(queue'[s]) : FALSE
    BY DEF SaysGone
  <2> QED
    BY <2>1 DEF GhostInv
<1>4. BurstInv'
  BY DEF BurstInv
<1>5. MapInv'
  BY DEF MapInv, Map
<1> QED
  BY <1>1, <1>2, <1>3, <1>4, <1>5 DEF IInv

LEMMA StutterInv == IInv /\ UNCHANGED vars => IInv'
  BY DEF IInv, vars, TypeOK, TrustInv, MayTrust, GhostInv, SaysGone, BurstInv, AllIdle,
         MapInv, Fresh, Map

LEMMA NextInv == IInv /\ [Next]_vars => IInv'
<1> SUFFICES ASSUME IInv, [Next]_vars PROVE IInv'
  OBVIOUS
<1>1. ASSUME NEW p \in Operators, NEW s \in Skis, Trust(p, s) \/ Forget(p, s)
      PROVE  IInv'
  BY <1>1, TrustStepInv, ForgetInv
<1>2. ASSUME NEW p \in Operators, MarkTrusted(p) \/ MarkForgotten(p) PROVE IInv'
  BY <1>2, MarkTrustedInv, MarkForgottenInv
<1>3. ASSUME NEW p \in Callbacks, NEW s \in Skis, Callback(p, s) PROVE IInv'
  BY <1>3, CallbackInv
<1>4. ASSUME NEW p \in Procs, Copy(p) \/ Publish(p) PROVE IInv'
  BY <1>4, CopyInv, PublishInv
<1>5. ASSUME NEW s \in Skis,
             Connect(s) \/ Disconnect(s) \/ AutoTrustRemoved(s) \/ Announce(s)
      PROVE  IInv'
  BY <1>5, ConnectInv, OtherReportsInv
<1>6. CASE UNCHANGED vars
  BY <1>6, StutterInv
<1>7. CASE Restart
  BY <1>7, RestartInv
<1> QED
  BY <1>1, <1>2, <1>3, <1>4, <1>5, <1>6, <1>7 DEF Next

THEOREM InvHolds == Spec => []IInv
  BY InitInv, NextInv, PTL DEF Spec

(* The manager's map, the library's part and the Store keep their types; in  *)
(* particular the map marks only known remotes as connected or trusted.      *)
THEOREM TypeCorrect == Spec => []TypeOK
<1>1. IInv => TypeOK
  BY DEF IInv
<1> QED
  BY <1>1, InvHolds, PTL

(* Without auto-accept, AllowWaitingForTrust admits only remotes configured  *)
(* or trusted on request (handler.go:76-90).                                 *)
THEOREM OnlyGranted == Spec => []OnlyGrantedAllowed
<1>1. IInv => OnlyGrantedAllowed
  BY DEF IInv, TypeOK, TrustInv, MayTrust, OnlyGrantedAllowed, AllowWaitingForTrust
<1> QED
  BY <1>1, InvHolds, PTL

(* When no goroutine is between changing the map and publishing it, a copy   *)
(* with every change has reached the Store, and is there unless an older one *)
(* of the same run of overlapping changes was written after it               *)
(* (manager.go:239-266).                                                     *)
LEMMA AllPublished ==
    ASSUME IInv, AllIdle
    PROVE  newest = rev /\ (~Overtaken => published = Map)
<1>1. newest = rev
  BY DEF IInv, MapInv, Fresh, AllIdle
<1>2. ~Overtaken => publishedRev = rev
  BY <1>1 DEF IInv, TypeOK, MapInv, Overtaken
<1> QED
  BY <1>1, <1>2 DEF IInv, MapInv

THEOREM ChangesArePublished == Spec => []StaleOnlyIfOvertaken
<1>1. IInv => StaleOnlyIfOvertaken
  BY AllPublished DEF IInv, BurstInv, StaleOnlyIfOvertaken
<1> QED
  BY <1>1, InvHolds, PTL

(* Once its calls are made, a remote without a connection has none in the    *)
(* manager's map, and none in the Store either unless an older copy of the   *)
(* map was the last to be written there.                                     *)
THEOREM NoGhost == Spec => []NoGhostConnection
<1>1. IInv => NoGhostConnection
  <2> SUFFICES ASSUME IInv, NEW s \in Skis \ link, queue[s] = <<>>
               PROVE  /\ s \notin connected
                      /\ AllIdle /\ ~Overtaken => s \notin published.connected
    BY DEF NoGhostConnection
  <2>1. Len(queue[s]) = 0
    OBVIOUS
  <2>2. s \notin connected
    BY <2>1 DEF IInv, GhostInv, SaysGone
  <2> QED
    BY <2>2, AllPublished DEF Map
<1> QED
  BY <1>1, InvHolds, PTL
=============================================================================
