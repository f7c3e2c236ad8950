----------------------- MODULE ControllableSystemProofs -----------------------
(* ControllableSystem for any number of callbacks, requests and changes.     *)
EXTENDS ControllableSystem, TLAPS

USE MaxChangesAssumption

(* A limit that waits is of the last run of limits that waited together, and *)
(* when none waits one of that run is in force.                              *)
LimitInv ==
    /\ limitBase <= changes
    /\ \A w \in pending : w.field = "limit" => w.number >= limitBase
    /\ (\A w \in pending : w.field # "limit") /\ ~lapsed => lib["limit"] >= limitBase

(* Only a goroutine that is reading is past its first read.                  *)
AtInv == \A p \in Procs : pc[p] # "read" => at[p] = 1

(* What a refresh that began after all changes has read is what the library  *)
(* holds, and so is what it wrote.                                           *)
HasRead(p) == IF pc[p] = "publish" THEN Config ELSE {Reads[i] : i \in 1 .. at[p] - 1}
CopyInv ==
    /\ \A p \in Procs : Refreshing(p) =>
           /\ began[p] <= applied
           /\ began[p] = applied => \A f \in HasRead(p) : copy[p][f] = lib[f]
    /\ shownBegan <= applied
    /\ shownBegan = applied => shown = lib

(* Every change has been read and shown, or will be, or was abandoned.       *)
Due(p, i) ==
    \/ Refreshing(p) /\ began[p] >= i
    \/ p \in Handlers /\ pc[p] = "refresh"
    \/ p \in Handlers /\ pc[p] = "failsafeDuration" /\ setAt[p] = i
DueInv ==
    \A i \in 1 .. applied : \/ i \in abandoned
                            \/ i <= newest
                            \/ events["dataUpdate"] > 0
                            \/ \E p \in Procs : Due(p, i)

IInv == TypeOK /\ LimitInv /\ AtInv /\ CopyInv /\ DueInv

-----------------------------------------------------------------------------
LEMMA ReadsAll ==
    /\ Len(Reads) = 4
    /\ \A i \in 1 .. 4 : Reads[i] \in Config
BY DEF Reads, Config, Writable

LEMMA WriteFields ==
    ASSUME NEW w \in Writes
    PROVE  w.number \in 1 .. MaxChanges /\ w.field \in Writable /\ w.field \in Config
BY DEF Writes, Numbers, Config

LEMMA SameValues ==
    ASSUME NEW S, NEW c \in [Config -> S], NEW l \in [Config -> S],
           \A f \in Config : c[f] = l[f]
    PROVE  c = l
OBVIOUS

LEMMA InitInv == Init => IInv
<1> SUFFICES ASSUME Init PROVE IInv
  OBVIOUS
<1>1. TypeOK
  <2>1. Seed \in [Config -> 0 .. MaxChanges]
    BY DEF Seed
  <2>2. lib \in [Config -> 0 .. MaxChanges] /\ shown \in [Config -> 0 .. MaxChanges]
        /\ copy \in [Procs -> [Config -> 0 .. MaxChanges]]
    BY <2>1 DEF Init
  <2>3. at \in [Procs -> 1 .. Len(Reads)]
    BY ReadsAll DEF Init
  <2>4. autoApprove \in BOOLEAN /\ lapsed \in BOOLEAN
        /\ began \in [Procs -> Nat] /\ setAt \in [Handlers -> Nat] /\ abandoned \subseteq Nat
    BY DEF Init
  <2>5. pending \subseteq Writes /\ events \in [EventKinds -> Nat]
        /\ changes \in 0 .. MaxChanges /\ limitBase \in 0 .. MaxChanges
        /\ applied \in Nat /\ newest \in Nat /\ shownBegan \in Nat
    BY DEF Init
  <2>6. /\ pc \in [Procs -> Config \union {"idle", "approve", "refresh", "read", "publish"}]
        /\ todo \in [Callbacks -> SUBSET Writes]
        /\ req \in [Handlers -> SUBSET Config]
    BY DEF Init
  <2>7. \A h \in Handlers : pc[h] \in Config => pc[h] \in req[h]
    BY DEF Init, Config, Writable, Procs
  <2> QED
    BY ONLY <2>2, <2>3, <2>4, <2>5, <2>6, <2>7 DEF TypeOK
<1>2. LimitInv
  BY DEF Init, LimitInv, Seed, Config, Writable
<1>3. AtInv
  BY DEF Init, AtInv
<1>4. CopyInv
  BY DEF Init, CopyInv, Refreshing
<1>5. DueInv
  BY DEF Init, DueInv
<1> QED
  BY <1>1, <1>2, <1>3, <1>4, <1>5 DEF IInv

-----------------------------------------------------------------------------
(* A change makes every refresh that has begun older than the last change.   *)
LEMMA ApplyCopy ==
    ASSUME IInv, NEW f, NEW n, Apply(f, n),
           UNCHANGED <<copy, at, shown, began, shownBegan>>,
           \A p \in Procs : Refreshing(p)' <=> Refreshing(p)
    PROVE  CopyInv'
<1>1. /\ applied' = applied + 1 /\ applied \in Nat /\ shownBegan \in Nat
      /\ \A p \in Procs : began[p] \in Nat
  BY DEF Apply, IInv, TypeOK
<1>2. ASSUME NEW p \in Procs, Refreshing(p)'
      PROVE  began'[p] <= applied' /\ began'[p] # applied'
  BY <1>1, <1>2 DEF IInv, CopyInv
<1>3. shownBegan' <= applied' /\ shownBegan' # applied'
  BY <1>1 DEF IInv, CopyInv
<1> QED
  BY <1>2, <1>3 DEF CopyInv

(* A refresh begins: p has read nothing yet, and will read every change.     *)
LEMMA RefreshCopy ==
    ASSUME IInv, NEW p \in Procs, ~Refreshing(p), Refresh(p),
           UNCHANGED <<lib, copy, at, shown, applied, shownBegan>>
    PROVE  CopyInv' /\ DueInv' /\ began' \in [Procs -> Nat]
<1>1. /\ applied \in Nat /\ began \in [Procs -> Nat]
      /\ began' = [began EXCEPT ![p] = applied]
  BY DEF Refresh, IInv, TypeOK
<1>2. /\ pc'[p] = "read" /\ \A q \in Procs \ {p} : pc'[q] = pc[q]
      /\ began'[p] = applied /\ \A q \in Procs \ {p} : began'[q] = began[q]
  BY <1>1 DEF Refresh, IInv, TypeOK
<1>3. HasRead(p)' = {}
  <2>1. at[p] = 1
    BY DEF IInv, AtInv, Refreshing
  <2> QED
    BY <1>2, <2>1 DEF HasRead
<1>4. ASSUME NEW q \in Procs \ {p}
      PROVE  (Refreshing(q)' <=> Refreshing(q)) /\ HasRead(q)' = HasRead(q)
  BY <1>2 DEF Refreshing, HasRead
<1>5. CopyInv'
  <2>1. began'[p] <= applied' /\ \A f \in HasRead(p)' : copy'[p][f] = lib'[f]
    BY <1>1, <1>2, <1>3
  <2>2. ASSUME NEW q \in Procs \ {p}, Refreshing(q)'
        PROVE  /\ began'[q] <= applied'
               /\ began'[q] = applied' => \A f \in HasRead(q)' : copy'[q][f] = lib'[f]
    BY <1>2, <1>4, <2>2 DEF IInv, CopyInv
  <2> QED
    BY <2>1, <2>2 DEF IInv, CopyInv
<1>6. DueInv'
  <2>1. ASSUME NEW i \in 1 .. applied PROVE Due(p, i)'
    BY <1>1, <1>2, <2>1 DEF Due, Refreshing
  <2> QED
    BY <2>1 DEF DueInv
<1> QED
  BY <1>1, <1>5, <1>6

(* The other steps of a goroutine outside a refresh leave it alone.          *)
LEMMA OtherCopy ==
    ASSUME IInv, UNCHANGED <<lib, copy, at, shown, refreshHistory>>,
           \A p \in Procs : Refreshing(p)' <=> Refreshing(p),
           \A p \in Procs : Refreshing(p) => pc'[p] = pc[p]
    PROVE  CopyInv'
<1>1. ASSUME NEW p \in Procs, Refreshing(p) PROVE HasRead(p)' = HasRead(p)
  BY <1>1 DEF HasRead
<1> QED
  BY <1>1 DEF IInv, CopyInv, refreshHistory

(* What was due stays so while no change is made.                            *)
LEMMA StillDue ==
    ASSUME IInv, applied' = applied, abandoned \subseteq abandoned', newest' = newest,
           events'["dataUpdate"] = events["dataUpdate"],
           \A i \in 1 .. applied : \A p \in Procs :
               Due(p, i) => Due(p, i)' \/ i \in abandoned'
    PROVE  DueInv'
BY DEF IInv, DueInv

-----------------------------------------------------------------------------
LEMMA ApprovalRequiredInv ==
    ASSUME IInv, NEW c \in Callbacks, NEW k \in {"limitApproval", "configApproval"},
           NEW fields, ApprovalRequired(c, k, fields)
    PROVE  IInv'
<1> USE DEF ApprovalRequired, Begin, history, requestHistory, refreshHistory, limitHistory
<1>0. c \in Procs /\ k \in EventKinds /\ k # "dataUpdate"
  BY DEF Procs, EventKinds
<1>1. todo' \in [Callbacks -> SUBSET Writes]
  BY DEF IInv, TypeOK
<1>2. events' \in [EventKinds -> Nat] /\ events'["dataUpdate"] = events["dataUpdate"]
  BY <1>0 DEF IInv, TypeOK, EventKinds
<1>3. /\ pc' \in [Procs -> Config \union {"idle", "approve", "refresh", "read", "publish"}]
      /\ pc'[c] \in {"idle", "approve"}
      /\ \A p \in Procs \ {c} : pc'[p] = pc[p]
  BY <1>0 DEF IInv, TypeOK
<1>4. TypeOK'
  <2>1. \A h \in Handlers : pc'[h] \in Config => pc'[h] \in req[h]
    BY <1>0, <1>3 DEF IInv, TypeOK, Procs, Config, Writable
  <2> QED
    BY <1>0, <1>1, <1>2, <1>3, <2>1 DEF IInv, TypeOK, Procs
<1>5. LimitInv' /\ AtInv'
  BY <1>0, <1>3 DEF IInv, LimitInv, AtInv
<1>6. CopyInv'
  BY <1>3, OtherCopy DEF Refreshing
<1>7. DueInv'
  <2>1. \A p \in Procs, i \in 1 .. applied : Due(p, i) => Due(p, i)'
    BY <1>0, <1>3 DEF Due, Refreshing
  <2> QED
    BY <1>2, <2>1, StillDue
<1> QED
  BY <1>4, <1>5, <1>6, <1>7 DEF IInv

LEMMA ApproveInv ==
    ASSUME IInv, NEW c \in Callbacks, NEW w \in todo[c], Approve(c, w)
    PROVE  IInv'
<1> USE DEF Approve, Verdict, requestHistory, limitHistory
<1>0. c \in Procs /\ w \in Writes
  BY DEF Procs, IInv, TypeOK
<1>1. /\ pc' \in [Procs -> Config \union {"idle", "approve", "refresh", "read", "publish"}]
      /\ pc'[c] \in {"idle", "approve"}
      /\ \A p \in Procs \ {c} : pc'[p] = pc[p]
  BY <1>0 DEF IInv, TypeOK
<1>2. /\ todo' \in [Callbacks -> SUBSET Writes]
      /\ \A h \in Handlers : pc'[h] \in Config => pc'[h] \in req[h]
  BY <1>1 DEF IInv, TypeOK, Procs, Config, Writable
<1>3. \A p \in Procs : (Refreshing(p)' <=> Refreshing(p)) /\ (Refreshing(p) => pc'[p] = pc[p])
  BY <1>1 DEF Refreshing
<1>4. \A p \in Procs, i \in 1 .. applied : Due(p, i) => Due(p, i)'
  BY <1>0, <1>1 DEF Due, Refreshing
<1>5. AtInv'
  BY <1>0, <1>1 DEF IInv, AtInv
<1>6. CASE w \in pending
  <2>1. Apply(w.field, w.number) /\ pending' = pending \ {w} /\ Raise("dataUpdate")
    BY <1>6
  <2>2. lib' \in [Config -> 0 .. MaxChanges] /\ applied' \in Nat
    BY <1>0, <2>1, WriteFields DEF Apply, IInv, TypeOK
  <2>3. events' \in [EventKinds -> Nat] /\ events'["dataUpdate"] > 0
    BY <2>1 DEF Raise, EventKinds, IInv, TypeOK
  <2>4. CopyInv'
    BY <1>3, <2>1, ApplyCopy
  <2>5. TypeOK'
    BY <1>0, <1>1, <1>2, <2>1, <2>2, <2>3 DEF IInv, TypeOK, Procs
  <2>6. LimitInv'
    <3>1. \A v \in pending' : v.field = "limit" => v.number >= limitBase
      BY <2>1 DEF IInv, LimitInv
    <3>2. "limit" \in Config
      BY DEF Config, Writable
    <3>3. CASE w.field = "limit"
      <4>1. lib'["limit"] = w.number
        BY <2>1, <3>2, <3>3 DEF Apply, IInv, TypeOK
      <4>2. w.number >= limitBase
        BY <1>6, <3>3 DEF IInv, LimitInv
      <4> QED
        BY <3>1, <4>1, <4>2 DEF IInv, LimitInv
    <3>4. CASE w.field # "limit"
      <4>1. lib'["limit"] = lib["limit"]
        BY <2>1, <3>2, <3>4 DEF Apply, IInv, TypeOK
      <4>2. (\A v \in pending' : v.field # "limit") => \A v \in pending : v.field # "limit"
        BY <2>1, <3>4
      <4> QED
        BY <3>1, <4>1, <4>2 DEF IInv, LimitInv
    <3> QED
      BY ONLY <3>3, <3>4
  <2>7. DueInv'
    BY <2>3 DEF DueInv
  <2> QED
    BY <1>5, <2>4, <2>5, <2>6, <2>7 DEF IInv
<1>7. CASE w \notin pending
  <2>1. UNCHANGED <<lib, applied, pending, events>>
    BY <1>7
  <2>2. TypeOK'
    BY <1>0, <1>1, <1>2, <2>1 DEF IInv, TypeOK, Procs
  <2>3. LimitInv'
    BY <2>1 DEF IInv, LimitInv
  <2>4. CopyInv'
    BY <1>3, <2>1, OtherCopy DEF refreshHistory
  <2>5. DueInv'
    BY <1>4, <2>1, StillDue
  <2> QED
    BY <1>5, <2>2, <2>3, <2>4, <2>5 DEF IInv
<1> QED
  BY <1>6, <1>7

LEMMA DataUpdateInv ==
    ASSUME IInv, NEW c \in Callbacks, DataUpdate(c)
    PROVE  IInv'
<1> USE DEF DataUpdate, Begin, locals, requestHistory, limitHistory
<1>0. c \in Procs /\ ~Refreshing(c)
  BY DEF Procs, Refreshing
<1>1. CopyInv' /\ DueInv' /\ began' \in [Procs -> Nat]
  BY <1>0, RefreshCopy
<1>2. events' \in [EventKinds -> Nat]
  BY DEF IInv, TypeOK, EventKinds
<1>3. /\ pc' \in [Procs -> Config \union {"idle", "approve", "refresh", "read", "publish"}]
      /\ pc'[c] = "read"
      /\ \A p \in Procs \ {c} : pc'[p] = pc[p]
  BY <1>0 DEF Refresh, IInv, TypeOK
<1>4. TypeOK'
  <2>1. \A h \in Handlers : pc'[h] \in Config => pc'[h] \in req[h]
    BY <1>0, <1>3 DEF IInv, TypeOK, Procs, Config, Writable
  <2> QED
    BY <1>0, <1>1, <1>2, <1>3, <2>1 DEF IInv, TypeOK, Procs
<1>5. LimitInv' /\ AtInv'
  BY <1>3 DEF IInv, LimitInv, AtInv
<1> QED
  BY <1>1, <1>4, <1>5 DEF IInv

-----------------------------------------------------------------------------
(* A request begins at its first value, or at the refresh if it has none.    *)
LEMMA RequestInv ==
    ASSUME IInv, NEW h \in Handlers, NEW given \in SUBSET Config,
           NEW place \in given \union {"refresh"}, place # "read", place # "publish",
           pc[h] = "idle", pc' = [pc EXCEPT ![h] = place],
           req' = [req EXCEPT ![h] = given],
           UNCHANGED <<autoApprove, library, todo, copy, at, shown, history>>
    PROVE  IInv'
<1> USE DEF library, history, requestHistory, refreshHistory, limitHistory
<1>0. h \in Procs
  BY DEF Procs
<1>1. /\ pc' \in [Procs -> Config \union {"idle", "approve", "refresh", "read", "publish"}]
      /\ pc'[h] = place
      /\ \A p \in Procs \ {h} : pc'[p] = pc[p]
  BY <1>0 DEF IInv, TypeOK
<1>2. /\ req' \in [Handlers -> SUBSET Config]
      /\ req'[h] = given
      /\ \A g \in Handlers \ {h} : req'[g] = req[g]
  BY DEF IInv, TypeOK
<1>3. "refresh" \notin Config
  BY DEF Config, Writable
<1>4. \A g \in Handlers : pc'[g] \in Config => pc'[g] \in req'[g]
  BY <1>1, <1>2, <1>3 DEF IInv, TypeOK, Procs
<1>5. TypeOK'
  BY <1>1, <1>2, <1>4 DEF IInv, TypeOK
<1>6. LimitInv' /\ AtInv'
  BY <1>0, <1>1 DEF IInv, LimitInv, AtInv
<1>7. CopyInv'
  BY <1>1, OtherCopy DEF Refreshing, Config, Writable
<1>8. DueInv'
  <2>1. \A p \in Procs, i \in 1 .. applied : Due(p, i) => Due(p, i)'
    BY <1>0, <1>1 DEF Due, Refreshing
  <2> QED
    BY <2>1, StillDue
<1> QED
  BY <1>5, <1>6, <1>7, <1>8 DEF IInv

LEMMA SetFailsafeInv ==
    ASSUME IInv, NEW h \in Handlers,
           NEW given \in SUBSET {"failsafePower", "failsafeDuration"}, SetFailsafe(h, given)
    PROVE  IInv'
<1> DEFINE place == IF "failsafePower" \in given THEN "failsafePower"
                    ELSE IF "failsafeDuration" \in given THEN "failsafeDuration"
                    ELSE "refresh"
<1>1. given \in SUBSET Config
  BY DEF Config, Writable
<1>2. place \in given \union {"refresh"} /\ place # "read" /\ place # "publish"
  OBVIOUS
<1>3. /\ pc[h] = "idle" /\ pc' = [pc EXCEPT ![h] = place]
      /\ req' = [req EXCEPT ![h] = given]
      /\ UNCHANGED <<autoApprove, library, todo, copy, at, shown, history>>
  BY DEF SetFailsafe, HasPower
<1> HIDE DEF place
<1> QED
  BY <1>1, <1>2, <1>3, RequestInv

LEMMA SetNominalMaxInv ==
    ASSUME IInv, NEW h \in Handlers, SetNominalMax(h)
    PROVE  IInv'
<1>1. {"nominalMax"} \in SUBSET Config
  BY DEF Config
<1>2. "nominalMax" \in {"nominalMax"} \union {"refresh"}
  OBVIOUS
<1> QED
  BY <1>1, <1>2, RequestInv DEF SetNominalMax

LEMMA SetValueInv ==
    ASSUME IInv, NEW h \in Handlers, NEW f \in Config \ {"limit"}, SetValue(h, f)
    PROVE  IInv'
<1> USE DEF SetValue, locals, limitHistory
<1>0. h \in Procs /\ f \in req[h]
  BY DEF Procs, IInv, TypeOK
<1>1. \/ NextPlace(h, f) = "refresh"
      \/ /\ NextPlace(h, f) = "failsafeDuration"
         /\ "failsafeDuration" \in req[h] /\ "failsafePower" \in req[h]
  BY <1>0 DEF NextPlace
<1>2. /\ pc' \in [Procs -> Config \union {"idle", "approve", "refresh", "read", "publish"}]
      /\ pc'[h] = NextPlace(h, f)
      /\ \A p \in Procs \ {h} : pc'[p] = pc[p]
  BY <1>0, <1>1 DEF IInv, TypeOK, Config, Writable
<1>3. lib' \in [Config -> 0 .. MaxChanges] /\ lib'["limit"] = lib["limit"]
      /\ changes' \in 0 .. MaxChanges /\ applied' = applied + 1 /\ applied \in Nat
  BY DEF IInv, TypeOK, Apply, Config, Writable
<1>4. CopyInv'
  <2>1. \A p \in Procs : Refreshing(p)' <=> Refreshing(p)
    BY <1>1, <1>2 DEF Refreshing, Config, Writable
  <2> QED
    BY <2>1, ApplyCopy
<1>5. \A g \in Handlers : pc'[g] \in Config => pc'[g] \in req[g]
  BY <1>1, <1>2 DEF IInv, TypeOK, Procs, Config, Writable
<1>6. TypeOK'
  <2>1. setAt' \in [Handlers -> Nat]
    BY <1>3 DEF IInv, TypeOK
  <2> QED
    BY <1>2, <1>3, <1>5, <2>1 DEF IInv, TypeOK
<1>7. LimitInv'
  <2>1. changes \in Nat /\ limitBase \in Nat /\ changes' = changes + 1
    BY DEF IInv, TypeOK
  <2> QED
    BY <1>3, <2>1 DEF IInv, LimitInv
<1>8. AtInv'
  <2>1. pc[h] # "read"
    BY DEF Config, Writable
  <2> QED
    BY <1>0, <1>2, <2>1 DEF IInv, AtInv
<1>9. DueInv'
  <2>1. /\ setAt'[h] = applied + 1
        /\ \A g \in Handlers \ {h} : setAt'[g] = setAt[g]
    BY DEF IInv, TypeOK
  <2>2. ASSUME NEW i \in 1 .. applied + 1, i = applied + 1 PROVE Due(h, i)'
    BY <1>1, <1>2, <2>1, <2>2 DEF Due
  <2>3. ASSUME NEW i \in 1 .. applied, NEW p \in Procs, Due(p, i) PROVE Due(p, i)'
    <3>1. CASE p # h
      BY <1>2, <2>1, <2>3, <3>1 DEF Due, Refreshing
    <3>2. CASE p = h
      <4>1. f = "failsafeDuration"
        BY <2>3, <3>2 DEF Due, Refreshing, Config, Writable
      <4>2. pc'[h] = "refresh"
        BY <1>2, <4>1 DEF NextPlace
      <4> QED
        BY <3>2, <4>2 DEF Due
    <3> QED
      BY <3>1, <3>2
  <2>4. ASSUME NEW i \in 1 .. applied',
               i \notin abandoned, ~(i <= newest), ~(events["dataUpdate"] > 0)
        PROVE  \E p \in Procs : Due(p, i)'
    <3>1. CASE i \in 1 .. applied
      BY <2>3, <2>4, <3>1 DEF IInv, DueInv
    <3>2. CASE i = applied + 1
      BY <1>0, <1>3, <2>2, <3>2
    <3> QED
      BY <1>3, <3>1, <3>2
  <2> QED
    BY <2>4 DEF DueInv
<1> QED
  BY <1>4, <1>6, <1>7, <1>8, <1>9 DEF IInv

LEMMA SetFailsInv ==
    ASSUME IInv, NEW h \in Handlers, NEW f \in Config \ {"limit"}, SetFails(h, f)
    PROVE  IInv'
<1> USE DEF SetFails, library, refreshHistory, limitHistory
<1>0. h \in Procs /\ pc[h] # "read" /\ pc[h] # "refresh" /\ pc[h] # "publish"
  BY DEF Procs, Config, Writable
<1>1. /\ pc' \in [Procs -> Config \union {"idle", "approve", "refresh", "read", "publish"}]
      /\ pc'[h] = "idle"
      /\ \A p \in Procs \ {h} : pc'[p] = pc[p]
  BY <1>0 DEF IInv, TypeOK
<1>2. /\ req' \in [Handlers -> SUBSET Config]
      /\ \A g \in Handlers \ {h} : req'[g] = req[g]
  BY DEF IInv, TypeOK
<1>3. /\ setAt' \in [Handlers -> Nat] /\ abandoned' \subseteq Nat
      /\ \A g \in Handlers \ {h} : setAt'[g] = setAt[g]
  BY DEF IInv, TypeOK
<1>4. \A g \in Handlers : pc'[g] \in Config => pc'[g] \in req'[g]
  BY <1>1, <1>2 DEF IInv, TypeOK, Procs, Config, Writable
<1>5. TypeOK'
  BY <1>1, <1>2, <1>3, <1>4 DEF IInv, TypeOK
<1>6. LimitInv' /\ AtInv'
  BY <1>0, <1>1 DEF IInv, LimitInv, AtInv
<1>7. CopyInv'
  BY <1>0, <1>1, OtherCopy DEF Refreshing
<1>8. DueInv'
  <2>1. ASSUME NEW i \in 1 .. applied, NEW p \in Procs, Due(p, i)
        PROVE  Due(p, i)' \/ i \in abandoned'
    <3>1. CASE p # h
      BY <1>1, <1>3, <2>1, <3>1 DEF Due, Refreshing
    <3>2. CASE p = h
      BY <1>0, <2>1, <3>2 DEF Due, Refreshing
    <3> QED
      BY <3>1, <3>2
  <2> QED
    BY <2>1, StillDue
<1> QED
  BY <1>5, <1>6, <1>7, <1>8 DEF IInv

LEMMA RefreshAfterSetInv ==
    ASSUME IInv, NEW h \in Handlers, RefreshAfterSet(h)
    PROVE  IInv'
<1> USE DEF RefreshAfterSet, library, limitHistory
<1>0. h \in Procs /\ ~Refreshing(h)
  BY DEF Procs, Refreshing
<1>1. CopyInv' /\ DueInv' /\ began' \in [Procs -> Nat]
  BY <1>0, RefreshCopy
<1>2. /\ pc' \in [Procs -> Config \union {"idle", "approve", "refresh", "read", "publish"}]
      /\ pc'[h] = "read"
      /\ \A p \in Procs \ {h} : pc'[p] = pc[p]
  BY <1>0 DEF Refresh, IInv, TypeOK
<1>3. /\ req' \in [Handlers -> SUBSET Config]
      /\ \A g \in Handlers \ {h} : req'[g] = req[g]
  BY DEF IInv, TypeOK
<1>4. \A g \in Handlers : pc'[g] \in Config => pc'[g] \in req'[g]
  BY <1>2, <1>3 DEF IInv, TypeOK, Procs, Config, Writable
<1>5. TypeOK'
  <2>1. setAt' \in [Handlers -> Nat]
    BY DEF IInv, TypeOK
  <2> QED
    BY <1>1, <1>2, <1>3, <1>4, <2>1 DEF IInv, TypeOK
<1>6. LimitInv' /\ AtInv'
  BY <1>2 DEF IInv, LimitInv, AtInv
<1> QED
  BY <1>1, <1>5, <1>6 DEF IInv

-----------------------------------------------------------------------------
LEMMA ReadInv ==
    ASSUME IInv, NEW p \in Procs, Read(p)
    PROVE  IInv'
<1> USE DEF Read, library, history, requestHistory, refreshHistory, limitHistory
<1> DEFINE r == Reads[at[p]]
<1>0. pc[p] = "read" /\ Refreshing(p) /\ at[p] \in 1 .. 4 /\ r \in Config
  BY ReadsAll DEF Refreshing, IInv, TypeOK
<1>1. /\ copy' \in [Procs -> [Config -> 0 .. MaxChanges]]
      /\ copy'[p] = [copy[p] EXCEPT ![r] = lib[r]]
      /\ \A q \in Procs \ {p} : copy'[q] = copy[q]
  BY <1>0 DEF IInv, TypeOK
<1>2. \/ /\ at[p] < 4 /\ at' = [at EXCEPT ![p] = @ + 1] /\ pc' = pc
      \/ /\ at[p] = 4 /\ at' = [at EXCEPT ![p] = 1]
         /\ pc' = [pc EXCEPT ![p] = "publish"]
  BY <1>0, ReadsAll
<1>3. /\ at' \in [Procs -> 1 .. Len(Reads)]
      /\ pc' \in [Procs -> Config \union {"idle", "approve", "refresh", "read", "publish"}]
      /\ \A q \in Procs \ {p} : pc'[q] = pc[q] /\ at'[q] = at[q]
      /\ \/ at[p] < 4 /\ at'[p] = at[p] + 1 /\ pc'[p] = "read"
         \/ at[p] = 4 /\ at'[p] = 1 /\ pc'[p] = "publish"
  <2>1. /\ at \in [Procs -> 1 .. 4] /\ Len(Reads) = 4
        /\ pc \in [Procs -> Config \union {"idle", "approve", "refresh", "read", "publish"}]
    BY ReadsAll DEF IInv, TypeOK
  <2>2. at[p] \in 1 .. 4 /\ pc[p] = "read"
    BY <1>0
  <2>3. CASE at[p] < 4 /\ at' = [at EXCEPT ![p] = @ + 1] /\ pc' = pc
    BY ONLY p \in Procs, <2>1, <2>2, <2>3
  <2>4. CASE /\ at[p] = 4 /\ at' = [at EXCEPT ![p] = 1]
             /\ pc' = [pc EXCEPT ![p] = "publish"]
    BY ONLY p \in Procs, <2>1, <2>2, <2>4
  <2> QED
    BY ONLY <1>2, <2>3, <2>4
<1>4. TypeOK'
  <2>1. \A h \in Handlers : pc'[h] \in Config => pc'[h] \in req[h]
    BY <1>0, <1>3 DEF IInv, TypeOK, Procs, Config, Writable
  <2> QED
    BY <1>1, <1>3, <2>1 DEF IInv, TypeOK
<1>5. LimitInv' /\ AtInv'
  BY <1>3 DEF IInv, LimitInv, AtInv
<1>8. \A q \in Procs : Refreshing(q)' <=> Refreshing(q)
  BY <1>0, <1>3 DEF Refreshing
<1>6. CopyInv'
  <2> SUFFICES ASSUME NEW q \in Procs, Refreshing(q), began[q] = applied,
                      NEW f \in HasRead(q)'
               PROVE  copy'[q][f] = lib[f]
    BY <1>8 DEF IInv, CopyInv
  <2>1. CASE q # p
    <3>1. Refreshing(q) /\ HasRead(q)' = HasRead(q)
      BY <1>3, <2>1 DEF Refreshing, HasRead
    <3> QED
      BY <1>1, <2>1, <3>1 DEF IInv, CopyInv
  <2>2. CASE q = p
    <3>1. f \in HasRead(p) \/ f = r
      <4>1. CASE at[p] < 4
        BY <1>0, <1>3, <2>2, <4>1 DEF HasRead
      <4>2. CASE at[p] = 4
        <5>1. Reads[1] = "limit" /\ Reads[2] = "failsafePower"
              /\ Reads[3] = "failsafeDuration" /\ Reads[4] = "nominalMax"
          BY DEF Reads
        <5>2. f \in {Reads[1], Reads[2], Reads[3], Reads[4]}
          BY <1>3, <2>2, <4>2, <5>1 DEF HasRead, Config, Writable
        <5> QED
          BY <1>0, <4>2, <5>2 DEF HasRead
      <4> QED
        BY <1>0, <4>1, <4>2
    <3>2. f \in HasRead(p) => copy[p][f] = lib[f]
      <4>1. began[p] = applied
        BY <2>2
      <4> QED
        BY <1>0, <4>1 DEF IInv, CopyInv
    <3>3. f \in Config
      BY <1>0, <3>1, ReadsAll DEF HasRead
    <3>4. copy'[p][f] = IF f = r THEN lib[r] ELSE copy[p][f]
      BY <1>0, <1>1, <3>3 DEF IInv, TypeOK
    <3> QED
      BY <2>2, <3>1, <3>2, <3>4
  <2> QED
    BY <2>1, <2>2
<1>7. DueInv'
  BY <1>0, <1>3, StillDue DEF Due, Refreshing
<1> QED
  BY <1>4, <1>5, <1>6, <1>7 DEF IInv

LEMMA PublishInv ==
    ASSUME IInv, NEW p \in Procs, Publish(p)
    PROVE  IInv'
<1> USE DEF Publish, library, requestHistory, limitHistory
<1>1. /\ pc' \in [Procs -> Config \union {"idle", "approve", "refresh", "read", "publish"}]
      /\ pc'[p] = "idle"
      /\ \A q \in Procs \ {p} : pc'[q] = pc[q]
  BY DEF IInv, TypeOK
<1>2. /\ copy' \in [Procs -> [Config -> 0 .. MaxChanges]]
      /\ \A q \in Procs \ {p} : copy'[q] = copy[q]
  BY DEF IInv, TypeOK, Seed
<1>7. /\ began \in [Procs -> Nat] /\ began' \in [Procs -> Nat] /\ newest' \in Nat
      /\ newest' >= newest /\ newest' >= began[p] /\ newest \in Nat
      /\ \A q \in Procs \ {p} : began'[q] = began[q]
  BY DEF IInv, TypeOK
<1>3. TypeOK'
  <2>1. \A h \in Handlers : pc'[h] \in Config => pc'[h] \in req[h]
    BY <1>1 DEF IInv, TypeOK, Procs, Config, Writable
  <2>2. shown' \in [Config -> 0 .. MaxChanges]
    BY DEF IInv, TypeOK
  <2> QED
    BY <1>1, <1>2, <1>7, <2>1, <2>2 DEF IInv, TypeOK
<1>4. LimitInv' /\ AtInv'
  BY <1>1 DEF IInv, LimitInv, AtInv
<1>8. Refreshing(p) /\ ~Refreshing(p)'
      /\ \A q \in Procs \ {p} : (Refreshing(q)' <=> Refreshing(q)) /\ HasRead(q)' = HasRead(q)
  BY <1>1 DEF Refreshing, HasRead
<1>5. CopyInv'
  <2>1. began[p] <= applied
    BY <1>8 DEF IInv, CopyInv
  <2>2. ASSUME began[p] = applied PROVE copy[p] = lib
    <3>1. \A f \in Config : copy[p][f] = lib[f]
      BY <1>8, <2>2 DEF IInv, CopyInv, HasRead
    <3>2. copy[p] \in [Config -> 0 .. MaxChanges] /\ lib \in [Config -> 0 .. MaxChanges]
      BY DEF IInv, TypeOK
    <3> QED
      BY ONLY <3>1, <3>2, SameValues
  <2>3. ASSUME NEW q \in Procs, Refreshing(q)'
        PROVE  /\ began'[q] <= applied
               /\ began'[q] = applied => \A f \in HasRead(q)' : copy'[q][f] = lib[f]
    BY <1>2, <1>7, <1>8, <2>3 DEF IInv, CopyInv
  <2> QED
    BY <2>1, <2>2, <2>3 DEF CopyInv
<1>6. DueInv'
  <2> SUFFICES ASSUME NEW i \in 1 .. applied, i \notin abandoned, ~(i <= newest'),
                      ~(events["dataUpdate"] > 0)
               PROVE  \E q \in Procs : Due(q, i)'
    BY DEF DueInv
  <2>1. PICK q \in Procs : Due(q, i)
    BY <1>7 DEF IInv, DueInv
  <2>2. q # p
    BY <1>7, <2>1 DEF Due, Refreshing
  <2>3. Due(q, i)'
    BY <1>1, <1>7, <1>8, <2>1, <2>2 DEF Due
  <2> QED
    BY <2>3
<1> QED
  BY <1>3, <1>4, <1>5, <1>6 DEF IInv

-----------------------------------------------------------------------------
LEMMA GridWriteInv ==
    ASSUME IInv, NEW f \in Writable, GridWrite(f)
    PROVE  IInv'
<1> USE DEF GridWrite, locals
<1> DEFINE w == [number |-> changes + 1, field |-> f]
<1>1. w \in Writes /\ w.field = f /\ w.number = changes + 1
      /\ changes' \in 0 .. MaxChanges /\ changes + 1 \in 0 .. MaxChanges
  BY DEF Writes, Numbers, IInv, TypeOK
<1>2. pending' = pending \union {w}
  OBVIOUS
<1>3. events' \in [EventKinds -> Nat] /\ events'["dataUpdate"] = events["dataUpdate"]
  BY DEF Raise, ApprovalKind, Writable, EventKinds, IInv, TypeOK
<1> HIDE DEF w
<1>4. limitBase' \in 0 .. MaxChanges /\ lapsed' \in BOOLEAN /\ changes \in Nat
      /\ limitBase \in Nat
  <2>1. limitBase \in 0 .. MaxChanges /\ lapsed \in BOOLEAN /\ changes \in 0 .. MaxChanges
    BY DEF IInv, TypeOK
  <2>2. CASE f = "limit" /\ PendingLimits = {}
    <3>1. limitBase' = changes + 1
      BY <2>2
    <3>2. lapsed' = FALSE
      BY <2>2
    <3>3. lapsed' \in BOOLEAN
      BY ONLY <3>2
    <3>4. limitBase' \in 0 .. MaxChanges /\ changes \in Nat /\ limitBase \in Nat
      BY ONLY <1>1, <2>1, <3>1, MaxChangesAssumption
    <3> QED
      BY ONLY <3>3, <3>4
  <2>3. CASE ~(f = "limit" /\ PendingLimits = {})
    BY <2>1, <2>3 DEF limitHistory
  <2> QED
    BY <2>2, <2>3
<1>5. TypeOK'
  BY <1>1, <1>2, <1>3, <1>4 DEF requestHistory, refreshHistory, IInv, TypeOK
<1>6. LimitInv'
  <2>1. CASE f = "limit" /\ PendingLimits = {}
    <3>1. limitBase' = changes + 1
      BY <2>1
    <3>2. \A v \in pending : v.field # "limit"
      BY <2>1 DEF PendingLimits
    <3> QED
      BY <1>1, <1>2, <1>4, <2>1, <3>1, <3>2 DEF LimitInv
  <2>2. CASE ~(f = "limit" /\ PendingLimits = {})
    <3>1. UNCHANGED <<lib, limitBase, lapsed>>
      BY <2>2 DEF limitHistory
    <3>2. limitBase <= changes'  /\ limitBase <= changes + 1
      BY <1>4 DEF IInv, LimitInv
    <3>3. \A v \in pending' : v.field = "limit" => v.number >= limitBase
      BY <1>1, <1>2, <1>4, <3>2 DEF IInv, LimitInv
    <3>4. (\A v \in pending' : v.field # "limit") => \A v \in pending : v.field # "limit"
      BY <1>2
    <3> QED
      BY <3>1, <3>2, <3>3, <3>4 DEF IInv, LimitInv
  <2> QED
    BY <2>1, <2>2
<1>7. AtInv'
  BY DEF IInv, AtInv
<1>8. CopyInv' /\ DueInv'
  BY <1>3, OtherCopy, StillDue DEF Due, Refreshing, requestHistory, refreshHistory
<1> QED
  BY <1>5, <1>6, <1>7, <1>8 DEF IInv

LEMMA TimeOutInv ==
    ASSUME IInv, NEW w \in pending, TimeOut(w)
    PROVE  IInv'
<1> USE DEF TimeOut, locals, requestHistory, refreshHistory
<1>1. lapsed' \in BOOLEAN /\ (~lapsed' => ~lapsed /\ w.field # "limit")
  BY DEF IInv, TypeOK
<1>2. TypeOK'
  BY <1>1 DEF IInv, TypeOK
<1>3. LimitInv'
  BY <1>1 DEF IInv, LimitInv
<1>4. AtInv'
  BY DEF IInv, AtInv
<1>5. CopyInv' /\ DueInv'
  BY OtherCopy, StillDue DEF Due, Refreshing
<1> QED
  BY <1>2, <1>3, <1>4, <1>5 DEF IInv

LEMMA HeartbeatInv ==
    ASSUME IInv, Heartbeat
    PROVE  IInv'
<1> USE DEF Heartbeat, locals, history, requestHistory, refreshHistory, limitHistory
<1>1. events' \in [EventKinds -> Nat] /\ events'["dataUpdate"] > 0
  BY DEF Raise, EventKinds, IInv, TypeOK
<1>2. TypeOK'
  BY <1>1 DEF IInv, TypeOK
<1>3. LimitInv' /\ AtInv'
  BY DEF IInv, LimitInv, AtInv
<1>4. CopyInv'
  BY OtherCopy DEF Refreshing
<1>5. DueInv'
  BY <1>1 DEF DueInv
<1> QED
  BY <1>2, <1>3, <1>4, <1>5 DEF IInv

LEMMA StutterInv == IInv /\ UNCHANGED vars => IInv'
<1> SUFFICES ASSUME IInv, UNCHANGED vars PROVE IInv'
  OBVIOUS
<1> USE DEF vars
<1>1. TypeOK' /\ LimitInv' /\ AtInv'
  BY DEF IInv, TypeOK, LimitInv, AtInv
<1>2. CopyInv' /\ DueInv'
  BY OtherCopy, StillDue DEF Due, Refreshing, refreshHistory
<1> QED
  BY <1>1, <1>2 DEF IInv

-----------------------------------------------------------------------------
LEMMA NextInv == IInv /\ [Next]_vars => IInv'
<1> SUFFICES ASSUME IInv, [Next]_vars PROVE IInv'
  OBVIOUS
<1>1. ASSUME NEW c \in Callbacks, OnCsLPC(c) PROVE IInv'
  <2>1. CASE LimitApprovalRequired(c)
    BY <2>1, ApprovalRequiredInv DEF LimitApprovalRequired
  <2>2. CASE ConfigApprovalRequired(c)
    BY <2>2, ApprovalRequiredInv DEF ConfigApprovalRequired
  <2> QED
    BY <1>1, <2>1, <2>2, ApproveInv, DataUpdateInv DEF OnCsLPC
<1>2. ASSUME NEW h \in Handlers, Request(h) \/ Work(h) PROVE IInv'
  BY <1>2, SetFailsafeInv, SetNominalMaxInv, SetValueInv, SetFailsInv, RefreshAfterSetInv
     DEF Request, Work
<1>3. ASSUME NEW p \in Procs, RefreshLPC(p) PROVE IInv'
  BY <1>3, ReadInv, PublishInv DEF RefreshLPC
<1>4. ASSUME NEW f \in Writable, GridWrite(f) PROVE IInv'
  BY <1>4, GridWriteInv
<1>5. ASSUME NEW w \in pending, TimeOut(w) PROVE IInv'
  BY <1>5, TimeOutInv
<1>6. CASE Heartbeat
  BY <1>6, HeartbeatInv
<1>7. CASE UNCHANGED vars
  BY <1>7, StutterInv
<1> QED
  BY <1>1, <1>2, <1>3, <1>4, <1>5, <1>6, <1>7 DEF Next

THEOREM InvHolds == Spec => []IInv
  BY InitInv, NextInv, PTL DEF Spec

(* Values keep their ranges, and a request only ever sets values that the    *)
(* client gave.                                                              *)
THEOREM TypeCorrect == Spec => []TypeOK
<1>1. IInv => TypeOK
  BY DEF IInv
<1> QED
  BY <1>1, InvHolds, PTL

(* When all is quiet every change has reached the Store through a refresh    *)
(* that began after it, unless its request failed, and the Store shows what  *)
(* the library holds unless a refresh overlapped by a later one wrote last,  *)
(* however many overlap (usecases.go:91-118, control.go:180-208).            *)
THEOREM ChangesAreRead == Spec => []StaleOnlyIfOvertaken
<1>1. IInv => StaleOnlyIfOvertaken
  <2> SUFFICES ASSUME IInv, Quiet
               PROVE  /\ newest + 1 .. applied \subseteq abandoned
                      /\ shownBegan = applied => shown = lib
    BY DEF StaleOnlyIfOvertaken
  <2>1. \A p \in Procs : ~Refreshing(p) /\ pc[p] \notin {"refresh", "failsafeDuration"}
    BY DEF Quiet, Refreshing
  <2>2. events["dataUpdate"] = 0
    BY DEF Quiet, EventKinds
  <2>3. ASSUME NEW i \in newest + 1 .. applied PROVE i \in abandoned
    <3>1. newest \in Nat /\ applied \in Nat
      BY DEF IInv, TypeOK
    <3>2. i \in 1 .. applied /\ ~(i <= newest)
      BY <3>1
    <3> QED
      BY <2>1, <2>2, <3>2 DEF IInv, DueInv, Due
  <2> QED
    BY <2>1, <2>3 DEF IInv, CopyInv
<1> QED
  BY <1>1, InvHolds, PTL

(* With none waiting, the limit in force is of the last run of limits that   *)
(* waited together, unless one of them came to its time-out: it is no older  *)
(* than the first of them (usecases.go:79-84).                               *)
THEOREM RecentLimitInForce == Spec => []LimitInForceIsRecent
<1>1. IInv => LimitInForceIsRecent
  BY DEF IInv, LimitInv, LimitInForceIsRecent, PendingLimits
<1> QED
  BY <1>1, InvHolds, PTL

-----------------------------------------------------------------------------
(* That no write is stranded is inductive by itself.                         *)
Awaited(w) ==
    \/ events[ApprovalKind(w.field)] > 0
    \/ \E c \in Callbacks : pc[c] = "approve" /\ w \in todo[c]

Approvals == {"limitApproval", "configApproval"}

LEMMA ApprovalKinds ==
    ASSUME TypeOK, NEW w \in pending
    PROVE  /\ ApprovalKind(w.field) \in Approvals /\ w.field \in Writable
           /\ \A k \in EventKinds : events[k] \in Nat
BY WriteFields DEF ApprovalKind, Approvals, TypeOK

(* It is not touched by what neither begins nor ends an approval.            *)
Untouched ==
    /\ UNCHANGED <<autoApprove, todo>>
    /\ pending' \subseteq pending
    /\ \A k \in Approvals : events'[k] = events[k]
    /\ \A c \in Callbacks : pc[c] = "approve" => pc'[c] = "approve"

LEMMA UntouchedStranded ==
    ASSUME TypeOK, NoWriteStranded, Untouched
    PROVE  NoWriteStranded'
<1> SUFFICES ASSUME autoApprove, NEW w \in pending, pending' \subseteq pending
             PROVE  Awaited(w)'
  BY DEF NoWriteStranded, Awaited, Untouched
<1>1. Awaited(w)
  BY DEF NoWriteStranded, Awaited
<1> QED
  BY <1>1, ApprovalKinds DEF Awaited, Untouched

LEMMA RefreshUntouched ==
    ASSUME TypeOK, NEW p \in Procs, Read(p) \/ Publish(p)
    PROVE  Untouched
BY DEF Read, Publish, library, Untouched, TypeOK, Procs

LEMMA RequestUntouched ==
    ASSUME TypeOK, NEW h \in Handlers, Request(h) \/ Work(h)
    PROVE  Untouched
<1>1. "approve" \notin Config
  BY DEF Config, Writable
<1>2. CASE Request(h)
  BY <1>2 DEF Request, SetFailsafe, SetNominalMax, library, Untouched, TypeOK, Procs
<1>3. CASE Work(h)
  BY <1>1, <1>3 DEF Work, SetValue, SetFails, RefreshAfterSet, Refresh, library, locals,
     Untouched, TypeOK, Procs
<1> QED
  BY <1>2, <1>3

LEMMA OtherUntouched ==
    ASSUME TypeOK, \/ \E c \in Callbacks : DataUpdate(c)
                   \/ \E w \in pending : TimeOut(w)
                   \/ Heartbeat
                   \/ UNCHANGED vars
    PROVE  Untouched
<1>1. CASE \E c \in Callbacks : DataUpdate(c)
  BY <1>1 DEF DataUpdate, Begin, Refresh, locals, Untouched, Approvals, EventKinds, TypeOK,
     Procs
<1>2. CASE \E w \in pending : TimeOut(w)
  BY <1>2 DEF TimeOut, locals, Untouched
<1>3. CASE Heartbeat
  BY <1>3 DEF Heartbeat, Raise, locals, Untouched, Approvals, EventKinds, TypeOK
<1>4. CASE UNCHANGED vars
  BY <1>4 DEF vars, Untouched
<1> QED
  BY <1>1, <1>2, <1>3, <1>4

(* A call may take the writes of several: those it finds it will approve.    *)
LEMMA RequiredStranded ==
    ASSUME TypeOK, NoWriteStranded, NEW c \in Callbacks, NEW k \in Approvals, NEW fields,
           ApprovalRequired(c, k, fields),
           \A f \in Writable : ApprovalKind(f) = k => f \in fields
    PROVE  NoWriteStranded'
<1> SUFFICES ASSUME autoApprove, NEW w \in pending PROVE Awaited(w)'
  BY DEF NoWriteStranded, Awaited, ApprovalRequired
<1>1. /\ pc[c] = "idle" /\ c \in Procs
      /\ todo' = [todo EXCEPT ![c] = {v \in pending : v.field \in fields}]
      /\ pc' = [pc EXCEPT ![c] = IF todo'[c] = {} THEN "idle" ELSE "approve"]
      /\ \A j \in Approvals : j # k => events'[j] = events[j]
  BY DEF ApprovalRequired, Begin, Procs, TypeOK, EventKinds, Approvals
<1>2. CASE ApprovalKind(w.field) = k
  <2>1. w \in todo'[c]
    BY <1>1, <1>2, ApprovalKinds DEF TypeOK
  <2>2. pc'[c] = "approve"
    BY <1>1, <2>1 DEF TypeOK
  <2> QED
    BY <2>1, <2>2 DEF Awaited
<1>3. CASE ApprovalKind(w.field) # k
  <2>1. events'[ApprovalKind(w.field)] = events[ApprovalKind(w.field)]
    BY <1>1, <1>3, ApprovalKinds
  <2>2. ASSUME NEW d \in Callbacks, pc[d] = "approve", w \in todo[d]
        PROVE  pc'[d] = "approve" /\ w \in todo'[d]
    BY <1>1, <2>2 DEF TypeOK
  <2> QED
    BY <2>1, <2>2 DEF NoWriteStranded, Awaited
<1> QED
  BY <1>2, <1>3

(* What is approved no longer waits; the callback goes on to the others.     *)
LEMMA ApproveStranded ==
    ASSUME TypeOK, NoWriteStranded, NEW c \in Callbacks, NEW v \in todo[c], Approve(c, v)
    PROVE  NoWriteStranded'
<1> SUFFICES ASSUME autoApprove, NEW w \in pending, w # v PROVE Awaited(w)'
  BY DEF NoWriteStranded, Awaited, Approve
<1>1. /\ c \in Procs
      /\ todo' = [todo EXCEPT ![c] = @ \ {v}]
      /\ pc' = [pc EXCEPT ![c] = IF todo[c] = {v} THEN "idle" ELSE "approve"]
      /\ \A j \in Approvals : events'[j] = events[j]
  BY DEF Approve, Raise, Procs, TypeOK, EventKinds, Approvals
<1>2. ASSUME NEW d \in Callbacks, pc[d] = "approve", w \in todo[d]
      PROVE  pc'[d] = "approve" /\ w \in todo'[d]
  BY <1>1, <1>2 DEF TypeOK
<1> QED
  BY <1>1, <1>2, ApprovalKinds DEF NoWriteStranded, Awaited

(* A new write comes with a call.                                            *)
LEMMA GridWriteStranded ==
    ASSUME TypeOK, NoWriteStranded, NEW f \in Writable, GridWrite(f)
    PROVE  NoWriteStranded'
<1> DEFINE n == [number |-> changes + 1, field |-> f]
<1> SUFFICES ASSUME autoApprove, NEW w \in pending \union {n} PROVE Awaited(w)'
  BY DEF NoWriteStranded, Awaited, GridWrite
<1>1. /\ UNCHANGED <<pc, todo>>
      /\ ApprovalKind(f) \in EventKinds
      /\ events' = [events EXCEPT ![ApprovalKind(f)] = @ + 1]
      /\ events \in [EventKinds -> Nat]
  BY DEF GridWrite, Raise, locals, ApprovalKind, EventKinds, TypeOK
<1>2. CASE w = n
  BY <1>1, <1>2 DEF Awaited
<1>3. CASE w \in pending
  <2>1. Awaited(w)
    BY <1>3 DEF NoWriteStranded, Awaited
  <2>2. ApprovalKind(w.field) \in EventKinds
    BY <1>3, ApprovalKinds DEF Approvals, EventKinds
  <2> QED
    BY <1>1, <2>1, <2>2 DEF Awaited
<1> QED
  BY <1>2, <1>3

LEMMA NextStranded == TypeOK /\ NoWriteStranded /\ [Next]_vars => NoWriteStranded'
<1> SUFFICES ASSUME TypeOK, NoWriteStranded, [Next]_vars PROVE NoWriteStranded'
  OBVIOUS
<1>1. ASSUME NEW c \in Callbacks, OnCsLPC(c) PROVE NoWriteStranded'
  <2>1. CASE LimitApprovalRequired(c)
    BY <2>1, RequiredStranded DEF LimitApprovalRequired, Approvals, ApprovalKind, Writable
  <2>2. CASE ConfigApprovalRequired(c)
    BY <2>2, RequiredStranded DEF ConfigApprovalRequired, Approvals, ApprovalKind, Writable
  <2>3. CASE DataUpdate(c)
    BY <2>3, OtherUntouched, UntouchedStranded
  <2> QED
    BY <1>1, <2>1, <2>2, <2>3, ApproveStranded DEF OnCsLPC
<1>2. ASSUME NEW h \in Handlers, Request(h) \/ Work(h) PROVE NoWriteStranded'
  BY <1>2, RequestUntouched, UntouchedStranded
<1>3. ASSUME NEW p \in Procs, RefreshLPC(p) PROVE NoWriteStranded'
  BY <1>3, RefreshUntouched, UntouchedStranded DEF RefreshLPC
<1>4. ASSUME NEW f \in Writable, GridWrite(f) PROVE NoWriteStranded'
  BY <1>4, GridWriteStranded
<1>5. CASE (\E w \in pending : TimeOut(w)) \/ Heartbeat \/ UNCHANGED vars
  BY <1>5, OtherUntouched, UntouchedStranded
<1> QED
  BY <1>1, <1>2, <1>3, <1>4, <1>5 DEF Next

(* With auto_approve_limits no write is ever left without a call that will   *)
(* find it or a callback that will approve it, for any number of writes and  *)
(* callbacks: all that WritesAnswered needs beyond that is that they go on   *)
(* (usecases.go:79-90).                                                      *)
THEOREM NothingStranded == Spec => []NoWriteStranded
<1>1. Init => NoWriteStranded
  BY DEF Init, NoWriteStranded
<1>2. IInv => TypeOK
  BY DEF IInv
<1> QED
  BY <1>1, <1>2, InvHolds, NextStranded, PTL DEF Spec
==============================================================================
