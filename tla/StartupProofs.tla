---------------------------- MODULE StartupProofs ----------------------------
(* Boot, Options and Startup for every number of certificates and requests,  *)
(* every length of an SKI and all texts.  First the identity of the bridge,  *)
(* which is Boot's alone and holds of Startup because Startup implements     *)
(* Boot; then what Options makes of a text; then what a start makes of its   *)
(* options and requests.                                                     *)
EXTENDS Startup, FiniteSetTheorems, FunctionTheorems, SequenceTheorems, TLAPS

USE MaxCertsAssumption

-----------------------------------------------------------------------------
(* While a certificate is being saved nothing was ever announced, because    *)
(* an announced one would have been loaded; the key follows a whole cert.    *)
SavingInv ==
    pc \in {"openCert", "fillCert", "openKey", "fillKey"} =>
        /\ announced = None
        /\ identity \in Identities
        /\ pc \in {"openKey", "fillKey"} => cert = identity

(* A process past the loading holds what is on disk.                         *)
HeldInv ==
    pc = "setup" \/ Ready =>
        /\ identity \in Identities
        /\ cert = identity /\ key = identity
        /\ announced \in {None, identity}

BootInv ==
    /\ TypeOK
    /\ SavingInv
    /\ HeldInv
    /\ Ready => announced # None
    /\ AnnouncedIsLoadable
    /\ SkiFileIsTrue

LEMMA BootInitInv == Init => BootInv
  BY DEF Init, BootInv, TypeOK, SavingInv, HeldInv, AnnouncedIsLoadable,
         SkiFileIsTrue, Ready, FileContents, Identities, Absent, Torn, None

LEMMA BootNextInv == BootInv /\ [Next]_vars => BootInv'
<1> SUFFICES ASSUME BootInv, [Next]_vars PROVE BootInv'
  OBVIOUS
<1> USE DEF BootInv, TypeOK, SavingInv, HeldInv, AnnouncedIsLoadable, SkiFileIsTrue,
        Ready, Loadable, FileContents, Identities, Absent, Torn, None, files
<1>1. CASE Launch
  BY <1>1 DEF Launch
<1>2. CASE LoadCertificate
  BY <1>2 DEF LoadCertificate, Checked, BothExist
<1>3. CASE CreateCertificate
  BY <1>3 DEF CreateCertificate, First, BothExist
<1>4. CASE OpenCert
  BY <1>4 DEF OpenCert
<1>5. CASE FillCert
  BY <1>5 DEF FillCert
<1>6. CASE OpenKey
  BY <1>6 DEF OpenKey
<1>7. CASE FillKey
  BY <1>7 DEF FillKey
<1>8. CASE WriteFails
  BY <1>8 DEF WriteFails, Fatal
<1>9. CASE Setup
  BY <1>9 DEF Setup
<1>10. CASE WriteSKIFile
  BY <1>10 DEF WriteSKIFile
<1>11. CASE FillSKIFile
  BY <1>11 DEF FillSKIFile
<1>12. CASE Die
  BY <1>12 DEF Die
<1>13. CASE UNCHANGED vars
  BY <1>13 DEF vars
<1> QED
  BY <1>1, <1>2, <1>3, <1>4, <1>5, <1>6, <1>7, <1>8, <1>9, <1>10, <1>11,
     <1>12, <1>13 DEF Next

THEOREM BootInvHolds == Spec => []BootInv
  BY BootInitInv, BootNextInv, PTL DEF Spec

(* The files, the process and the history keep their types.                  *)
THEOREM TypeCorrect == Spec => []TypeOK
<1>1. BootInv => TypeOK
  BY DEF BootInv
<1> QED
  BY <1>1, BootInvHolds, PTL

(* However often starts are killed or fail, the bridge is only ever ready    *)
(* under one SKI.                                                            *)
THEOREM OneIdentity == Spec => []IdentityStable
<1>1. BootInv => IdentityStable
  BY DEF BootInv, HeldInv, IdentityStable
<1> QED
  BY <1>1, BootInvHolds, PTL

(* An announced identity is never lost or damaged on disk again, and         *)
(* local_ski.txt names no other.                                             *)
THEOREM AnnouncedSurvives == Spec => [](AnnouncedIsLoadable /\ SkiFileIsTrue)
<1>1. BootInv => AnnouncedIsLoadable /\ SkiFileIsTrue
  BY DEF BootInv
<1> QED
  BY <1>1, BootInvHolds, PTL

-----------------------------------------------------------------------------
(* Every start with options is a start of Boot, and an options file that is  *)
(* refused leaves the installation as it was.                                *)
THEOREM ImplementsBoot == StartupSpec => Spec
<1>1. StartupInit => Init
  BY DEF StartupInit
<1>2. [StartupNext]_<<vars, settings>> => [Next]_vars
  <2> SUFFICES ASSUME [StartupNext]_<<vars, settings>> PROVE [Next]_vars
    OBVIOUS
  <2>1. CASE \E o \in OptionFiles : Load(o)
    <3>1. PICK o \in OptionFiles : Load(o)
      BY <2>1
    <3>2. Launch \/ UNCHANGED vars
      BY <3>1 DEF Load
    <3> QED
      BY <3>2 DEF Next
  <2>2. CASE OnFiles
    BY <2>2 DEF OnFiles, Next
  <2>3. CASE Begin
    BY <2>3 DEF Begin, Next
  <2>4. CASE \E op \in {"trust", "forget"}, s \in Requests : Pair(op, s)
    BY <2>4 DEF Pair
  <2>5. CASE End
    BY <2>5 DEF End, Next
  <2>6. CASE UNCHANGED <<vars, settings>>
    BY <2>6
  <2> QED
    BY <2>1, <2>2, <2>3, <2>4, <2>5, <2>6 DEF StartupNext
<1> QED
  BY <1>1, <1>2, PTL DEF StartupSpec, Spec

(* With any options and requests, the bridge is only ever ready under one    *)
(* SKI, whose certificate stays loadable and which alone local_ski.txt names *)
(* (IdentityStable, AnnouncedIsLoadable and SkiFileIsTrue of Boot).          *)
THEOREM IdentityKept ==
    StartupSpec => [](IdentityStable /\ AnnouncedIsLoadable /\ SkiFileIsTrue)
  BY ImplementsBoot, OneIdentity, AnnouncedSurvives, PTL

(* Between them, options and requests never change a type of Boot's state.   *)
THEOREM FilesKeepTypes == StartupSpec => []TypeOK
  BY ImplementsBoot, TypeCorrect, PTL

-----------------------------------------------------------------------------
USE LengthsAssumption

(* The positions in T up to i.                                               *)
UpTo(T, i) == {j \in T : j <= i}

(* The positions in a sequence are finitely many, and so are those up to one.*)
LEMMA PositionsFinite ==
    ASSUME NEW n \in Nat, NEW T \in SUBSET (1 .. n)
    PROVE  IsFiniteSet(T) /\ Cardinality(T) \in Nat /\ \A i \in T : i \in Nat
<1>1. IsFiniteSet(1 .. n)
  BY FS_Interval
<1>2. IsFiniteSet(T)
  BY <1>1, FS_Subset
<1> QED
  BY <1>2, FS_CardinalityType

LEMMA RankType ==
    ASSUME NEW n \in Nat, NEW T \in SUBSET (1 .. n), NEW i
    PROVE  /\ IsFiniteSet(UpTo(T, i))
           /\ Rank(T, i) = Cardinality(UpTo(T, i))
           /\ Rank(T, i) \in 0 .. Cardinality(T)
<1>1. UpTo(T, i) \in SUBSET T /\ Rank(T, i) = Cardinality(UpTo(T, i))
  BY DEF UpTo, Rank
<1>2. IsFiniteSet(T) /\ Cardinality(T) \in Nat
  BY PositionsFinite
<1>3. IsFiniteSet(UpTo(T, i)) /\ Cardinality(UpTo(T, i)) <= Cardinality(T)
  BY <1>1, <1>2, FS_Subset
<1>4. Cardinality(UpTo(T, i)) \in Nat
  BY <1>3, FS_CardinalityType
<1> QED
  BY <1>1, <1>2, <1>3, <1>4

(* A later position has a higher rank.                                       *)
LEMMA RankGrows ==
    ASSUME NEW n \in Nat, NEW T \in SUBSET (1 .. n), NEW i \in T, NEW k \in T, i < k
    PROVE  Rank(T, i) < Rank(T, k)
<1>1. \A j \in T : j \in Nat
  BY PositionsFinite
<1>2. UpTo(T, i) \in SUBSET UpTo(T, k) /\ k \in UpTo(T, k) /\ k \notin UpTo(T, i)
  <2>1. i \in Nat /\ k \in Nat
    BY <1>1
  <2>2. \A j \in T : j <= i => j <= k
    BY <1>1, <2>1
  <2>3. k <= k /\ ~(k <= i)
    BY <2>1
  <2> QED
    BY <2>2, <2>3 DEF UpTo
<1>3. IsFiniteSet(UpTo(T, k))
  BY RankType
<1>4. /\ Cardinality(UpTo(T, i)) <= Cardinality(UpTo(T, k))
      /\ Cardinality(UpTo(T, i)) # Cardinality(UpTo(T, k))
  BY <1>2, <1>3, FS_Subset
<1>5. /\ Rank(T, i) = Cardinality(UpTo(T, i)) /\ Rank(T, i) \in 0 .. Cardinality(T)
      /\ Rank(T, k) = Cardinality(UpTo(T, k)) /\ Rank(T, k) \in 0 .. Cardinality(T)
  BY RankType
<1>6. Cardinality(T) \in Nat
  BY PositionsFinite
<1> QED
  BY <1>4, <1>5, <1>6

LEMMA RankPositive ==
    ASSUME NEW n \in Nat, NEW T \in SUBSET (1 .. n), NEW i \in T
    PROVE  Rank(T, i) \in 1 .. Cardinality(T)
<1>1. i \in UpTo(T, i)
  BY PositionsFinite DEF UpTo
<1>2. /\ IsFiniteSet(UpTo(T, i))
      /\ Rank(T, i) = Cardinality(UpTo(T, i))
      /\ Rank(T, i) \in 0 .. Cardinality(T)
  BY RankType
<1>3. Rank(T, i) # 0
  BY <1>1, <1>2, FS_EmptySet
<1>4. Cardinality(T) \in Nat
  BY PositionsFinite
<1> QED
  BY <1>2, <1>3, <1>4

(* The ranks of T are 1 to its size, each that of one position.              *)
LEMMA RankNumbers ==
    ASSUME NEW n \in Nat, NEW T \in SUBSET (1 .. n)
    PROVE  /\ \A i, k \in T : Rank(T, i) = Rank(T, k) => i = k
           /\ \A k \in 1 .. Cardinality(T) : \E i \in T : Rank(T, i) = k
<1> DEFINE f == [i \in T |-> Rank(T, i)]
           K == 1 .. Cardinality(T)
<1>1. \A i, k \in T : Rank(T, i) = Rank(T, k) => i = k
  <2> SUFFICES ASSUME NEW i \in T, NEW k \in T, Rank(T, i) = Rank(T, k), i # k PROVE FALSE
    OBVIOUS
  <2>1. i < k \/ k < i
    BY PositionsFinite
  <2>2. Rank(T, i) < Rank(T, k) \/ Rank(T, k) < Rank(T, i)
    BY <2>1, RankGrows
  <2>3. Rank(T, i) \in 1 .. Cardinality(T)
    BY RankPositive
  <2> QED
    BY <2>2, <2>3
<1>2. f \in [T -> K]
  BY RankPositive
<1>3. f \in Injection(T, K)
  BY <1>1, <1>2, Fun_IsInj
<1>4. IsFiniteSet(K) /\ Cardinality(K) = Cardinality(T)
  <2>1. Cardinality(T) \in Nat
    BY PositionsFinite
  <2> QED
    BY <2>1, FS_Interval
<1>5. f \in Surjection(T, K)
  BY <1>3, <1>4, FS_Injection
<1>6. \A k \in K : \E i \in T : f[i] = k
  BY <1>5 DEF Surjection
<1> QED
  BY <1>1, <1>6

(* What At keeps of a sequence: the elements at T and nothing else.          *)
LEMMA AtKeeps ==
    ASSUME NEW s, NEW n \in Nat, NEW T \in SUBSET (1 .. n)
    PROVE  /\ DOMAIN At(s, T) = 1 .. Cardinality(T) /\ Len(At(s, T)) = Cardinality(T)
           /\ \A k \in DOMAIN At(s, T) : \E i \in T : At(s, T)[k] = s[i]
           /\ \A i \in T : Rank(T, i) \in DOMAIN At(s, T) /\ At(s, T)[Rank(T, i)] = s[i]
<1> DEFINE K == 1 .. Cardinality(T)
<1>1. DOMAIN At(s, T) = K
  BY DEF At
<1>2. Len(At(s, T)) = Cardinality(T)
  <2>1. Cardinality(T) \in Nat
    BY PositionsFinite
  <2> QED
    BY <1>1, <2>1
<1>3. ASSUME NEW k \in K PROVE \E i \in T : At(s, T)[k] = s[i]
  BY RankNumbers DEF At
<1>4. ASSUME NEW i \in T
      PROVE  Rank(T, i) \in K /\ At(s, T)[Rank(T, i)] = s[i]
  <2>1. Rank(T, i) \in K
    BY RankPositive
  <2>2. (CHOOSE j \in T : Rank(T, j) = Rank(T, i)) = i
    BY RankNumbers
  <2> QED
    BY <2>1, <2>2 DEF At
<1> QED
  BY <1>1, <1>2, <1>3, <1>4

(* The positions in T moved by d.                                            *)
Moved(T, d) == {i - d : i \in T}

(* A bijection of positions that keeps their order keeps the ranks; here all *)
(* positions move by d, as trimming moves them.                              *)
LEMMA RankShifts ==
    ASSUME NEW n \in Nat, NEW T \in SUBSET (1 .. n), NEW d \in Int,
           NEW m \in Nat, Moved(T, d) \in SUBSET (1 .. m)
    PROVE  /\ Cardinality(Moved(T, d)) = Cardinality(T)
           /\ \A i \in T : Rank(Moved(T, d), i - d) = Rank(T, i)
<1>0. \A i \in T : i \in Nat
  BY PositionsFinite
<1>1. ASSUME NEW A \in SUBSET T, NEW B, B = Moved(A, d)
      PROVE  Cardinality(B) = Cardinality(A)
  <2> DEFINE g == [i \in A |-> i - d]
  <2>1. g \in [A -> B]
    BY <1>1 DEF Moved
  <2>2. \A i, k \in A : g[i] = g[k] => i = k
    BY <1>0
  <2>3. \A b \in B : \E i \in A : g[i] = b
    BY <1>1 DEF Moved
  <2>4. g \in Bijection(A, B)
    BY <2>1, <2>2, <2>3 DEF Bijection, Injection, Surjection, IsInjective
  <2>5. ExistsBijection(A, B)
    BY <2>4 DEF ExistsBijection
  <2>6. IsFiniteSet(A)
    BY PositionsFinite, FS_Subset
  <2> QED
    BY <2>5, <2>6, FS_Bijection
<1>2. Cardinality(Moved(T, d)) = Cardinality(T)
  BY <1>1
<1>3. ASSUME NEW i \in T PROVE Rank(Moved(T, d), i - d) = Rank(T, i)
  <2>1. UpTo(Moved(T, d), i - d) = Moved(UpTo(T, i), d)
    BY <1>0 DEF UpTo, Moved
  <2>2. UpTo(T, i) \in SUBSET T
    BY DEF UpTo
  <2>3. Cardinality(UpTo(Moved(T, d), i - d)) = Cardinality(UpTo(T, i))
    BY <1>1, <2>1, <2>2
  <2> QED
    BY <2>3 DEF Rank, UpTo
<1> QED
  BY <1>2, <1>3

LEMMA AtShifts ==
    ASSUME NEW n \in Nat, NEW T \in SUBSET (1 .. n), NEW d \in Int,
           NEW m \in Nat, Moved(T, d) \in SUBSET (1 .. m)
    PROVE  \A s, t : (\A i \in T : t[i - d] = s[i]) => At(t, Moved(T, d)) = At(s, T)
<1> SUFFICES ASSUME NEW s, NEW t, \A i \in T : t[i - d] = s[i]
             PROVE  At(t, Moved(T, d)) = At(s, T)
  OBVIOUS
<1>0. \A j \in 1 .. Cardinality(T) : \E i \in T : Rank(T, i) = j
  BY RankNumbers
<1>1. /\ Cardinality(Moved(T, d)) = Cardinality(T)
      /\ \A i \in T : Rank(Moved(T, d), i - d) = Rank(T, i)
  BY RankShifts
<1>2. ASSUME NEW k \in 1 .. Cardinality(T)
      PROVE  t[CHOOSE j \in Moved(T, d) : Rank(Moved(T, d), j) = k]
                = s[CHOOSE i \in T : Rank(T, i) = k]
  <2>1. PICK i \in T : Rank(T, i) = k
    BY <1>0
  <2>2. i - d \in Moved(T, d) /\ Rank(Moved(T, d), i - d) = k
    BY <1>1, <2>1 DEF Moved
  <2>3. (CHOOSE j \in Moved(T, d) : Rank(Moved(T, d), j) = k) = i - d
    BY <2>2, RankNumbers
  <2>4. (CHOOSE j \in T : Rank(T, j) = k) = i
    BY <2>1, RankNumbers
  <2> QED
    BY <2>3, <2>4
<1>3. At(s, T) = [k \in 1 .. Cardinality(T) |-> s[CHOOSE i \in T : Rank(T, i) = k]]
  BY DEF At
<1>4. At(t, Moved(T, d)) =
          [k \in 1 .. Cardinality(T) |->
              t[CHOOSE j \in Moved(T, d) : Rank(Moved(T, d), j) = k]]
  BY <1>1 DEF At
<1> QED
  BY <1>2, <1>3, <1>4, Zenon

(* A set of positions has a first and a last one.                            *)
LEMMA Extremes ==
    ASSUME NEW n \in Nat, NEW T \in SUBSET (1 .. n), T # {}
    PROVE  /\ Min(T) \in T /\ \A i \in T : Min(T) <= i
           /\ Max(T) \in T /\ \A i \in T : i <= Max(T)
<1>1. \A i \in T : i \in Nat /\ Rank(T, i) \in 1 .. Cardinality(T)
  BY PositionsFinite, RankPositive
<1>2. Cardinality(T) \in Nat /\ Cardinality(T) # 0
  BY PositionsFinite, FS_EmptySet
<1>3. \A k \in 1 .. Cardinality(T) : \E i \in T : Rank(T, i) = k
  BY RankNumbers
<1>4. \A i, k \in T : i < k => Rank(T, i) < Rank(T, k)
  BY RankGrows
<1>5. \E x \in T : \A i \in T : x <= i
  <2>1. PICK x \in T : Rank(T, x) = 1
    BY <1>2, <1>3
  <2> QED
    BY <1>1, <1>4, <2>1
<1>6. \E x \in T : \A i \in T : x >= i
  <2>1. PICK x \in T : Rank(T, x) = Cardinality(T)
    BY <1>2, <1>3
  <2>2. ASSUME NEW i \in T PROVE x >= i
    BY <1>1, <1>2, <1>4, <2>1
  <2> QED
    BY <2>2
<1>7. Min(T) \in T /\ \A i \in T : Min(T) <= i
  BY <1>5 DEF Min
<1>8. Max(T) \in T /\ \A i \in T : Max(T) >= i
  BY <1>6 DEF Max
<1> QED
  BY <1>1, <1>7, <1>8

-----------------------------------------------------------------------------
LEMMA LowerKeeps ==
    ASSUME NEW s \in Texts
    PROVE  /\ DOMAIN s = 1 .. Len(s) /\ Len(s) \in Nat
           /\ ToLower(s) \in Texts /\ Len(ToLower(s)) = Len(s)
           /\ \A i \in 1 .. Len(s) :
                  /\ Hex(ToLower(s)[i]) <=> s[i] \in {"a", "b", "A"}
                  /\ Separator(ToLower(s)[i]) <=> Separator(s[i])
<1>1. DOMAIN s = 1 .. Len(s) /\ Len(s) \in Nat /\ \A i \in 1 .. Len(s) : s[i] \in Characters
  BY DEF Texts
<1>2. ToLower(s) \in [1 .. Len(s) -> Characters]
  <2>1. ASSUME NEW i \in 1 .. Len(s)
        PROVE  ToLower(s)[i] \in {s[i], "a", "g"}
    BY <1>1 DEF ToLower
  <2>2. {"a", "g"} \subseteq Characters
    BY DEF Characters
  <2>3. \A i \in 1 .. Len(s) : ToLower(s)[i] \in Characters
    BY <1>1, <2>1, <2>2
  <2>4. ToLower(s) = [i \in 1 .. Len(s) |-> ToLower(s)[i]]
    BY <1>1 DEF ToLower
  <2> QED
    BY <2>3, <2>4
<1>3. ToLower(s) \in Texts /\ Len(ToLower(s)) = Len(s)
  BY <1>1, <1>2 DEF Texts
<1>4. ASSUME NEW i \in 1 .. Len(s)
      PROVE  /\ Hex(ToLower(s)[i]) <=> s[i] \in {"a", "b", "A"}
             /\ Separator(ToLower(s)[i]) <=> Separator(s[i])
  BY <1>1 DEF ToLower, Hex, Separator
<1> QED
  BY <1>1, <1>3, <1>4

(* What TrimSpace leaves is nothing, or begins and ends with something else  *)
(* than white space, and only white space is lost.                           *)
Trimmed(s, lo, hi) ==
    /\ lo \in 1 .. Len(s) /\ hi \in lo .. Len(s)
    /\ ~Space(s[lo]) /\ ~Space(s[hi])
    /\ \A i \in 1 .. Len(s) : i \in lo .. hi \/ Space(s[i])
    /\ TrimSpace(s) \in Texts /\ Len(TrimSpace(s)) = hi - lo + 1
    /\ \A i \in lo .. hi : TrimSpace(s)[i - (lo - 1)] = s[i]

LEMMA TrimEnds ==
    ASSUME NEW s \in Texts
    PROVE  \/ (\A i \in 1 .. Len(s) : Space(s[i])) /\ TrimSpace(s) = <<>>
           \/ \E lo, hi \in 1 .. Len(s) : Trimmed(s, lo, hi)
<1> DEFINE kept == {i \in DOMAIN s : ~Space(s[i])}
<1>1. DOMAIN s = 1 .. Len(s) /\ Len(s) \in Nat /\ \A i \in 1 .. Len(s) : s[i] \in Characters
  BY DEF Texts
<1>2. CASE kept = {}
  BY <1>1, <1>2 DEF TrimSpace
<1>3. CASE kept # {}
  <2> DEFINE lo == Min(kept)
             hi == Max(kept)
  <2>1. kept \in SUBSET (1 .. Len(s))
    BY <1>1
  <2>2. /\ lo \in kept /\ \A i \in kept : lo <= i
        /\ hi \in kept /\ \A i \in kept : i <= hi
    BY <1>1, <1>3, <2>1, Extremes
  <2>3. lo \in 1 .. Len(s) /\ hi \in lo .. Len(s) /\ ~Space(s[lo]) /\ ~Space(s[hi])
    BY <1>1, <2>2
  <2>4. \A i \in 1 .. Len(s) : i \in lo .. hi \/ Space(s[i])
    BY <1>1, <2>2, <2>3
  <2>5. TrimSpace(s) = SubSeq(s, lo, hi)
    BY <1>3 DEF TrimSpace
  <2> HIDE DEF kept, lo, hi
  <2>6. lo \in Int /\ hi \in Int /\ lo <= hi /\ \A i \in lo .. hi : s[i] \in Characters
    BY <1>1, <2>3
  <2>7. /\ SubSeq(s, lo, hi) \in Seq(Characters)
        /\ Len(SubSeq(s, lo, hi)) = hi - lo + 1
        /\ \A i \in 1 .. hi - lo + 1 : SubSeq(s, lo, hi)[i] = s[lo + i - 1]
    BY <2>6, SubSeqProperties
  <2>8. ASSUME NEW i \in lo .. hi PROVE SubSeq(s, lo, hi)[i - (lo - 1)] = s[i]
    <3>1. i - (lo - 1) \in 1 .. hi - lo + 1 /\ lo + (i - (lo - 1)) - 1 = i
      BY <2>6
    <3> QED
      BY <2>7, <3>1
  <2>9. Trimmed(s, lo, hi)
    BY <2>3, <2>4, <2>5, <2>7, <2>8 DEF Trimmed, Texts
  <2>10. lo \in 1 .. Len(s) /\ hi \in 1 .. Len(s)
    BY <1>1, <2>3
  <2> QED
    BY <2>9, <2>10
<1> QED
  BY <1>2, <1>3

(* White space around a text is what TrimSpace removes.                      *)
LEMMA AroundIsTrimmed ==
    ASSUME NEW s \in Texts, NEW lo, NEW hi, Trimmed(s, lo, hi), NEW i \in 1 .. Len(s)
    PROVE  Around(s, i) <=> i \notin lo .. hi
<1>1. Len(s) \in Nat /\ lo \in 1 .. Len(s) /\ hi \in lo .. Len(s)
  BY LowerKeeps DEF Trimmed
<1>2. CASE i \in lo .. hi
  <2>1. lo \in 1 .. i /\ hi \in i .. Len(s)
    BY <1>1, <1>2
  <2> QED
    BY <1>2, <2>1 DEF Around, Trimmed
<1>3. CASE i < lo
  <2>1. \A j \in 1 .. i : j \in 1 .. Len(s) /\ j \notin lo .. hi
    BY <1>1, <1>3
  <2>2. i \notin lo .. hi
    BY <1>1, <1>3
  <2> QED
    BY <2>1, <2>2 DEF Around, Trimmed
<1>4. CASE i > hi
  <2>1. \A j \in i .. Len(s) : j \in 1 .. Len(s) /\ j \notin lo .. hi
    BY <1>1, <1>4
  <2>2. i \notin lo .. hi
    BY <1>1, <1>4
  <2> QED
    BY <2>1, <2>2 DEF Around, Trimmed
<1> QED
  BY <1>1, <1>2, <1>3, <1>4

(* Between its ends a text has digits and separators only.                   *)
Body(s, lo, hi) == \A i \in lo .. hi : s[i] \in {"a", "b", "A"} \/ Separator(s[i])

Trim(s) == ToLower(TrimSpace(s))
Kept(s) == {i \in DOMAIN Trim(s) : ~Separator(Trim(s)[i])}
Digital(s) == {i \in DOMAIN s : Hex(ToLower(s)[i])}

(* The positions left of a trimmed text, in the text.                        *)
LEMMA TrimMoves ==
    ASSUME NEW s \in Texts, NEW lo, NEW hi, Trimmed(s, lo, hi)
    PROVE  /\ lo \in Nat /\ hi \in Nat
           /\ DOMAIN Trim(s) = 1 .. hi - lo + 1
           /\ \A i \in lo .. hi : Trim(s)[i - (lo - 1)] = ToLower(s)[i]
<1>1. Len(s) \in Nat /\ lo \in 1 .. Len(s) /\ hi \in lo .. Len(s) /\ DOMAIN s = 1 .. Len(s)
  BY LowerKeeps DEF Trimmed
<1>2. DOMAIN TrimSpace(s) = 1 .. hi - lo + 1
  BY LowerKeeps DEF Trimmed
<1>3. DOMAIN Trim(s) = 1 .. hi - lo + 1
  BY <1>2 DEF Trim, ToLower
<1>4. ASSUME NEW i \in lo .. hi PROVE Trim(s)[i - (lo - 1)] = ToLower(s)[i]
  <2>1. i - (lo - 1) \in DOMAIN TrimSpace(s) /\ i \in DOMAIN s
    BY <1>1, <1>2
  <2>2. TrimSpace(s)[i - (lo - 1)] = s[i]
    BY DEF Trimmed
  <2> QED
    BY <2>1, <2>2 DEF Trim, ToLower
<1> QED
  BY <1>1, <1>3, <1>4

LEMMA NormalIsDigits ==
    ASSUME NEW s \in Texts, NEW lo, NEW hi, Trimmed(s, lo, hi), Body(s, lo, hi)
    PROVE  NormaliseSKI(s) = Digits(s)
<1>1. /\ DOMAIN s = 1 .. Len(s) /\ Len(s) \in Nat
      /\ lo \in 1 .. Len(s) /\ hi \in lo .. Len(s)
  BY LowerKeeps DEF Trimmed
<1>2. /\ DOMAIN Trim(s) = 1 .. hi - lo + 1
      /\ \A i \in lo .. hi : Trim(s)[i - (lo - 1)] = ToLower(s)[i]
  BY TrimMoves
<1>3. ASSUME NEW i \in lo .. hi
      PROVE  Hex(ToLower(s)[i]) <=> ~Separator(ToLower(s)[i])
  <2>1. i \in 1 .. Len(s)
    BY <1>1
  <2>2. /\ Hex(ToLower(s)[i]) <=> s[i] \in {"a", "b", "A"}
        /\ Separator(ToLower(s)[i]) <=> Separator(s[i])
    BY <2>1, LowerKeeps
  <2>3. ~(s[i] \in {"a", "b", "A"} /\ Separator(s[i]))
    BY DEF Separator
  <2> QED
    BY <2>2, <2>3 DEF Body
<1>4. Digital(s) \in SUBSET (lo .. hi)
  <2> SUFFICES ASSUME NEW i \in Digital(s) PROVE i \in lo .. hi
    OBVIOUS
  <2>1. i \in 1 .. Len(s) /\ s[i] \in {"a", "b", "A"}
    BY <1>1, LowerKeeps DEF Digital
  <2>2. ~Space(s[i])
    BY <2>1 DEF Space
  <2> QED
    BY <2>1, <2>2 DEF Trimmed
<1>5. Kept(s) = Moved(Digital(s), lo - 1)
  <2>1. ASSUME NEW i \in Digital(s) PROVE i - (lo - 1) \in Kept(s)
    <3>1. i \in lo .. hi /\ Hex(ToLower(s)[i])
      BY <1>4 DEF Digital
    <3>2. i - (lo - 1) \in 1 .. hi - lo + 1
      BY <1>1, <3>1
    <3> QED
      BY <1>2, <1>3, <3>1, <3>2 DEF Kept
  <2>2. ASSUME NEW k \in Kept(s)
        PROVE  \E i \in Digital(s) : k = i - (lo - 1)
    <3> DEFINE i == k + (lo - 1)
    <3>1. k \in 1 .. hi - lo + 1 /\ ~Separator(Trim(s)[k])
      BY <1>2 DEF Kept
    <3>2. i \in lo .. hi /\ k = i - (lo - 1) /\ i \in DOMAIN s
      BY <1>1, <3>1
    <3>3. ~Separator(ToLower(s)[i])
      BY <1>2, <3>1, <3>2
    <3>4. i \in Digital(s)
      BY <1>3, <3>2, <3>3 DEF Digital
    <3> QED
      BY <3>2, <3>4
  <2> QED
    BY <2>1, <2>2 DEF Moved
<1>6. \A i \in Digital(s) : Trim(s)[i - (lo - 1)] = ToLower(s)[i]
  BY <1>2, <1>4
<1>7. Digital(s) \in SUBSET (1 .. Len(s)) /\ Kept(s) \in SUBSET (1 .. hi - lo + 1)
  BY <1>1, <1>2 DEF Digital, Kept
<1>8. lo - 1 \in Int /\ hi - lo + 1 \in Nat
  BY <1>1
<1>9. At(Trim(s), Kept(s)) = At(ToLower(s), Digital(s))
  <2> DEFINE d == lo - 1
             m == hi - lo + 1
             n == Len(s)
             T == Digital(s)
             t == Trim(s)
             low == ToLower(s)
  <2>1. n \in Nat /\ m \in Nat /\ d \in Int
    BY <1>1, <1>8
  <2>2. T \in SUBSET (1 .. n) /\ Moved(T, d) \in SUBSET (1 .. m)
    BY <1>5, <1>7
  <2>3. \A i \in T : t[i - d] = low[i]
    BY <1>6
  <2> HIDE DEF d, m, n, T, t, low
  <2>4. \A u, v : (\A i \in T : v[i - d] = u[i]) => At(v, Moved(T, d)) = At(u, T)
    BY <2>1, <2>2, AtShifts
  <2>5. At(t, Moved(T, d)) = At(low, T)
    BY <2>3, <2>4
  <2> QED
    BY <1>5, <2>5 DEF T, d, t, low
<1> QED
  BY <1>9 DEF NormaliseSKI, Compact, Digits, Kept, Digital, Trim

LEMMA AtEmpty ==
    ASSUME NEW s, NEW n \in Nat, NEW T \in SUBSET (1 .. n)
    PROVE  At(s, T) = <<>> <=> T = {}
<1>1. Len(At(s, T)) = Cardinality(T) /\ Cardinality(T) \in Nat
  BY AtKeeps, PositionsFinite
<1>2. Cardinality(T) = 0 <=> T = {}
  BY PositionsFinite, FS_EmptySet
<1>3. ASSUME Cardinality(T) = 0 PROVE At(s, T) = <<>>
  BY <1>3 DEF At
<1> QED
  BY <1>1, <1>2, <1>3

(* What an SKI becomes, in terms of positions.                               *)
LEMMA NormalForm ==
    ASSUME NEW s \in Texts
    PROVE  /\ NormaliseSKI(s) = At(Trim(s), Kept(s)) /\ RequestSKI(s) = NormaliseSKI(s)
           /\ Digits(s) = At(ToLower(s), Digital(s))
           /\ Len(s) \in Nat /\ Digital(s) \in SUBSET (1 .. Len(s))
BY LowerKeeps DEF NormaliseSKI, RequestSKI, Compact, Digits, Kept, Digital, Trim

(* A valid SKI is what users may write, its digits are what they meant, and  *)
(* nothing is left only of white space and separators.                       *)
Meant(s) ==
    /\ ValidSKI(NormaliseSKI(s)) <=> Spelled(s)
    /\ Spelled(s) => NormaliseSKI(s) = Digits(s)
    /\ NormaliseSKI(s) = <<>> <=> Blank(s)
    /\ Blank(s) => Digits(s) = <<>>

LEMMA SpacesMeant ==
    ASSUME NEW s \in Texts, \A i \in 1 .. Len(s) : Space(s[i]), TrimSpace(s) = <<>>
    PROVE  Meant(s)
<1>1. DOMAIN s = 1 .. Len(s) /\ Len(s) \in Nat
  BY LowerKeeps
<1>2. Kept(s) = {}
  BY DEF Kept, Trim, ToLower
<1>3. NormaliseSKI(s) = <<>>
  <2>1. Kept(s) \in SUBSET (1 .. 0) /\ 0 \in Nat
    BY <1>2
  <2> QED
    BY <1>2, <2>1, NormalForm, AtEmpty
<1>4. Digital(s) = {}
  BY <1>1, LowerKeeps DEF Digital, Space
<1>5. Digits(s) = <<>>
  BY <1>4, NormalForm, AtEmpty
<1>6. ~ValidSKI(NormaliseSKI(s)) /\ ~Spelled(s)
  BY <1>3, <1>5 DEF ValidSKI, Spelled
<1>7. Blank(s)
  <2>1. ASSUME NEW i \in 1 .. Len(s), NEW j \in 1 .. i PROVE Space(s[j])
    BY <1>1
  <2> QED
    BY <1>1, <2>1 DEF Blank, Around
<1> QED
  BY <1>3, <1>5, <1>6, <1>7 DEF Meant

LEMMA TrimmedMeant ==
    ASSUME NEW s \in Texts, NEW lo, NEW hi, Trimmed(s, lo, hi)
    PROVE  Meant(s)
<1> DEFINE m == hi - lo + 1
<1>1. /\ DOMAIN s = 1 .. Len(s) /\ Len(s) \in Nat
      /\ lo \in 1 .. Len(s) /\ hi \in lo .. Len(s) /\ m \in Nat
  BY LowerKeeps DEF Trimmed
<1>2. Kept(s) \in SUBSET (1 .. m) /\ DOMAIN Trim(s) = 1 .. m
  BY TrimMoves DEF Kept
<1> HIDE DEF m
<1>3. /\ Len(NormaliseSKI(s)) = Cardinality(Kept(s))
      /\ \A k \in Kept(s) : /\ Rank(Kept(s), k) \in DOMAIN NormaliseSKI(s)
                            /\ NormaliseSKI(s)[Rank(Kept(s), k)] = Trim(s)[k]
  <2>1. /\ Len(At(Trim(s), Kept(s))) = Cardinality(Kept(s))
        /\ \A k \in Kept(s) : /\ Rank(Kept(s), k) \in DOMAIN At(Trim(s), Kept(s))
                              /\ At(Trim(s), Kept(s))[Rank(Kept(s), k)] = Trim(s)[k]
    BY <1>1, <1>2, AtKeeps
  <2> QED
    BY <2>1, NormalForm
<1>4. /\ Len(Digits(s)) = Cardinality(Digital(s))
      /\ \A k \in DOMAIN Digits(s) : \E i \in Digital(s) : Digits(s)[k] = ToLower(s)[i]
  <2>1. Digital(s) \in SUBSET (1 .. Len(s)) /\ Digits(s) = At(ToLower(s), Digital(s))
    BY NormalForm
  <2>2. /\ Len(At(ToLower(s), Digital(s))) = Cardinality(Digital(s))
        /\ \A k \in DOMAIN At(ToLower(s), Digital(s)) :
               \E i \in Digital(s) : At(ToLower(s), Digital(s))[k] = ToLower(s)[i]
    BY <1>1, <2>1, AtKeeps
  <2> QED
    BY <2>1, <2>2
<1>5. ASSUME NEW i \in lo .. hi
      PROVE  /\ i \in 1 .. Len(s) /\ i - (lo - 1) \in 1 .. m
             /\ Hex(Trim(s)[i - (lo - 1)]) <=> s[i] \in {"a", "b", "A"}
             /\ i - (lo - 1) \in Kept(s) <=> ~Separator(s[i])
  <2>1. i \in 1 .. Len(s) /\ i - (lo - 1) \in 1 .. m
    BY <1>1 DEF m
  <2>2. Trim(s)[i - (lo - 1)] = ToLower(s)[i]
    BY TrimMoves
  <2> QED
    BY <1>2, <2>1, <2>2, LowerKeeps DEF Kept
<1>6. ASSUME ValidSKI(NormaliseSKI(s)) PROVE Body(s, lo, hi)
  <2> SUFFICES ASSUME NEW i \in lo .. hi, ~Separator(s[i]) PROVE s[i] \in {"a", "b", "A"}
    BY DEF Body
  <2>1. i - (lo - 1) \in Kept(s)
    BY <1>5
  <2>2. Hex(Trim(s)[i - (lo - 1)])
    BY <1>3, <1>6, <2>1 DEF ValidSKI
  <2> QED
    BY <1>5, <2>2
<1>7. Body(s, lo, hi) => NormaliseSKI(s) = Digits(s)
  BY NormalIsDigits
<1>8. Spelled(s) <=> Body(s, lo, hi) /\ Len(Digits(s)) = SkiLen
  BY <1>1, <1>5, AroundIsTrimmed DEF Spelled, Body
<1>9. \A k \in DOMAIN Digits(s) : Hex(Digits(s)[k])
  BY <1>4 DEF Digital
<1>10. ValidSKI(NormaliseSKI(s)) <=> Spelled(s)
  BY <1>6, <1>7, <1>8, <1>9 DEF ValidSKI
<1>11. Blank(s) <=> \A i \in lo .. hi : Separator(s[i])
  BY <1>1, <1>5, AroundIsTrimmed DEF Blank
<1>12. Kept(s) = {} <=> \A i \in lo .. hi : Separator(s[i])
  <2>1. ASSUME NEW k \in Kept(s) PROVE \E i \in lo .. hi : ~Separator(s[i])
    <3>1. k + (lo - 1) \in lo .. hi /\ k = (k + (lo - 1)) - (lo - 1)
      BY <1>1, <1>2 DEF m
    <3> QED
      BY <1>5, <3>1
  <2> QED
    BY <1>5, <2>1
<1>13. NormaliseSKI(s) = <<>> <=> Kept(s) = {}
  BY <1>1, <1>2, NormalForm, AtEmpty
<1>14. (\A i \in lo .. hi : Separator(s[i])) => Body(s, lo, hi)
  BY DEF Body
<1> QED
  BY <1>7, <1>8, <1>10, <1>11, <1>12, <1>13, <1>14 DEF Meant

(* Of the texts of every length, exactly those are valid that are spelled as *)
(* users copy an SKI (config.go:147-166, ski.go:5-20).                       *)
THEOREM TextsMeant ==
    ASSUME NEW s \in Texts
    PROVE  Meant(s)
BY TrimEnds, SpacesMeant, TrimmedMeant

-----------------------------------------------------------------------------
USE InputsAssumption

(* What Normalise leaves of the options: each text in its normal form.       *)
LEMMA Normalised ==
    ASSUME NEW o \in OptionRecords, NEW h
    PROVE  /\ Normalise(o, h).apiPort = o.apiPort /\ Normalise(o, h).eebusPort = o.eebusPort
           /\ Normalise(o, h).inverter = NormaliseSKI(o.inverter)
           /\ DOMAIN Normalise(o, h).trusted = DOMAIN o.trusted
           /\ \A k \in DOMAIN o.trusted :
                  Normalise(o, h).trusted[k] = NormaliseSKI(o.trusted[k])
BY DEF Normalise, OptionRecords

LEMMA GivenTyped ==
    ASSUME NEW o \in OptionRecords
    PROVE  /\ Given(o) \in OptionRecords
           /\ Given(o).file = "ok" <=> o.file \in {"missing", "ok"}
           /\ Given(o).inverter \in Texts
           /\ \A k \in DOMAIN Given(o).trusted : Given(o).trusted[k] \in Texts
<1>1. <<>> \in Texts /\ <<>> \in Seq(Texts)
  BY DEF Texts
<1>2. Default \in OptionRecords /\ Default.file = "ok"
  BY <1>1 DEF Default, OptionRecords
<1>3. Given(o) \in OptionRecords /\ (Given(o).file = "ok" <=> o.file \in {"missing", "ok"})
  BY <1>2 DEF Given, OptionRecords
<1>4. Given(o).inverter \in Texts /\ Given(o).trusted \in Seq(Texts)
  BY <1>3 DEF OptionRecords
<1> QED
  BY <1>3, <1>4

(* What Load accepts.                                                        *)
Sensible(o) ==
    /\ o.file = "ok"
    /\ {o.apiPort, o.eebusPort} \subseteq 1 .. MaxPort
    /\ o.apiPort # o.eebusPort
    /\ \A k \in DOMAIN o.trusted : Spelled(o.trusted[k])
    /\ Spelled(o.inverter) \/ Blank(o.inverter)

LEMMA LoadsIfSensible ==
    ASSUME NEW o \in OptionRecords, NEW h
    PROVE  Loads(o, h) <=> Sensible(Given(o))
<1> DEFINE g == Given(o)
           c == Normalise(g, h)
<1>1. g \in OptionRecords /\ (g.file = "ok" <=> o.file \in {"missing", "ok"})
  BY GivenTyped
<1>2. Meant(g.inverter) /\ \A k \in DOMAIN g.trusted : Meant(g.trusted[k])
  BY GivenTyped, TextsMeant
<1>3. /\ c.apiPort = g.apiPort /\ c.eebusPort = g.eebusPort
      /\ c.inverter = NormaliseSKI(g.inverter)
      /\ DOMAIN c.trusted = DOMAIN g.trusted
      /\ \A k \in DOMAIN g.trusted : c.trusted[k] = NormaliseSKI(g.trusted[k])
  BY <1>1, Normalised
<1> HIDE DEF g, c
<1>4. (c.inverter # <<>> => ValidSKI(c.inverter)) <=> Spelled(g.inverter) \/ Blank(g.inverter)
  BY <1>2, <1>3 DEF Meant
<1>5. (\A k \in DOMAIN c.trusted : ValidSKI(c.trusted[k]))
         <=> (\A k \in DOMAIN g.trusted : Spelled(g.trusted[k]))
  BY <1>2, <1>3 DEF Meant
<1>6. Validate(c) /\ g.file = "ok" <=> Sensible(g)
  BY <1>3, <1>4, <1>5 DEF Validate, Sensible
<1>7. Loads(o, h) <=> o.file \in {"missing", "ok"} /\ Validate(c)
  BY DEF Loads, c, g
<1> QED
  BY <1>1, <1>6, <1>7 DEF g

(* The remotes the options name, by their digits.                            *)
Named(o) == {Digits(o.trusted[k]) : k \in DOMAIN o.trusted}
                \union ({Digits(o.inverter)} \ {<<>>})

LEMMA PresetIsNamed ==
    ASSUME NEW o \in OptionRecords, NEW h, Loads(o, h)
    PROVE  Preset(Normalise(Given(o), h)) = Named(Given(o))
<1> DEFINE g == Given(o)
           c == Normalise(g, h)
<1>1. g \in OptionRecords /\ Sensible(g)
  BY GivenTyped, LoadsIfSensible
<1>2. Meant(g.inverter) /\ \A k \in DOMAIN g.trusted : Meant(g.trusted[k])
  BY GivenTyped, TextsMeant
<1>3. /\ c.inverter = NormaliseSKI(g.inverter)
      /\ DOMAIN c.trusted = DOMAIN g.trusted
      /\ \A k \in DOMAIN g.trusted : c.trusted[k] = NormaliseSKI(g.trusted[k])
  BY <1>1, Normalised
<1> HIDE DEF g, c
<1>4. c.inverter = Digits(g.inverter)
  BY <1>1, <1>2, <1>3 DEF Meant, Sensible
<1>5. \A k \in DOMAIN g.trusted : c.trusted[k] = Digits(g.trusted[k])
  BY <1>1, <1>2, <1>3 DEF Meant, Sensible
<1>6. {c.trusted[k] : k \in DOMAIN c.trusted} = {Digits(g.trusted[k]) : k \in DOMAIN g.trusted}
  BY <1>3, <1>5
<1>7. Preset(c) = Named(g)
  BY <1>4, <1>6 DEF Preset, Named
<1> QED
  BY <1>7 DEF g, c

-----------------------------------------------------------------------------
(* What a start knows of its options.                                        *)
OutcomeInv ==
    /\ outcome \in {"none", "loaded", "refused"}
    /\ outcome # "none" => /\ options \in OptionRecords
                           /\ outcome = "loaded" <=> Loads(options, Host)
    /\ pc # "down" => outcome = "loaded" /\ cfg = Normalise(Given(options), Host)

(* Requests are answered by a start that serves, each as its SKI deserves.   *)
Answers == [op : {"trust", "forget"}, ski : Requests, ok : BOOLEAN]
Asked(a) == {Digits(a[i].ski) : i \in DOMAIN a}

AnswersInv ==
    /\ answers \in Seq(Answers)
    /\ pc # "serving" => answers = <<>>

(* What is registered: the named remotes, and what the requests made of it.  *)
RegisteredInv == Ready => registered \ Asked(answers) = Named(Given(options)) \ Asked(answers)

(* The last request accepted for a remote decides.                           *)
Last(a, i) == \A j \in i + 1 .. Len(a) : a[j].ok => Digits(a[j].ski) # Digits(a[i].ski)
RequestsInv ==
    \A i \in DOMAIN answers :
        /\ answers[i].ok <=> Spelled(answers[i].ski)
        /\ answers[i].ok /\ Last(answers, i) =>
              (Digits(answers[i].ski) \in registered <=> answers[i].op = "trust")

StartupInv == OutcomeInv /\ AnswersInv /\ RegisteredInv /\ RequestsInv

LEMMA StartupInitInv == StartupInit => StartupInv
<1> SUFFICES ASSUME StartupInit PROVE StartupInv
  OBVIOUS
<1>1. pc = "down" /\ ~Ready /\ outcome = "none" /\ answers = <<>>
  BY DEF StartupInit, Init, Ready
<1>2. OutcomeInv /\ RegisteredInv
  BY <1>1 DEF OutcomeInv, RegisteredInv
<1>3. AnswersInv /\ RequestsInv
  BY <1>1 DEF AnswersInv, RequestsInv
<1> QED
  BY <1>2, <1>3 DEF StartupInv

LEMMA LoadInv ==
    ASSUME StartupInv, NEW o \in OptionFiles, Load(o)
    PROVE  StartupInv'
<1>1. /\ pc = "down" /\ options' = o /\ o \in OptionRecords
      /\ registered' = registered /\ answers' = answers
  BY DEF Load
<1>2. CASE Loads(o, Host)
  <2>1. /\ pc' = "load" /\ outcome' = "loaded"
        /\ cfg' = Normalise(Given(o), Host)
    BY <1>2 DEF Load, Launch
  <2>2. answers = <<>>
    BY <1>1 DEF StartupInv, AnswersInv
  <2>3. OutcomeInv' /\ RegisteredInv'
    BY <1>1, <1>2, <2>1 DEF OutcomeInv, RegisteredInv, Ready
  <2>4. AnswersInv' /\ RequestsInv'
    BY <1>1, <2>2 DEF StartupInv, AnswersInv, RequestsInv
  <2> QED
    BY <2>3, <2>4 DEF StartupInv
<1>3. CASE ~Loads(o, Host)
  <2>1. pc' = "down" /\ outcome' = "refused" /\ cfg' = cfg
    BY <1>1, <1>3 DEF Load, vars
  <2>2. answers = <<>>
    BY <1>1 DEF StartupInv, AnswersInv
  <2>3. OutcomeInv' /\ RegisteredInv'
    BY <1>1, <1>3, <2>1 DEF OutcomeInv, RegisteredInv, Ready
  <2>4. AnswersInv' /\ RequestsInv'
    BY <1>1, <2>2 DEF StartupInv, AnswersInv, RequestsInv
  <2> QED
    BY <2>3, <2>4 DEF StartupInv
<1> QED
  BY <1>2, <1>3

(* Work on the files neither starts nor ends what registering knows.         *)
LEMMA FilesInv ==
    ASSUME StartupInv, OnFiles
    PROVE  StartupInv'
<1>1. /\ UNCHANGED settings
      /\ pc # "down" /\ pc # "serving"
      /\ Ready' => Ready
  BY DEF OnFiles, LoadCertificate, CreateCertificate, OpenCert, FillCert, OpenKey, FillKey,
     WriteFails, WriteSKIFile, FillSKIFile, First, Fatal, Ready
<1>2. OutcomeInv'
  BY <1>1 DEF StartupInv, OutcomeInv, settings
<1>3. AnswersInv'
  BY <1>1 DEF StartupInv, AnswersInv, settings
<1>4. RegisteredInv' /\ RequestsInv'
  BY <1>1 DEF StartupInv, RegisteredInv, RequestsInv, settings
<1> QED
  BY <1>2, <1>3, <1>4 DEF StartupInv

LEMMA BeginInv ==
    ASSUME StartupInv, Begin
    PROVE  StartupInv'
<1>1. /\ pc = "setup" /\ pc' \in {"ready", "fatal"}
      /\ options' = options /\ outcome' = outcome /\ cfg' = cfg /\ answers' = answers
      /\ registered' = IF pc' = "ready" THEN Preset(cfg) ELSE registered
  BY DEF Begin, Setup
<1>2. /\ answers = <<>> /\ options \in OptionRecords /\ Loads(options, Host)
      /\ cfg = Normalise(Given(options), Host)
  BY <1>1 DEF StartupInv, AnswersInv, OutcomeInv
<1>3. OutcomeInv'
  BY <1>1 DEF StartupInv, OutcomeInv
<1>4. AnswersInv' /\ RequestsInv'
  BY <1>1, <1>2 DEF StartupInv, AnswersInv, RequestsInv
<1>5. RegisteredInv'
  <2>1. pc' = "ready" => registered' = Named(Given(options'))
    BY <1>1, <1>2, PresetIsNamed
  <2> QED
    BY <1>1, <2>1 DEF RegisteredInv, Ready
<1> QED
  BY <1>3, <1>4, <1>5 DEF StartupInv

(* A request that is accepted changes what is registered for the remote it   *)
(* names, and one that is not changes nothing.                               *)
LEMMA PairAnswer ==
    ASSUME NEW op \in {"trust", "forget"}, NEW s \in Requests, Pair(op, s)
    PROVE  /\ answers' = Append(answers, [op |-> op, ski |-> s, ok |-> Spelled(s)])
           /\ ~Spelled(s) => registered' = registered
           /\ Spelled(s) => registered' = IF op = "trust" THEN registered \union {Digits(s)}
                                          ELSE registered \ {Digits(s)}
           /\ pc = "serving" /\ UNCHANGED <<pc, options, outcome, cfg>>
<1>1. s \in Texts
  OBVIOUS
<1>2. RequestSKI(s) = NormaliseSKI(s) /\ Meant(s)
  BY <1>1, NormalForm, TextsMeant
<1>3. ValidRequest(RequestSKI(s)) = ValidSKI(NormaliseSKI(s))
  BY <1>2 DEF ValidRequest, ValidSKI
<1>4. /\ ValidRequest(RequestSKI(s)) = Spelled(s)
      /\ Spelled(s) => RequestSKI(s) = Digits(s)
  BY <1>2, <1>3 DEF Meant, Spelled, ValidSKI
<1> QED
  BY <1>4 DEF Pair, vars

LEMMA PairInv ==
    ASSUME StartupInv, NEW op \in {"trust", "forget"}, NEW s \in Requests, Pair(op, s)
    PROVE  StartupInv'
<1> DEFINE r == [op |-> op, ski |-> s, ok |-> Spelled(s)]
           n == Len(answers)
<1>1. /\ answers' = Append(answers, r)
      /\ ~Spelled(s) => registered' = registered
      /\ Spelled(s) => registered' = IF op = "trust" THEN registered \union {Digits(s)}
                                     ELSE registered \ {Digits(s)}
      /\ pc = "serving" /\ UNCHANGED <<pc, options, outcome, cfg>>
  BY PairAnswer
<1>2. /\ r \in Answers /\ r.op = op /\ r.ski = s /\ r.ok = Spelled(s)
      /\ answers \in Seq(Answers) /\ n \in Nat
  BY DEF StartupInv, AnswersInv, Answers, Spelled
<1> HIDE DEF r
<1>3. /\ DOMAIN answers = 1 .. n /\ DOMAIN answers' = 1 .. n + 1 /\ Len(answers') = n + 1
      /\ answers'[n + 1] = r /\ \A i \in 1 .. n : answers'[i] = answers[i]
      /\ answers' \in Seq(Answers)
  BY <1>1, <1>2
<1> HIDE DEF n
<1>4. OutcomeInv' /\ AnswersInv'
  BY <1>1, <1>3 DEF StartupInv, OutcomeInv, AnswersInv
<1>5. Asked(answers') = Asked(answers) \union {Digits(s)}
  BY <1>2, <1>3 DEF Asked
<1>6. RegisteredInv'
  BY <1>1, <1>5 DEF StartupInv, RegisteredInv, Ready
<1>7. RequestsInv'
  <2> SUFFICES ASSUME NEW i \in 1 .. n + 1
               PROVE  /\ answers'[i].ok <=> Spelled(answers'[i].ski)
                      /\ answers'[i].ok /\ Last(answers', i) =>
                           (Digits(answers'[i].ski) \in registered' <=> answers'[i].op = "trust")
    BY <1>3 DEF RequestsInv
  <2>1. CASE i = n + 1
    BY <1>1, <1>2, <1>3, <2>1
  <2>2. CASE i \in 1 .. n
    <3>1. /\ answers[i].ok <=> Spelled(answers[i].ski)
          /\ answers[i].ok /\ Last(answers, i) =>
                (Digits(answers[i].ski) \in registered <=> answers[i].op = "trust")
      BY <1>3, <2>2 DEF StartupInv, RequestsInv
    <3>2. ASSUME Last(answers', i)
          PROVE  /\ Last(answers, i)
                 /\ Spelled(s) => Digits(s) # Digits(answers[i].ski)
      <4>1. \A j \in i + 1 .. n + 1 :
                answers'[j].ok => Digits(answers'[j].ski) # Digits(answers[i].ski)
        BY <1>3, <2>2, <3>2 DEF Last
      <4>2. \A j \in i + 1 .. n : j \in i + 1 .. n + 1 /\ answers'[j] = answers[j]
        BY <1>2, <1>3, <2>2
      <4>3. n + 1 \in i + 1 .. n + 1
        BY <1>2, <2>2
      <4> QED
        BY <1>2, <1>3, <4>1, <4>2, <4>3 DEF Last, n
    <3>3. Last(answers', i) => (Digits(answers[i].ski) \in registered'
                                    <=> Digits(answers[i].ski) \in registered)
      BY <1>1, <3>2
    <3> QED
      BY <1>3, <2>2, <3>1, <3>2, <3>3
  <2> QED
    BY <1>2, <2>1, <2>2
<1> QED
  BY <1>4, <1>6, <1>7 DEF StartupInv

LEMMA EndInv ==
    ASSUME StartupInv, End
    PROVE  StartupInv'
<1>1. pc' = "down" /\ answers' = <<>> /\ options' = options /\ outcome' = outcome
  BY DEF End, Die
<1>2. OutcomeInv' /\ RegisteredInv'
  BY <1>1 DEF StartupInv, OutcomeInv, RegisteredInv, Ready
<1>3. AnswersInv' /\ RequestsInv'
  BY <1>1 DEF AnswersInv, RequestsInv
<1> QED
  BY <1>2, <1>3 DEF StartupInv

LEMMA StartupNextInv == StartupInv /\ [StartupNext]_<<vars, settings>> => StartupInv'
<1> SUFFICES ASSUME StartupInv, [StartupNext]_<<vars, settings>> PROVE StartupInv'
  OBVIOUS
<1>1. CASE StartupNext
  BY <1>1, LoadInv, FilesInv, BeginInv, PairInv, EndInv DEF StartupNext
<1>2. CASE UNCHANGED <<vars, settings>>
  BY <1>2 DEF vars, settings, StartupInv, OutcomeInv, AnswersInv, RegisteredInv, RequestsInv,
     Ready
<1> QED
  BY <1>1, <1>2

THEOREM StartupInvHolds == StartupSpec => []StartupInv
  BY StartupInitInv, StartupNextInv, PTL DEF StartupSpec

(* The bridge starts exactly on options that make sense, for texts of every  *)
(* length: an SKI is accepted if and only if it is spelled as users copy it  *)
(* (config.go:81-107, 126-149).                                              *)
THEOREM StartsOnSensibleOptions == StartupSpec => []StartsIfSensible
<1>1. StartupInv => StartsIfSensible
  <2> SUFFICES ASSUME StartupInv, outcome # "none"
               PROVE  outcome = "loaded" <=> Sensible(Given(options))
    BY DEF StartsIfSensible, Sensible
  <2> QED
    BY LoadsIfSensible DEF StartupInv, OutcomeInv
<1> QED
  BY <1>1, StartupInvHolds, PTL

(* However its options spell them, a start that serves has registered the    *)
(* digits of the remotes they name, but for those its requests changed       *)
(* (handler.go:83, manager.go:115-123).                                      *)
THEOREM RegistersDigits == StartupSpec => []SpellingIrrelevant
<1>1. StartupInv => SpellingIrrelevant
  BY DEF StartupInv, RegisteredInv, SpellingIrrelevant, Named, Asked
<1> QED
  BY <1>1, StartupInvHolds, PTL

(* Requests are accepted in the same spellings, and the last one accepted for*)
(* a remote decides about it (manager.go:145-161, ski.go:5-20).              *)
THEOREM LastRequestDecides == StartupSpec => []RequestsNameRemotes
<1>1. StartupInv => RequestsNameRemotes
  BY DEF StartupInv, RequestsInv, Last, RequestsNameRemotes
<1> QED
  BY <1>1, StartupInvHolds, PTL
==============================================================================
