------------------------------- MODULE Options -------------------------------
(* The options of the add-on, internal/config/config.go, and the SKIs of     *)
(* pairing requests, internal/eebus/ski.go: what Load makes of the options   *)
(* file, and which texts name a remote.                                      *)
(*                                                                           *)
(* A text is a sequence of characters, each standing for its class: "a" and  *)
(* "b" for lower-case hexadecimal digits, "A" for an upper-case one, "g" and *)
(* "G" for other letters, and the rest for themselves.                       *)
EXTENDS Integers, Sequences, FiniteSetsExt

CONSTANTS
    SkiLen,         \* the length of an SKI, 40
    SerialLen,      \* what a host name contributes to a serial, 24
    MaxPort         \* the largest port, 65535

ASSUME LengthsAssumption == SkiLen \in Nat \ {0} /\ SerialLen \in Nat /\ MaxPort \in Nat

Characters == {"a", "b", "A", "g", "G", " ", "tab", ":", "-", "_"}
Texts == Seq(Characters)

(* The options, and whether the file that holds them is there and sound.     *)
OptionRecords ==
    [file : {"ok", "missing", "unreadable", "garbage"}, trusted : Seq(Texts),
     inverter : Texts, serial : Texts, apiPort : Int, eebusPort : Int]
Default == [file |-> "ok", trusted |-> <<>>, inverter |-> <<>>, serial |-> <<>>,
            apiPort |-> 1, eebusPort |-> 2]

-----------------------------------------------------------------------------

ToLower(s) == [i \in DOMAIN s |-> CASE s[i] = "A" -> "a" [] s[i] = "G" -> "g"
                                    [] OTHER -> s[i]]
Space(c) == c \in {" ", "tab"}
Hex(c) == c \in {"a", "b"}
Separator(c) == c \in {" ", ":", "-"}

(* The elements of s at the positions T, in order: SelectSeq by positions, so *)
(* that it can be reasoned about without recursion.                          *)
Rank(T, i) == Cardinality({j \in T : j <= i})
At(s, T) == [k \in 1 .. Cardinality(T) |-> s[CHOOSE i \in T : Rank(T, i) = k]]
Compact(s) == At(s, {i \in DOMAIN s : ~Separator(s[i])})

TrimSpace(s) ==
    LET kept == {i \in DOMAIN s : ~Space(s[i])}
    IN  IF kept = {} THEN <<>> ELSE SubSeq(s, Min(kept), Max(kept))

(* Variants: one part of the work on an SKI is missing.                      *)
KeepsSeparators(s) == ToLower(TrimSpace(s))
KeepsCase(s) == Compact(TrimSpace(s))
ChecksLength(s) == Len(s) = SkiLen

NormaliseSKI(s) == Compact(ToLower(TrimSpace(s)))
ValidSKI(s) == Len(s) = SkiLen /\ \A i \in DOMAIN s : Hex(s[i])

(* The same two functions for pairing requests.                              *)
RequestSKI(s) == Compact(ToLower(TrimSpace(s)))
ValidRequest(s) == Len(s) = SkiLen /\ \A i \in DOMAIN s : Hex(s[i])

Sanitise(s) ==
    LET low == ToLower(s)
        out == At(low, {i \in DOMAIN s : Hex(low[i]) \/ low[i] \in {"g", "-", "_"}})
    IN  SubSeq(out, 1, Min({SerialLen, Len(out)}))

-----------------------------------------------------------------------------
(* Load: a missing file means the defaults, one that cannot be read or       *)
(* parsed an error.                                                          *)
Given(o) == IF o.file = "missing" THEN Default ELSE o

DefaultSerial(h) == IF h = <<>> THEN <<"ha-eebus-bridge">> ELSE <<"ha-">> \o Sanitise(h)

Normalise(c, h) ==
    [c EXCEPT !.inverter = NormaliseSKI(@),
              !.trusted = [i \in DOMAIN @ |-> NormaliseSKI(@[i])],
              !.serial = IF @ = <<>> THEN DefaultSerial(h) ELSE @]

Validate(c) ==
    /\ c.apiPort \in 1 .. MaxPort /\ c.eebusPort \in 1 .. MaxPort
    /\ c.apiPort # c.eebusPort
    /\ \A i \in DOMAIN c.trusted : ValidSKI(c.trusted[i])
    /\ c.inverter # <<>> => ValidSKI(c.inverter)

(* Load succeeds on a file that is missing or can be read and parsed, if the *)
(* normalised options are valid.                                             *)
Loads(o, h) == o.file \in {"missing", "ok"} /\ Validate(Normalise(Given(o), h))

(* The remotes Manager.Start registers.                                      *)
Preset(c) == {c.trusted[k] : k \in DOMAIN c.trusted} \union ({c.inverter} \ {<<>>})

-----------------------------------------------------------------------------
(* What users may write: the digits of an SKI in either case, separators     *)
(* anywhere, and white space around it.                                      *)
Digits(s) == At(ToLower(s), {i \in DOMAIN s : Hex(ToLower(s)[i])})
Around(s, i) ==
    (\A j \in 1 .. i : Space(s[j])) \/ (\A j \in i .. Len(s) : Space(s[j]))
Spelled(s) ==
    /\ Len(Digits(s)) = SkiLen
    /\ \A i \in DOMAIN s : s[i] \in {"a", "b", "A"} \/ Separator(s[i]) \/ Around(s, i)
Blank(s) == \A i \in DOMAIN s : Separator(s[i]) \/ Around(s, i)
==============================================================================
