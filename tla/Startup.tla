------------------------------- MODULE Startup -------------------------------
(* Boot with the options each start loads, and the pairing requests a start  *)
(* that serves answers: main.go as a whole.  The steps on the certificate    *)
(* are Boot's.                                                               *)
EXTENDS Boot, Options

CONSTANTS
    OptionFiles,    \* what the options file may hold at a start
    Host,           \* the name of the machine
    Requests,       \* SKIs that pairing requests name
    MaxRequests     \* bound on the pairing requests of one start

ASSUME InputsAssumption == OptionFiles \subseteq OptionRecords /\ Requests \subseteq Texts

VARIABLES
    options,        \* the options file of the last start
    outcome,        \* of its loading: none yet, loaded, or refused
    cfg,            \* the Config the process holds
    registered,     \* the remotes the library was told to trust
    answers         \* history: the pairing requests answered and how

settings == <<options, outcome, cfg, registered, answers>>

StartupInit ==
    /\ Init
    /\ options = Default
    /\ outcome = "none"
    /\ cfg = Default
    /\ registered = {}
    /\ answers = <<>>

(* main: an error of Load ends the process before anything else happens.     *)
Load(o) ==
    /\ pc = "down"
    /\ options' = o
    /\ IF Loads(o, Host)
         THEN /\ Launch
              /\ outcome' = "loaded"
              /\ cfg' = Normalise(Given(o), Host)
         ELSE /\ outcome' = "refused"
              /\ UNCHANGED <<vars, cfg>>
    /\ UNCHANGED <<registered, answers>>

(* Manager.Start registers the configured remotes before the service starts. *)
Begin ==
    /\ Setup
    /\ registered' = IF pc' = "ready" THEN Preset(cfg) ELSE registered
    /\ UNCHANGED <<options, outcome, cfg, answers>>

(* Trust and Forget: the SKI is normalised and validated, and an invalid one *)
(* refused.                                                                  *)
Pair(op, s) ==
    LET ski == RequestSKI(s)
    IN  /\ pc = "serving"
        /\ Len(answers) < MaxRequests
        /\ answers' = Append(answers, [op |-> op, ski |-> s, ok |-> ValidRequest(ski)])
        /\ registered' =
              IF ~ValidRequest(ski) THEN registered
              ELSE IF op = "trust" THEN registered \union {ski} ELSE registered \ {ski}
        /\ UNCHANGED <<vars, options, outcome, cfg>>

(* What was registered is lost with the process.                             *)
End ==
    /\ Die
    /\ cfg' = Default
    /\ registered' = {}
    /\ answers' = <<>>
    /\ UNCHANGED <<options, outcome>>

OnFiles ==
    /\ \/ LoadCertificate \/ CreateCertificate
       \/ OpenCert \/ FillCert \/ OpenKey \/ FillKey \/ WriteFails
       \/ WriteSKIFile \/ FillSKIFile
    /\ UNCHANGED settings

StartupNext ==
    \/ \E o \in OptionFiles : Load(o)
    \/ OnFiles
    \/ Begin
    \/ \E op \in {"trust", "forget"}, s \in Requests : Pair(op, s)
    \/ End

StartupSpec == StartupInit /\ [][StartupNext]_<<vars, settings>>
-----------------------------------------------------------------------------
(* The bridge starts exactly on options that make sense: ports in range and  *)
(* different, and SKIs spelled as users copy them (config.go:81-107, 126-149)*)
(* whatever combination of case, separators and white space they contain.    *)
StartsIfSensible ==
    LET o == Given(options)
    IN  outcome # "none" => (outcome = "loaded" <=>
            /\ o.file = "ok"
            /\ {o.apiPort, o.eebusPort} \subseteq 1 .. MaxPort
            /\ o.apiPort # o.eebusPort
            /\ \A k \in DOMAIN o.trusted : Spelled(o.trusted[k])
            /\ Spelled(o.inverter) \/ Blank(o.inverter))

(* A start that serves has registered the digits of every remote its options *)
(* name, in whatever spelling, and no other, but for those its pairing       *)
(* requests changed: they are the digits the library reports, which is what  *)
(* AllowWaitingForTrust compares with (handler.go:83, manager.go:115-123).   *)
SpellingIrrelevant ==
    LET o == Given(options)
        named == {Digits(o.trusted[k]) : k \in DOMAIN o.trusted}
                    \union ({Digits(o.inverter)} \ {<<>>})
        asked == {Digits(answers[i].ski) : i \in DOMAIN answers}
    IN  Ready => registered \ asked = named \ asked

(* A pairing request is accepted in the spellings the options are, and the   *)
(* last one accepted for a remote decides about it, also one the options     *)
(* name and however they spell it (manager.go:145-161, ski.go:5-20).         *)
RequestsNameRemotes ==
    /\ \A i \in DOMAIN answers : answers[i].ok <=> Spelled(answers[i].ski)
    /\ \A i \in DOMAIN answers :
            LET ski == Digits(answers[i].ski)
            IN  /\ answers[i].ok
                /\ \A j \in i + 1 .. Len(answers) :
                        answers[j].ok => Digits(answers[j].ski) # ski
                => (ski \in registered <=> answers[i].op = "trust")
==============================================================================
