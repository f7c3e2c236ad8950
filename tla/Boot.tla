-------------------------------- MODULE Boot ---------------------------------
(* One add-on installation over many starts: main.go and the part of         *)
(* internal/eebus/manager.go that loads or creates the certificate whose SKI *)
(* the paired devices trust.  A certificate and its key are one number, the  *)
(* identity; generating one takes the next unused number.  os.WriteFile      *)
(* truncates or creates the file, then fills it: the process can die, or the *)
(* disk refuse, before either half.                                          *)
EXTENDS Integers

CONSTANT MaxCerts     \* bound on the certificates ever generated

ASSUME MaxCertsAssumption == MaxCerts \in Nat

Identities == 1 .. MaxCerts
Absent == -1          \* no such file
Torn == 0             \* the file exists without its whole content
FileContents == {Absent, Torn} \union Identities
None == -1            \* no identity

VARIABLES
    cert, key,        \* cert.pem and key.pem in DataDir
    skiFile,          \* local_ski.txt
    generated,        \* certificates generated so far
    pc,               \* how far the process has come; "down" when there is none
    identity,         \* the certificate the process holds in memory
    announced         \* history: the SKI of the first start that became ready

files == <<cert, key, skiFile>>
vars == <<cert, key, skiFile, generated, pc, identity, announced>>

Init ==
    /\ cert = Absent /\ key = Absent /\ skiFile = Absent
    /\ generated = 0
    /\ pc = "down"
    /\ identity = None
    /\ announced = None

-----------------------------------------------------------------------------
(* The supervisor starts the add-on; a configuration it cannot load ends it  *)
(* at once (log.Fatalf), which is a Die from this state.                     *)
Launch ==
    /\ pc = "down"
    /\ pc' = "load"
    /\ UNCHANGED <<files, generated, identity, announced>>

BothExist == cert # Absent /\ key # Absent

(* tls.LoadX509KeyPair accepts a whole pair that belongs together.           *)
Loadable == cert \in Identities /\ key = cert

(* The result of the loading is checked.  Variant: it is not.                *)
Unchecked == TRUE
Checked == Loadable

LoadCertificate ==
    /\ pc = "load"
    /\ BothExist
    /\ IF Checked
         THEN pc' = "setup" /\ identity' = key
         ELSE pc' = "fatal" /\ UNCHANGED identity
    /\ UNCHANGED <<files, generated, announced>>

(* Both files are written.  Variant: an existing cert.pem is not.            *)
FirstMissing == IF cert = Absent THEN "openCert" ELSE "openKey"
First == "openCert"

CreateCertificate ==
    /\ pc = "load"
    /\ ~BothExist
    /\ generated < MaxCerts
    /\ generated' = generated + 1
    /\ identity' = generated + 1
    /\ pc' = First
    /\ UNCHANGED <<files, announced>>

(* os.WriteFile(certPath, ...): create or truncate, then fill.               *)
OpenCert ==
    /\ pc = "openCert"
    /\ cert' = Torn
    /\ pc' = "fillCert"
    /\ UNCHANGED <<key, skiFile, generated, identity, announced>>

FillCert ==
    /\ pc = "fillCert"
    /\ cert' = identity
    /\ pc' = "openKey"
    /\ UNCHANGED <<key, skiFile, generated, identity, announced>>

(* os.WriteFile(keyPath, ...)                                                *)
OpenKey ==
    /\ pc = "openKey"
    /\ key' = Torn
    /\ pc' = "fillKey"
    /\ UNCHANGED <<cert, skiFile, generated, identity, announced>>

FillKey ==
    /\ pc = "fillKey"
    /\ key' = identity
    /\ pc' = "setup"
    /\ UNCHANGED <<cert, skiFile, generated, identity, announced>>

(* Variant: the error is only logged, as the one of local_ski.txt is ignored.*)
GoesOn == "setup"
Fatal == "fatal"

(* A write that fails (disk full, permission) makes NewManager fail.         *)
WriteFails ==
    /\ pc \in {"openCert", "fillCert", "openKey", "fillKey"}
    /\ pc' = Fatal
    /\ UNCHANGED <<files, generated, identity, announced>>

(* The rest of NewManager and Manager.Start; a failure there is fatal too.   *)
Setup ==
    /\ pc = "setup"
    /\ pc' \in {"ready", "fatal"}
    /\ announced' = IF pc' = "ready" /\ announced = None THEN identity ELSE announced
    /\ UNCHANGED <<files, generated, identity>>

(* writeSKIFile ignores the error of either half of its write.               *)
WriteSKIFile ==
    /\ pc = "ready"
    /\ \/ skiFile' = Torn /\ pc' = "fillSKI"
       \/ UNCHANGED skiFile /\ pc' = "serving"
    /\ UNCHANGED <<cert, key, generated, identity, announced>>

FillSKIFile ==
    /\ pc = "fillSKI"
    /\ skiFile' \in {identity, skiFile}
    /\ pc' = "serving"
    /\ UNCHANGED <<cert, key, generated, identity, announced>>

(* The process ends: killed at any point, by SIGTERM once it serves, or by   *)
(* log.Fatalf after an error.  The finish script then halts the add-on.      *)
Die ==
    /\ pc # "down"
    /\ pc' = "down"
    /\ identity' = None
    /\ UNCHANGED <<files, generated, announced>>

Next ==
    \/ Launch \/ LoadCertificate \/ CreateCertificate
    \/ OpenCert \/ FillCert \/ OpenKey \/ FillKey \/ WriteFails
    \/ Setup \/ WriteSKIFile \/ FillSKIFile
    \/ Die

Spec == Init /\ [][Next]_vars
-----------------------------------------------------------------------------
Ready == pc \in {"ready", "fillSKI", "serving"}

TypeOK ==
    /\ cert \in FileContents /\ key \in FileContents /\ skiFile \in FileContents
    /\ generated \in 0 .. MaxCerts
    /\ pc \in {"down", "load", "openCert", "fillCert", "openKey", "fillKey",
              "setup", "fatal", "ready", "fillSKI", "serving"}
    /\ identity \in {None} \union Identities
    /\ announced \in {None} \union Identities

(* Every start that becomes ready has the SKI of the first one that did,     *)
(* however many starts were killed or failed before and between: devices     *)
(* that trust the bridge go on trusting it (manager.go:185-218).             *)
IdentityStable == Ready => identity = announced

(* Once an SKI has been announced, its whole certificate and key are on disk *)
(* and belong together, so that every later start can load them.             *)
AnnouncedIsLoadable == announced # None => Loadable /\ cert = announced

(* local_ski.txt never names an SKI that no ready start had: neither that of *)
(* a certificate lost before its key was saved, nor an earlier one.          *)
SkiFileIsTrue == skiFile \in Identities => skiFile = announced

(* manager.go:185-186: loadOrCreateCertificate "loads the persisted          *)
(* certificate from DataDir or generates and persists a new one".  So a      *)
(* start finds either a pair it can load or one it will replace.             *)
LoadsOrCreates == pc = "load" => Loadable \/ ~BothExist
=============================================================================
