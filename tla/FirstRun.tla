------------------------------- MODULE FirstRun -------------------------------
(***************************************************************************)
(* How the Bridge starts on a machine: cmd/bridge firstrun.go and main.go, *)
(* the enrollment client of internal/bridgeapp enroll.go, the              *)
(* configuration file of internal/bridgeconfig and the credential file of  *)
(* credential_store_windows.go.                                            *)
(*                                                                         *)
(* Two files outlive a process, which may die between any two steps.  The  *)
(* gateway (module Enrollment) is reduced to the newest credential of each *)
(* device and whether it still stands.                                     *)
(***************************************************************************)
EXTENDS Integers, FiniteSets

CONSTANTS Devices,    \* device ids the machine may generate
          MaxMints,   \* bound of the credentials minted for one device
          Torn,       \* a credential file that was truncated and not written
          None

VARIABLES
    config,     \* device_id in config.json
    complete,   \* config.json holds a gateway and a launcher too
    file,       \* the credential in device.credential
    minted,     \* how many credentials the gateway has minted for each device
    standing,   \* devices whose newest credential stands
    forgotten,  \* devices whose config.json the operator has deleted
    mode,       \* BRIDGE_MODE
    at,         \* the step the process takes next
    id,         \* the device it runs as
    held        \* the credential it holds in memory

fileVars == <<config, complete, file>>
gatewayVars == <<minted, standing>>
firstRunVars == <<fileVars, gatewayVars, forgotten, mode, at, id, held>>

Credentials == Devices \X (1..MaxMints)
ASSUME FirstRunAssumption ==
    /\ MaxMints \in Nat \ {0}
    /\ None \notin Devices
    /\ None \notin Credentials /\ Torn \notin Credentials /\ Torn # None

Modes == {"smart", "enroll", "remote"}
StartSteps == {"load config", "find credential", "wizard", "save config", "begin",
               "poll", "truncate", "write", "open store"}

\* The gateway accepts the credential.
Stands(c) == c[1] \in standing /\ c[2] = minted[c[1]]

\* newEnrollDeviceID generates an id nobody has.
Fresh == {d \in Devices : minted[d] = 0 /\ d # config /\ d \notin forgotten}

FirstRunInit ==
    /\ config = None /\ complete = FALSE /\ file = None
    /\ minted = [d \in Devices |-> 0]
    /\ standing = {}
    /\ forgotten = {}
    /\ mode = None /\ at = "off" /\ id = None /\ held = None

Step(from, to) ==
    /\ at = from
    /\ at' = to

\* What a process that ends leaves behind is its files.
Exits ==
    /\ at' = "off"
    /\ mode' = None /\ id' = None /\ held' = None

-----------------------------------------------------------------------------
(* runSmartFlow, runWizard and runEnrollFlow *)

\* bridgeconfig.Load: a complete configuration skips the wizard.
LoadConfig ==
    /\ \/ /\ config # None /\ complete
          /\ Step("load config", "open store")
          /\ id' = config
       \/ /\ config = None \/ ~complete
          /\ Step("load config", "wizard")
          /\ UNCHANGED id
    /\ UNCHANGED <<fileVars, gatewayVars, forgotten, mode, held>>

\* runEnrollFlow refuses to run over a credential it can or cannot read.
FindCredential ==
    /\ \/ Step("find credential", "wizard") /\ file = None /\ UNCHANGED <<mode, id, held>>
       \/ at = "find credential" /\ file # None /\ Exits
    /\ UNCHANGED <<fileVars, gatewayVars, forgotten>>

\* Both flows keep a saved device id, and generate one where there is none.
ChooseDevice ==
    /\ Step("wizard", "save config")
    /\ id' \in IF config # None THEN {config} ELSE Fresh
    /\ UNCHANGED <<fileVars, gatewayVars, forgotten, mode, held>>

\* Mutant: the configuration is left for after the exchange.
SaveConfig_Later ==
    /\ Step("save config", "begin")
    /\ UNCHANGED <<fileVars, gatewayVars, forgotten, mode, id, held>>

\* bridgeconfig.Save replaces the file by a rename.  The enroll mode has no
\* launcher to add.
SaveConfig ==
    /\ Step("save config", "begin")
    /\ config' = id
    /\ complete' = (complete \/ mode = "smart")
    /\ UNCHANGED <<file, gatewayVars, forgotten, mode, id, held>>

\* runSmartFlow looks for the credential: one that exists is used, whose it is
\* and whether it stands; a missing one is enrolled for again.
OpenStore ==
    /\ \/ Step("open store", "begin") /\ file = None /\ UNCHANGED <<mode, id, held>>
       \/ Step("open store", "credential") /\ file \notin {None, Torn}
          /\ UNCHANGED <<mode, id, held>>
       \/ at = "open store" /\ file = Torn /\ Exits
    /\ UNCHANGED <<fileVars, gatewayVars, forgotten>>

-----------------------------------------------------------------------------
(* RunEnroll *)

\* The gateway takes the claim and answers a pairing code.
BeginPairing ==
    /\ Step("begin", "poll")
    /\ UNCHANGED <<fileVars, gatewayVars, forgotten, mode, id, held>>

\* The operator has approved and the exchange commits: a credential for the
\* device that replaces the one before it.  The answer may be lost.
ExchangePairing ==
    /\ at = "poll"
    /\ minted[id] < MaxMints
    /\ minted' = [minted EXCEPT ![id] = @ + 1]
    /\ standing' = standing \cup {id}
    /\ \/ /\ at' = "truncate"
          /\ held' = <<id, minted'[id]>>
          /\ UNCHANGED <<mode, id>>
       \/ Exits
    /\ UNCHANGED <<fileVars, forgotten>>

\* os.WriteFile truncates the file before it writes.
TruncateCredential ==
    /\ Step("truncate", "write")
    /\ file' = Torn
    /\ UNCHANGED <<config, complete, gatewayVars, forgotten, mode, id, held>>

WriteCredential ==
    /\ at = "write"
    /\ file' = held
    /\ \/ /\ mode = "smart"
          /\ at' = "open store"
          /\ held' = None
          /\ UNCHANGED <<mode, id>>
       \/ /\ mode = "enroll"
          /\ Exits
    /\ UNCHANGED <<config, complete, gatewayVars, forgotten>>

\* The launcher does not resolve, a file cannot be written, the pairing is
\* refused or its code expires, the run is interrupted: each ends the process.
StartFails ==
    /\ at \in StartSteps
    /\ Exits
    /\ UNCHANGED <<fileVars, gatewayVars, forgotten>>

-----------------------------------------------------------------------------
(* The operator and the gateway *)

\* "delete %s to restart setup"
DeleteConfig ==
    /\ at = "off"
    /\ config # None
    /\ forgotten' = forgotten \cup {config}
    /\ config' = None
    /\ complete' = FALSE
    /\ UNCHANGED <<file, gatewayVars, mode, at, id, held>>

DeleteCredential ==
    /\ at = "off"
    /\ file' = None
    /\ UNCHANGED <<config, complete, gatewayVars, forgotten, mode, at, id, held>>

\* The dashboard revokes a device.
RevokeDevice ==
    /\ \E d \in standing : standing' = standing \ {d}
    /\ UNCHANGED <<fileVars, minted, forgotten, mode, at, id, held>>

StartStep ==
    \/ LoadConfig \/ FindCredential \/ ChooseDevice \/ SaveConfig \/ OpenStore
    \/ BeginPairing \/ ExchangePairing \/ TruncateCredential \/ WriteCredential
    \/ StartFails

-----------------------------------------------------------------------------
(* Properties *)

\* "a crash or lost token response can never orphan the device id"
\* (docs/operations/windows-bridge.md): a device the gateway has ever paired
\* with this machine is the one its configuration names, unless the operator
\* deleted that configuration.
IdentityIsKept ==
    \A d \in Devices : minted[d] > 0 => d = config \/ d \in forgotten
=============================================================================
