--------------------------- MODULE LifecycleProofs ---------------------------
(***************************************************************************)
(* The machine keeps the identity it was paired as, and a run never asks   *)
(* the status machine for what it refuses: for any number of device ids    *)
(* and pairings.                                                           *)
(***************************************************************************)
EXTENDS Lifecycle, TLAPS

\* From the choice of a device on the process runs as one; what it holds when
\* it writes the file, and when it runs, is a credential.
HoldsWhatItNeeds ==
    /\ at \in {"save config", "begin", "poll", "truncate", "write", "open store"} \cup RunSteps
          => id \in Devices
    /\ at \in {"truncate", "write"} \cup (RunSteps \ {"credential"}) => held \in Credentials

\* The configuration names a device before the gateway may hear of it.
ConfigIsFirst ==
    /\ at = "save config" => config \in {id, None}
    /\ at \in {"begin", "poll", "truncate", "write", "open store"} => id = config

\* The status each step is taken in.
StatusAt ==
    /\ at \in StartSteps \cup {"credential"} => status = "initializing"
    /\ at = "connect" => status \in {"authenticating", "reconnecting"}
    /\ at \in {"dial", "hello"} => status = "connecting"
    /\ at \in {"start child", "send", "receive"} => status = "mcp_starting"
    /\ at \in {"probe", "commit", "await exit"} => status = "studio_detecting"
    /\ at \in {"announce", "relay", "forward"} => status = "connected"
    /\ at = "sleep" \/ (at = "tear down" /\ then = "sleep") => status = "reconnecting"

\* What the cycle of the process has.
CycleTypeOK ==
    /\ status \in Statuses \cup {"illegal"}
    /\ session \in {"none", "open", "dropped", "revoked"}
    /\ child \in {"none", "up", "exited", "reaped", "done"}
    /\ round \in 1..3
    /\ then \in {"sleep", "off"}
    /\ stop \in BOOLEAN

\* The files, the gateway and what the process holds of them.
FilesTypeOK ==
    /\ config \in Devices \cup {None}
    /\ complete \in BOOLEAN
    /\ file \in Credentials \cup {Torn, None}
    /\ minted \in [Devices -> 0..MaxMints]
    /\ standing \subseteq {d \in Devices : minted[d] > 0}
    /\ forgotten \subseteq Devices
    /\ mode \in Modes \cup {None}
    /\ id \in Devices \cup {None}
    /\ held \in Credentials \cup {None}

ControlInv == at \in {"off"} \cup StartSteps \cup RunSteps /\ StatusAt /\ StatusIsLegal
FilesInv == FilesTypeOK /\ HoldsWhatItNeeds /\ ConfigIsFirst /\ IdentityIsKept
LifecycleInv == ControlInv /\ CycleTypeOK /\ FilesInv

LEMMA ControlInit == Init => ControlInv
BY DEF Init, FirstRunInit, ControlInv, StatusAt, StatusIsLegal, StartSteps

LEMMA CycleInit == Init => CycleTypeOK
<1>1. Init => stop \in BOOLEAN
    BY DEF Init
<1>2. Init => /\ status \in Statuses \cup {"illegal"}
              /\ session \in {"none", "open", "dropped", "revoked"}
              /\ child \in {"none", "up", "exited", "reaped", "done"}
              /\ round \in 1..3
              /\ then \in {"sleep", "off"}
    BY DEF Init, Statuses
<1> QED BY <1>1, <1>2 DEF CycleTypeOK

LEMMA FilesInit == Init => FilesInv
<1> SUFFICES ASSUME Init PROVE FilesInv
    OBVIOUS
<1>1. FilesTypeOK /\ IdentityIsKept
    <2>1. minted = [d \in Devices |-> 0] /\ MaxMints \in Nat
        BY FirstRunAssumption DEF Init, FirstRunInit
    <2>2. minted \in [Devices -> 0..MaxMints]
        BY <2>1
    <2>3. \A d \in Devices : ~(minted[d] > 0)
        BY <2>1
    <2> QED BY <2>2, <2>3 DEF Init, FirstRunInit, FilesTypeOK, IdentityIsKept
<1>2. HoldsWhatItNeeds /\ ConfigIsFirst
    BY DEF Init, FirstRunInit, HoldsWhatItNeeds, ConfigIsFirst, RunSteps, CycleSteps
<1> QED BY <1>1, <1>2 DEF FilesInv

-----------------------------------------------------------------------------
(* The control of a run *)

\* The steps before the run follow on each other until they end or enter it.
LEMMA StartStepsOnly ==
    ASSUME StartStep
    PROVE  at \in StartSteps /\ at' \in StartSteps \cup {"off", "credential"}
<1> USE DEF StartSteps, Step, Exits
<1>1. CASE LoadConfig \/ FindCredential \/ ChooseDevice \/ SaveConfig
    BY <1>1 DEF LoadConfig, FindCredential, ChooseDevice, SaveConfig
<1>2. CASE OpenStore \/ BeginPairing \/ ExchangePairing
    BY <1>2 DEF OpenStore, BeginPairing, ExchangePairing
<1>3. CASE TruncateCredential \/ WriteCredential \/ StartFails
    BY <1>3 DEF TruncateCredential, WriteCredential, StartFails
<1> QED BY <1>1, <1>2, <1>3 DEF StartStep

LEMMA ControlStep ==
    ASSUME ControlInv, CycleTypeOK, [Next]_vars
    PROVE  ControlInv'
<1> USE DEF ControlInv, StatusAt, StatusIsLegal, StartSteps, RunSteps, CycleSteps, cycleVars, Step, Exits, Returns, Emit, Allowed, InCycle,
        Proceeds, Ends, Fails, Drops, DropsUnlessStopped
<1>1. CASE Start
    BY <1>1 DEF Start
<1>2. CASE LoadCredential
    BY <1>2 DEF LoadCredential
<1>3. CASE Connect
    BY <1>3 DEF Connect
<1>4. CASE Dial
    BY <1>4 DEF Dial
<1>5. CASE Sleep
    BY <1>5 DEF Sleep
<1>6. CASE SendHello
    BY <1>6 DEF SendHello
<1>7. CASE StartChild
    BY <1>7 DEF StartChild
<1>8. CASE SendToChild
    BY <1>8 DEF SendToChild
<1>9. CASE ReceiveFromChild
    BY <1>9 DEF ReceiveFromChild
<1>10. CASE ProbeStudio
    BY <1>10 DEF ProbeStudio
<1>11. CASE CommitReadiness \/ AwaitExit
    BY <1>11 DEF CommitReadiness, MarkReady, AwaitExit
<1>12. CASE Announce
    BY <1>12 DEF Announce
<1>13. CASE Dispatch \/ FrameIsTaken \/ SendFails
    BY <1>13 DEF Dispatch, FrameIsTaken, SendFails
<1>14. CASE RelayEnds
    BY <1>14 DEF RelayEnds
<1>15. CASE TearDown
    <2>1. then \in {"sleep", "off"}
        BY DEF CycleTypeOK
    <2> QED BY <1>15, <2>1 DEF TearDown
<1>16. CASE ChildExits \/ Reap \/ SessionEnds \/ StopRun
    <2>1. UNCHANGED <<at, status, then>>
        BY <1>16 DEF ChildExits, Reap, SessionEnds, StopRun, firstRunVars
    <2> QED BY <2>1
<1>17. CASE Crash
    BY <1>17 DEF Crash
<1>18. CASE StartStep /\ UNCHANGED <<status, cycleVars, stop>>
    BY <1>18, StartStepsOnly
<1>19. CASE /\ DeleteConfig \/ DeleteCredential \/ RevokeDevice
            /\ UNCHANGED <<status, cycleVars, stop>>
    BY <1>19 DEF DeleteConfig, DeleteCredential, RevokeDevice
<1>20. CASE UNCHANGED vars
    BY <1>20 DEF vars, firstRunVars
<1> QED
    BY <1>1, <1>2, <1>3, <1>4, <1>5, <1>6, <1>7, <1>8, <1>9, <1>10, <1>11, <1>12, <1>13,
       <1>14, <1>15, <1>16, <1>17, <1>18, <1>19, <1>20 DEF Next, RunStep

\* The variables of a cycle stay in their ranges whatever is taken.
LEMMA CycleTypeStep ==
    ASSUME CycleTypeOK, [Next]_vars
    PROVE  CycleTypeOK'
<1> USE DEF CycleTypeOK, cycleVars
<1>1. CASE Start \/ LoadCredential \/ Connect \/ Dial \/ Sleep
    <2>1. stop' \in BOOLEAN
        BY <1>1 DEF Start, LoadCredential, Connect, Dial, Sleep
    <2>2. status' \in Statuses \cup {"illegal"}
        BY <1>1 DEF Start, LoadCredential, Connect, Dial, Sleep, Emit, Statuses
    <2>3. /\ session' \in {session, "open"}
          /\ UNCHANGED <<child, round, then>>
        BY <1>1 DEF Start, LoadCredential, Connect, Dial, Sleep, Returns
    <2> QED BY <2>1, <2>2, <2>3
<1>2. CASE SendHello \/ StartChild \/ SendToChild \/ ReceiveFromChild
    <2>1. status' \in Statuses \cup {"illegal"}
        BY <1>2 DEF SendHello, StartChild, SendToChild, ReceiveFromChild, Fails, Drops,
               DropsUnlessStopped, Emit, Statuses
    <2>2. /\ UNCHANGED <<stop, session>> /\ child' \in {child, "up"}
          /\ then' \in {then, "sleep", "off"}
        BY <1>2 DEF SendHello, StartChild, SendToChild, ReceiveFromChild, InCycle, Proceeds,
               Ends, Fails, Drops, DropsUnlessStopped
    <2>3. round' \in 1..3
        <3>1. round' \in {round, 1} \/ (round < 3 /\ round' = round + 1)
            BY <1>2 DEF SendHello, StartChild, SendToChild, ReceiveFromChild, Proceeds,
                   Ends, Fails, Drops, DropsUnlessStopped
        <3> QED BY <3>1
    <2> QED BY <2>1, <2>2, <2>3
<1>3. CASE ProbeStudio \/ CommitReadiness \/ AwaitExit \/ Announce \/ RelayEnds
    <2>1. status' \in Statuses \cup {"illegal"}
        BY <1>3 DEF ProbeStudio, CommitReadiness, AwaitExit, Announce, RelayEnds, Fails, Drops,
               DropsUnlessStopped, Emit, MarkReady, Statuses
    <2>2. UNCHANGED <<stop, session, child, round>> /\ then' \in {then, "sleep", "off"}
        BY <1>3 DEF ProbeStudio, CommitReadiness, AwaitExit, Announce, RelayEnds, InCycle, Proceeds,
               Ends, Fails, Drops, DropsUnlessStopped
    <2> QED BY <2>1, <2>2
<1>4. CASE Dispatch \/ FrameIsTaken \/ SendFails \/ TearDown
    BY <1>4 DEF Dispatch, FrameIsTaken, SendFails, TearDown, InCycle, Proceeds
<1>5. CASE ChildExits \/ Reap \/ SessionEnds \/ StopRun \/ Crash
    BY <1>5 DEF ChildExits, Reap, SessionEnds, StopRun, Crash
<1>6. CASE UNCHANGED <<status, cycleVars, stop>>
    BY <1>6
<1> QED BY <1>1, <1>2, <1>3, <1>4, <1>5, <1>6 DEF Next, RunStep, vars

-----------------------------------------------------------------------------
(* The files and the pairing *)

\* A process that ends leaves its files, which need nothing of it.
LEMMA ExitKeeps ==
    ASSUME FilesInv, Exits, UNCHANGED <<config, minted, standing, forgotten>>,
           complete' \in BOOLEAN, file' \in Credentials \cup {Torn, None}
    PROVE  FilesInv'
BY DEF FilesInv, FilesTypeOK, HoldsWhatItNeeds, ConfigIsFirst, IdentityIsKept, Exits,
       RunSteps, CycleSteps

\* The exchange mints the next credential of the device the process runs as,
\* which is the one its configuration names.
LEMMA ExchangeKeeps ==
    ASSUME FilesInv, ExchangePairing
    PROVE  FilesInv'
<1>1. /\ id \in Devices /\ id = config /\ minted \in [Devices -> 0..MaxMints]
      /\ minted[id] < MaxMints /\ minted' = [minted EXCEPT ![id] = minted[id] + 1]
      /\ standing' = standing \cup {id} /\ UNCHANGED <<config, complete, file, forgotten>>
      /\ MaxMints \in Nat
    BY FirstRunAssumption DEF ExchangePairing, FilesInv, FilesTypeOK, HoldsWhatItNeeds,
       ConfigIsFirst, fileVars
<1>2. minted[id] \in Nat /\ minted[id] + 1 \in 1..MaxMints
    BY <1>1
<1>3. /\ minted'[id] = minted[id] + 1
      /\ \A d \in Devices \ {id} : minted'[d] = minted[d]
      /\ minted' \in [Devices -> 0..MaxMints]
    BY <1>1, <1>2
<1>4. <<id, minted'[id]>> \in Credentials
    BY <1>1, <1>2, <1>3 DEF Credentials
<1>5. standing' \subseteq {d \in Devices : minted'[d] > 0}
    BY <1>1, <1>2, <1>3 DEF FilesInv, FilesTypeOK
<1>6. IdentityIsKept'
    BY <1>1, <1>3 DEF FilesInv, IdentityIsKept
<1>7. CASE at' = "truncate" /\ held' = <<id, minted'[id]>> /\ UNCHANGED <<mode, id>>
    BY <1>1, <1>3, <1>4, <1>5, <1>6, <1>7
    DEF FilesInv, FilesTypeOK, HoldsWhatItNeeds, ConfigIsFirst, RunSteps, CycleSteps
<1>8. CASE Exits
    BY <1>1, <1>3, <1>5, <1>6, <1>8
    DEF FilesInv, FilesTypeOK, HoldsWhatItNeeds, ConfigIsFirst, Exits, RunSteps, CycleSteps
<1> QED BY <1>7, <1>8 DEF ExchangePairing

LEMMA StartStepKeeps ==
    ASSUME FilesInv, StartStep
    PROVE  FilesInv'
<1> USE FirstRunAssumption
    DEF FilesInv, FilesTypeOK, HoldsWhatItNeeds, ConfigIsFirst, IdentityIsKept,
        fileVars, gatewayVars, Step, RunSteps, CycleSteps
<1>1. CASE LoadConfig
    BY <1>1 DEF LoadConfig
<1>2. CASE FindCredential
    BY <1>2, ExitKeeps DEF FindCredential
<1>3. CASE ChooseDevice
    BY <1>3 DEF ChooseDevice, Fresh
<1>4. CASE SaveConfig
    BY <1>4 DEF SaveConfig
<1>5. CASE OpenStore
    BY <1>5, ExitKeeps DEF OpenStore
<1>6. CASE BeginPairing
    BY <1>6 DEF BeginPairing
<1>7. CASE TruncateCredential
    BY <1>7 DEF TruncateCredential
<1>8. CASE WriteCredential
    BY <1>8, ExitKeeps DEF WriteCredential
<1>9. CASE StartFails
    BY <1>9, ExitKeeps DEF StartFails
<1> QED
    BY <1>1, <1>2, <1>3, <1>4, <1>5, <1>6, <1>7, <1>8, <1>9, ExchangeKeeps DEF StartStep

\* What the run does to what the pairing left: nothing; it holds the credential
\* of the file from the start and lets go of it at its end.
LEMMA RunKeeps ==
    ASSUME CycleTypeOK, FilesInv, RunStep \/ Dispatch \/ FrameIsTaken
    PROVE  FilesInv'
<1>1. CASE LoadCredential
    <2>1. /\ UNCHANGED <<config, complete, file, minted, standing, forgotten>>
          /\ \/ Exits
             \/ /\ file \notin {None, Torn} /\ held' = file /\ at' = "connect"
                /\ at = "credential" /\ UNCHANGED <<mode, id>>
        BY <1>1 DEF LoadCredential, Returns, fileVars, gatewayVars
    <2> QED
        BY <2>1, ExitKeeps
        DEF FilesInv, FilesTypeOK, HoldsWhatItNeeds, ConfigIsFirst, IdentityIsKept, RunSteps,
            CycleSteps
<1>2. CASE (RunStep /\ ~LoadCredential) \/ Dispatch \/ FrameIsTaken
    <2>1. /\ UNCHANGED <<config, complete, file, minted, standing, forgotten>>
          /\ \/ Exits
             \/ /\ UNCHANGED <<mode, id, held>>
                /\ at \in RunSteps \ {"credential"}
                /\ at' \in (RunSteps \ {"credential"}) \cup {then}
        BY <1>2
        DEF RunStep, Connect, Dial, Sleep, SendHello, StartChild, SendToChild,
            ReceiveFromChild, ProbeStudio, CommitReadiness, AwaitExit, Announce, SendFails, RelayEnds,
            TearDown, Dispatch, FrameIsTaken, Step, Returns, InCycle, Proceeds, Ends, Fails,
            Drops, DropsUnlessStopped, RunSteps, CycleSteps, fileVars, gatewayVars
    <2>2. then \in {"sleep", "off"}
        BY DEF CycleTypeOK
    <2>3. HoldsWhatItNeeds' \/ Exits
        BY <2>1, <2>2 DEF FilesInv, HoldsWhatItNeeds, RunSteps, CycleSteps
    <2>4. ConfigIsFirst' \/ Exits
        BY <2>1, <2>2 DEF ConfigIsFirst, RunSteps, CycleSteps
    <2> QED BY <2>1, <2>3, <2>4, ExitKeeps DEF FilesInv, FilesTypeOK, IdentityIsKept
<1> QED BY <1>1, <1>2

LEMMA FilesStep ==
    ASSUME CycleTypeOK, FilesInv, [Next]_vars
    PROVE  FilesInv'
<1>1. CASE Start
    BY <1>1
    DEF Start, FilesInv, FilesTypeOK, HoldsWhatItNeeds, ConfigIsFirst, IdentityIsKept,
        Modes, RunSteps, CycleSteps, fileVars, gatewayVars
<1>2. CASE DeleteConfig \/ DeleteCredential \/ RevokeDevice
    BY <1>2
    DEF DeleteConfig, DeleteCredential, RevokeDevice, FilesInv, FilesTypeOK,
        HoldsWhatItNeeds, ConfigIsFirst, IdentityIsKept, RunSteps, CycleSteps, fileVars,
        gatewayVars
<1>3. CASE ChildExits \/ Reap \/ SessionEnds \/ StopRun \/ UNCHANGED vars
    BY <1>3
    DEF ChildExits, Reap, SessionEnds, StopRun, vars, firstRunVars, FilesInv, FilesTypeOK,
        HoldsWhatItNeeds, ConfigIsFirst, IdentityIsKept, fileVars, gatewayVars
<1>4. CASE Crash
    BY <1>4, ExitKeeps DEF Crash, FilesInv, FilesTypeOK, fileVars, gatewayVars
<1> QED BY <1>1, <1>2, <1>3, <1>4, StartStepKeeps, RunKeeps DEF Next

LEMMA LifecycleStep == LifecycleInv /\ [Next]_vars => LifecycleInv'
BY ControlStep, CycleTypeStep, FilesStep DEF LifecycleInv

\* The inductive invariant of a machine's files, its run and the status machine
\* holds in every reachable state: each step of the program says what the status
\* is and which files are written (runSmartFlow, RunRemote, allowedTransition).
THEOREM LifecycleInvHolds == Spec => []LifecycleInv
<1>1. Init => LifecycleInv
    BY ControlInit, CycleInit, FilesInit DEF LifecycleInv
<1> QED BY <1>1, LifecycleStep, PTL DEF Spec

\* LifecycleTypeOK: the files, the credentials and the steps of the process stay
\* in their ranges, and only a paired device has a credential that stands.
THEOREM LifecycleTypeHolds == Spec => []LifecycleTypeOK
<1>1. LifecycleInv => LifecycleTypeOK
    BY DEF LifecycleInv, ControlInv, CycleTypeOK, FilesInv, FilesTypeOK, LifecycleTypeOK
<1> QED BY <1>1, LifecycleInvHolds, PTL

\* IdentityIsKept: a device that was paired is the one in config.json unless the
\* operator deleted the file, wherever a process died (SaveConfig comes first).
THEOREM IdentityIsKeptHolds == Spec => []IdentityIsKept
<1>1. LifecycleInv => IdentityIsKept
    BY DEF LifecycleInv, FilesInv
<1> QED BY <1>1, LifecycleInvHolds, PTL

\* StatusIsLegal: no path of a run asks the status machine for a transition that
\* allowedTransition refuses.
THEOREM StatusIsLegalHolds == Spec => []StatusIsLegal
<1>1. LifecycleInv => StatusIsLegal
    BY DEF LifecycleInv, ControlInv
<1> QED BY <1>1, LifecycleInvHolds, PTL
=============================================================================
