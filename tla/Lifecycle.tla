------------------------------ MODULE Lifecycle ------------------------------
(***************************************************************************)
(* One run of the Bridge: internal/bridgeapp remote.go RunRemote and its   *)
(* cycles, over a gateway session (wsclient.go), a managed MCP child       *)
(* (internal/mcpprocess) and the status machine (internal/statusui).       *)
(*                                                                         *)
(* A cycle dials, says hello, starts a child, brings it up, probes Studio, *)
(* reports Connected and relays (module BridgeRelay) until the session or  *)
(* the child ends; then the child is stopped, the session closed and the   *)
(* next cycle waits for its backoff.  Every wait of the run has a timeout. *)
(***************************************************************************)
EXTENDS FirstRun

VARIABLES
    status,   \* statusui.Machine.state
    session,  \* the gateway session of the cycle
    child,    \* the MCP child of the cycle
    round,    \* which exchange of bringUpChild this is
    then,     \* where the run goes after the cycle is torn down
    stop      \* the run's context is cancelled

cycleVars == <<session, child, round, then>>
vars == <<firstRunVars, status, cycleVars, stop>>

CycleSteps == {"hello", "start child", "send", "receive", "probe", "commit", "await exit",
               "announce", "relay", "forward", "tear down"}
RunSteps == CycleSteps \cup {"credential", "connect", "dial", "sleep"}
Statuses == {"initializing", "enrollment_required", "authenticating", "connecting",
             "mcp_starting", "studio_detecting", "connected", "reconnecting", "fatal"}

LifecycleTypeOK ==
    /\ config \in Devices \cup {None}
    /\ complete \in BOOLEAN
    /\ file \in Credentials \cup {Torn, None}
    /\ minted \in [Devices -> 0..MaxMints]
    /\ standing \subseteq {d \in Devices : minted[d] > 0}
    /\ forgotten \subseteq Devices
    /\ mode \in Modes \cup {None}
    /\ at \in {"off"} \cup StartSteps \cup RunSteps
    /\ id \in Devices \cup {None}
    /\ held \in Credentials \cup {None}
    /\ status \in Statuses \cup {"illegal"}
    /\ session \in {"none", "open", "dropped", "revoked"}
    /\ child \in {"none", "up", "exited", "reaped", "done"}
    /\ round \in 1..3
    /\ then \in {"sleep", "off"}
    /\ stop \in BOOLEAN

Init ==
    /\ FirstRunInit
    /\ status = "initializing"
    /\ session = "none" /\ child = "none" /\ round = 1 /\ then = "off"
    /\ stop = FALSE

-----------------------------------------------------------------------------
(* The status machine *)

\* Mutant: a dial that succeeded cannot be followed by a reconnect.
Allowed_NoDrop(from, to) ==
    \/ to = "fatal" /\ from # "fatal"
    \/ from = "initializing" /\ to \in {"enrollment_required", "authenticating"}
    \/ from = "authenticating" /\ to = "connecting"
    \/ from = "connecting" /\ to = "mcp_starting"
    \/ from = "mcp_starting" /\ to \in {"studio_detecting", "reconnecting"}
    \/ from = "studio_detecting" /\ to = "reconnecting"
    \/ from = "connected" /\ to = "reconnecting"
    \/ from = "reconnecting" /\ to = "connecting"

\* allowedTransition; Connected is entered by MarkReady alone, and nothing
\* reports Degraded.
Allowed(from, to) ==
    \/ to = "fatal" /\ from # "fatal"
    \/ from = "initializing" /\ to \in {"enrollment_required", "authenticating", "connecting"}
    \/ from = "enrollment_required" /\ to = "authenticating"
    \/ from = "authenticating" /\ to = "connecting"
    \/ from = "connecting" /\ to \in {"mcp_starting", "reconnecting"}
    \/ from = "mcp_starting" /\ to \in {"studio_detecting", "reconnecting"}
    \/ from = "studio_detecting" /\ to = "reconnecting"
    \/ from = "connected" /\ to = "reconnecting"
    \/ from = "reconnecting" /\ to = "connecting"

\* emit: a transition the machine refuses would end the run with its error.
Emit(to) == status' = IF Allowed(status, to) THEN to ELSE "illegal"

MarkReady == status' = IF status = "studio_detecting" THEN "connected" ELSE "illegal"

-----------------------------------------------------------------------------
(* Starting and ending a run *)

\* main: a smart or an enroll process, or a remote one (or the service) that is
\* configured with the device id the enrollment printed.
Start ==
    /\ at = "off"
    /\ \/ mode' = "smart" /\ at' = "load config" /\ UNCHANGED id
       \/ mode' = "enroll" /\ at' = "find credential" /\ UNCHANGED id
       \/ config # None /\ mode' = "remote" /\ at' = "credential" /\ id' = config
    /\ status' = "initializing"
    /\ stop' = FALSE
    /\ UNCHANGED <<fileVars, gatewayVars, forgotten, held, cycleVars>>

\* The run returns outside a cycle.
Returns ==
    /\ Exits
    /\ UNCHANGED cycleVars

\* Mutant: a file that cannot be parsed is taken for a credential.
LoadCredential_Unparsed ==
    /\ at = "credential"
    /\ \/ file = None /\ Emit("enrollment_required") /\ Returns
       \/ /\ file # None
          /\ held' = file
          /\ Emit("authenticating")
          /\ at' = "connect"
          /\ UNCHANGED <<mode, id, cycleVars>>
    /\ UNCHANGED <<fileVars, gatewayVars, forgotten, stop>>

\* loadCredential
LoadCredential ==
    /\ at = "credential"
    /\ \/ file = None /\ Emit("enrollment_required") /\ Returns
       \/ file = Torn /\ Emit("fatal") /\ Returns
       \/ /\ file \notin {None, Torn}
          /\ held' = file
          /\ Emit("authenticating")
          /\ at' = "connect"
          /\ UNCHANGED <<mode, id, cycleVars>>
    /\ UNCHANGED <<fileVars, gatewayVars, forgotten, stop>>

Connect ==
    /\ Step("connect", "dial")
    /\ Emit("connecting")
    /\ UNCHANGED <<fileVars, gatewayVars, forgotten, mode, id, held, cycleVars, stop>>

\* dialBridge: a session, a 401 for a credential that does not stand, or any
\* other failure, which is waited out; a cancelled context ends the run.
Dial ==
    /\ at = "dial"
    /\ \/ /\ ~stop /\ Stands(held)
          /\ at' = "hello"
          /\ session' = "open"
          /\ UNCHANGED <<mode, id, held, status, child, round, then>>
       \/ ~stop /\ ~Stands(held) /\ Emit("fatal") /\ Returns
       \/ ~stop /\ at' = "sleep" /\ Emit("reconnecting") /\ UNCHANGED <<mode, id, held, cycleVars>>
       \/ stop /\ Returns /\ UNCHANGED status
    /\ UNCHANGED <<fileVars, gatewayVars, forgotten, stop>>

\* sleepContext
Sleep ==
    /\ at = "sleep"
    /\ \/ at' = "connect" /\ UNCHANGED <<mode, id, held, cycleVars>>
       \/ stop /\ Returns
    /\ UNCHANGED <<fileVars, gatewayVars, forgotten, status, stop>>

-----------------------------------------------------------------------------
(* connectedCycle *)

\* The cycle goes on.
Proceeds(to) ==
    /\ at' = to
    /\ UNCHANGED <<session, child, round, then>>

\* The cycle returns, and its deferred function runs.
Ends(next) ==
    /\ at' = "tear down"
    /\ then' = next
    /\ UNCHANGED <<session, child, round>>

\* An error after which the run ends: the context's own when it is cancelled,
\* one that is reported as fatal otherwise.
Fails ==
    /\ Ends("off")
    /\ IF stop THEN UNCHANGED status ELSE Emit("fatal")

\* An error after which the next cycle comes; a cancelled context is returned
\* instead where the code looks at it first.
Drops == Ends("sleep") /\ Emit("reconnecting")
DropsUnlessStopped == IF stop THEN Ends("off") /\ UNCHANGED status ELSE Drops

InCycle(step) ==
    /\ at = step
    /\ UNCHANGED <<fileVars, gatewayVars, forgotten, mode, id, held, stop>>

\* The queue takes the hello unless the session has ended already.
SendHello ==
    /\ InCycle("hello")
    /\ \/ session = "open" /\ Proceeds("start child") /\ Emit("mcp_starting")
       \/ session # "open" /\ Drops

StartChild ==
    /\ InCycle("start child")
    /\ \/ /\ ~stop
          /\ at' = "send" /\ child' = "up" /\ round' = 1
          /\ UNCHANGED <<status, session, then>>
       \/ Fails

\* child.Send, which knows no errChildExited: a child that is gone fails it with
\* an error like any other.
SendToChild ==
    /\ InCycle("send")
    /\ \/ child \in {"up", "exited"} /\ Proceeds("receive") /\ UNCHANGED status
       \/ child # "up" /\ Fails
       \/ stop /\ Fails

\* receiveResponseFrame: the answer; the end of the child; an error, an unusable
\* answer or the timeout.
ReceiveFromChild ==
    /\ InCycle("receive")
    /\ \/ /\ round < 3
          /\ at' = "send" /\ round' = round + 1
          /\ UNCHANGED <<status, session, child, then>>
       \/ round = 3 /\ Proceeds("probe") /\ Emit("studio_detecting")
       \/ child = "done" /\ DropsUnlessStopped
       \/ Fails

\* probeStudio: the end of the child wins.
ProbeStudio ==
    /\ InCycle("probe")
    /\ \/ child # "done" /\ Proceeds("commit") /\ UNCHANGED status
       \/ child = "done" /\ DropsUnlessStopped
       \/ Fails

\* CommitReadiness, under the mutex of the child: refused once the reaper has
\* published its exit.  The context is looked at, and then the exit waited for.
CommitReadiness ==
    /\ InCycle("commit")
    /\ \/ child \in {"up", "exited"} /\ Proceeds("announce") /\ MarkReady
       \/ /\ child \in {"reaped", "done"}
          /\ IF stop THEN Ends("off") ELSE Proceeds("await exit")
          /\ UNCHANGED status

\* The wait has no context: the next cycle comes even if the run was stopped
\* meanwhile, and ends there.
AwaitExit == InCycle("await exit") /\ child = "done" /\ Drops

\* The status snapshot, still under that mutex.
Announce ==
    /\ InCycle("announce")
    /\ \/ session = "open" /\ Proceeds("relay") /\ UNCHANGED status
       \/ session # "open" /\ DropsUnlessStopped

\* relayLoop hands a frame of the gateway to child.Send.  The queue may hold some
\* when the session has ended.
Dispatch ==
    /\ InCycle("relay")
    /\ Proceeds("forward")
    /\ UNCHANGED status

\* The child takes the frame; nothing makes it.
FrameIsTaken ==
    /\ InCycle("forward")
    /\ child \in {"up", "exited"}
    /\ Proceeds("relay")
    /\ UNCHANGED status

\* Mutant: the loop's Send has a context of its own.
SendFails_OwnContext ==
    /\ InCycle("forward")
    /\ child \in {"reaped", "done"}
    /\ Proceeds("relay")
    /\ UNCHANGED status

\* Send gives up when the child is gone or the run is stopped, and its error is
\* left to the loop.
SendFails ==
    /\ InCycle("forward")
    /\ child \in {"reaped", "done"} \/ stop
    /\ Proceeds("relay")
    /\ UNCHANGED status

\* Mutant: the loop does not look at the session.
RelayEnds_Deaf ==
    /\ InCycle("relay")
    /\ \/ stop /\ Ends("off") /\ UNCHANGED status
       \/ child = "done" /\ Drops

\* relayLoop: its select takes any of what has happened.
RelayEnds ==
    /\ InCycle("relay")
    /\ \/ stop /\ Ends("off") /\ UNCHANGED status
       \/ session = "revoked" /\ Ends("off") /\ Emit("fatal")
       \/ session = "dropped" /\ Drops
       \/ child = "done" /\ Drops

\* The deferred function: the child is stopped, by force if it must be, and then
\* the session is closed.
TearDown ==
    /\ at = "tear down"
    /\ child' = "none"
    /\ session' = "none"
    /\ IF then = "off" THEN Exits ELSE at' = then /\ UNCHANGED <<mode, id, held>>
    /\ UNCHANGED <<fileVars, gatewayVars, forgotten, status, round, then, stop>>

-----------------------------------------------------------------------------
(* The child, the session, and who stops the run *)

\* The child dies, of its own or because exec kills it with the run's context.
ChildExits ==
    /\ child = "up"
    /\ child' = "exited"
    /\ UNCHANGED <<firstRunVars, status, session, round, then, stop>>

\* reap publishes the exit, under the mutex a commit holds; when the workers
\* are through, Wait returns.
Reap ==
    /\ at # "announce"
    /\ \/ child = "exited" /\ child' = "reaped"
       \/ child = "reaped" /\ child' = "done"
    /\ UNCHANGED <<firstRunVars, status, session, round, then, stop>>

\* The socket fails, a queue is full, the gateway closes: with the revocation as
\* its reason only if the credential stands no longer.
SessionEnds ==
    /\ session = "open"
    /\ \/ session' = "dropped"
       \/ ~Stands(held) /\ session' = "revoked"
    /\ UNCHANGED <<firstRunVars, status, child, round, then, stop>>

\* A signal, or the stop control of the service manager.
StopRun ==
    /\ at # "off"
    /\ stop' = TRUE
    /\ UNCHANGED <<firstRunVars, status, cycleVars>>

\* The process dies; its child dies with its pipe.
Crash ==
    /\ at # "off"
    /\ Exits
    /\ child' = "none" /\ session' = "none"
    /\ UNCHANGED <<fileVars, gatewayVars, forgotten, status, round, then, stop>>

RunStep ==
    \/ LoadCredential \/ Connect \/ Dial \/ Sleep
    \/ SendHello \/ StartChild \/ SendToChild \/ ReceiveFromChild \/ ProbeStudio
    \/ CommitReadiness \/ AwaitExit \/ Announce \/ SendFails \/ RelayEnds \/ TearDown

Next ==
    \/ Start
    \/ (StartStep \/ DeleteConfig \/ DeleteCredential \/ RevokeDevice)
           /\ UNCHANGED <<status, cycleVars, stop>>
    \/ RunStep \/ Dispatch \/ FrameIsTaken
    \/ ChildExits \/ Reap \/ SessionEnds \/ StopRun \/ Crash

\* The run's goroutine runs, and so does the reaper: every wait of theirs but the
\* loop's child.Send has a timeout or a kill behind it.  The loop's select takes
\* any arm that is ready, so it takes an end sooner or later.
Fairness == WF_vars(RunStep) /\ SF_vars(RelayEnds) /\ WF_vars(Reap)

Spec == Init /\ [][Next]_vars
FairSpec == Spec /\ Fairness

-----------------------------------------------------------------------------
(* Properties *)

\* No path of a run asks the status machine for a transition it refuses, which
\* would end the Bridge with an error nobody expects.
StatusIsLegal == status # "illegal"

\* "Cancelling ctx is a clean shutdown": a stopped run returns, wherever it is.
StopReturns == stop /\ at \in RunSteps ~> at \notin RunSteps

\* A session or a child that ends is noticed, during bring-up too, and its cycle
\* is torn down: a session's end as long as the child takes what it is sent
\* (module BridgeRelay shows what becomes of it otherwise).
EndsAreNoticed ==
    /\ []<>(at # "forward") => (session \in {"dropped", "revoked"} ~> session = "none")
    /\ child \in {"exited", "reaped", "done"} ~> child = "none"

\* "If the process dies between the gateway commit and the token response (or the
\* token response is lost), the next run reuses this device id and the server
\* re-claim path mints a fresh credential for the same device" (firstrun.go): no run
\* of the smart flow uses a credential of its device that is older than the one the
\* gateway minted last.  The file is older only where a later pairing of the same
\* device committed and its answer never reached the file; the file of another
\* device, and a credential that was revoked, are other matters.
CutShortPairingIsRepeated ==
    mode = "smart" /\ at \in RunSteps \ {"credential"} /\ held[1] = id
        => held[2] = minted[id]
=============================================================================
