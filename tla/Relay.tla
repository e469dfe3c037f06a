-------------------------------- MODULE Relay --------------------------------
(***************************************************************************)
(* One relayed MCP call, internal/mcpgateway/relay.go CallDetailed, running *)
(* over the correlation registry (Pending) and the live connections (Hub). *)
(*                                                                         *)
(* Call r is made by a goroutine of its own (pc[r]) that starts a watcher  *)
(* goroutine on the connection it saw.  The watcher runs FailDevice, so it *)
(* is sweeper r of Pending; the remaining sweepers end MCP sessions.  The  *)
(* device's side is reduced to what the gateway can tell: a delivered      *)
(* request is worked on until it is answered or cancelled.                 *)
(***************************************************************************)
EXTENDS Pending, Hub

ASSUME RelayAssumption ==
    /\ Requests \subseteq Sweepers
    /\ Downlink = {"request", "cancel"} \X Requests
    /\ Uplink = Requests
    /\ ResolveOutcomes = {"response", "deviceGone", "invalidResponse"}

VARIABLES
    pc,       \* where CallDetailed is
    ret,      \* what it returned to its caller
    target,   \* target.DeviceID
    watch,    \* the connection a running watcher waits on
    sentOn,   \* the connection whose queue took the request
    work      \* what the device knows of the request

callVars == <<pc, ret, target, watch, sentOn, work>>
relayVars == <<pendingVars, hubVars, callVars>>

CallStates == {"idle", "registered", "associated", "watching", "waiting",
               "cancelling", "returned"}
Returns == Outcomes \cup {"busy", "noTarget"}
WorkStates == {"unseen", "working", "answered", "cancelled"}

CallTypeOK ==
    /\ pc \in [Requests -> CallStates]
    /\ ret \in [Requests -> Returns \cup {NoOutcome}]
    /\ target \in [Requests -> Devices \cup {None}]
    /\ watch \in [Requests -> Conns \cup {None}]
    /\ sentOn \in [Requests -> Conns \cup {None}]
    /\ work \in [Requests -> WorkStates]

RelayTypeOK == TypeOK /\ HubTypeOK /\ CallTypeOK

RelayInit ==
    /\ PendingInit
    /\ HubInit
    /\ pc = [r \in Requests |-> "idle"]
    /\ ret = [r \in Requests |-> NoOutcome]
    /\ target = [r \in Requests |-> None]
    /\ watch = [r \in Requests |-> None]
    /\ sentOn = [r \in Requests |-> None]
    /\ work = [r \in Requests |-> "unseen"]

-----------------------------------------------------------------------------
(* CallDetailed, one step per access to shared state *)

Goto(r, l) == pc' = [pc EXCEPT ![r] = l]

Return(r, o) ==
    /\ Goto(r, "returned")
    /\ ret' = [ret EXCEPT ![r] = o]

\* resolveTarget finds no Studio for the grant.  It decides by the last status
\* of the grant's device, which outlives the connection that brought it; what
\* that status says is left open.
CallUnresolved(r) ==
    /\ pc[r] = "idle"
    /\ Return(r, "noTarget")
    /\ UNCHANGED <<pendingVars, hubVars, target, watch, sentOn, work>>

\* The grant resolved to its device d, and Register admits the request.
CallRegister(r, s, d) ==
    /\ pc[r] = "idle"
    /\ Register(r, s)
    /\ target' = [target EXCEPT ![r] = d]
    /\ Goto(r, "registered")
    /\ UNCHANGED <<hubVars, ret, watch, sentOn, work>>

\* Register reports ErrTooManyPending.
CallBusy(r) ==
    /\ pc[r] = "idle"
    /\ Full
    /\ Return(r, "busy")
    /\ UNCHANGED <<pendingVars, hubVars, target, watch, sentOn, work>>

CallAssociate(r) ==
    /\ pc[r] = "registered"
    /\ r \in entries
    /\ Associate(r, target[r])
    /\ Goto(r, "associated")
    /\ UNCHANGED <<hubVars, ret, target, watch, sentOn, work>>

\* Associate reports ErrUnknownCorrelation: the entry was completed between
\* the two calls, by its deadline or by the end of its session.
CallAssociateFails(r) ==
    /\ pc[r] = "registered"
    /\ r \notin entries
    /\ Resolve(r, "invalidResponse")
    /\ Return(r, "invalidResponse")
    /\ UNCHANGED <<hubVars, target, watch, sentOn, work>>

\* Registry.Get finds a connection and the watcher starts on it.
CallGetConn(r) ==
    /\ pc[r] = "associated"
    /\ registry[target[r]] # None
    /\ watch' = [watch EXCEPT ![r] = registry[target[r]]]
    /\ Goto(r, "watching")
    /\ UNCHANGED <<pendingVars, hubVars, ret, target, sentOn, work>>

\* Mutant: the call returns without retiring its correlation.
CallOffline_NoResolve(r) ==
    /\ pc[r] = "associated"
    /\ registry[target[r]] = None
    /\ Return(r, "deviceGone")
    /\ UNCHANGED <<pendingVars, hubVars, target, watch, sentOn, work>>

CallOffline(r) ==
    /\ pc[r] = "associated"
    /\ registry[target[r]] = None
    /\ Resolve(r, "deviceGone")
    /\ Return(r, "deviceGone")
    /\ UNCHANGED <<hubVars, target, watch, sentOn, work>>

\* Registry.Send looks the device up again, so the request may leave on a
\* newer connection than the one being watched.
CallSend(r) ==
    /\ pc[r] = "watching"
    /\ Accepts(target[r])
    /\ Send(target[r], <<"request", r>>)
    /\ sentOn' = [sentOn EXCEPT ![r] = registry[target[r]]]
    /\ Goto(r, "waiting")
    /\ UNCHANGED <<pendingVars, ret, target, watch, work>>

\* Mutant: a full queue blocks the caller's delivery into a closed connection
\* and still reports the device as gone.
CallSendFails_Queued(r) ==
    /\ pc[r] = "watching"
    /\ ~Accepts(target[r])
    /\ IF registry[target[r]] # None
       THEN queue' = [queue EXCEPT ![registry[target[r]]] = Append(@, <<"request", r>>)]
       ELSE UNCHANGED queue
    /\ Resolve(r, "deviceGone")
    /\ Return(r, "deviceGone")
    /\ UNCHANGED <<registry, connDevice, closed, replaced, disconnecting, inbox,
                   reader, target, watch, sentOn, work>>

\* Registry.Send fails: the device is offline, its connection is closed, or
\* its queue is full, which closes it.
CallSendFails(r) ==
    /\ pc[r] = "watching"
    /\ ~Accepts(target[r])
    /\ Send(target[r], <<"request", r>>)
    /\ Resolve(r, "deviceGone")
    /\ Return(r, "deviceGone")
    /\ UNCHANGED <<target, watch, sentOn, work>>

\* Registry.Send refuses a caller whose context is done.  A context may be done
\* at any moment, so it is no variable: the two steps that look at it may find
\* it done, and no fairness obliges them to.
CallGivesUp(r) ==
    /\ pc[r] = "watching"
    /\ Resolve(r, "deviceGone")
    /\ Return(r, "deviceGone")
    /\ UNCHANGED <<hubVars, target, watch, sentOn, work>>

\* validateRelayResponse: a payload that does not answer the relayed JSON-RPC
\* request is an invalid response.
Judged(o) == IF o = "response" THEN {"response", "invalidResponse"} ELSE {o}

\* The outcome arrives.
CallReceive(r) ==
    /\ pc[r] = "waiting"
    /\ result[r] # NoOutcome
    /\ \E o \in Judged(result[r]) : ret' = [ret EXCEPT ![r] = o]
    /\ Goto(r, IF result[r] \in {"deadline", "cancelled"} THEN "cancelling" ELSE "returned")
    /\ UNCHANGED <<pendingVars, hubVars, target, watch, sentOn, work>>

\* ctx.Done wins the select: the registration is left to its deadline.
CallCtxDone(r) ==
    /\ pc[r] = "waiting"
    /\ ret' = [ret EXCEPT ![r] = "cancelled"]
    /\ Goto(r, "cancelling")
    /\ UNCHANGED <<pendingVars, hubVars, target, watch, sentOn, work>>

\* Mutant: a timed-out or abandoned call returns without telling the device.
SendCancel_Skipped(r) ==
    /\ pc[r] = "cancelling"
    /\ Goto(r, "returned")
    /\ UNCHANGED <<pendingVars, hubVars, ret, target, watch, sentOn, work>>

\* sendCancel: best effort, on whatever connection the device has now.
SendCancel(r) ==
    /\ pc[r] = "cancelling"
    /\ Send(target[r], <<"cancel", r>>)
    /\ Goto(r, "returned")
    /\ UNCHANGED <<pendingVars, ret, target, watch, sentOn, work>>

-----------------------------------------------------------------------------
(* The watcher *)

\* Mutant: the watcher stops without failing the device's requests.
WatcherFire_Ignored(r) ==
    /\ watch[r] # None
    /\ watch[r] \in closed
    /\ watch' = [watch EXCEPT ![r] = None]
    /\ UNCHANGED <<pendingVars, hubVars, pc, ret, target, sentOn, work>>

\* Mutant: the watcher waits for the registry to forget its connection, which may
\* come before the close.
WatcherFire_Forgotten(r) ==
    /\ watch[r] # None
    /\ registry[target[r]] # watch[r]
    /\ FailDevice(r, target[r])
    /\ watch' = [watch EXCEPT ![r] = None]
    /\ UNCHANGED <<hubVars, pc, ret, target, sentOn, work>>

\* The watched connection is done: fail every request of the device.  When the
\* call has returned as well the select may still choose this branch.
WatcherFire(r) ==
    /\ watch[r] # None
    /\ watch[r] \in closed
    /\ FailDevice(r, target[r])
    /\ watch' = [watch EXCEPT ![r] = None]
    /\ UNCHANGED <<hubVars, pc, ret, target, sentOn, work>>

WatcherStop(r) ==
    /\ watch[r] # None
    /\ pc[r] = "returned"
    /\ watch' = [watch EXCEPT ![r] = None]
    /\ UNCHANGED <<pendingVars, hubVars, pc, ret, target, sentOn, work>>

-----------------------------------------------------------------------------
(* The device, and HandleEnvelope *)

\* The writer puts an envelope on the wire and the device acts on it.  A cancel
\* for a request it does not hold is ignored.
DeliverToDevice(c) ==
    /\ Write(c)
    /\ LET kind == Head(queue[c])[1]
           r == Head(queue[c])[2]
       IN work' = [work EXCEPT ![r] =
              IF kind = "request" THEN "working"
              ELSE IF @ = "working" THEN "cancelled" ELSE @]
    /\ UNCHANGED <<pendingVars, pc, ret, target, watch, sentOn>>

\* The device answers on the connection that brought the request.
DeviceAnswers(c, r) ==
    /\ work[r] = "working"
    /\ sentOn[r] = c
    /\ DeviceSends(c, r)
    /\ work' = [work EXCEPT ![r] = "answered"]
    /\ UNCHANGED <<pendingVars, pc, ret, target, watch, sentOn>>

\* HandleEnvelope on a response: resolve the correlation it names; a late
\* response finds none and is dropped.
HandleResponse(c) ==
    /\ Handled(c)
    /\ Resolve(Head(inbox[c]), "response")
    /\ UNCHANGED callVars

-----------------------------------------------------------------------------
CallStep(r) ==
    \/ CallAssociate(r) \/ CallAssociateFails(r)
    \/ CallGetConn(r) \/ CallOffline(r)
    \/ CallSend(r) \/ CallSendFails(r)
    \/ CallReceive(r)
    \/ SendCancel(r)

\* The HTTP goroutine of a connection, once something makes it run.
ConnStep(c) ==
    \/ HandleResponse(c)
    \/ /\ Start(c) \/ (c \in closed /\ ReadFails(c)) \/ Leave(c)
       /\ UNCHANGED <<pendingVars, callVars>>

PendingOnly ==
    /\ \/ \E r \in Requests : TimerFire(r) \/ TimerDeliver(r) \/ SendResult(r)
       \/ \E w \in Sweepers : SweepNext(w)
       \/ \E w \in Sweepers \ Requests, s \in Sessions : CancelSession(w, s)
    /\ UNCHANGED <<hubVars, callVars>>

HubOnly ==
    /\ \/ \E c \in Conns, d \in Devices : Connect(c, d)
       \/ \E c \in Conns : \/ Start(c) \/ CloseConn(c) \/ FinishDisconnect(c)
                           \/ Hello(c) \/ Read(c) \/ ReadFails(c) \/ Leave(c)
                           \/ WriteFails(c)
       \/ \E d \in Devices : Disconnect(d)
    /\ UNCHANGED <<pendingVars, callVars>>

RelayNext ==
    \/ \E r \in Requests, s \in Sessions, d \in Devices : CallRegister(r, s, d)
    \/ \E r \in Requests : \/ CallUnresolved(r) \/ CallBusy(r) \/ CallStep(r)
                           \/ CallGivesUp(r) \/ CallCtxDone(r)
                           \/ WatcherFire(r) \/ WatcherStop(r)
    \/ \E c \in Conns : DeliverToDevice(c) \/ HandleResponse(c)
    \/ \E c \in Conns, r \in Requests : DeviceAnswers(c, r)
    \/ PendingOnly
    \/ HubOnly

\* Every runnable goroutine runs and every write ends, in success or in
\* failure.  No deadline has to pass, no device has to answer, no caller has to
\* give up: what the calls promise must not depend on those.
RelayFairness ==
    /\ \A r \in Requests :
          /\ WF_relayVars(CallStep(r))
          /\ WF_relayVars(WatcherFire(r)
                          \/ (SweepNext(r) /\ UNCHANGED <<hubVars, callVars>>))
          /\ WF_relayVars((TimerDeliver(r) \/ SendResult(r)) /\ UNCHANGED <<hubVars, callVars>>)
    /\ \A w \in Sweepers \ Requests :
          WF_relayVars(SweepNext(w) /\ UNCHANGED <<hubVars, callVars>>)
    /\ \A c \in Conns :
          /\ WF_relayVars(ConnStep(c))
          /\ WF_relayVars(FinishDisconnect(c) /\ UNCHANGED <<pendingVars, callVars>>)
          /\ WF_relayVars(DeliverToDevice(c))

RelaySafety == RelayInit /\ [][RelayNext]_relayVars
RelaySpec == RelaySafety /\ RelayFairness

-----------------------------------------------------------------------------
(* Properties *)

\* A call told that it has no target, that its device is offline or that the
\* gateway is busy never reached the device and never will: its caller may
\* safely repeat it.
RefusedMeansUndelivered ==
    \A r \in Requests :
        ret[r] \in {"noTarget", "deviceGone", "busy"} =>
            /\ work[r] = "unseen"
            /\ \A c \in Conns : \A i \in 1..Len(queue[c]) : queue[c][i] # <<"request", r>>

\* A call leaves its registration behind only when its caller gave up waiting;
\* every other return has retired the correlation, so late answers find none.
OnlyAbandonedCallsLinger ==
    \A r \in Requests :
        pc[r] = "returned" /\ r \in entries => ret[r] = "cancelled"

\* A call returns once its connection or its time is over: a request in flight on
\* a connection that closed is answered without waiting for its deadline, also when
\* the watched connection is not the one that took the request; and once its
\* deadline fires a call returns, whatever the device does.
CallsEnd ==
    \A r \in Requests :
        (pc[r] = "waiting" /\ sentOn[r] \in closed) \/ timer[r] = "fired"
            ~> pc[r] = "returned"

\* "Timeout and cancellation also deliver a cancel envelope to the device so
\* Studio stops working": the device stops, unless its connection is lost.
AbandonedWorkStops ==
    \A r \in Requests :
        pc[r] = "returned" /\ ret[r] \in {"deadline", "cancelled"} ~>
            work[r] \in {"answered", "cancelled"} \/ sentOn[r] \in closed

\* A call is told that its device failed only after a connection of that very
\* device was closed, whichever call's watcher noticed it: another device's end
\* does not reach it, nor does being replaced or detached before the close.
DeviceFailedMeansClosed ==
    \A r \in Requests :
        ret[r] = "deviceFailed" => \E c \in closed : connDevice[c] = target[r]
=============================================================================
