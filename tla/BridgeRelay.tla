----------------------------- MODULE BridgeRelay -----------------------------
(***************************************************************************)
(* One connected cycle of the Bridge: relayLoop and relayState of          *)
(* internal/bridgeapp/remote.go between the gateway session (wsclient.go)  *)
(* and the managed MCP child (internal/mcpprocess/process.go).             *)
(*                                                                         *)
(* The relay loop is one goroutine.  child.Send hands a frame to the       *)
(* process's writer and waits for the result, so the loop has states of    *)
(* its own inside a dispatch.  The pipes and channels between them are     *)
(* bounded.  Everything here is created by a cycle and discarded with it.  *)
(***************************************************************************)
EXTENDS Integers, Sequences, FiniteSets

CONSTANTS Requests,     \* gateway request ids delivered in this cycle
          ChildIds,     \* ids the MCP child uses in requests of its own
          Expirable,    \* bound of the model: requests whose deadline may pass
          QueueSize,    \* processQueueSize: the writes and responses channels
          PipeSize,     \* frames the operating system's pipes hold
          None

LocalIds == 1..Cardinality(Requests)

ASSUME BridgeAssumption ==
    /\ IsFiniteSet(Requests)
    /\ None \notin Requests
    /\ ChildIds \subseteq Nat
    /\ Expirable \subseteq Requests
    /\ QueueSize \in Nat \ {0}
    /\ PipeSize \in Nat \ {0}

VARIABLES
    session,      \* "open", or "closed" once done is closed
    taken,        \* envelopes the loop has received from session.inbound
    ctxDone,      \* the run's context is cancelled
    loop,         \* where the relay loop is
    current,      \* the frame inside child.Send
    nextLocalID,
    localByID,    \* the correlation of a local id, None when there is none
    byGatewayID,  \* the local id of a gateway request, 0 when there is none
    writes,       \* the process's writes channel
    writing,      \* the frame its writer holds, None between frames
    written,      \* the result the writer reported for the current frame
    pendingCalls, \* local ids written to the child and not answered by it
    stdin, stdout, responses,
    child,        \* "alive", "exited" or "reaped" (done is closed)
    childOut,     \* the frame the child is writing to stdout
    executing,    \* requests the child works on
    forwards,     \* per request, what the responses handed to the gateway answer
    cancelled     \* correlations a cancel has dropped, local id and request

sessionVars == <<session, taken, ctxDone>>
loopVars == <<loop, current, nextLocalID, localByID, byGatewayID, forwards, cancelled>>
processVars == <<writes, writing, written, pendingCalls, responses>>
childVars == <<stdin, stdout, child, childOut, executing>>
bridgeVars == <<sessionVars, loopVars, processVars, childVars>>

\* A frame names its kind, its JSON-RPC id and the gateway request it is about.
Frame(k, id, r) == [kind |-> k, id |-> id, req |-> r]
NoFrame == Frame("none", 0, None)
Kinds == {"none", "request", "cancelled", "response", "notification"}
Frames == [kind : Kinds, id : LocalIds \cup ChildIds \cup {0}, req : Requests \cup {None}]
Envelopes == {"request", "cancel"} \X Requests

BridgeTypeOK ==
    /\ session \in {"open", "closed"}
    /\ taken \subseteq Envelopes
    /\ ctxDone \in BOOLEAN
    /\ loop \in {"select", "sending", "awaiting", "stopped"}
    /\ current \in Frames
    /\ nextLocalID \in 1..(Cardinality(Requests) + 1)
    /\ localByID \in [LocalIds -> Requests \cup {None}]
    /\ byGatewayID \in [Requests -> LocalIds \cup {0}]
    /\ writes \in Seq(Frames) /\ Len(writes) <= QueueSize
    /\ writing \in Frames
    /\ written \in BOOLEAN
    /\ pendingCalls \subseteq LocalIds
    /\ stdin \in Seq(Frames) /\ Len(stdin) <= PipeSize
    /\ stdout \in Seq(Frames) /\ Len(stdout) <= PipeSize
    /\ responses \in Seq(Frames) /\ Len(responses) <= QueueSize
    /\ child \in {"alive", "exited", "reaped"}
    /\ childOut \in Frames
    /\ executing \in SUBSET (LocalIds \X Requests)
    /\ forwards \in [Requests -> Seq(Requests \cup {None})]
    /\ cancelled \subseteq LocalIds \X Requests

\* relayLoop starts after the bring-up handshake: the child is up, its queues
\* are empty and no correlation is left.
BridgeInit ==
    /\ session = "open" /\ taken = {} /\ ctxDone = FALSE
    /\ loop = "select" /\ current = NoFrame /\ nextLocalID = 1
    /\ localByID = [i \in LocalIds |-> None]
    /\ byGatewayID = [r \in Requests |-> 0]
    /\ writes = <<>> /\ writing = NoFrame /\ written = FALSE
    /\ pendingCalls = {} /\ responses = <<>>
    /\ stdin = <<>> /\ stdout = <<>> /\ child = "alive" /\ childOut = NoFrame
    /\ executing = {} /\ forwards = [r \in Requests |-> <<>>] /\ cancelled = {}

-----------------------------------------------------------------------------
(* The gateway session *)

\* The connection is lost, or either side closes it.
SessionCloses ==
    /\ session' = "closed"
    /\ UNCHANGED <<taken, ctxDone, loopVars, processVars, childVars>>

\* The Bridge is asked to shut down; exec.CommandContext will kill the child.
Cancel ==
    /\ ctxDone' = TRUE
    /\ UNCHANGED <<session, taken, loopVars, processVars, childVars>>

-----------------------------------------------------------------------------
(* The relay loop *)

\* The ctx.Done arm.
LoopSeesCancel ==
    /\ loop = "select"
    /\ ctxDone
    /\ loop' = "stopped"
    /\ UNCHANGED <<sessionVars, current, nextLocalID, localByID, byGatewayID,
                   forwards, cancelled, processVars, childVars>>

\* The finished arm: the cycle ends.
LoopSeesClose ==
    /\ loop = "select"
    /\ session = "closed"
    /\ loop' = "stopped"
    /\ UNCHANGED <<sessionVars, current, nextLocalID, localByID, byGatewayID,
                   forwards, cancelled, processVars, childVars>>

\* Mutant: the loop does not watch the child.
LoopSeesExit_Never == FALSE /\ UNCHANGED bridgeVars

\* The waitResult arm: Wait returned because the process is reaped.
LoopSeesExit ==
    /\ loop = "select"
    /\ child = "reaped"
    /\ loop' = "stopped"
    /\ UNCHANGED <<sessionVars, current, nextLocalID, localByID, byGatewayID,
                   forwards, cancelled, processVars, childVars>>

\* The loop receives an envelope from session.inbound, which readLoop fills in
\* the order of the gateway: each envelope once, a cancel after its request.
\* What is buffered there outlives the session.
Dispatches(k, r) ==
    /\ loop = "select"
    /\ <<k, r>> \notin taken
    /\ k = "cancel" => <<"request", r>> \in taken
    /\ taken' = taken \cup {<<k, r>>}

\* forwardRequest drops a request that is already past its deadline.  It looks at
\* the clock once, so the deadline is no variable.
DropExpired(r) ==
    /\ Dispatches("request", r)
    /\ r \in Expirable
    /\ UNCHANGED <<session, ctxDone, loopVars, processVars, childVars>>

\* Mutant: the local id is not advanced.
ForwardRequest_ReusesId(r) ==
    /\ Dispatches("request", r)
    /\ current' = Frame("request", nextLocalID, r)
    /\ loop' = "sending"
    /\ UNCHANGED <<session, ctxDone, nextLocalID, localByID, byGatewayID, forwards,
                   cancelled, processVars, childVars>>

\* forwardRequest gives the request the next local id and enters child.Send.
ForwardRequest(r) ==
    /\ Dispatches("request", r)
    /\ current' = Frame("request", nextLocalID, r)
    /\ nextLocalID' = nextLocalID + 1
    /\ loop' = "sending"
    /\ UNCHANGED <<session, ctxDone, localByID, byGatewayID, forwards,
                   cancelled, processVars, childVars>>

\* Mutant: the cancelled call's local id stays correlated.
ForwardCancel_KeepsLocal(r) ==
    /\ Dispatches("cancel", r)
    /\ byGatewayID[r] # 0
    /\ byGatewayID' = [byGatewayID EXCEPT ![r] = 0]
    /\ cancelled' = cancelled \cup {<<byGatewayID[r], r>>}
    /\ current' = Frame("cancelled", byGatewayID[r], r)
    /\ loop' = "sending"
    /\ UNCHANGED <<session, ctxDone, nextLocalID, localByID, forwards,
                   processVars, childVars>>

\* Mutant: an uncorrelated cancel is not ignored.
ForwardCancel_Unchecked(r) ==
    /\ Dispatches("cancel", r)
    /\ byGatewayID' = [byGatewayID EXCEPT ![r] = 0]
    /\ localByID' = [i \in LocalIds |-> IF i = byGatewayID[r] THEN None ELSE localByID[i]]
    /\ cancelled' = cancelled \cup {<<byGatewayID[r], r>>}
    /\ current' = Frame("cancelled", byGatewayID[r], r)
    /\ loop' = "sending"
    /\ UNCHANGED <<session, ctxDone, nextLocalID, forwards, processVars, childVars>>

\* forwardCancel drops the correlation, then tells the child.
ForwardCancel(r) ==
    /\ Dispatches("cancel", r)
    /\ byGatewayID[r] # 0
    /\ byGatewayID' = [byGatewayID EXCEPT ![r] = 0]
    /\ localByID' = [localByID EXCEPT ![byGatewayID[r]] = None]
    /\ cancelled' = cancelled \cup {<<byGatewayID[r], r>>}
    /\ current' = Frame("cancelled", byGatewayID[r], r)
    /\ loop' = "sending"
    /\ UNCHANGED <<session, ctxDone, nextLocalID, forwards, processVars, childVars>>

\* A cancel for a request that is answered, dropped or was never written.
CancelUnknown(r) ==
    /\ Dispatches("cancel", r)
    /\ byGatewayID[r] = 0
    /\ UNCHANGED <<session, ctxDone, loopVars, processVars, childVars>>

\* Mutant: the response is routed but its correlation is kept.
RouteChildFrame_Keeps ==
    /\ loop = "select"
    /\ responses # <<>>
    /\ responses' = Tail(responses)
    /\ LET f == Head(responses)
           known == f.id \in LocalIds /\ localByID[f.id] # None
       IN IF known
          THEN /\ localByID' = [localByID EXCEPT ![f.id] = None]
               /\ forwards' = IF session = "open"
                              THEN [forwards EXCEPT ![localByID[f.id]] = Append(@, f.req)]
                              ELSE forwards
          ELSE UNCHANGED <<localByID, forwards>>
    /\ UNCHANGED <<sessionVars, loop, current, nextLocalID, byGatewayID, cancelled,
                   writes, writing, written, pendingCalls, childVars>>

\* session.enqueue hands the writer an answer to request r; a full queue closes
\* the session, and a closed one loses the answer.
Enqueue(r, answer) ==
    \/ /\ session = "open"
       /\ forwards' = [forwards EXCEPT ![r] = Append(@, answer)]
       /\ UNCHANGED session
    \/ /\ session' = "closed"
       /\ UNCHANGED forwards

\* routeChildFrame looks at the frame's id only: a live correlation is retired
\* and its request answered, anything else is discarded.
RouteChildFrame ==
    /\ loop = "select"
    /\ responses # <<>>
    /\ responses' = Tail(responses)
    /\ LET f == Head(responses)
           known == f.id \in LocalIds /\ localByID[f.id] # None
       IN IF known
          THEN /\ localByID' = [localByID EXCEPT ![f.id] = None]
               /\ byGatewayID' = [byGatewayID EXCEPT ![localByID[f.id]] = 0]
               /\ Enqueue(localByID[f.id], f.req)
          ELSE UNCHANGED <<session, localByID, byGatewayID, forwards>>
    /\ UNCHANGED <<taken, ctxDone, loop, current, nextLocalID, cancelled,
                   writes, writing, written, pendingCalls, childVars>>

\* Inside child.Send: the writes channel takes the frame unless the run is
\* cancelled ...
SendAccepted ==
    /\ loop = "sending"
    /\ ~ctxDone
    /\ Len(writes) < QueueSize
    /\ writes' = Append(writes, current)
    /\ loop' = "awaiting"
    /\ UNCHANGED <<sessionVars, current, nextLocalID, localByID, byGatewayID,
                   forwards, cancelled, writing, written, pendingCalls, responses,
                   childVars>>

\* ... and the writer reports success; only then is a request correlated.
SendDone ==
    /\ loop = "awaiting"
    /\ written
    /\ written' = FALSE
    /\ IF current.kind = "request"
       THEN /\ localByID' = [localByID EXCEPT ![current.id] = current.req]
            /\ byGatewayID' = [byGatewayID EXCEPT ![current.req] = current.id]
       ELSE UNCHANGED <<localByID, byGatewayID>>
    /\ current' = NoFrame
    /\ loop' = "select"
    /\ UNCHANGED <<sessionVars, nextLocalID, forwards, cancelled, writes, writing,
                   pendingCalls, responses, childVars>>

\* The child is gone or the run is cancelled: Send returns an error, which
\* dispatch's caller ignores.  A frame in the writes channel stays there.
SendFails ==
    /\ loop \in {"sending", "awaiting"}
    /\ child # "alive" \/ ctxDone
    /\ current' = NoFrame
    /\ written' = FALSE
    /\ loop' = "select"
    /\ UNCHANGED <<sessionVars, nextLocalID, localByID, byGatewayID, forwards,
                   cancelled, writes, writing, pendingCalls, responses, childVars>>

-----------------------------------------------------------------------------
(* The managed process: writer, stdout reader and reaper *)

\* writeLoop takes a frame and counts its id as pending before writing it; the
\* frame of a cancelled run is dropped instead.
WriterTakes ==
    /\ child = "alive"
    /\ writing = NoFrame
    /\ writes # <<>>
    /\ writes' = Tail(writes)
    /\ writing' = IF ctxDone THEN NoFrame ELSE Head(writes)
    /\ pendingCalls' = IF Head(writes).kind = "request" /\ ~ctxDone
                       THEN pendingCalls \cup {Head(writes).id} ELSE pendingCalls
    /\ UNCHANGED <<sessionVars, loopVars, written, responses, childVars>>

\* The write blocks while the pipe is full.
WriterFlushes ==
    /\ child = "alive"
    /\ writing # NoFrame
    /\ Len(stdin) < PipeSize
    /\ stdin' = Append(stdin, writing)
    /\ writing' = NoFrame
    /\ written' = TRUE
    /\ UNCHANGED <<sessionVars, loopVars, writes, pendingCalls, responses,
                   stdout, child, childOut, executing>>

\* readResponses drops a response nobody waits for; the rest waits for room in
\* the responses channel.
ReadStdout ==
    /\ stdout # <<>>
    /\ LET f == Head(stdout)
           valid == f.kind = "response" => f.id \in pendingCalls
       IN /\ valid => Len(responses) < QueueSize
          /\ responses' = IF valid THEN Append(responses, f) ELSE responses
          /\ pendingCalls' = IF f.kind = "response" THEN pendingCalls \ {f.id}
                             ELSE pendingCalls
    /\ stdout' = Tail(stdout)
    /\ UNCHANGED <<sessionVars, loopVars, writes, writing, written, stdin, child,
                   childOut, executing>>

\* cmd.Wait returned: reap marks the process as stopping and shuts the workers
\* down ...
ChildExits ==
    /\ child = "alive"
    /\ child' = "exited"
    /\ stdin' = <<>>
    /\ childOut' = NoFrame
    /\ executing' = {}
    /\ UNCHANGED <<sessionVars, loopVars, processVars, stdout>>

\* ... and closes done when they have returned.
Reap ==
    /\ child = "exited"
    /\ child' = "reaped"
    /\ writing' = NoFrame
    /\ stdout' = <<>>
    /\ UNCHANGED <<sessionVars, loopVars, writes, written, pendingCalls, responses,
                   stdin, childOut, executing>>

\* connectedCycle's deferred cleanup: stopProcess shuts the child's input and
\* kills it when that takes too long ...
StopChild ==
    /\ loop = "stopped"
    /\ ChildExits

\* ... waits for it to be reaped, and the session is closed.
CloseSession ==
    /\ loop = "stopped"
    /\ child = "reaped"
    /\ SessionCloses

-----------------------------------------------------------------------------
(* The MCP child, a single thread that reads a frame or writes one *)

ChildReads ==
    /\ child = "alive"
    /\ childOut = NoFrame
    /\ stdin # <<>>
    /\ stdin' = Tail(stdin)
    /\ LET f == Head(stdin)
       IN IF f.kind = "request"
          THEN executing' = executing \cup {<<f.id, f.req>>}
          ELSE executing' \in {executing, executing \ {<<f.id, f.req>>}}
    /\ UNCHANGED <<sessionVars, loopVars, processVars, stdout, child, childOut>>

ChildAnswers(id, r) ==
    /\ child = "alive"
    /\ childOut = NoFrame
    /\ <<id, r>> \in executing
    /\ executing' = executing \ {<<id, r>>}
    /\ childOut' = Frame("response", id, r)
    /\ UNCHANGED <<sessionVars, loopVars, processVars, stdin, stdout, child>>

\* A notification, or a request of the child's own.
ChildEmits ==
    /\ child = "alive"
    /\ childOut = NoFrame
    /\ childOut' \in {Frame("notification", 0, None)}
                     \cup {Frame("request", id, None) : id \in ChildIds}
    /\ UNCHANGED <<sessionVars, loopVars, processVars, stdin, stdout, child,
                   executing>>

ChildWrites ==
    /\ child = "alive"
    /\ childOut # NoFrame
    /\ Len(stdout) < PipeSize
    /\ stdout' = Append(stdout, childOut)
    /\ childOut' = NoFrame
    /\ UNCHANGED <<sessionVars, loopVars, processVars, stdin, child, executing>>

-----------------------------------------------------------------------------
Dispatch ==
    \E r \in Requests : \/ DropExpired(r) \/ ForwardRequest(r)
                        \/ ForwardCancel(r) \/ CancelUnknown(r)

LoopStep ==
    \/ LoopSeesCancel \/ LoopSeesClose \/ LoopSeesExit
    \/ RouteChildFrame
    \/ SendAccepted \/ SendDone \/ SendFails

BridgeNext ==
    \/ Cancel \/ SessionCloses \/ CloseSession \/ StopChild
    \/ Dispatch \/ LoopStep
    \/ WriterTakes \/ WriterFlushes \/ ReadStdout \/ ChildExits \/ Reap
    \/ ChildReads \/ ChildEmits \/ ChildWrites
    \/ \E id \in LocalIds, r \in Requests : ChildAnswers(id, r)

\* Goroutines run, and Go's select chooses each ready arm again and again; of the
\* three arms that end the loop any one will do.  The child is as helpful as can be:
\* it writes what it has begun to write and keeps reading its input whenever it
\* can; it need not answer.
BridgeFairness ==
    /\ WF_bridgeVars(LoopStep)
    /\ SF_bridgeVars(LoopSeesCancel \/ LoopSeesClose \/ LoopSeesExit)
    /\ WF_bridgeVars(WriterTakes \/ WriterFlushes)
    /\ WF_bridgeVars(ReadStdout)
    /\ WF_bridgeVars(Reap)
    /\ SF_bridgeVars(ChildReads)
    /\ WF_bridgeVars(ChildWrites)
    /\ WF_bridgeVars(StopChild \/ CloseSession)

BridgeSafety == BridgeInit /\ [][BridgeNext]_bridgeVars
BridgeSpec == BridgeSafety /\ BridgeFairness

-----------------------------------------------------------------------------
(* Properties *)

\* The two maps of relayState are inverse to each other, so neither a cancel nor
\* a response can retire half a correlation.
MapsAgree ==
    /\ \A r \in Requests : byGatewayID[r] # 0 => localByID[byGatewayID[r]] = r
    /\ \A i \in LocalIds : localByID[i] # None => byGatewayID[localByID[i]] = i

\* "Two concurrent gateway requests can never collide inside the child": no
\* response goes out under the gateway id of another request than the one the
\* child answered, and no request is answered twice.  A frame the child made up
\* itself may stand in the answer's place.
NeverCollide ==
    \A r \in Requests : forwards[r] \in {<<>>, <<r>>, <<None>>}

\* Once a cancel has dropped a correlation the child's answer to it is discarded.
NoAnswerAfterCancel ==
    [][\A p \in cancelled : forwards'[p[2]] = forwards[p[2]]]_bridgeVars

\* Between dispatches of a live cycle, a call the child has not answered yet can
\* still be answered: it is correlated unless it was cancelled.  A request of the
\* child's own retires the correlation of the same id.
WrittenIsCorrelated ==
    loop = "select" /\ child = "alive" /\ ~ctxDone =>
        \A i \in pendingCalls \ ChildIds :
            localByID[i] # None \/ \E r \in Requests : <<i, r>> \in cancelled

\* A call and its correlation are one: neither is there without the other, but for
\* calls that were cancelled.
Correlated == MapsAgree /\ WrittenIsCorrelated

\* "Any session or child failure ends the cycle", for the child, and so does a
\* shutdown: even a loop blocked in child.Send notices.  A cycle that ends leaves
\* neither its child nor its session behind.  Each of these lasts.
CycleEnds ==
    <>[] /\ child # "alive" \/ ctxDone => loop = "stopped"
         /\ loop = "stopped" => child = "reaped" /\ session = "closed"

\* "Any session or child failure ends the cycle", for the session.
SessionCloseEndsCycle == session = "closed" ~> loop = "stopped"

=============================================================================
