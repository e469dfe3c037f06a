--------------------------------- MODULE Hub ---------------------------------
(***************************************************************************)
(* The gateway's live device connections: internal/bridgehub registry.go,  *)
(* connection.go and the serve loop of handler.go.                         *)
(*                                                                         *)
(* A connection is one accepted WebSocket, so an element of Conns connects *)
(* at most once.  It has three goroutines here: the HTTP goroutine that    *)
(* registers it, closes the connection it replaced and then runs the read  *)
(* loop; the writer that drains its bounded queue; and whoever closes it   *)
(* (hello and heartbeat timers, reauthentication, shutdown).  The mutex of *)
(* the registry and the mutex of a connection are different: replacing or  *)
(* detaching a connection and closing it are separate steps.               *)
(***************************************************************************)
EXTENDS Ids, Integers, Sequences

CONSTANTS Conns,       \* accepted WebSocket connections
          Downlink,    \* envelopes the gateway sends to a device
          Uplink,      \* envelopes a device sends after its hello
          QueueDepth,  \* capacity of a connection's writer queue
          InboxBound,  \* bound of the model: frames in flight from a device
          Disconnectable  \* bound of the model: devices somebody disconnects

ASSUME HubAssumption ==
    /\ QueueDepth \in Nat \ {0}
    /\ InboxBound \in Nat
    /\ Disconnectable \subseteq Devices
    /\ None \notin Conns

VARIABLES
    registry,       \* Registry.conns
    connDevice,     \* the device a connection authenticated as, None before
    closed,         \* connections whose closed flag is set and done is closed
    replaced,       \* what Register returned to a connection's HTTP goroutine,
                    \* until that goroutine has closed it
    disconnecting,  \* detached by Registry.Disconnect, close still to come
    queue,          \* Connection.send
    inbox,          \* frames on the wire from the device, oldest first
    reader          \* where the connection's HTTP goroutine is

hubVars == <<registry, connDevice, closed, replaced, disconnecting, queue,
             inbox, reader>>

\* absent: not accepted; starting: registered, its predecessor not yet closed;
\* hello: waiting for the first envelope; handling: between ws.Read and the end
\* of OnEnvelope; leaving: before the deferred removeIfCurrent; left: after it.
ReaderStates == {"absent", "starting", "hello", "reading", "handling",
                 "leaving", "left"}

HubTypeOK ==
    /\ registry \in [Devices -> Conns \cup {None}]
    /\ connDevice \in [Conns -> Devices \cup {None}]
    /\ closed \subseteq Conns
    /\ replaced \in [Conns -> Conns \cup {None}]
    /\ disconnecting \subseteq Conns
    /\ queue \in [Conns -> Seq(Downlink)]
    /\ inbox \in [Conns -> Seq(Uplink)]
    /\ reader \in [Conns -> ReaderStates]

HubInit ==
    /\ registry = [d \in Devices |-> None]
    /\ connDevice = [c \in Conns |-> None]
    /\ closed = {}
    /\ replaced = [c \in Conns |-> None]
    /\ disconnecting = {}
    /\ queue = [c \in Conns |-> <<>>]
    /\ inbox = [c \in Conns |-> <<>>]
    /\ reader = [c \in Conns |-> "absent"]

Connected(c) == connDevice[c] # None

-----------------------------------------------------------------------------
(* Connecting and closing *)

\* ServeHTTP up to Registry.Register: the newest connection takes the device's
\* entry and learns which connection it replaced.
Connect(c, d) ==
    /\ ~Connected(c)
    /\ connDevice' = [connDevice EXCEPT ![c] = d]
    /\ registry' = [registry EXCEPT ![d] = c]
    /\ replaced' = [replaced EXCEPT ![c] = registry[d]]
    /\ reader' = [reader EXCEPT ![c] = "starting"]
    /\ UNCHANGED <<closed, disconnecting, queue, inbox>>

\* The rest of ServeHTTP: it closes the replaced connection, then starts the
\* writer and enters the read loop.
Start(c) ==
    /\ reader[c] = "starting"
    /\ closed' = closed \cup ({replaced[c]} \ {None})
    /\ replaced' = [replaced EXCEPT ![c] = None]
    /\ reader' = [reader EXCEPT ![c] = "hello"]
    /\ UNCHANGED <<registry, connDevice, disconnecting, queue, inbox>>

\* Connection.close from any other goroutine: hello timeout, missed heartbeat,
\* failed write, refused reauthentication, or Registry.CloseAll.
CloseConn(c) ==
    /\ Connected(c)
    /\ closed' = closed \cup {c}
    /\ UNCHANGED <<registry, connDevice, replaced, disconnecting, queue, inbox, reader>>

\* Mutant: the map's ok result is ignored, so an absent connection is closed.
Disconnect_Absent(d) ==
    /\ d \in Disconnectable
    /\ registry' = [registry EXCEPT ![d] = None]
    /\ disconnecting' = disconnecting \cup {registry[d]}
    /\ UNCHANGED <<connDevice, closed, replaced, queue, inbox, reader>>

\* Registry.Disconnect takes the connection out of the map under the registry's
\* lock ...
Disconnect(d) ==
    /\ d \in Disconnectable
    /\ registry[d] # None
    /\ registry' = [registry EXCEPT ![d] = None]
    /\ disconnecting' = disconnecting \cup {registry[d]}
    /\ UNCHANGED <<connDevice, closed, replaced, queue, inbox, reader>>

\* ... and closes it after releasing that lock.
FinishDisconnect(c) ==
    /\ c \in disconnecting
    /\ disconnecting' = disconnecting \ {c}
    /\ closed' = closed \cup {c}
    /\ UNCHANGED <<registry, connDevice, replaced, queue, inbox, reader>>

-----------------------------------------------------------------------------
(* The read loop *)

\* A frame reaches the gateway's side of the socket.
DeviceSends(c, m) ==
    /\ Connected(c)
    /\ reader[c] \notin {"leaving", "left"}
    /\ Len(inbox[c]) < InboxBound
    /\ inbox' = [inbox EXCEPT ![c] = Append(@, m)]
    /\ UNCHANGED <<registry, connDevice, closed, replaced, disconnecting, queue, reader>>

\* The first envelope is the hello; anything else ends the loop (ReadFails).
Hello(c) ==
    /\ reader[c] = "hello"
    /\ reader' = [reader EXCEPT ![c] = "reading"]
    /\ UNCHANGED <<registry, connDevice, closed, replaced, disconnecting, queue, inbox>>

\* ws.Read returned a frame; it is handled even when the connection is closed
\* or replaced in the meantime.
Read(c) ==
    /\ reader[c] = "reading"
    /\ inbox[c] # <<>>
    /\ reader' = [reader EXCEPT ![c] = "handling"]
    /\ UNCHANGED <<registry, connDevice, closed, replaced, disconnecting, queue, inbox>>

\* OnEnvelope returned and the loop goes on with the next frame.
Handled(c) ==
    /\ reader[c] = "handling"
    /\ inbox' = [inbox EXCEPT ![c] = Tail(@)]
    /\ reader' = [reader EXCEPT ![c] = "reading"]
    /\ UNCHANGED <<registry, connDevice, closed, replaced, disconnecting, queue>>

\* ws.Read failed (the peer went away, or the connection was closed), or the
\* frame broke the protocol: close the connection and leave the loop.  Frames
\* not read by then never are.
ReadFails(c) ==
    /\ reader[c] \in {"hello", "reading"}
    /\ closed' = closed \cup {c}
    /\ reader' = [reader EXCEPT ![c] = "leaving"]
    /\ inbox' = [inbox EXCEPT ![c] = <<>>]
    /\ UNCHANGED <<registry, connDevice, replaced, disconnecting, queue>>

\* Mutant: the entry is deleted even when it is a newer connection's.
Leave_Unconditional(c) ==
    /\ reader[c] = "leaving"
    /\ reader' = [reader EXCEPT ![c] = "left"]
    /\ registry' = [registry EXCEPT ![connDevice[c]] = None]
    /\ queue' = [queue EXCEPT ![c] = <<>>]
    /\ UNCHANGED <<connDevice, closed, replaced, disconnecting, inbox>>

\* Mutant: the deferred cleanup is missing.
Leave_KeepsEntry(c) ==
    /\ reader[c] = "leaving"
    /\ reader' = [reader EXCEPT ![c] = "left"]
    /\ queue' = [queue EXCEPT ![c] = <<>>]
    /\ UNCHANGED <<registry, connDevice, closed, replaced, disconnecting, inbox>>

\* The deferred removeIfCurrent: a replaced connection must not evict its
\* replacement.  The writer is gone too by now and what it had queued is lost
\* (a write racing this step is a Write before it).
Leave(c) ==
    /\ reader[c] = "leaving"
    /\ reader' = [reader EXCEPT ![c] = "left"]
    /\ registry' = [registry EXCEPT
                      ![connDevice[c]] = IF @ = c THEN None ELSE @]
    /\ queue' = [queue EXCEPT ![c] = <<>>]
    /\ UNCHANGED <<connDevice, closed, replaced, disconnecting, inbox>>

-----------------------------------------------------------------------------
(* Delivery to the device *)

\* Registry.Send accepts an envelope for d: it has an open current connection
\* with room in its queue.
Accepts(d) ==
    /\ registry[d] # None
    /\ registry[d] \notin closed
    /\ Len(queue[registry[d]]) < QueueDepth

\* Registry.Send looks the connection up again and never blocks: a full queue
\* closes the slow consumer instead.
Send(d, m) ==
    /\ IF Accepts(d)
       THEN /\ queue' = [queue EXCEPT ![registry[d]] = Append(@, m)]
            /\ UNCHANGED closed
       ELSE /\ closed' = closed \cup ({registry[d]} \ {None})
            /\ UNCHANGED queue
    /\ UNCHANGED <<registry, connDevice, replaced, disconnecting, inbox, reader>>

\* The writer takes the oldest envelope and puts it on the wire.  A closed
\* connection's writer may still do so until its context is cancelled.
Write(c) ==
    /\ reader[c] \notin {"absent", "starting"}
    /\ queue[c] # <<>>
    /\ queue' = [queue EXCEPT ![c] = Tail(@)]
    /\ UNCHANGED <<registry, connDevice, closed, replaced, disconnecting, inbox, reader>>

\* The write failed or timed out: the envelope is lost and the writer closes
\* the connection.
WriteFails(c) ==
    /\ reader[c] \notin {"absent", "starting"}
    /\ queue[c] # <<>>
    /\ queue' = [queue EXCEPT ![c] = Tail(@)]
    /\ closed' = closed \cup {c}
    /\ UNCHANGED <<registry, connDevice, replaced, disconnecting, inbox, reader>>

-----------------------------------------------------------------------------
HubNext ==
    \/ \E c \in Conns, d \in Devices : Connect(c, d)
    \/ \E c \in Conns : \/ Start(c) \/ CloseConn(c) \/ FinishDisconnect(c)
                        \/ Hello(c) \/ Read(c) \/ Handled(c)
                        \/ ReadFails(c) \/ Leave(c)
                        \/ Write(c) \/ WriteFails(c)
    \/ \E c \in Conns, m \in Uplink : DeviceSends(c, m)
    \/ \E d \in Devices : Disconnect(d)
    \/ \E d \in Devices, m \in Downlink : Send(d, m)

\* Goroutines are scheduled, a handler returns, and a closed connection's
\* contexts are cancelled, so its next read fails however many frames are
\* still arriving: that last one is strong fairness.
HubFairness ==
    \A c \in Conns : /\ WF_hubVars(Start(c))
                     /\ WF_hubVars(FinishDisconnect(c))
                     /\ WF_hubVars(Handled(c))
                     /\ SF_hubVars(c \in closed /\ ReadFails(c))
                     /\ WF_hubVars(Leave(c))

HubSafety == HubInit /\ [][HubNext]_hubVars
HubSpec == HubSafety /\ HubFairness

-----------------------------------------------------------------------------
(* Properties *)

\* Somebody has taken c out of the registry and owes it a close.
Detached(c) ==
    \/ c \in disconnecting
    \/ \E e \in Conns : replaced[e] = c

\* "A device has at most one live connection": an open connection is the one
\* the registry delivers to, or someone is about to close it.  An open
\* connection that the registry had lost would look online to its device and
\* offline to every caller.
LiveIsCurrent ==
    \A c \in Conns :
        Connected(c) /\ c \notin closed /\ ~Detached(c) => registry[connDevice[c]] = c

\* A connection that is over is over for everybody.  The registry forgets a
\* closed connection, so that callers see the device offline instead of sending
\* into a dead queue; a superseded one is closed, so that its device and the
\* calls watching it learn of it.  Both last, for a connection is used once.
ConnectionsEnd ==
    <>[] \A c \in Conns :
             /\ c \in closed => \A d \in Devices : registry[d] # c
             /\ (\E e \in Conns : replaced[e] = c) => c \in closed
=============================================================================
