------------------------------ MODULE Admission ------------------------------
(***************************************************************************)
(* A request of a connector at /mcp, and the shutdown of the gateway:      *)
(* internal/mcpgateway server.go, auth.go and tools.go; the success audit  *)
(* queue of internal/audit; WorkGate and Server.Shutdown of                *)
(* internal/httpserver server.go; the exit of cmd/server.                  *)
(*                                                                         *)
(* A request takes the work gate, is verified, asks the limiter for its    *)
(* grant and then for its user, reserves a slot of each when it is a       *)
(* tools/call, is authorized again, is relayed, writes its usage, queues   *)
(* its audit event and gives everything back.  The relay (module Relay)    *)
(* is here only its outcome.  What the database answers is left open: a    *)
(* check may always refuse.                                                *)
(***************************************************************************)
EXTENDS Limiter

CONSTANTS Requests, Grants, Users,
          UserOf,      \* the user of each grant
          QueueLimit   \* capacity of the success audit queue

ASSUME AdmissionAssumption ==
    /\ Keys = Grants \cup Users
    /\ Grants \cap Users = {}
    /\ UserOf \in [Grants -> Users]
    /\ QueueLimit \in Nat \ {0}

VARIABLES
    at,         \* the step each request takes next
    grant,      \* the grant its token was verified for, until it ends
    holds,      \* the keys whose release functions it has
    tracked,    \* WorkGate.calls
    closed,     \* WorkGate.closed
    cancelled,  \* requests whose context Shutdown has cancelled
    queued,     \* Queue.pending, each event named by its request
    wake,       \* Queue.wake holds its one token
    draining,   \* the drain of the queue has left its wait
    batch,      \* events the drain has taken and not yet recorded
    stage,      \* how far Shutdown has come
    toCancel    \* what FailPending has copied and not yet cancelled

requestVars == <<at, grant, holds>>
gateVars == <<tracked, closed, cancelled>>
auditVars == <<queued, wake, draining, batch>>
shutdownVars == <<stage, toCancel>>
vars == <<limiterVars, requestVars, gateVars, auditVars, shutdownVars>>

Steps == {"new", "verify", "entitle",
          "allow grant", "allow user",
          "reserve grant", "reserve user", "reauthorize", "relay",
          "usage", "audit", "wake drain", "release", "gone"}
Stages == {"serving", "unready", "drain", "fail", "cancel", "settle",
           "hub", "kernel", "pool", "closed", "down"}

AdmissionTypeOK ==
    /\ LimiterTypeOK
    /\ at \in [Requests -> Steps]
    /\ grant \in [Requests -> Grants \cup {None}]
    /\ holds \in [Requests -> SUBSET Keys]
    /\ tracked \subseteq Requests
    /\ closed \in BOOLEAN
    /\ cancelled \subseteq Requests
    /\ queued \subseteq Requests
    /\ wake \in BOOLEAN
    /\ draining \in BOOLEAN
    /\ batch \subseteq Requests
    /\ stage \in Stages
    /\ toCancel \subseteq Requests

Init ==
    /\ LimiterInit
    /\ at = [r \in Requests |-> "new"]
    /\ grant = [r \in Requests |-> None]
    /\ holds = [r \in Requests |-> {}]
    /\ tracked = {} /\ closed = FALSE /\ cancelled = {}
    /\ queued = {} /\ wake = FALSE /\ draining = FALSE /\ batch = {}
    /\ stage = "serving" /\ toCancel = {}

User(r) == UserOf[grant[r]]

\* A request at one step goes to another.  A process that has exited does nothing.
Goes(r, from, to) ==
    /\ stage # "down"
    /\ at[r] = from
    /\ at' = [at EXCEPT ![r] = to]

-----------------------------------------------------------------------------
(* The gate, and the checks before the limiter *)

\* Mutant: a closed gate admits like an open one.
Arrive_Ungated(r) ==
    /\ Goes(r, "new", "verify")
    /\ tracked' = tracked \cup {r}
    /\ UNCHANGED <<limiterVars, grant, holds, closed, cancelled, auditVars,
                   shutdownVars>>

\* WorkGate.MCP: admitted and tracked, or refused once the gate is closed.
Arrive(r) ==
    \/ /\ ~closed
       /\ Goes(r, "new", "verify")
       /\ tracked' = tracked \cup {r}
       /\ UNCHANGED <<limiterVars, grant, holds, closed, cancelled,
                      auditVars, shutdownVars>>
    \/ /\ closed
       /\ Goes(r, "new", "gone")
       /\ UNCHANGED <<limiterVars, grant, holds, gateVars, auditVars,
                      shutdownVars>>

\* verify: the token names its grant and, through it, its user.
Verify(r) ==
    /\ Goes(r, "verify", "entitle")
    /\ \E g \in Grants : grant' = [grant EXCEPT ![r] = g]
    /\ UNCHANGED <<limiterVars, holds, gateVars, auditVars, shutdownVars>>

Entitle(r) ==
    /\ Goes(r, "entitle", "allow grant")
    /\ UNCHANGED <<limiterVars, grant, holds, gateVars, auditVars,
                   shutdownVars>>

\* The origin, the bearer token, the entitlement or the authorization behind
\* the call does not stand, or the database does not say; or the body is too
\* large, or asks for something else than a tool and is served without a slot.
TurnedAway(r) ==
    /\ \E from \in {"verify", "entitle", "reserve grant", "reauthorize"} :
           Goes(r, from, "release")
    /\ UNCHANGED <<limiterVars, grant, holds, gateVars, auditVars,
                   shutdownVars>>

-----------------------------------------------------------------------------
(* The limiter, for the grant and then for the user *)

\* Allow reads the clock before it waits for the mutex: the reading it comes
\* with may be any.
AllowGrant(r) ==
    /\ \E t \in Times :
           \/ Goes(r, "allow grant", "allow user") /\ Allows(grant[r], t)
           \/ Goes(r, "allow grant", "release") /\ Denies(grant[r], t)
    /\ UNCHANGED <<grant, holds, gateVars, auditVars, shutdownVars>>

AllowUser(r) ==
    /\ \E t \in Times :
           \/ Goes(r, "allow user", "reserve grant") /\ Allows(User(r), t)
           \/ Goes(r, "allow user", "release") /\ Denies(User(r), t)
    /\ UNCHANGED <<grant, holds, gateVars, auditVars, shutdownVars>>

\* reserveInFlight, its first half.
ReserveGrant(r) ==
    /\ \/ /\ Goes(r, "reserve grant", "reserve user")
          /\ Acquires(grant[r])
          /\ holds' = [holds EXCEPT ![r] = {grant[r]}]
       \/ /\ Goes(r, "reserve grant", "release")
          /\ ~CanAcquire(grant[r])
          /\ UNCHANGED <<limiterVars, holds>>
    /\ UNCHANGED <<grant, gateVars, auditVars, shutdownVars>>

\* Mutant: the slot of the grant is not given back when the user's is refused.
ReserveUser_KeepsGrant(r) ==
    /\ \/ /\ Goes(r, "reserve user", "reauthorize")
          /\ Acquires(User(r))
          /\ holds' = [holds EXCEPT ![r] = @ \cup {User(r)}]
       \/ /\ Goes(r, "reserve user", "release")
          /\ ~CanAcquire(User(r))
          /\ holds' = [holds EXCEPT ![r] = {}]
          /\ UNCHANGED limiterVars
    /\ UNCHANGED <<grant, gateVars, auditVars, shutdownVars>>

\* Its second half: a refusal leaves the grant's slot to be released.
ReserveUser(r) ==
    /\ \/ /\ Goes(r, "reserve user", "reauthorize")
          /\ Acquires(User(r))
          /\ holds' = [holds EXCEPT ![r] = @ \cup {User(r)}]
       \/ /\ Goes(r, "reserve user", "release")
          /\ ~CanAcquire(User(r))
          /\ UNCHANGED <<limiterVars, holds>>
    /\ UNCHANGED <<grant, gateVars, auditVars, shutdownVars>>

-----------------------------------------------------------------------------
(* The call *)

Reauthorize(r) ==
    /\ Goes(r, "reauthorize", "relay")
    /\ UNCHANGED <<limiterVars, grant, holds, gateVars, auditVars,
                   shutdownVars>>

\* CallDetailed returns an answer; or an error, as it does when the context is
\* cancelled, by Shutdown or because the client has left.
RelayReturns(r) ==
    /\ \/ Goes(r, "relay", "usage") /\ r \notin cancelled
       \/ Goes(r, "relay", "release")
    /\ UNCHANGED <<limiterVars, grant, holds, gateVars, auditVars,
                   shutdownVars>>

\* recordToolUsage writes with a context of its own; then the answer is the
\* tool's error or its result.
RecordUsage(r) ==
    /\ \E to \in {"audit", "release"} : Goes(r, "usage", to)
    /\ UNCHANGED <<limiterVars, grant, holds, gateVars, auditVars, shutdownVars>>

\* Mutant: the drain is not told of the event.
RecordSuccess_Silent(r) ==
    /\ Goes(r, "audit", "release")
    /\ queued' = queued \cup {r}
    /\ UNCHANGED <<limiterVars, grant, holds, gateVars, wake, draining, batch,
                   shutdownVars>>

\* Queue.Record appends the event under the mutex, or drops it.
RecordSuccess(r) ==
    /\ \/ /\ Cardinality(queued) < QueueLimit
          /\ Goes(r, "audit", "wake drain")
          /\ queued' = queued \cup {r}
       \/ /\ Cardinality(queued) >= QueueLimit
          /\ Goes(r, "audit", "release")
          /\ UNCHANGED queued
    /\ UNCHANGED <<limiterVars, grant, holds, gateVars, wake, draining, batch,
                   shutdownVars>>

\* and signals the drain after it has let go of it.
WakeDrain(r) ==
    /\ Goes(r, "wake drain", "release")
    /\ wake' = TRUE
    /\ UNCHANGED <<limiterVars, grant, holds, gateVars, queued, draining, batch,
                   shutdownVars>>

\* The release functions a request has, that of the grant first.
Release(r) ==
    /\ holds[r] # {}
    /\ Goes(r, "release", "release")
    /\ LET key == IF grant[r] \in holds[r] THEN grant[r] ELSE User(r)
       IN  /\ Releases(key)
           /\ holds' = [holds EXCEPT ![r] = @ \ {key}]
    /\ UNCHANGED <<grant, gateVars, auditVars, shutdownVars>>

\* WorkGate.done
Done(r) ==
    /\ holds[r] = {}
    /\ Goes(r, "release", "gone")
    /\ tracked' = tracked \ {r}
    /\ grant' = [grant EXCEPT ![r] = None]
    /\ UNCHANGED <<limiterVars, holds, closed, cancelled, auditVars,
                   shutdownVars>>

-----------------------------------------------------------------------------
(* The drain of the success audit queue *)

\* Queue.Serve leaves its wait.
DrainWakes ==
    /\ stage # "down"
    /\ ~draining /\ wake
    /\ draining' = TRUE
    /\ wake' = FALSE
    /\ UNCHANGED <<limiterVars, requestVars, gateVars, queued, batch,
                   shutdownVars>>

\* drainOnce takes all there is, and the drain waits again when there is nothing.
DrainTakes ==
    /\ stage # "down"
    /\ draining /\ batch = {}
    /\ batch' = queued
    /\ queued' = {}
    /\ draining' = (queued # {})
    /\ UNCHANGED <<limiterVars, requestVars, gateVars, wake,
                   shutdownVars>>

\* Service.Record for one event of the batch; a failure loses the event.
DrainRecords(r) ==
    /\ stage # "down"
    /\ r \in batch
    /\ batch' = batch \ {r}
    /\ UNCHANGED <<limiterVars, requestVars, gateVars, queued, wake, draining,
                   shutdownVars>>

-----------------------------------------------------------------------------
(* Server.Shutdown *)

MovesOn(from, to) ==
    /\ stage = from
    /\ stage' = to

\* The signal arrives; the readiness gate answers probes unavailable.
MarkUnready ==
    /\ MovesOn("serving", "unready")
    /\ UNCHANGED <<limiterVars, requestVars, gateVars, auditVars, toCancel>>

CloseWork ==
    /\ MovesOn("unready", "drain")
    /\ closed' = TRUE
    /\ UNCHANGED <<limiterVars, requestVars, tracked, cancelled, auditVars, toCancel>>

\* Mutant: the drain waits for its requests however long they take.
Drain_Unbounded ==
    /\ tracked = {}
    /\ \E from \in {"drain", "settle"} : MovesOn(from, "hub")
    /\ UNCHANGED <<limiterVars, requestVars, gateVars, auditVars, toCancel>>

\* Drain, and the second one that gives the failed requests a moment: nothing
\* is left, or the window has passed.
Drain ==
    /\ \/ tracked = {} /\ \E from \in {"drain", "settle"} : MovesOn(from, "hub")
       \/ tracked # {} /\ MovesOn("drain", "fail")
       \/ tracked # {} /\ MovesOn("settle", "hub")
    /\ UNCHANGED <<limiterVars, requestVars, gateVars, auditVars, toCancel>>

\* FailPending copies the tracked requests under the mutex,
FailPending ==
    /\ MovesOn("fail", "cancel")
    /\ toCancel' = tracked
    /\ UNCHANGED <<limiterVars, requestVars, gateVars, auditVars>>

\* and cancels the copies one by one.
CancelNext ==
    /\ stage = "cancel"
    /\ \E r \in toCancel :
           /\ toCancel' = toCancel \ {r}
           /\ cancelled' = cancelled \cup {r}
    /\ UNCHANGED <<limiterVars, requestVars, tracked, closed, auditVars, stage>>

AllCancelled ==
    /\ toCancel = {}
    /\ MovesOn("cancel", "settle")
    /\ UNCHANGED <<limiterVars, requestVars, gateVars, auditVars, toCancel>>

\* The hub closes its connections; the kernel waits for its requests or for the
\* budget; the pool is closed; the process exits.
Teardown ==
    /\ \/ MovesOn("hub", "kernel")
       \/ MovesOn("kernel", "pool")
       \/ MovesOn("pool", "closed")
       \/ MovesOn("closed", "down")
    /\ UNCHANGED <<limiterVars, requestVars, gateVars, auditVars, toCancel>>

Shutdown == CloseWork \/ Drain \/ FailPending \/ CancelNext \/ AllCancelled \/ Teardown

-----------------------------------------------------------------------------
RequestStep(r) ==
    \/ Arrive(r) \/ Verify(r) \/ Entitle(r) \/ TurnedAway(r)
    \/ AllowGrant(r) \/ AllowUser(r) \/ ReserveGrant(r) \/ ReserveUser(r)
    \/ Reauthorize(r) \/ RelayReturns(r) \/ RecordUsage(r) \/ RecordSuccess(r)
    \/ WakeDrain(r) \/ Release(r) \/ Done(r)

DrainStep == DrainWakes \/ DrainTakes \/ \E r \in Requests : DrainRecords(r)

Next ==
    \/ \E r \in Requests : RequestStep(r)
    \/ DrainStep
    \/ MarkUnready
    \/ Shutdown

\* A request may hang at any step: no fairness for it but for the wake-up, which
\* does not wait.  The drain runs for the life of the process, and every wait of
\* Shutdown is bounded by a window.
Fairness ==
    /\ \A r \in Requests : WF_vars(WakeDrain(r))
    /\ WF_vars(DrainStep)
    /\ WF_vars(Shutdown)

Spec == Init /\ [][Next]_vars
FairSpec == Spec /\ Fairness

-----------------------------------------------------------------------------
(* Properties *)

\* The limiter's count of each key is the number of requests that hold a slot of
\* it, so a slot comes back exactly once whichever way its request ends: refused
\* for the user after the grant was reserved, turned away, failed or answered.
SlotsMatchCalls ==
    \A k \in Keys : inflight[k] = Cardinality({r \in Requests : k \in holds[r]})

\* When FailPending is through, every request still tracked is cancelled: none
\* slips in between the copy and the hub's close ("fail every pending relay
\* call", server.go).
StragglersCancelled ==
    stage \in {"settle", "hub", "kernel", "pool", "closed"} => tracked \subseteq cancelled

\* An event the queue took is handed to the audit service; it does not stay
\* behind while the process runs, although the wake-up and the append are two
\* steps and the drain may run between them.
EventsAreDrained ==
    \A r \in Requests :
        r \in queued ~> r \notin queued \cup batch \/ stage = "down"

\* A shutdown ends although requests hang, whatever stage they hang in.
ShutdownEnds == stage = "unready" ~> stage = "down"
=============================================================================
