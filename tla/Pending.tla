------------------------------- MODULE Pending -------------------------------
(***************************************************************************)
(* The gateway's correlation registry, internal/mcpgateway/pending.go.     *)
(*                                                                         *)
(* A registration is one element of Requests: Register mints a fresh       *)
(* 128-bit gateway id, so an element is registered at most once.  Every    *)
(* method that takes the registry's mutex is one atomic step; what happens *)
(* outside the mutex (the walk over a detached set in CancelSession and    *)
(* FailDevice, the channel send at the end of deliver, the timer's own     *)
(* goroutine) is a step of its own, so all their interleavings occur.      *)
(***************************************************************************)
EXTENDS Ids, Integers, FiniteSets

CONSTANTS Requests,    \* registrations, each with its fresh gateway id
          Sessions,    \* MCP sessions
          Sweepers,    \* goroutines that run CancelSession or FailDevice
          MaxEntries,  \* the registry's bound; zero means unbounded
          ResolveOutcomes  \* what the callers of Resolve report

NoOutcome == "none"

ASSUME PendingAssumption ==
    /\ MaxEntries \in Nat
    /\ None \notin Sessions
    /\ NoOutcome \notin ResolveOutcomes

\* What a waiter can be told: the response, or why there is none.
SweepOutcomes == {"cancelled", "deviceFailed"}
Outcomes == ResolveOutcomes \cup SweepOutcomes \cup {"deadline"}

VARIABLES
    entries,     \* the registrations in the entries map
    session,     \* entry.sessionID, None until registered
    device,      \* entry.deviceID, None until associated
    bySession,   \* the sessions index
    byDevice,    \* the devices index
    timer,       \* entry.timer
    sends,       \* outcomes past the unlock of deliver, not yet on the channel
    result,      \* the outcome sent on the registration's channel
    sweepLeft,   \* detached entries a sweeper has still to complete
    sweepCause   \* the outcome that sweeper delivers

pendingVars == <<entries, session, device, bySession, byDevice, timer,
                 sends, result, sweepLeft, sweepCause>>

TimerStates == {"unset", "armed", "fired", "stopped"}

TypeOK ==
    /\ entries \subseteq Requests
    /\ session \in [Requests -> Sessions \cup {None}]
    /\ device \in [Requests -> Devices \cup {None}]
    /\ bySession \in [Sessions -> SUBSET Requests]
    /\ byDevice \in [Devices -> SUBSET Requests]
    /\ timer \in [Requests -> TimerStates]
    /\ sends \in [Requests -> SUBSET Outcomes]
    /\ result \in [Requests -> Outcomes \cup {NoOutcome}]
    /\ sweepLeft \in [Sweepers -> SUBSET Requests]
    /\ sweepCause \in [Sweepers -> SweepOutcomes \cup {NoOutcome}]

PendingInit ==
    /\ entries = {}
    /\ session = [r \in Requests |-> None]
    /\ device = [r \in Requests |-> None]
    /\ bySession = [s \in Sessions |-> {}]
    /\ byDevice = [d \in Devices |-> {}]
    /\ timer = [r \in Requests |-> "unset"]
    /\ sends = [r \in Requests |-> {}]
    /\ result = [r \in Requests |-> NoOutcome]
    /\ sweepLeft = [w \in Sweepers |-> {}]
    /\ sweepCause = [w \in Sweepers |-> NoOutcome]

-----------------------------------------------------------------------------
(* Registration *)

Registered(r) == session[r] # None

Full == MaxEntries > 0 /\ Cardinality(entries) >= MaxEntries

\* The deadline timer is armed while the lock is held.
ArmTimer(r) == timer' = [timer EXCEPT ![r] = "armed"]

\* Register refuses a full registry; otherwise the entry enters the map and
\* its session's set, and its deadline timer is armed, under one lock.
Register(r, s) ==
    /\ ~Registered(r)
    /\ ~Full
    /\ entries' = entries \cup {r}
    /\ session' = [session EXCEPT ![r] = s]
    /\ bySession' = [bySession EXCEPT ![s] = @ \cup {r}]
    /\ ArmTimer(r)
    /\ UNCHANGED <<device, byDevice, sends, result, sweepLeft, sweepCause>>

\* Associate moves a live entry to the index of the device it is forwarded to.
Associate(r, d) ==
    /\ r \in entries
    /\ device' = [device EXCEPT ![r] = d]
    /\ byDevice' = [e \in Devices |->
                      IF e = d THEN byDevice[e] \cup {r}
                      ELSE IF e = device[r] THEN byDevice[e] \ {r}
                      ELSE byDevice[e]]
    /\ UNCHANGED <<entries, session, bySession, timer, sends, result,
                   sweepLeft, sweepCause>>

-----------------------------------------------------------------------------
(* Completion *)

\* Mutant: a completed entry stays in its device's set.
Remove_KeepsDevice(r) ==
    /\ entries' = entries \ {r}
    /\ bySession' = [s \in Sessions |->
                       IF s = session[r] THEN bySession[s] \ {r} ELSE bySession[s]]
    /\ UNCHANGED byDevice

\* removeLocked: the entry leaves the map and both indexes.
Remove(r) ==
    /\ entries' = entries \ {r}
    /\ bySession' = [s \in Sessions |->
                       IF s = session[r] THEN bySession[s] \ {r} ELSE bySession[s]]
    /\ byDevice' = [d \in Devices |->
                      IF d = device[r] THEN byDevice[d] \ {r} ELSE byDevice[d]]

\* Mutant: the outcome is sent without checking that the entry is still there.
Deliver_Unchecked(r, o) ==
    /\ Remove(r)
    /\ sends' = [sends EXCEPT ![r] = @ \cup {o}]

\* deliver, up to its unlock: the first caller to find the entry removes it
\* and owes the channel one outcome; every later caller finds nothing.
Deliver(r, o) ==
    IF r \in entries
    THEN /\ Remove(r)
         /\ sends' = [sends EXCEPT ![r] = @ \cup {o}]
    ELSE UNCHANGED <<entries, bySession, byDevice, sends>>

\* timer.Stop by a caller that completed the entry: it has no effect on a
\* timer whose goroutine is already running.
StopTimer(r) ==
    timer' = [timer EXCEPT ![r] = IF r \in entries /\ @ = "armed" THEN "stopped" ELSE @]

\* Resolve, for a response or for a failed delivery; a late or duplicate one
\* finds no entry.
Resolve(r, o) ==
    /\ Deliver(r, o)
    /\ StopTimer(r)
    /\ UNCHANGED <<session, device, result, sweepLeft, sweepCause>>

\* The deadline passes and the runtime starts the timer's goroutine ...
TimerFire(r) ==
    /\ timer[r] = "armed"
    /\ timer' = [timer EXCEPT ![r] = "fired"]
    /\ UNCHANGED <<entries, session, device, bySession, byDevice, sends,
                   result, sweepLeft, sweepCause>>

\* ... which then competes for the lock with the other completions.
TimerDeliver(r) ==
    /\ timer[r] = "fired"
    /\ Deliver(r, "deadline")
    /\ timer' = [timer EXCEPT ![r] = "stopped"]
    /\ UNCHANGED <<session, device, result, sweepLeft, sweepCause>>

\* Mutant: a send that gives up instead of leaving the outcome in the buffer.
SendResult_Dropped(r) ==
    \E o \in sends[r] :
        /\ sends' = [sends EXCEPT ![r] = @ \ {o}]
        /\ UNCHANGED <<entries, session, device, bySession, byDevice, timer,
                       result, sweepLeft, sweepCause>>

\* The send at the end of deliver; the channel has capacity one.
SendResult(r) ==
    \E o \in sends[r] :
        /\ result[r] = NoOutcome
        /\ result' = [result EXCEPT ![r] = o]
        /\ sends' = [sends EXCEPT ![r] = @ \ {o}]
        /\ UNCHANGED <<entries, session, device, bySession, byDevice, timer,
                       sweepLeft, sweepCause>>

-----------------------------------------------------------------------------
(* CancelSession and FailDevice: detach a set under the lock, then complete  *)
(* its members one by one with the lock released in between.                *)

Sweep(w, set, o) ==
    /\ sweepLeft[w] = {}
    /\ sweepLeft' = [sweepLeft EXCEPT ![w] = set]
    /\ sweepCause' = [sweepCause EXCEPT ![w] = IF set = {} THEN NoOutcome ELSE o]

CancelSession(w, s) ==
    /\ Sweep(w, bySession[s], "cancelled")
    /\ bySession' = [bySession EXCEPT ![s] = {}]
    /\ UNCHANGED <<entries, session, device, byDevice, timer, sends, result>>

\* Mutant: the nil cause is not replaced by the default one.
FailDevice_NilCause(w, d) ==
    /\ Sweep(w, byDevice[d], NoOutcome)
    /\ byDevice' = [byDevice EXCEPT ![d] = {}]
    /\ UNCHANGED <<entries, session, device, bySession, timer, sends, result>>

FailDevice(w, d) ==
    /\ Sweep(w, byDevice[d], "deviceFailed")
    /\ byDevice' = [byDevice EXCEPT ![d] = {}]
    /\ UNCHANGED <<entries, session, device, bySession, timer, sends, result>>

SweepNext(w) ==
    \E r \in sweepLeft[w] :
        /\ Deliver(r, sweepCause[w])
        /\ StopTimer(r)
        /\ sweepLeft' = [sweepLeft EXCEPT ![w] = @ \ {r}]
        /\ sweepCause' = [sweepCause EXCEPT
                            ![w] = IF sweepLeft[w] = {r} THEN NoOutcome ELSE @]
        /\ UNCHANGED <<session, device, result>>

-----------------------------------------------------------------------------
PendingNext ==
    \/ \E r \in Requests, s \in Sessions : Register(r, s)
    \/ \E r \in Requests, d \in Devices : Associate(r, d)
    \/ \E r \in Requests, o \in ResolveOutcomes : Resolve(r, o)
    \/ \E r \in Requests : TimerFire(r) \/ TimerDeliver(r) \/ SendResult(r)
    \/ \E w \in Sweepers, s \in Sessions : CancelSession(w, s)
    \/ \E w \in Sweepers, d \in Devices : FailDevice(w, d)
    \/ \E w \in Sweepers : SweepNext(w)

\* The runtime schedules every runnable goroutine and fires every armed timer;
\* nothing obliges a client to call or a device to answer.
PendingFairness ==
    /\ \A r \in Requests : /\ WF_pendingVars(TimerFire(r))
                           /\ WF_pendingVars(TimerDeliver(r))
                           /\ WF_pendingVars(SendResult(r))
    /\ \A w \in Sweepers : WF_pendingVars(SweepNext(w))

PendingSafety == PendingInit /\ [][PendingNext]_pendingVars
PendingSpec == PendingSafety /\ PendingFairness

-----------------------------------------------------------------------------
(* Properties *)

Swept(r) == \E w \in Sweepers : r \in sweepLeft[w]

\* A registration is in exactly one place: waiting in the map, or owed to its
\* channel by exactly one goroutine, or answered.  This is what makes "exactly
\* one Result is ever delivered" true whichever of response, deadline, session
\* end and device failure race, and what makes the capacity-one send
\* never block.
ExactlyOnce ==
    \A r \in Requests :
        /\ r \in entries => sends[r] = {} /\ result[r] = NoOutcome
        /\ sends[r] # {} => result[r] = NoOutcome
        /\ \A o, p \in sends[r] : o = p
        /\ Registered(r) => r \in entries \/ sends[r] # {} \/ result[r] # NoOutcome
        /\ ~Registered(r) => r \notin entries /\ sends[r] = {} /\ result[r] = NoOutcome

\* The indexes hold live entries only, under their own session and device: a
\* completed request leaves nothing behind, whoever completed it.
IndexesHoldLiveEntries ==
    /\ \A s \in Sessions, r \in Requests :
           r \in bySession[s] => r \in entries /\ session[r] = s
    /\ \A d \in Devices, r \in Requests :
           r \in byDevice[d] => r \in entries /\ device[r] = d

\* No live entry escapes: a session's end and a device's failure find every
\* entry of theirs, in the index or in the hands of a sweeper that will
\* complete it.
NoEntryEscapes ==
    \A r \in entries :
        /\ r \in bySession[session[r]] \/ Swept(r)
        /\ device[r] # None => r \in byDevice[device[r]] \/ Swept(r)

\* Every live entry still has its deadline ahead of it.
DeadlineArmed ==
    \A r \in entries : timer[r] \in {"armed", "fired"}

\* Register's bound holds whatever completes or registers concurrently.
Bounded == MaxEntries > 0 => Cardinality(entries) <= MaxEntries

\* The registry at a glance: what waits is indexed, what is indexed waits, and
\* there is never more of it than configured.
RegistryConsistent == IndexesHoldLiveEntries /\ NoEntryEscapes /\ Bounded

Promise == INSTANCE OneShot WITH
              opened <- {r \in Requests : Registered(r)},
              outcome <- result

\* The registry keeps the one-shot promise of pending.go's type Result: a
\* request's channel carries one outcome, it never changes, and it arrives.
ImplementsOneShot == Promise!Spec
=============================================================================
