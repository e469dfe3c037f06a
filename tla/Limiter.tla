------------------------------- MODULE Limiter -------------------------------
(***************************************************************************)
(* The limiter of /mcp: internal/httpserver ratelimit.go, MCPLimiter.      *)
(*                                                                         *)
(* One mutex guards a fixed-window counter and an in-flight counter per    *)
(* key.  Allow reads the clock before it takes the mutex, so callers may   *)
(* arrive with their readings out of order, and the clock itself may be    *)
(* set back: a reading is any time at all.                                 *)
(***************************************************************************)
EXTENDS Integers, FiniteSets

CONSTANTS Keys,
          PerWindow,    \* MCPLimiterConfig.Requests
          MaxInFlight,
          MaxKeys,
          Ticks,        \* clock readings in one window
          MaxTime,      \* bound of the readings
          None

ASSUME LimiterAssumption ==
    /\ PerWindow \in Nat \ {0}
    /\ MaxInFlight \in Nat \ {0}
    /\ MaxKeys \in Nat \ {0}
    /\ Ticks \in Nat \ {0}
    /\ MaxTime \in Nat

VARIABLES
    lastObserved,  \* the latest reading the limiter has accepted
    lastSweep,     \* the window of the last sweep
    rate,          \* the buckets by key
    inflight,      \* the held slots by key; absent in the code when 0
    granted        \* how often a key was allowed in a window

limiterVars == <<lastObserved, lastSweep, rate, inflight, granted>>

Times == 0..MaxTime
Window(t) == t \div Ticks
Windows == {Window(t) : t \in Times}
Buckets == [window : Windows, count : Nat]

ASSUME BucketAssumption == None \notin Keys /\ None \notin Buckets

LimiterTypeOK ==
    /\ lastObserved \in Times
    /\ lastSweep \in Windows
    /\ rate \in [Keys -> Buckets \cup {None}]
    /\ inflight \in [Keys -> 0..MaxInFlight]
    /\ granted \in [Keys -> [Windows -> Nat]]

LimiterInit ==
    /\ lastObserved = 0
    /\ lastSweep = 0
    /\ rate = [k \in Keys |-> None]
    /\ inflight = [k \in Keys |-> 0]
    /\ granted = [k \in Keys |-> [w \in Windows |-> 0]]

RateKeys == {k \in Keys : rate[k] # None}
SlotKeys == {k \in Keys : inflight[k] > 0}

\* The key cap, counted over both tables.
Full == Cardinality(RateKeys) + Cardinality(SlotKeys) >= MaxKeys

-----------------------------------------------------------------------------
(* Allow, with the reading t of the clock *)

\* Mutant: a reading from before the last one is taken as it is.
Regressed_Never(t) == FALSE

Regressed(t) == t < lastObserved

\* sweepLocked: the buckets at least one full window old.
Stale(k, w) == rate[k] # None /\ rate[k].window < w - 1

\* The buckets after the sweep, which a window sees once.
Swept(t) == IF Window(t) > lastSweep
            THEN [k \in Keys |-> IF Stale(k, Window(t)) THEN None ELSE rate[k]]
            ELSE rate

\* The count of key k in the window of t, before this request.
Count(k, t) == IF Swept(t)[k] = None \/ Swept(t)[k].window # Window(t)
               THEN 0
               ELSE Swept(t)[k].count

\* A key that is not tracked needs room after the sweep.
Room(k, t) ==
    \/ Swept(t)[k] # None
    \/ Cardinality({q \in Keys : Swept(t)[q] # None}) + Cardinality(SlotKeys) < MaxKeys

Observe(t) ==
    /\ ~Regressed(t)
    /\ lastObserved' = t
    /\ lastSweep' = IF Window(t) > lastSweep THEN Window(t) ELSE lastSweep

\* Every accepted reading counts the request, allowed or not.
Counted(k, t) ==
    [Swept(t) EXCEPT ![k] = [window |-> Window(t), count |-> Count(k, t) + 1]]

Allows(k, t) ==
    /\ Observe(t)
    /\ Room(k, t)
    /\ Count(k, t) < PerWindow
    /\ rate' = Counted(k, t)
    /\ granted' = [granted EXCEPT ![k][Window(t)] = @ + 1]
    /\ UNCHANGED inflight

\* The clock regressed, the key cap is reached or the burst is spent.
Denies(k, t) ==
    \/ /\ Regressed(t)
       /\ UNCHANGED limiterVars
    \/ /\ Observe(t)
       /\ ~Room(k, t)
       /\ rate' = Swept(t)
       /\ UNCHANGED <<inflight, granted>>
    \/ /\ Observe(t)
       /\ Room(k, t)
       /\ Count(k, t) >= PerWindow
       /\ rate' = Counted(k, t)
       /\ UNCHANGED <<inflight, granted>>

-----------------------------------------------------------------------------
(* Acquire and its release *)

\* Mutant: one slot more than the limit.
CanAcquire_OneMore(k) == inflight[k] <= MaxInFlight /\ (rate[k] # None \/ ~Full)

\* A key that is tracked for its rate has room for its slots.
CanAcquire(k) == inflight[k] < MaxInFlight /\ (rate[k] # None \/ ~Full)

Acquires(k) ==
    /\ CanAcquire(k)
    /\ inflight' = [inflight EXCEPT ![k] = @ + 1]
    /\ UNCHANGED <<lastObserved, lastSweep, rate, granted>>

\* The release function of one slot, called once.
Releases(k) ==
    /\ inflight' = [inflight EXCEPT ![k] = IF @ > 0 THEN @ - 1 ELSE 0]
    /\ UNCHANGED <<lastObserved, lastSweep, rate, granted>>

-----------------------------------------------------------------------------
(* Properties *)

\* A key is allowed its budget in each window and no more, however the readings
\* of the clock are ordered and wherever the clock is set: a window that was
\* left is never opened again.
RateHolds == \A k \in Keys, w \in Windows : granted[k][w] <= PerWindow

\* "the total tracked-key count never exceeds MaxKeys", over both tables
\* together, although a slot of a key with a bucket is given without asking.
TrackedKeysBounded == Cardinality(RateKeys \cup SlotKeys) <= MaxKeys

\* The two promises of the limiter, to its callers and to the process.
LimitsHold == RateHolds /\ TrackedKeysBounded
=============================================================================
