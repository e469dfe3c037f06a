--------------------------- MODULE AdmissionProofs ---------------------------
(***************************************************************************)
(* The limiter keeps its two promises, every slot belongs to a request,    *)
(* and no request outlives the gate uncancelled: for any number of         *)
(* requests, keys and windows, and any bounds.                             *)
(***************************************************************************)
EXTENDS Admission, FiniteSetTheorems, TLAPS

-----------------------------------------------------------------------------
(* The limiter *)

\* What a key was allowed in the window of the last accepted reading.
Counts(k) == IF rate[k] # None /\ rate[k].window = lastSweep
             THEN rate[k].count
             ELSE 0

\* The limiter is in the window of the latest reading: later windows have seen
\* nothing, and the bucket of a key has counted all that it was allowed.
WindowsInOrder ==
    /\ lastSweep = Window(lastObserved)
    /\ \A k \in Keys :
          /\ rate[k] # None => rate[k].window <= lastSweep
          /\ \A w \in Windows : w > lastSweep => granted[k][w] = 0
          /\ granted[k][lastSweep] <= Counts(k)

\* The key cap counts finite sets.
KeysAreFinite == IsFiniteSet(RateKeys \cup SlotKeys)

LimiterInv == LimiterTypeOK /\ WindowsInOrder /\ KeysAreFinite /\ LimitsHold

\* The sets the limiter counts over: what a sweep leaves, and slots.
SweptKeys(t) == {q \in Keys : Swept(t)[q] # None}

LEMMA LimiterInitInv == LimiterInit => LimiterInv
<1> SUFFICES ASSUME LimiterInit PROVE LimiterInv
    OBVIOUS
<1> USE LimiterAssumption, BucketAssumption DEF LimiterInit
<1>1. 0 \in Times /\ Window(0) = 0 /\ 0 \in Windows
    BY DEF Times, Windows, Window
<1>2. LimiterTypeOK
    BY <1>1 DEF LimiterTypeOK
<1>3. WindowsInOrder
    BY <1>1 DEF WindowsInOrder, Counts
<1>4. RateKeys \cup SlotKeys = {}
    BY DEF RateKeys, SlotKeys
<1>5. KeysAreFinite /\ LimitsHold
    BY <1>4, FS_EmptySet DEF KeysAreFinite, LimitsHold, RateHolds, TrackedKeysBounded
<1> QED BY <1>2, <1>3, <1>5 DEF LimiterInv

\* Windows are naturals, and the order of the readings is the order of theirs.
LEMMA WindowFacts ==
    /\ \A t \in Times : Window(t) \in Windows /\ Window(t) \in Nat
    /\ Windows \subseteq Nat
    /\ \A s, t \in Times : s <= t => Window(s) <= Window(t)
<1> USE LimiterAssumption DEF Times, Windows, Window
<1>1. \A t \in Nat : t \div Ticks \in Nat
    OBVIOUS
<1>2. \A s, t \in Nat : s <= t => s \div Ticks <= t \div Ticks
    OBVIOUS
<1> QED BY <1>1, <1>2

\* A sweep drops buckets and changes none; it keeps those of its own window and
\* leaves a full count of what the key was allowed there.
LEMMA SweepFacts ==
    ASSUME LimiterInv, NEW t \in Times, Observe(t)
    PROVE  /\ lastObserved' \in Times /\ lastSweep' = Window(t)
           /\ lastSweep <= Window(t)
           /\ Swept(t) \in [Keys -> Buckets \cup {None}]
           /\ \A q \in Keys : Swept(t)[q] # None => Swept(t)[q] = rate[q]
           /\ \A q \in Keys : Count(q, t) \in Nat /\ granted[q][Window(t)] <= Count(q, t)
<1> USE LimiterAssumption, BucketAssumption, WindowFacts DEF LimiterInv, LimiterTypeOK
<1>1. Window(lastObserved) <= Window(t) /\ t \in Nat /\ lastObserved \in Nat
    BY DEF Observe, Regressed, Times
<1>2. lastSweep' = Window(t) /\ lastSweep <= Window(t) /\ lastObserved' \in Times
    BY <1>1 DEF Observe, WindowsInOrder
<1>3. /\ Swept(t) \in [Keys -> Buckets \cup {None}]
      /\ \A q \in Keys : Swept(t)[q] # None => Swept(t)[q] = rate[q]
    BY DEF Swept
<1>4. ASSUME NEW q \in Keys
      PROVE  Count(q, t) \in Nat /\ granted[q][Window(t)] <= Count(q, t)
    <2>1. Count(q, t) \in Nat
        BY <1>3 DEF Count, Buckets
    <2>2. CASE Window(t) > lastSweep
        BY <2>1, <2>2 DEF WindowsInOrder
    <2>3. CASE ~(Window(t) > lastSweep)
        <3>1. Window(t) = lastSweep /\ Swept(t) = rate
            BY <1>2, <2>3 DEF Swept
        <3> QED BY <2>1, <3>1 DEF WindowsInOrder, Counts, Count
    <2> QED BY <2>2, <2>3, <2>1
<1> QED BY <1>2, <1>3, <1>4

\* Adding a key to what is tracked where there is room keeps the cap.
LEMMA RoomForKey ==
    ASSUME NEW R, NEW S, IsFiniteSet(R \cup S), NEW k,
           Cardinality(R) + Cardinality(S) < MaxKeys
    PROVE  /\ IsFiniteSet(R \cup S \cup {k})
           /\ Cardinality(R \cup S \cup {k}) <= MaxKeys
<1>1. IsFiniteSet(R) /\ IsFiniteSet(S) /\ IsFiniteSet(R \cap S)
    BY FS_Subset
<1>2. /\ Cardinality(R) \in Nat /\ Cardinality(S) \in Nat
      /\ Cardinality(R \cap S) \in Nat /\ Cardinality(R \cup S) \in Nat
    BY <1>1, FS_CardinalityType
<1>3. Cardinality(R \cup S) <= Cardinality(R) + Cardinality(S)
    <2>1. Cardinality(R \cup S)
            = Cardinality(R) + Cardinality(S) - Cardinality(R \cap S)
        BY <1>1, FS_Union
    <2> QED BY <1>2, <2>1
<1>4. /\ IsFiniteSet(R \cup S \cup {k})
      /\ Cardinality(R \cup S \cup {k}) <= Cardinality(R \cup S) + 1
    <2> DEFINE T == R \cup S
    <2>1. IsFiniteSet(T) /\ Cardinality(T) \in Nat
        BY <1>2
    <2> HIDE DEF T
    <2>2. /\ IsFiniteSet(T \cup {k})
          /\ Cardinality(T \cup {k}) = IF k \in T THEN Cardinality(T) ELSE Cardinality(T) + 1
        BY <2>1, FS_AddElement
    <2>3. Cardinality(T \cup {k}) <= Cardinality(T) + 1
        BY <2>1, <2>2
    <2> QED BY <2>2, <2>3 DEF T
<1>5. Cardinality(R \cup S \cup {k}) \in Nat
    BY <1>4, FS_CardinalityType
<1> QED BY <1>2, <1>3, <1>4, <1>5, LimiterAssumption

\* What is tracked may shrink.
LEMMA FewerKeys ==
    ASSUME KeysAreFinite, TrackedKeysBounded, NEW T \in SUBSET (RateKeys \cup SlotKeys)
    PROVE  IsFiniteSet(T) /\ Cardinality(T) <= MaxKeys
<1>1. IsFiniteSet(T) /\ Cardinality(T) <= Cardinality(RateKeys \cup SlotKeys)
    BY FS_Subset DEF KeysAreFinite
<1>2. Cardinality(T) \in Nat /\ Cardinality(RateKeys \cup SlotKeys) \in Nat
    BY <1>1, FS_CardinalityType DEF KeysAreFinite
<1> QED BY <1>1, <1>2, LimiterAssumption DEF TrackedKeysBounded

\* An accepted reading, whether or not the request is allowed in the end.
LEMMA ObserveStep ==
    ASSUME LimiterInv, NEW k \in Keys, NEW t \in Times, Observe(t), UNCHANGED inflight,
           \/ rate' = Swept(t) /\ UNCHANGED granted
           \/ /\ Room(k, t) /\ rate' = Counted(k, t)
              /\ \/ UNCHANGED granted
                 \/ /\ Count(k, t) < PerWindow
                    /\ granted' = [granted EXCEPT ![k][Window(t)] = @ + 1]
    PROVE  LimiterInv'
<1> USE LimiterAssumption, BucketAssumption, WindowFacts DEF LimiterInv
<1> DEFINE w == Window(t)
           bucket == [window |-> w, count |-> Count(k, t) + 1]
<1>1. /\ lastObserved' = t /\ lastSweep' = w /\ lastSweep <= w /\ w \in Windows /\ w \in Nat
      /\ Swept(t) \in [Keys -> Buckets \cup {None}]
      /\ \A q \in Keys : Swept(t)[q] # None => Swept(t)[q] = rate[q]
      /\ \A q \in Keys : Count(q, t) \in Nat /\ granted[q][w] <= Count(q, t)
      /\ lastSweep \in Nat
    BY SweepFacts DEF Observe, LimiterTypeOK
<1>2. bucket \in Buckets /\ bucket # None
    BY <1>1 DEF Buckets
<1>3. /\ \A q \in Keys \ {k} : rate'[q] = Swept(t)[q]
      /\ \/ rate'[k] = Swept(t)[k] /\ UNCHANGED granted
         \/ rate'[k] = bucket
      /\ rate' \in [Keys -> Buckets \cup {None}]
    BY <1>1, <1>2 DEF Counted
<1>4. /\ granted' \in [Keys -> [Windows -> Nat]]
      /\ \A q \in Keys, v \in Windows :
            granted'[q][v] = granted[q][v]
            \/ /\ q = k /\ v = w /\ rate'[k] = bucket
               /\ granted'[q][v] = granted[q][v] + 1
               /\ Count(k, t) < PerWindow
    BY <1>1, <1>3 DEF LimiterTypeOK, Counted
<1>5. LimiterTypeOK'
    BY <1>1, <1>3, <1>4 DEF LimiterTypeOK
<1>6. \A q \in Keys : rate'[q] # None => rate'[q].window <= w
    <2> SUFFICES ASSUME NEW q \in Keys, rate'[q] # None
                 PROVE  rate'[q].window <= w
        OBVIOUS
    <2>1. CASE rate'[q] = bucket
        BY <1>1, <2>1
    <2>2. CASE rate'[q] = rate[q]
        <3>1. rate[q].window <= lastSweep /\ rate[q].window \in Windows
            BY <2>2 DEF WindowsInOrder, LimiterTypeOK, Buckets
        <3>2. rate[q].window \in Nat
            BY <3>1
        <3> HIDE DEF w
        <3> QED BY <1>1, <2>2, <3>1, <3>2
    <2> QED BY <1>1, <1>3, <2>1, <2>2
<1>7. \A q \in Keys, v \in Windows : v > w => granted'[q][v] = 0
    <2> SUFFICES ASSUME NEW q \in Keys, NEW v \in Windows, v > w
                 PROVE  granted'[q][v] = 0
        OBVIOUS
    <2>1. v > lastSweep /\ v # w
        BY <1>1
    <2> QED BY <1>4, <2>1 DEF WindowsInOrder
<1>8. ASSUME NEW q \in Keys
      PROVE  granted'[q][w] <= Counts(q)'
    <2>1. granted[q][w] \in Nat /\ granted[q][w] <= Count(q, t) /\ Count(q, t) \in Nat
        BY <1>1 DEF LimiterTypeOK
    <2>2. CASE rate'[q] = Swept(t)[q] /\ granted'[q][w] = granted[q][w]
        BY <1>1, <2>1, <2>2 DEF Counts, Count
    <2>3. CASE q = k /\ rate'[k] = bucket
        <3>1. Counts(q)' = Count(k, t) + 1
            BY <1>1, <1>2, <2>3 DEF Counts
        <3> QED BY <1>1, <1>4, <2>1, <2>3, <3>1
    <2> QED BY <1>1, <1>2, <1>3, <1>4, <2>2, <2>3
<1>9. WindowsInOrder'
    BY <1>1, <1>6, <1>7, <1>8 DEF WindowsInOrder
<1>10. RateHolds'
    <2> SUFFICES ASSUME NEW q \in Keys, NEW v \in Windows
                 PROVE  granted'[q][v] <= PerWindow
        BY DEF RateHolds
    <2>1. granted[q][v] <= PerWindow /\ granted[q][v] \in Nat
        BY DEF LimitsHold, RateHolds, LimiterTypeOK
    <2> QED BY <1>1, <1>4, <2>1
<1>11. KeysAreFinite' /\ TrackedKeysBounded'
    <2>1. SlotKeys' = SlotKeys
        BY DEF SlotKeys
    <2>2. SweptKeys(t) \subseteq RateKeys
        BY <1>1 DEF SweptKeys, RateKeys
    <2>3. CASE RateKeys' \subseteq SweptKeys(t)
        <3>1. (RateKeys \cup SlotKeys)' \in SUBSET (RateKeys \cup SlotKeys)
            BY <2>1, <2>2, <2>3
        <3> QED BY <3>1, FewerKeys DEF KeysAreFinite, TrackedKeysBounded, LimitsHold
    <2>4. CASE /\ RateKeys' = SweptKeys(t) \cup {k}
               /\ Cardinality(SweptKeys(t)) + Cardinality(SlotKeys) < MaxKeys
        <3>1. IsFiniteSet(SweptKeys(t) \cup SlotKeys)
            BY <2>2, FewerKeys DEF LimitsHold
        <3>2. (RateKeys \cup SlotKeys)' = SweptKeys(t) \cup SlotKeys \cup {k}
            BY <2>1, <2>4
        <3> QED BY <2>4, <3>1, <3>2, RoomForKey DEF KeysAreFinite, TrackedKeysBounded
    <2>5. \/ RateKeys' \subseteq SweptKeys(t)
          \/ RateKeys' = SweptKeys(t) \cup {k} /\ Room(k, t)
        BY <1>2, <1>3 DEF RateKeys, SweptKeys, Counted
    <2> QED BY <2>3, <2>4, <2>5 DEF Room, SweptKeys
<1> QED BY <1>5, <1>9, <1>10, <1>11 DEF LimitsHold

LEMMA LimiterRests ==
    ASSUME LimiterInv, UNCHANGED limiterVars
    PROVE  LimiterInv'
BY DEF limiterVars, LimiterInv, LimiterTypeOK, WindowsInOrder, Counts, KeysAreFinite,
       LimitsHold, RateHolds, TrackedKeysBounded, RateKeys, SlotKeys

LEMMA AllowStep ==
    ASSUME LimiterInv, NEW k \in Keys, NEW t \in Times, Allows(k, t) \/ Denies(k, t)
    PROVE  LimiterInv'
BY LimiterRests, ObserveStep DEF Allows, Denies

\* Slots come and go; nothing of the rates changes.
LEMMA SlotStep ==
    ASSUME LimiterInv, NEW k \in Keys, Acquires(k) \/ Releases(k)
    PROVE  LimiterInv'
<1> USE LimiterAssumption DEF LimiterInv
<1>1. UNCHANGED <<lastObserved, lastSweep, rate, granted>> /\ RateKeys' = RateKeys
    BY DEF Acquires, Releases, RateKeys
<1>2. WindowsInOrder' /\ RateHolds'
    BY <1>1 DEF WindowsInOrder, Counts, LimitsHold, RateHolds
<1>3. CASE Acquires(k)
    <2>1. /\ inflight' = [inflight EXCEPT ![k] = @ + 1] /\ inflight[k] < MaxInFlight
          /\ k \in RateKeys \/ ~Full
        BY <1>3 DEF Acquires, CanAcquire, RateKeys
    <2>2. LimiterTypeOK' /\ SlotKeys' = SlotKeys \cup {k}
        BY <1>1, <2>1 DEF LimiterTypeOK, SlotKeys
    <2>3. CASE k \in RateKeys
        <3>1. (RateKeys \cup SlotKeys)' = RateKeys \cup SlotKeys
            BY <1>1, <2>2, <2>3
        <3> QED BY <1>2, <2>2, <3>1 DEF KeysAreFinite, LimitsHold, TrackedKeysBounded
    <2>4. CASE ~Full
        <3>1. (RateKeys \cup SlotKeys)' = RateKeys \cup SlotKeys \cup {k}
            BY <1>1, <2>2
        <3>2. Cardinality(RateKeys) + Cardinality(SlotKeys) < MaxKeys
            <4>1. IsFiniteSet(RateKeys) /\ IsFiniteSet(SlotKeys)
                BY FS_Subset DEF KeysAreFinite
            <4> QED BY <2>4, <4>1, FS_CardinalityType DEF Full
        <3> QED
            BY <1>2, <2>2, <3>1, <3>2, RoomForKey DEF KeysAreFinite, LimitsHold, TrackedKeysBounded
    <2> QED BY <2>1, <2>3, <2>4
<1>4. CASE Releases(k)
    <2>1. LimiterTypeOK' /\ SlotKeys' \subseteq SlotKeys
        BY <1>1, <1>4 DEF Releases, LimiterTypeOK, SlotKeys
    <2>2. (RateKeys \cup SlotKeys)' \in SUBSET (RateKeys \cup SlotKeys)
        BY <1>1, <2>1
    <2> QED BY <1>2, <2>1, <2>2, FewerKeys DEF KeysAreFinite, LimitsHold, TrackedKeysBounded
<1> QED BY <1>3, <1>4

-----------------------------------------------------------------------------
(* The requests *)

\* What a request may hold at a step, for its grant g; past the limiter it is
\* for a grant.
HoldsAt(step, g, h) ==
    /\ step \in Steps \ {"new", "verify", "release", "gone"} => g \in Grants
    /\ step \in {"new", "verify", "entitle", "allow grant", "allow user",
                 "reserve grant", "gone"} => h = {}
    /\ step = "reserve user" => h = {g}
    /\ h # {} => g \in Grants /\ h \subseteq {g, UserOf[g]}

HoldsBySteps == \A r \in Requests : HoldsAt(at[r], grant[r], holds[r])

Holders(k) == {r \in Requests : k \in holds[r]}
HoldersAreFinite == \A k \in Keys : IsFiniteSet(Holders(k))

SlotsInv == HoldsBySteps /\ HoldersAreFinite /\ SlotsMatchCalls

-----------------------------------------------------------------------------
(* The gate and the shutdown *)

GateInv ==
    /\ stage \notin {"serving", "unready"} => closed
    /\ stage = "cancel" => tracked \subseteq cancelled \cup toCancel
    /\ StragglersCancelled

AdmissionInv == AdmissionTypeOK /\ LimiterInv /\ SlotsInv /\ GateInv

-----------------------------------------------------------------------------
(* Together *)

LEMMA AdmissionInitInv == Init => AdmissionInv
<1> SUFFICES ASSUME Init PROVE AdmissionInv
    OBVIOUS
<1>1. LimiterInv
    BY LimiterInitInv DEF Init
<1>2. AdmissionTypeOK
    BY <1>1 DEF Init, AdmissionTypeOK, LimiterInv, Steps, Stages
<1>3. HoldsBySteps
    BY DEF Init, HoldsBySteps, HoldsAt
<1>4. \A k \in Keys : Holders(k) = {}
    BY DEF Init, Holders
<1>5. HoldersAreFinite /\ SlotsMatchCalls
    BY <1>4, FS_EmptySet DEF HoldersAreFinite, SlotsMatchCalls, Init, LimiterInit, Holders
<1>6. GateInv
    BY DEF Init, GateInv, StragglersCancelled
<1> QED BY <1>1, <1>2, <1>3, <1>5, <1>6 DEF AdmissionInv, SlotsInv

\* Past the checks the grant of a request and its user are keys of the limiter.
LEMMA KeysOfRequest ==
    ASSUME AdmissionInv, NEW r \in Requests,
           at[r] \in Steps \ {"new", "verify", "release", "gone"} \/ holds[r] # {}
    PROVE  /\ grant[r] \in Grants /\ User(r) \in Users
           /\ grant[r] \in Keys /\ User(r) \in Keys /\ grant[r] # User(r)
BY AdmissionAssumption DEF AdmissionInv, SlotsInv, HoldsBySteps, HoldsAt, User

\* What a request may do to the limiter, and what it has to show for it.
LEMMA LimiterSteps ==
    ASSUME AdmissionInv, [Next]_vars
    PROVE  \/ UNCHANGED limiterVars
           \/ \E k \in Keys, t \in Times : Allows(k, t) \/ Denies(k, t)
           \/ \E k \in Keys : Acquires(k) \/ Releases(k)
<1>1. ASSUME NEW r \in Requests, AllowGrant(r) \/ AllowUser(r)
      PROVE  \E k \in Keys, t \in Times : Allows(k, t) \/ Denies(k, t)
    <2>1. grant[r] \in Keys /\ User(r) \in Keys
        BY <1>1, KeysOfRequest DEF AllowGrant, AllowUser, Goes, Steps
    <2> QED BY <1>1, <2>1 DEF AllowGrant, AllowUser
<1>2. ASSUME NEW r \in Requests, ReserveGrant(r) \/ ReserveUser(r)
      PROVE  UNCHANGED limiterVars \/ \E k \in Keys : Acquires(k)
    <2>1. grant[r] \in Keys /\ User(r) \in Keys
        BY <1>2, KeysOfRequest DEF ReserveGrant, ReserveUser, Goes, Steps
    <2> QED BY <1>2, <2>1 DEF ReserveGrant, ReserveUser
<1>3. ASSUME NEW r \in Requests, Release(r)
      PROVE  \E k \in Keys : Releases(k)
    <2>1. grant[r] \in Keys /\ User(r) \in Keys
        BY <1>3, KeysOfRequest DEF Release
    <2> QED BY <1>3, <2>1 DEF Release
<1>4. ASSUME NEW r \in Requests,
             \/ Arrive(r) \/ Verify(r) \/ Entitle(r) \/ TurnedAway(r)
             \/ Reauthorize(r) \/ RelayReturns(r) \/ RecordUsage(r) \/ RecordSuccess(r)
             \/ WakeDrain(r) \/ Done(r)
      PROVE  UNCHANGED limiterVars
    BY <1>4 DEF Arrive, Verify, Entitle, TurnedAway, Reauthorize, RelayReturns, RecordUsage,
           RecordSuccess, WakeDrain, Done
<1>5. CASE DrainStep \/ MarkUnready \/ Shutdown
    BY <1>5 DEF DrainStep, DrainWakes, DrainTakes, DrainRecords, MarkUnready, Shutdown,
           CloseWork, Drain, FailPending, CancelNext, AllCancelled, Teardown
<1>6. CASE UNCHANGED vars
    BY <1>6 DEF vars
<1> QED BY <1>1, <1>2, <1>3, <1>4, <1>5, <1>6 DEF Next, RequestStep

LEMMA LimiterHolds ==
    ASSUME AdmissionInv, [Next]_vars
    PROVE  LimiterInv'
BY LimiterSteps, LimiterRests, AllowStep, SlotStep DEF AdmissionInv

LEMMA TypesKept ==
    ASSUME AdmissionInv, [Next]_vars
    PROVE  AdmissionTypeOK'
<1> USE DEF AdmissionTypeOK
<1>1. LimiterTypeOK'
    BY LimiterHolds DEF LimiterInv
<1>2. AdmissionTypeOK /\ Grants \subseteq Keys
    BY AdmissionAssumption DEF AdmissionInv
<1>3. ASSUME NEW r \in Requests, RequestStep(r)
      PROVE  AdmissionTypeOK'
    <2>1. CASE Arrive(r) \/ Verify(r) \/ Entitle(r) \/ TurnedAway(r)
        BY <1>1, <1>2, <2>1
        DEF Arrive, Verify, Entitle, TurnedAway, Goes, Steps, gateVars, auditVars, shutdownVars
    <2>2. CASE AllowGrant(r) \/ AllowUser(r)
        BY <1>1, <1>2, <2>2
        DEF AllowGrant, AllowUser, Goes, Steps, gateVars, auditVars, shutdownVars
    <2>3. CASE ReserveGrant(r) \/ ReserveUser(r)
        <3>1. grant[r] \in Keys /\ User(r) \in Keys
            BY <2>3, KeysOfRequest DEF ReserveGrant, ReserveUser, Goes, Steps
        <3>2. holds' \in [Requests -> SUBSET Keys]
            <4>1. {grant[r]} \in SUBSET Keys /\ holds[r] \cup {User(r)} \in SUBSET Keys
                BY <1>2, <3>1
            <4>2. \/ UNCHANGED holds
                  \/ holds' = [holds EXCEPT ![r] = {grant[r]}]
                  \/ holds' = [holds EXCEPT ![r] = holds[r] \cup {User(r)}]
                BY <2>3 DEF ReserveGrant, ReserveUser
            <4> QED BY <1>2, <4>1, <4>2
        <3> QED BY <1>1, <1>2, <2>3, <3>2
            DEF ReserveGrant, ReserveUser, Goes, Steps, gateVars, auditVars, shutdownVars
    <2>4. CASE Reauthorize(r) \/ RelayReturns(r) \/ RecordUsage(r)
        BY <1>1, <1>2, <2>4
        DEF Reauthorize, RelayReturns, RecordUsage, Goes, Steps, gateVars, auditVars, shutdownVars
    <2>5. CASE RecordSuccess(r) \/ WakeDrain(r)
        BY <1>1, <1>2, <2>5
        DEF RecordSuccess, WakeDrain, Goes, Steps, gateVars, shutdownVars
    <2>6. CASE Release(r) \/ Done(r)
        BY <1>1, <1>2, <2>6
        DEF Release, Done, Goes, Steps, gateVars, auditVars, shutdownVars
    <2> QED BY <1>3, <2>1, <2>2, <2>3, <2>4, <2>5, <2>6 DEF RequestStep
<1>4. CASE DrainStep
    BY <1>1, <1>2, <1>4
    DEF DrainStep, DrainWakes, DrainTakes, DrainRecords, requestVars, gateVars, shutdownVars
<1>5. CASE MarkUnready \/ Shutdown
    BY <1>1, <1>2, <1>5
    DEF MarkUnready, Shutdown, CloseWork, Drain, FailPending, CancelNext, AllCancelled,
        Teardown, MovesOn, Stages, requestVars, gateVars, auditVars
<1>6. CASE UNCHANGED vars
    BY <1>1, <1>2, <1>6 DEF vars, requestVars, gateVars, auditVars, shutdownVars
<1> QED BY <1>3, <1>4, <1>5, <1>6 DEF Next

LEMMA GateKept ==
    ASSUME AdmissionInv, [Next]_vars
    PROVE  GateInv'
<1> USE DEF GateInv, StragglersCancelled
<1>1. AdmissionTypeOK /\ GateInv
    BY DEF AdmissionInv
<1>2. ASSUME NEW r \in Requests, RequestStep(r)
      PROVE  GateInv'
    <2>1. CASE Arrive(r)
        BY <1>1, <2>1 DEF Arrive, shutdownVars, gateVars, AdmissionTypeOK, Stages
    <2>2. CASE Done(r)
        BY <1>1, <2>2 DEF Done, shutdownVars
    <2>3. CASE UNCHANGED <<gateVars, shutdownVars>>
        BY <1>1, <2>3 DEF gateVars, shutdownVars
    <2> QED
        BY <1>2, <2>1, <2>2, <2>3
        DEF RequestStep, Verify, Entitle, TurnedAway, AllowGrant, AllowUser, ReserveGrant,
            ReserveUser, Reauthorize, RelayReturns, RecordUsage, RecordSuccess, WakeDrain,
            Release
<1>3. CASE DrainStep \/ UNCHANGED vars
    BY <1>1, <1>3
    DEF DrainStep, DrainWakes, DrainTakes, DrainRecords, vars, gateVars, shutdownVars
<1>4. CASE MarkUnready \/ CloseWork
    BY <1>1, <1>4 DEF MarkUnready, CloseWork, MovesOn, gateVars
<1>5. CASE Drain \/ FailPending
    BY <1>1, <1>5 DEF Drain, FailPending, MovesOn, gateVars
<1>6. CASE CancelNext \/ AllCancelled
    BY <1>1, <1>6 DEF CancelNext, AllCancelled, MovesOn, gateVars
<1>7. CASE Teardown
    BY <1>1, <1>7 DEF Teardown, MovesOn, gateVars
<1> QED BY <1>2, <1>3, <1>4, <1>5, <1>6, <1>7 DEF Next, Shutdown

\* A request that goes on with what it holds: no count changes.
LEMMA SlotsRest ==
    ASSUME SlotsMatchCalls, HoldersAreFinite, UNCHANGED <<inflight, holds>>
    PROVE  SlotsMatchCalls' /\ HoldersAreFinite'
BY DEF SlotsMatchCalls, HoldersAreFinite, Holders

\* A slot acquired is a new holder of its key, one released is one fewer.
LEMMA SlotAcquired ==
    ASSUME AdmissionInv, NEW r \in Requests, NEW k \in Keys, k \notin holds[r],
           Acquires(k), holds' = [holds EXCEPT ![r] = @ \cup {k}]
    PROVE  SlotsMatchCalls' /\ HoldersAreFinite'
<1> USE DEF AdmissionInv, SlotsInv, AdmissionTypeOK, LimiterTypeOK
<1>1. /\ Holders(k)' = Holders(k) \cup {r} /\ r \notin Holders(k)
      /\ \A q \in Keys \ {k} : Holders(q)' = Holders(q)
    BY DEF Holders
<1>2. IsFiniteSet(Holders(k)) /\ inflight[k] = Cardinality(Holders(k))
    BY DEF HoldersAreFinite, SlotsMatchCalls, Holders
<1>3. /\ IsFiniteSet(Holders(k) \cup {r})
      /\ Cardinality(Holders(k) \cup {r}) = inflight[k] + 1
    BY <1>1, <1>2, FS_AddElement
<1>4. inflight'[k] = inflight[k] + 1 /\ \A q \in Keys \ {k} : inflight'[q] = inflight[q]
    BY DEF Acquires
<1>5. ASSUME NEW q \in Keys
      PROVE  IsFiniteSet(Holders(q)') /\ inflight'[q] = Cardinality(Holders(q)')
    <2>1. CASE q = k
        BY <1>1, <1>3, <1>4, <2>1
    <2>2. CASE q # k
        BY <1>1, <1>4, <2>2 DEF HoldersAreFinite, SlotsMatchCalls, Holders
    <2> QED BY <2>1, <2>2
<1> QED BY <1>5 DEF HoldersAreFinite, SlotsMatchCalls, Holders

LEMMA SlotReleased ==
    ASSUME AdmissionInv, NEW r \in Requests, NEW k \in Keys, k \in holds[r],
           Releases(k), holds' = [holds EXCEPT ![r] = @ \ {k}]
    PROVE  SlotsMatchCalls' /\ HoldersAreFinite'
<1> USE DEF AdmissionInv, SlotsInv, AdmissionTypeOK, LimiterTypeOK
<1>1. /\ Holders(k)' = Holders(k) \ {r} /\ r \in Holders(k)
      /\ \A q \in Keys \ {k} : Holders(q)' = Holders(q)
    BY DEF Holders
<1>2. IsFiniteSet(Holders(k)) /\ inflight[k] = Cardinality(Holders(k))
    BY DEF HoldersAreFinite, SlotsMatchCalls, Holders
<1>3. /\ IsFiniteSet(Holders(k) \ {r})
      /\ Cardinality(Holders(k) \ {r}) = inflight[k] - 1
    BY <1>1, <1>2, FS_RemoveElement
<1>4. Cardinality(Holders(k)) # 0
    BY <1>1, <1>2, FS_EmptySet
<1>5. inflight[k] > 0
    BY <1>2, <1>4, LimiterAssumption
<1>6. inflight'[k] = inflight[k] - 1 /\ \A q \in Keys \ {k} : inflight'[q] = inflight[q]
    BY <1>5 DEF Releases
<1>7. ASSUME NEW q \in Keys
      PROVE  IsFiniteSet(Holders(q)') /\ inflight'[q] = Cardinality(Holders(q)')
    <2>1. CASE q = k
        BY <1>1, <1>3, <1>6, <2>1
    <2>2. CASE q # k
        BY <1>1, <1>6, <2>2 DEF HoldersAreFinite, SlotsMatchCalls, Holders
    <2> QED BY <2>1, <2>2
<1> QED BY <1>7 DEF HoldersAreFinite, SlotsMatchCalls, Holders

\* A step of one request is judged by what this request holds after it.
LEMMA HoldsMove ==
    ASSUME AdmissionInv, NEW r \in Requests, NEW from, NEW to, Goes(r, from, to),
           \A q \in Requests \ {r} : grant'[q] = grant[q] /\ holds'[q] = holds[q],
           HoldsAt(from, grant[r], holds[r]) => HoldsAt(to, grant'[r], holds'[r])
    PROVE  HoldsBySteps'
<1>1. at[r] = from /\ at'[r] = to /\ \A q \in Requests \ {r} : at'[q] = at[q]
    BY DEF Goes, AdmissionInv, AdmissionTypeOK
<1>2. \A q \in Requests : HoldsAt(at'[q], grant'[q], holds'[q])
    BY <1>1 DEF AdmissionInv, SlotsInv, HoldsBySteps
<1> QED BY <1>2 DEF HoldsBySteps, HoldsAt

\* A request that goes on with the grant and the slots it has.
LEMMA HoldsOn ==
    ASSUME AdmissionInv, NEW r \in Requests, NEW from, NEW to, Goes(r, from, to),
           UNCHANGED <<grant, holds, inflight>>,
           HoldsAt(from, grant[r], holds[r]) => HoldsAt(to, grant[r], holds[r])
    PROVE  SlotsInv'
BY HoldsMove, SlotsRest DEF AdmissionInv, SlotsInv

LEMMA SlotsKept ==
    ASSUME AdmissionInv, [Next]_vars
    PROVE  SlotsInv'
<1>1. SlotsInv /\ AdmissionTypeOK
    BY DEF AdmissionInv
<1>2. ASSUME NEW r \in Requests, RequestStep(r)
      PROVE  SlotsInv'
    <2>1. CASE Arrive(r)
        BY <2>1, HoldsOn DEF Arrive, limiterVars, HoldsAt, Steps
    <2>2. CASE Verify(r)
        <3>1. PICK g \in Grants : grant' = [grant EXCEPT ![r] = g]
            BY <2>2 DEF Verify
        <3>2. /\ grant'[r] = g /\ UNCHANGED <<inflight, holds>>
              /\ \A q \in Requests \ {r} : grant'[q] = grant[q]
            BY <1>1, <2>2, <3>1 DEF Verify, limiterVars, AdmissionTypeOK
        <3>3. HoldsBySteps'
            BY <2>2, <3>2, HoldsMove DEF Verify, HoldsAt, Steps
        <3> QED BY <1>1, <3>2, <3>3, SlotsRest DEF SlotsInv
    <2>3. CASE Entitle(r) \/ TurnedAway(r)
        BY <2>3, HoldsOn DEF Entitle, TurnedAway, limiterVars, HoldsAt, Steps
    <2>4. CASE AllowGrant(r)
        BY <2>4, HoldsOn DEF AllowGrant, Allows, Denies, limiterVars, HoldsAt, Steps
    <2>5. CASE AllowUser(r)
        BY <2>5, HoldsOn DEF AllowUser, Allows, Denies, limiterVars, HoldsAt, Steps
    <2>6. CASE ReserveGrant(r)
        <3>1. /\ grant[r] \in Grants /\ grant[r] \in Keys /\ holds[r] = {}
              /\ UNCHANGED grant
            BY <1>1, <2>6, KeysOfRequest
            DEF ReserveGrant, SlotsInv, HoldsBySteps, HoldsAt, Goes, Steps
        <3>2. CASE UNCHANGED <<limiterVars, holds>> /\ Goes(r, "reserve grant", "release")
            BY <3>1, <3>2, HoldsOn DEF limiterVars, HoldsAt, Steps
        <3>3. CASE /\ Acquires(grant[r]) /\ holds' = [holds EXCEPT ![r] = {grant[r]}]
                   /\ Goes(r, "reserve grant", "reserve user")
            <4>1. /\ holds' = [holds EXCEPT ![r] = @ \cup {grant[r]}]
                  /\ holds'[r] = {grant[r]} /\ \A q \in Requests \ {r} : holds'[q] = holds[q]
                BY <1>1, <3>1, <3>3 DEF AdmissionTypeOK
            <4>2. HoldsBySteps'
                BY <3>1, <3>3, <4>1, HoldsMove DEF HoldsAt
            <4> QED BY <3>1, <3>3, <4>1, <4>2, SlotAcquired DEF SlotsInv
        <3> QED BY <2>6, <3>2, <3>3 DEF ReserveGrant
    <2>7. CASE ReserveUser(r)
        <3>1. /\ grant[r] \in Grants /\ User(r) \in Keys /\ User(r) # grant[r]
              /\ holds[r] = {grant[r]} /\ UNCHANGED grant
            BY <1>1, <2>7, KeysOfRequest
            DEF ReserveUser, SlotsInv, HoldsBySteps, HoldsAt, Goes, Steps
        <3>2. CASE UNCHANGED <<limiterVars, holds>> /\ Goes(r, "reserve user", "release")
            BY <3>1, <3>2, HoldsOn DEF limiterVars, HoldsAt, Steps
        <3>3. CASE /\ Acquires(User(r)) /\ holds' = [holds EXCEPT ![r] = @ \cup {User(r)}]
                   /\ Goes(r, "reserve user", "reauthorize")
            <4>1. /\ holds'[r] = {grant[r], User(r)}
                  /\ \A q \in Requests \ {r} : holds'[q] = holds[q]
                BY <1>1, <3>1, <3>3 DEF AdmissionTypeOK
            <4>2. HoldsBySteps'
                BY <3>1, <3>3, <4>1, HoldsMove DEF HoldsAt, User
            <4> QED BY <3>1, <3>3, <4>2, SlotAcquired DEF SlotsInv
        <3> QED BY <2>7, <3>2, <3>3 DEF ReserveUser
    <2>8. CASE \/ Reauthorize(r) \/ RelayReturns(r) \/ RecordUsage(r)
               \/ RecordSuccess(r) \/ WakeDrain(r)
        <3>1. PICK from \in {"reauthorize", "relay", "usage", "audit", "wake drain"},
                   to \in {"relay", "usage", "audit", "wake drain", "release"} :
                  Goes(r, from, to)
            BY <2>8 DEF Reauthorize, RelayReturns, RecordUsage, RecordSuccess, WakeDrain
        <3>2. UNCHANGED <<grant, holds, inflight>>
            BY <2>8
            DEF Reauthorize, RelayReturns, RecordUsage, RecordSuccess, WakeDrain, limiterVars
        <3> QED BY <3>1, <3>2, HoldsOn DEF HoldsAt, Steps
    <2>9. CASE Release(r)
        <3> DEFINE key == IF grant[r] \in holds[r] THEN grant[r] ELSE User(r)
        <3>1. /\ grant[r] \in Keys /\ User(r) \in Keys
              /\ holds[r] # {} /\ holds[r] \subseteq {grant[r], User(r)}
            BY <1>1, <2>9, KeysOfRequest
            DEF Release, SlotsInv, HoldsBySteps, HoldsAt, User
        <3>2. key \in Keys /\ key \in holds[r]
            BY <3>1
        <3>3. /\ Releases(key) /\ holds' = [holds EXCEPT ![r] = @ \ {key}]
              /\ UNCHANGED grant
            BY <2>9 DEF Release
        <3> HIDE DEF key
        <3>4. /\ holds'[r] \subseteq holds[r]
              /\ \A q \in Requests \ {r} : holds'[q] = holds[q]
            BY <1>1, <3>3 DEF AdmissionTypeOK
        <3>5. HoldsBySteps'
            BY <2>9, <3>3, <3>4, HoldsMove DEF Release, HoldsAt, Steps
        <3> QED BY <3>2, <3>3, <3>5, SlotReleased DEF SlotsInv
    <2>10. CASE Done(r)
        <3>1. /\ holds[r] = {} /\ UNCHANGED <<inflight, holds>>
              /\ \A q \in Requests \ {r} : grant'[q] = grant[q]
            BY <1>1, <2>10 DEF Done, limiterVars, AdmissionTypeOK
        <3>2. HoldsBySteps'
            BY <2>10, <3>1, HoldsMove DEF Done, HoldsAt, Steps
        <3> QED BY <1>1, <3>1, <3>2, SlotsRest DEF SlotsInv
    <2> QED
        BY <1>2, <2>1, <2>2, <2>3, <2>4, <2>5, <2>6, <2>7, <2>8, <2>9, <2>10
        DEF RequestStep
<1>3. CASE DrainStep \/ MarkUnready \/ Shutdown \/ UNCHANGED vars
    <2>1. UNCHANGED <<inflight, at, grant, holds>>
        BY <1>3
        DEF DrainStep, DrainWakes, DrainTakes, DrainRecords, MarkUnready, Shutdown, CloseWork,
            Drain, FailPending, CancelNext, AllCancelled, Teardown, vars, requestVars,
            limiterVars
    <2> QED BY <1>1, <2>1, SlotsRest DEF SlotsInv, HoldsBySteps, HoldsAt
<1> QED BY <1>2, <1>3 DEF Next

LEMMA AdmissionStep == AdmissionInv /\ [Next]_vars => AdmissionInv'
BY LimiterHolds, TypesKept, GateKept, SlotsKept DEF AdmissionInv

\* The inductive invariant of the limiter, the requests and the shutdown holds in
\* every reachable state: counts, tracked keys and releases agree at every step
\* of a request (MCPLimiter, reserveInFlight, WorkGate).
THEOREM AdmissionInvHolds == Spec => []AdmissionInv
BY AdmissionInitInv, AdmissionStep, PTL DEF Spec

\* AdmissionTypeOK: the counters stay in their bounds, and each request at a
\* step of the handlers.
THEOREM AdmissionTypeHolds == Spec => []AdmissionTypeOK
<1>1. AdmissionInv => AdmissionTypeOK
    BY DEF AdmissionInv
<1> QED BY <1>1, AdmissionInvHolds, PTL

\* LimitsHold: no key is allowed more than its budget in a window, wherever the
\* clock is set, and no more keys are tracked than MaxKeys (MCPLimiter).
THEOREM LimitsHoldAlways == Spec => []LimitsHold
<1>1. AdmissionInv => LimitsHold
    BY DEF AdmissionInv, LimiterInv
<1> QED BY <1>1, AdmissionInvHolds, PTL

\* SlotsMatchCalls: the in-flight count of a key is the number of requests that
\* hold its release function (reserveInFlight and its deferred releases).
THEOREM SlotsMatchCallsHolds == Spec => []SlotsMatchCalls
<1>1. AdmissionInv => SlotsMatchCalls
    BY DEF AdmissionInv, SlotsInv
<1> QED BY <1>1, AdmissionInvHolds, PTL

\* StragglersCancelled: once FailPending is through, a tracked request is a
\* cancelled one (WorkGate and Server.Shutdown).
THEOREM StragglersCancelledHolds == Spec => []StragglersCancelled
<1>1. AdmissionInv => StragglersCancelled
    BY DEF AdmissionInv, GateInv
<1> QED BY <1>1, AdmissionInvHolds, PTL
=============================================================================
