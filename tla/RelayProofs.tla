----------------------------- MODULE RelayProofs -----------------------------
(***************************************************************************)
(* Proofs about relayed calls, for any number of calls, sessions, devices, *)
(* connections and sweeping goroutines and any queue depth: first about    *)
(* the correlation registry and the live connections by themselves, then   *)
(* what a call leaves behind and what it may tell its caller.              *)
(***************************************************************************)
EXTENDS Relay, FiniteSetTheorems, TLAPS

-----------------------------------------------------------------------------
(* The correlation registry (module Pending) *)

\* A goroutine with entries left to complete knows what to tell them.
SweepersHaveCause ==
    \A w \in Sweepers : sweepLeft[w] # {} => sweepCause[w] \in SweepOutcomes

\* Only a registration is associated with a device.
AssociatedIsRegistered ==
    \A r \in Requests : ~Registered(r) => device[r] = None

\* The inductive invariant.  ExactlyOnce alone is not inductive: a sweeper's
\* outcome must be one, and an index must lead to live entries only, or a later
\* step would complete a request twice or leave one behind.
PendingInv ==
    /\ TypeOK
    /\ ExactlyOnce
    /\ IndexesHoldLiveEntries
    /\ NoEntryEscapes
    /\ DeadlineArmed
    /\ SweepersHaveCause
    /\ AssociatedIsRegistered

LEMMA OutcomeFacts ==
    /\ NoOutcome \notin Outcomes
    /\ SweepOutcomes \subseteq Outcomes
    /\ ResolveOutcomes \subseteq Outcomes
    /\ "deadline" \in Outcomes
BY PendingAssumption DEF NoOutcome, Outcomes, SweepOutcomes

LEMMA PendingInitInv == PendingInit => PendingInv
BY PendingAssumption, IdsAssumption
   DEF PendingInit, PendingInv, TypeOK, ExactlyOnce, IndexesHoldLiveEntries,
       NoEntryEscapes, DeadlineArmed, SweepersHaveCause,
       AssociatedIsRegistered, Registered, Swept,
       TimerStates, NoOutcome

\* Any completion, by whichever goroutine: the entry leaves the map and its
\* indexes and is owed one outcome, or nothing changes.
LEMMA DeliverInv ==
    ASSUME PendingInv, NEW r \in Requests, NEW o \in Outcomes, Deliver(r, o),
           session' = session, device' = device, result' = result
    PROVE  /\ entries' \subseteq Requests
           /\ bySession' \in [Sessions -> SUBSET Requests]
           /\ byDevice' \in [Devices -> SUBSET Requests]
           /\ sends' \in [Requests -> SUBSET Outcomes]
           /\ ExactlyOnce'
           /\ IndexesHoldLiveEntries'
           /\ r \notin entries'
           /\ \A q \in entries' : q \in entries /\ q # r
           /\ \A q \in Requests \ {r}, s \in Sessions :
                  q \in bySession'[s] <=> q \in bySession[s]
           /\ \A q \in Requests \ {r}, d \in Devices :
                  q \in byDevice'[d] <=> q \in byDevice[d]
<1>1. CASE r \notin entries
  BY <1>1 DEF Deliver, PendingInv, TypeOK, ExactlyOnce, IndexesHoldLiveEntries, Registered
<1>2. CASE r \in entries
  <2>1. /\ entries' \subseteq Requests
        /\ bySession' \in [Sessions -> SUBSET Requests]
        /\ byDevice' \in [Devices -> SUBSET Requests]
        /\ sends' \in [Requests -> SUBSET Outcomes]
    BY <1>2 DEF Deliver, Remove, PendingInv, TypeOK
  <2>2. ExactlyOnce'
    <3>1. /\ r \notin entries' /\ sends'[r] = {o} /\ result'[r] = NoOutcome
          /\ Registered(r)'
      BY <1>2 DEF Deliver, Remove, PendingInv, TypeOK, ExactlyOnce, Registered
    <3>2. ASSUME NEW q \in Requests, q # r
          PROVE  /\ q \in entries' <=> q \in entries
                 /\ sends'[q] = sends[q] /\ result'[q] = result[q]
                 /\ Registered(q)' <=> Registered(q)
      BY <1>2, <3>2 DEF Deliver, Remove, PendingInv, TypeOK, Registered
    <3>3. QED BY <3>1, <3>2 DEF PendingInv, ExactlyOnce
  <2>3. IndexesHoldLiveEntries'
    BY <1>2 DEF Deliver, Remove, PendingInv, TypeOK, IndexesHoldLiveEntries
  <2>4. /\ r \notin entries'
        /\ \A q \in entries' : q \in entries /\ q # r
        /\ \A q \in Requests \ {r}, s \in Sessions :
               q \in bySession'[s] <=> q \in bySession[s]
        /\ \A q \in Requests \ {r}, d \in Devices :
               q \in byDevice'[d] <=> q \in byDevice[d]
    BY <1>2 DEF Deliver, Remove, PendingInv, TypeOK
  <2>5. QED BY <2>1, <2>2, <2>3, <2>4
<1>3. QED BY <1>1, <1>2

LEMMA RegisterInv ==
    ASSUME PendingInv, NEW r \in Requests, NEW s \in Sessions, Register(r, s)
    PROVE  PendingInv'
<1>1. TypeOK'
  BY DEF Register, ArmTimer, PendingInv, TypeOK, TimerStates
<1>2. ExactlyOnce'
  BY PendingAssumption, IdsAssumption DEF Register, PendingInv, TypeOK, ExactlyOnce, Registered
<1>3. IndexesHoldLiveEntries'
  BY DEF Register, PendingInv, TypeOK, IndexesHoldLiveEntries, ExactlyOnce
<1>4. NoEntryEscapes'
  <2>1. ASSUME NEW q \in entries', q # r
        PROVE  /\ q \in bySession'[session'[q]] \/ Swept(q)'
               /\ device'[q] # None => q \in byDevice'[device'[q]] \/ Swept(q)'
    BY <2>1 DEF Register, PendingInv, TypeOK, NoEntryEscapes, Swept
  <2>2. /\ r \in bySession'[session'[r]]
        /\ device'[r] # None => r \in byDevice'[device'[r]]
    <3>1. r \in bySession'[session'[r]]
      BY DEF Register, PendingInv, TypeOK
    <3>2. device[r] = None
      BY DEF Register, PendingInv, AssociatedIsRegistered
    <3>3. QED BY <3>1, <3>2 DEF Register
  <2>3. QED BY <2>1, <2>2 DEF NoEntryEscapes
<1>5. DeadlineArmed'
  BY DEF Register, ArmTimer, PendingInv, TypeOK, DeadlineArmed
<1>6. SweepersHaveCause'
  BY DEF Register, PendingInv, SweepersHaveCause
<1>7. AssociatedIsRegistered'
  BY DEF Register, PendingInv, TypeOK, AssociatedIsRegistered, Registered
<1>8. QED BY <1>1, <1>2, <1>3, <1>4, <1>5, <1>6, <1>7 DEF PendingInv

LEMMA AssociateInv ==
    ASSUME PendingInv, NEW r \in Requests, NEW d \in Devices, Associate(r, d)
    PROVE  PendingInv'
<1>1. TypeOK'
  BY DEF Associate, PendingInv, TypeOK
<1>2. ExactlyOnce'
  BY DEF Associate, PendingInv, ExactlyOnce, Registered
<1>3. IndexesHoldLiveEntries'
  <2>1. \A e \in Devices, q \in Requests :
            q \in byDevice'[e] => q \in entries' /\ device'[q] = e
    <3>1. SUFFICES ASSUME NEW e \in Devices, NEW q \in Requests, q \in byDevice'[e]
                   PROVE  q \in entries' /\ device'[q] = e
      OBVIOUS
    <3>2. CASE q = r
      BY <3>1, <3>2 DEF Associate, PendingInv, TypeOK, IndexesHoldLiveEntries
    <3>3. CASE q # r
      BY <3>1, <3>3 DEF Associate, PendingInv, TypeOK, IndexesHoldLiveEntries
    <3>4. QED BY <3>2, <3>3
  <2>2. \A s \in Sessions, q \in Requests :
            q \in bySession'[s] => q \in entries' /\ session'[q] = s
    BY DEF Associate, PendingInv, IndexesHoldLiveEntries
  <2>3. QED BY <2>1, <2>2 DEF IndexesHoldLiveEntries
<1>4. NoEntryEscapes'
  <2>1. SUFFICES ASSUME NEW q \in entries'
                 PROVE  /\ q \in bySession'[session'[q]] \/ Swept(q)'
                        /\ device'[q] # None => q \in byDevice'[device'[q]] \/ Swept(q)'
    BY DEF NoEntryEscapes
  <2>2. q \in bySession'[session'[q]] \/ Swept(q)'
    BY DEF Associate, PendingInv, NoEntryEscapes, Swept
  <2>3. CASE q = r
    BY <2>2, <2>3 DEF Associate, PendingInv, TypeOK
  <2>4. CASE q # r
    <3>1. device'[q] = device[q] /\ q \in entries
      BY <2>4 DEF Associate, PendingInv, TypeOK
    <3>2. \A e \in Devices : q \in byDevice[e] => q \in byDevice'[e]
      BY <2>4 DEF Associate, PendingInv, TypeOK
    <3>3. device[q] \in Devices \cup {None}
      BY DEF PendingInv, TypeOK, Associate
    <3>4. QED BY <2>2, <3>1, <3>2, <3>3 DEF Associate, PendingInv, NoEntryEscapes, Swept
  <2>5. QED BY <2>3, <2>4
<1>5. DeadlineArmed'
  BY DEF Associate, PendingInv, DeadlineArmed
<1>6. SweepersHaveCause'
  BY DEF Associate, PendingInv, SweepersHaveCause
<1>7. AssociatedIsRegistered'
  BY DEF Associate, PendingInv, TypeOK, AssociatedIsRegistered, Registered, ExactlyOnce
<1>8. QED BY <1>1, <1>2, <1>3, <1>4, <1>5, <1>6, <1>7 DEF PendingInv

\* The parts of the invariant that concern the entries a completion leaves.
LEMMA SurvivorsInv ==
    ASSUME PendingInv, NEW r \in Requests, NEW o \in Outcomes, Deliver(r, o),
           session' = session, device' = device, result' = result,
           NEW q \in entries',
           \A w \in Sweepers : q \in sweepLeft[w] => q \in sweepLeft'[w]
    PROVE  /\ q \in bySession'[session'[q]] \/ Swept(q)'
           /\ device'[q] # None => q \in byDevice'[device'[q]] \/ Swept(q)'
<1>1. q \in entries /\ q # r /\ q \in Requests
  BY DeliverInv DEF PendingInv, TypeOK
<1>2. session[q] \in Sessions /\ device[q] \in Devices \cup {None}
  BY <1>1 DEF PendingInv, TypeOK, ExactlyOnce, Registered
<1>3. Swept(q) => Swept(q)'
  BY DEF Swept
<1>4. /\ q \in bySession[session[q]] \/ Swept(q)
      /\ device[q] # None => q \in byDevice[device[q]] \/ Swept(q)
  BY <1>1 DEF PendingInv, NoEntryEscapes
<1>5. \A s \in Sessions : q \in bySession'[s] <=> q \in bySession[s]
  BY <1>1, DeliverInv
<1>6. \A d \in Devices : q \in byDevice'[d] <=> q \in byDevice[d]
  BY <1>1, DeliverInv
<1>7. QED BY <1>2, <1>3, <1>4, <1>5, <1>6

LEMMA ResolveInv ==
    ASSUME PendingInv, NEW r \in Requests, NEW o \in Outcomes, Resolve(r, o)
    PROVE  PendingInv'
<1>1. Deliver(r, o) /\ session' = session /\ device' = device /\ result' = result
  BY DEF Resolve
<1>2. TypeOK'
  BY <1>1, DeliverInv DEF Resolve, StopTimer, PendingInv, TypeOK, TimerStates
<1>3. ExactlyOnce' /\ IndexesHoldLiveEntries'
  BY <1>1, DeliverInv
<1>4. NoEntryEscapes'
  BY <1>1, SurvivorsInv DEF Resolve, NoEntryEscapes
<1>5. DeadlineArmed'
  <2>1. \A q \in entries' : q \in entries /\ q # r
    BY <1>1, DeliverInv
  <2>2. QED BY <2>1 DEF Resolve, StopTimer, PendingInv, TypeOK, DeadlineArmed
<1>6. SweepersHaveCause' /\ AssociatedIsRegistered'
  BY DEF Resolve, PendingInv, SweepersHaveCause, AssociatedIsRegistered, Registered
<1>7. QED BY <1>2, <1>3, <1>4, <1>5, <1>6 DEF PendingInv

LEMMA TimerInv ==
    ASSUME PendingInv, NEW r \in Requests, TimerFire(r) \/ TimerDeliver(r)
    PROVE  PendingInv'
<1>1. CASE TimerFire(r)
  <2>1. TypeOK'
    BY <1>1 DEF TimerFire, PendingInv, TypeOK, TimerStates
  <2>2. DeadlineArmed'
    BY <1>1 DEF TimerFire, PendingInv, TypeOK, DeadlineArmed
  <2>3. QED
    BY <1>1, <2>1, <2>2 DEF TimerFire, PendingInv, ExactlyOnce, IndexesHoldLiveEntries,
       NoEntryEscapes, SweepersHaveCause, AssociatedIsRegistered, Registered, Swept
<1>2. CASE TimerDeliver(r)
  <2>1. /\ Deliver(r, "deadline") /\ session' = session /\ device' = device
        /\ result' = result /\ "deadline" \in Outcomes
    BY <1>2, OutcomeFacts DEF TimerDeliver
  <2>2. TypeOK'
    BY <1>2, <2>1, DeliverInv DEF TimerDeliver, PendingInv, TypeOK, TimerStates
  <2>3. ExactlyOnce' /\ IndexesHoldLiveEntries'
    BY <2>1, DeliverInv
  <2>4. NoEntryEscapes'
    BY <1>2, <2>1, SurvivorsInv DEF TimerDeliver, NoEntryEscapes
  <2>5. DeadlineArmed'
    <3>1. \A q \in entries' : q \in entries /\ q # r
      BY <2>1, DeliverInv
    <3>2. QED BY <1>2, <3>1 DEF TimerDeliver, PendingInv, TypeOK, DeadlineArmed
  <2>6. SweepersHaveCause' /\ AssociatedIsRegistered'
    BY <1>2 DEF TimerDeliver, PendingInv, SweepersHaveCause, AssociatedIsRegistered, Registered
  <2>7. QED BY <2>2, <2>3, <2>4, <2>5, <2>6 DEF PendingInv
<1>3. QED BY <1>1, <1>2

LEMMA SendResultInv ==
    ASSUME PendingInv, NEW r \in Requests, SendResult(r)
    PROVE  PendingInv'
<1>1. PICK o \in sends[r] :
          /\ result[r] = NoOutcome
          /\ result' = [result EXCEPT ![r] = o]
          /\ sends' = [sends EXCEPT ![r] = @ \ {o}]
          /\ UNCHANGED <<entries, session, device, bySession, byDevice, timer,
                         sweepLeft, sweepCause>>
  BY DEF SendResult
<1>2. o \in Outcomes /\ o # NoOutcome
  BY <1>1, OutcomeFacts DEF PendingInv, TypeOK
<1>3. TypeOK'
  BY <1>1, <1>2 DEF PendingInv, TypeOK
<1>4. ExactlyOnce'
  <2>1. /\ r \notin entries' /\ sends'[r] = {} /\ result'[r] = o
        /\ Registered(r)'
    BY <1>1, <1>2 DEF PendingInv, TypeOK, ExactlyOnce, Registered
  <2>2. ASSUME NEW q \in Requests, q # r
        PROVE  /\ q \in entries' <=> q \in entries
               /\ sends'[q] = sends[q] /\ result'[q] = result[q]
               /\ Registered(q)' <=> Registered(q)
    BY <1>1, <2>2 DEF PendingInv, TypeOK, Registered
  <2>3. QED BY <1>2, <2>1, <2>2 DEF PendingInv, ExactlyOnce
<1>5. IndexesHoldLiveEntries' /\ NoEntryEscapes' /\ DeadlineArmed'
      /\ SweepersHaveCause' /\ AssociatedIsRegistered'
  BY <1>1 DEF PendingInv, IndexesHoldLiveEntries, NoEntryEscapes, DeadlineArmed,
     SweepersHaveCause, AssociatedIsRegistered, Registered, Swept
<1>6. QED BY <1>3, <1>4, <1>5 DEF PendingInv

LEMMA CancelSessionInv ==
    ASSUME PendingInv, NEW w \in Sweepers, NEW s \in Sessions, CancelSession(w, s)
    PROVE  PendingInv'
<1>1. TypeOK'
  BY DEF CancelSession, Sweep, PendingInv, TypeOK, SweepOutcomes
<1>2. ExactlyOnce' /\ DeadlineArmed' /\ AssociatedIsRegistered'
  BY DEF CancelSession, PendingInv, ExactlyOnce, DeadlineArmed, AssociatedIsRegistered,
     Registered
<1>3. IndexesHoldLiveEntries'
  BY DEF CancelSession, PendingInv, TypeOK, IndexesHoldLiveEntries
<1>4. NoEntryEscapes'
  <2>1. \A q \in Requests : Swept(q) => Swept(q)'
    BY DEF CancelSession, Sweep, PendingInv, TypeOK, Swept
  <2>2. \A q \in bySession[s] : Swept(q)'
    BY DEF CancelSession, Sweep, PendingInv, TypeOK, Swept
  <2>3. \A t \in Sessions : \A q \in bySession[t] : q \in bySession'[t] \/ Swept(q)'
    BY <2>2 DEF CancelSession, PendingInv, TypeOK
  <2>4. \A q \in entries : session[q] \in Sessions /\ q \in Requests
    BY DEF PendingInv, TypeOK, ExactlyOnce, Registered
  <2>5. QED BY <2>1, <2>3, <2>4 DEF CancelSession, PendingInv, NoEntryEscapes
<1>5. SweepersHaveCause'
  BY DEF CancelSession, Sweep, PendingInv, TypeOK, SweepersHaveCause, SweepOutcomes
<1>6. QED BY <1>1, <1>2, <1>3, <1>4, <1>5 DEF PendingInv

LEMMA FailDeviceInv ==
    ASSUME PendingInv, NEW w \in Sweepers, NEW d \in Devices, FailDevice(w, d)
    PROVE  PendingInv'
<1>1. TypeOK'
  BY DEF FailDevice, Sweep, PendingInv, TypeOK, SweepOutcomes
<1>2. ExactlyOnce' /\ DeadlineArmed' /\ AssociatedIsRegistered'
  BY DEF FailDevice, PendingInv, ExactlyOnce, DeadlineArmed, AssociatedIsRegistered,
     Registered
<1>3. IndexesHoldLiveEntries'
  BY DEF FailDevice, PendingInv, TypeOK, IndexesHoldLiveEntries
<1>4. NoEntryEscapes'
  <2>1. \A q \in Requests : Swept(q) => Swept(q)'
    BY DEF FailDevice, Sweep, PendingInv, TypeOK, Swept
  <2>2. \A q \in byDevice[d] : Swept(q)'
    BY DEF FailDevice, Sweep, PendingInv, TypeOK, Swept
  <2>3. \A e \in Devices : \A q \in byDevice[e] : q \in byDevice'[e] \/ Swept(q)'
    BY <2>2 DEF FailDevice, PendingInv, TypeOK
  <2>4. \A q \in entries : device[q] \in Devices \cup {None} /\ q \in Requests
    BY DEF PendingInv, TypeOK
  <2>5. QED BY <2>1, <2>3, <2>4 DEF FailDevice, PendingInv, NoEntryEscapes
<1>5. SweepersHaveCause'
  BY DEF FailDevice, Sweep, PendingInv, TypeOK, SweepersHaveCause, SweepOutcomes
<1>6. QED BY <1>1, <1>2, <1>3, <1>4, <1>5 DEF PendingInv

LEMMA SweepNextInv ==
    ASSUME PendingInv, NEW w \in Sweepers, SweepNext(w)
    PROVE  PendingInv'
<1>1. PICK r \in sweepLeft[w] :
          /\ Deliver(r, sweepCause[w])
          /\ StopTimer(r)
          /\ sweepLeft' = [sweepLeft EXCEPT ![w] = @ \ {r}]
          /\ sweepCause' = [sweepCause EXCEPT
                              ![w] = IF sweepLeft[w] = {r} THEN NoOutcome ELSE @]
          /\ UNCHANGED <<session, device, result>>
  BY DEF SweepNext
<1>2. r \in Requests /\ sweepCause[w] \in Outcomes
  BY OutcomeFacts DEF PendingInv, TypeOK, SweepersHaveCause
<1>3. TypeOK'
  BY <1>1, <1>2, DeliverInv DEF StopTimer, PendingInv, TypeOK, TimerStates
<1>4. ExactlyOnce' /\ IndexesHoldLiveEntries'
  BY <1>1, <1>2, DeliverInv
<1>5. \A q \in entries' : q \in entries /\ q # r
  BY <1>1, <1>2, DeliverInv
<1>6. NoEntryEscapes'
  <2>1. ASSUME NEW q \in entries'
        PROVE  \A v \in Sweepers : q \in sweepLeft[v] => q \in sweepLeft'[v]
    BY <1>1, <1>5 DEF PendingInv, TypeOK
  <2>2. QED BY <1>1, <1>2, <2>1, SurvivorsInv DEF NoEntryEscapes
<1>7. DeadlineArmed'
  BY <1>1, <1>5 DEF StopTimer, PendingInv, TypeOK, DeadlineArmed
<1>8. SweepersHaveCause'
  BY <1>1 DEF PendingInv, TypeOK, SweepersHaveCause
<1>9. AssociatedIsRegistered'
  BY <1>1 DEF PendingInv, AssociatedIsRegistered, Registered
<1>10. QED BY <1>3, <1>4, <1>6, <1>7, <1>8, <1>9 DEF PendingInv

LEMMA PendingNextInv == PendingInv /\ [PendingNext]_pendingVars => PendingInv'
<1>1. SUFFICES ASSUME PendingInv, [PendingNext]_pendingVars
               PROVE  PendingInv'
  OBVIOUS
<1>2. CASE \E r \in Requests, s \in Sessions : Register(r, s)
  BY <1>1, <1>2, RegisterInv
<1>3. CASE \E r \in Requests, d \in Devices : Associate(r, d)
  BY <1>1, <1>3, AssociateInv
<1>4. CASE \E r \in Requests, o \in ResolveOutcomes : Resolve(r, o)
  BY <1>1, <1>4, ResolveInv, OutcomeFacts
<1>5. CASE \E r \in Requests : TimerFire(r) \/ TimerDeliver(r) \/ SendResult(r)
  BY <1>1, <1>5, TimerInv, SendResultInv
<1>6. CASE \E w \in Sweepers, s \in Sessions : CancelSession(w, s)
  BY <1>1, <1>6, CancelSessionInv
<1>7. CASE \E w \in Sweepers, d \in Devices : FailDevice(w, d)
  BY <1>1, <1>7, FailDeviceInv
<1>8. CASE \E w \in Sweepers : SweepNext(w)
  BY <1>1, <1>8, SweepNextInv
<1>9. CASE UNCHANGED pendingVars
  BY <1>1, <1>9 DEF pendingVars, PendingInv, TypeOK, ExactlyOnce, IndexesHoldLiveEntries,
     NoEntryEscapes, DeadlineArmed, SweepersHaveCause, AssociatedIsRegistered,
     Registered, Swept
<1>10. QED
  BY <1>1, <1>2, <1>3, <1>4, <1>5, <1>6, <1>7, <1>8, <1>9 DEF PendingNext

\* Every reachable state of the registry satisfies the inductive invariant.
THEOREM PendingInvariant == PendingSafety => []PendingInv
BY PendingInitInv, PendingNextInv, PTL DEF PendingSafety

\* The registry's variables keep their types (pending.go, type Pending).
THEOREM PendingTypeCorrect == PendingSafety => []TypeOK
<1>1. PendingInv => TypeOK
  BY DEF PendingInv
<1>2. QED BY <1>1, PendingInvariant, PTL

\* "Exactly one Result is ever delivered per registration" (pending.go, type
\* Result), for any number of racing responses, deadlines and sweeps.
THEOREM DeliveredExactlyOnce == PendingSafety => []ExactlyOnce
<1>1. PendingInv => ExactlyOnce
  BY DEF PendingInv
<1>2. QED BY <1>1, PendingInvariant, PTL

\* Completing a request clears every index of it (pending.go, removeLocked).
THEOREM IndexesConsistent == PendingSafety => []IndexesHoldLiveEntries
<1>1. PendingInv => IndexesHoldLiveEntries
  BY DEF PendingInv
<1>2. QED BY <1>1, PendingInvariant, PTL

\* CancelSession and FailDevice reach every live entry of theirs although they
\* walk a detached set with the lock released (pending.go).
THEOREM NoneEscapes == PendingSafety => []NoEntryEscapes
<1>1. PendingInv => NoEntryEscapes
  BY DEF PendingInv
<1>2. QED BY <1>1, PendingInvariant, PTL
-----------------------------------------------------------------------------
(* Capacity *)

\* Only Register adds to the map, one entry and only below the bound.
CapacityInv == IsFiniteSet(entries) /\ Bounded

LEMMA CapacityStep ==
    ASSUME PendingInv, CapacityInv, [PendingNext]_pendingVars
    PROVE  CapacityInv'
<1>1. CASE \E r \in Requests, s \in Sessions : Register(r, s)
  <2>1. PICK r \in Requests, s \in Sessions : Register(r, s)
    BY <1>1
  <2>2. entries' = entries \cup {r} /\ ~Full
    BY <2>1 DEF Register
  <2>3. r \notin entries
    BY <2>1 DEF Register, PendingInv, ExactlyOnce
  <2>4. IsFiniteSet(entries') /\ Cardinality(entries') = Cardinality(entries) + 1
    BY <2>2, <2>3, FS_AddElement DEF CapacityInv
  <2>5. Cardinality(entries) \in Nat
    BY FS_CardinalityType DEF CapacityInv
  <2>6. MaxEntries > 0 => Cardinality(entries) < MaxEntries
    BY <2>2, <2>5, PendingAssumption, IdsAssumption DEF Full
  <2>7. MaxEntries > 0 => Cardinality(entries) + 1 <= MaxEntries
    BY <2>5, <2>6, PendingAssumption, IdsAssumption
  <2>8. QED BY <2>4, <2>7 DEF CapacityInv, Bounded
<1>2. CASE \E r \in Requests : entries' = entries \ {r}
  <2>1. PICK r \in Requests : entries' = entries \ {r}
    BY <1>2
  <2>2. IsFiniteSet(entries') /\ Cardinality(entries') <= Cardinality(entries)
    BY <2>1, FS_Subset DEF CapacityInv
  <2>3. Cardinality(entries) \in Nat /\ Cardinality(entries') \in Nat
    BY <2>2, FS_CardinalityType DEF CapacityInv
  <2>4. QED BY <2>2, <2>3, PendingAssumption, IdsAssumption DEF CapacityInv, Bounded
<1>3. CASE entries' = entries
  BY <1>3 DEF CapacityInv, Bounded
<1>4. ASSUME NEW r \in Requests, NEW o, Deliver(r, o)
      PROVE  entries' = entries \/ \E q \in Requests : entries' = entries \ {q}
  BY <1>4 DEF Deliver, Remove
<1>5. ASSUME NEW w \in Sweepers, SweepNext(w)
      PROVE  entries' = entries \/ \E q \in Requests : entries' = entries \ {q}
  BY <1>4, <1>5 DEF SweepNext, PendingInv, TypeOK
<1>6. \/ \E r \in Requests, s \in Sessions : Register(r, s)
      \/ entries' = entries
      \/ \E q \in Requests : entries' = entries \ {q}
  BY <1>4, <1>5 DEF PendingNext, Associate, Resolve, TimerFire, TimerDeliver, SendResult,
     CancelSession, FailDevice, pendingVars
<1>7. QED BY <1>1, <1>2, <1>3, <1>6

\* The registry never holds more than its bound (pending.go, Register),
\* whatever completes or registers concurrently.
THEOREM CapacityRespected == PendingSafety => []Bounded
<1>1. PendingInit => CapacityInv
  BY FS_EmptySet, PendingAssumption, IdsAssumption DEF PendingInit, CapacityInv, Bounded
<1>2. PendingInv /\ CapacityInv /\ [PendingNext]_pendingVars => CapacityInv'
  BY CapacityStep
<1>3. CapacityInv => Bounded
  BY DEF CapacityInv
<1>4. QED BY <1>1, <1>2, <1>3, PendingInvariant, PTL DEF PendingSafety

\* The three facts about the map and its indexes at once.
THEOREM RegistryIsConsistent == PendingSafety => []RegistryConsistent
BY IndexesConsistent, NoneEscapes, CapacityRespected, PTL DEF RegistryConsistent

-----------------------------------------------------------------------------
(* Refinement *)

\* A step of the registry opens a request, completes one, or changes nothing a
\* caller can observe.
LEMMA PromiseStep ==
    ASSUME PendingInv, [PendingNext]_pendingVars
    PROVE  [Promise!Next]_(Promise!oneShotVars)
<1> DEFINE opened == {r \in Requests : Registered(r)}
<1>1. CASE \E r \in Requests, s \in Sessions : Register(r, s)
  <2>1. PICK r \in Requests, s \in Sessions : Register(r, s)
    BY <1>1
  <2>2. r \notin opened /\ opened' = opened \cup {r} /\ result' = result
    BY <2>1, PendingAssumption, IdsAssumption DEF Register, Registered, PendingInv, TypeOK
  <2>3. Promise!Open(r)
    BY <2>2 DEF Promise!Open
  <2>4. QED BY <2>3 DEF Promise!Next
<1>2. CASE \E r \in Requests : SendResult(r)
  <2>1. PICK r \in Requests : SendResult(r)
    BY <1>2
  <2>2. PICK o \in sends[r] : result[r] = NoOutcome /\ result' = [result EXCEPT ![r] = o]
    BY <2>1 DEF SendResult
  <2>3. opened' = opened /\ r \in opened /\ o \in Outcomes
    BY <2>1, <2>2 DEF SendResult, Registered, PendingInv, TypeOK, ExactlyOnce
  <2>4. Promise!Complete(r)
    BY <2>2, <2>3 DEF Promise!Complete
  <2>5. QED BY <2>4 DEF Promise!Next
<1>3. CASE opened' = opened /\ result' = result
  BY <1>3 DEF Promise!oneShotVars
<1>4. session' = session => opened' = opened
  BY DEF Registered
<1>5. \/ \E r \in Requests, s \in Sessions : Register(r, s)
      \/ \E r \in Requests : SendResult(r)
      \/ session' = session /\ result' = result
  BY DEF PendingNext, Associate, Resolve, TimerFire, TimerDeliver, CancelSession,
     FailDevice, SweepNext, pendingVars
<1>6. QED BY <1>1, <1>2, <1>3, <1>4, <1>5

\* The registry implements the one-shot promise of OneShot: every step maps to
\* opening or completing a request, or to a stutter.
THEOREM ImplementsPromise == PendingSafety => Promise!Safety
<1>1. PendingInit => Promise!Init
  BY DEF PendingInit, Promise!Init, Registered
<1>2. PendingInv /\ [PendingNext]_pendingVars => [Promise!Next]_(Promise!oneShotVars)
  BY PromiseStep
<1>3. QED BY <1>1, <1>2, PendingInvariant, PTL DEF PendingSafety, Promise!Safety

-----------------------------------------------------------------------------
(* The live connections (module Hub) *)

\* Before a connection is accepted nothing is known of it.
AbsentIsUnknown ==
    \A c \in Conns : connDevice[c] = None => replaced[c] = None

\* The registry files a connection under the device it authenticated as.
FiledUnderDevice ==
    \A d \in Devices : registry[d] # None => connDevice[registry[d]] = d

\* The read loop is left through a close, and only by a connection.
LeftIsClosed ==
    \A c \in Conns : /\ reader[c] \in {"leaving", "left"} => c \in closed
                     /\ reader[c] # "absent" => Connected(c)

\* The frame being handled is still at the head of the wire.
HandlingHasFrame ==
    \A c \in Conns : reader[c] = "handling" => inbox[c] # <<>>

\* The inductive invariant: LiveIsCurrent needs to know that cleaning up removes
\* closed connections only, and that a fresh connection is nobody's debtor.
HubInv ==
    /\ HubTypeOK
    /\ HandlingHasFrame
    /\ AbsentIsUnknown
    /\ FiledUnderDevice
    /\ LeftIsClosed
    /\ LiveIsCurrent

LEMMA HubInitInv == HubInit => HubInv
BY IdsAssumption, HubAssumption
   DEF HubInit, HubInv, HubTypeOK, AbsentIsUnknown, FiledUnderDevice,
       LeftIsClosed, LiveIsCurrent, HandlingHasFrame, Connected, ReaderStates

LEMMA SeqFacts ==
    ASSUME NEW S, NEW s \in Seq(S)
    PROVE  /\ \A m \in S : Append(s, m) \in Seq(S) /\ Append(s, m) # <<>>
           /\ s # <<>> => Tail(s) \in Seq(S)
OBVIOUS

LEMMA HubTypePreserved ==
    HubTypeOK /\ HandlingHasFrame /\ [HubNext]_hubVars =>
        HubTypeOK' /\ HandlingHasFrame'
<1> SUFFICES ASSUME HubTypeOK, HandlingHasFrame, [HubNext]_hubVars
             PROVE  HubTypeOK' /\ HandlingHasFrame'
    OBVIOUS
<1> USE DEF HubTypeOK, HandlingHasFrame
<1>1. ASSUME NEW c \in Conns, NEW d \in Devices, Connect(c, d)
      PROVE  HubTypeOK' /\ HandlingHasFrame'
    BY <1>1 DEF Connect, ReaderStates
<1>2. ASSUME NEW c \in Conns, Start(c)
      PROVE  HubTypeOK' /\ HandlingHasFrame'
    <2>1. {replaced[c]} \ {None} \subseteq Conns
        OBVIOUS
    <2> QED BY <1>2, <2>1 DEF Start, ReaderStates
<1>3. ASSUME NEW c \in Conns, CloseConn(c) \/ FinishDisconnect(c)
      PROVE  HubTypeOK' /\ HandlingHasFrame'
    <2>1. CASE CloseConn(c)
        BY <2>1 DEF CloseConn
    <2>2. CASE FinishDisconnect(c)
        BY <2>2 DEF FinishDisconnect
    <2> QED BY <1>3, <2>1, <2>2
<1>4. ASSUME NEW c \in Conns, Hello(c) \/ Read(c)
      PROVE  HubTypeOK' /\ HandlingHasFrame'
    <2>1. CASE Hello(c)
        BY <2>1 DEF Hello, ReaderStates
    <2>2. CASE Read(c)
        BY <2>2 DEF Read, ReaderStates
    <2> QED BY <1>4, <2>1, <2>2
<1>5. ASSUME NEW c \in Conns, Handled(c)
      PROVE  HubTypeOK' /\ HandlingHasFrame'
    <2>1. Tail(inbox[c]) \in Seq(Uplink)
        BY <1>5, SeqFacts DEF Handled
    <2> QED BY <1>5, <2>1 DEF Handled, ReaderStates
<1>6. ASSUME NEW c \in Conns, ReadFails(c)
      PROVE  HubTypeOK' /\ HandlingHasFrame'
    BY <1>6 DEF ReadFails, ReaderStates
<1>7. ASSUME NEW c \in Conns, Leave(c)
      PROVE  HubTypeOK' /\ HandlingHasFrame'
    <2>1. <<>> \in Seq(Downlink)
        OBVIOUS
    <2>2. registry' \in [Devices -> Conns \cup {None}]
        BY <1>7 DEF Leave
    <2>3. queue' \in [Conns -> Seq(Downlink)]
        BY <1>7, <2>1 DEF Leave
    <2>4. reader' \in [Conns -> ReaderStates]
        BY <1>7 DEF Leave, ReaderStates
    <2> QED BY <1>7, <2>2, <2>3, <2>4 DEF Leave
<1>8. ASSUME NEW c \in Conns, Write(c) \/ WriteFails(c)
      PROVE  HubTypeOK' /\ HandlingHasFrame'
    <2>1. Tail(queue[c]) \in Seq(Downlink)
        BY <1>8, SeqFacts DEF Write, WriteFails
    <2> QED BY <1>8, <2>1 DEF Write, WriteFails
<1>9. ASSUME NEW c \in Conns, NEW m \in Uplink, DeviceSends(c, m)
      PROVE  HubTypeOK' /\ HandlingHasFrame'
    <2>1. Append(inbox[c], m) \in Seq(Uplink) /\ Append(inbox[c], m) # <<>>
        BY SeqFacts
    <2> QED BY <1>9, <2>1 DEF DeviceSends
<1>10. ASSUME NEW d \in Devices, Disconnect(d)
       PROVE  HubTypeOK' /\ HandlingHasFrame'
    BY <1>10 DEF Disconnect
<1>11. ASSUME NEW d \in Devices, NEW m \in Downlink, Send(d, m)
       PROVE  HubTypeOK' /\ HandlingHasFrame'
    <2>1. CASE Accepts(d)
        <3>1. Append(queue[registry[d]], m) \in Seq(Downlink)
            BY <2>1, SeqFacts DEF Accepts
        <3> QED BY <1>11, <2>1, <3>1 DEF Send
    <2>2. CASE ~Accepts(d)
        <3>1. {registry[d]} \ {None} \subseteq Conns
            OBVIOUS
        <3> QED BY <1>11, <2>2, <3>1 DEF Send
    <2> QED BY <2>1, <2>2
<1>12. CASE UNCHANGED hubVars
    BY <1>12 DEF hubVars
<1> QED
    BY <1>1, <1>2, <1>3, <1>4, <1>5, <1>6, <1>7, <1>8, <1>9, <1>10, <1>11, <1>12
    DEF HubNext

\* The steps that move a connection in or out of the registry, or end a debt.
LEMMA HubStructurePreserved == HubInv /\ [HubNext]_hubVars => HubInv'
<1> SUFFICES ASSUME HubInv, [HubNext]_hubVars
             PROVE  HubInv'
    OBVIOUS
<1> HubTypeOK' /\ HandlingHasFrame'
    BY HubTypePreserved DEF HubInv
<1> USE IdsAssumption, HubAssumption
    DEF HubInv, HubTypeOK, AbsentIsUnknown, FiledUnderDevice, LeftIsClosed,
        LiveIsCurrent, Detached, Connected
<1>1. ASSUME NEW c \in Conns, NEW d \in Devices, Connect(c, d)
      PROVE  HubInv'
    <2>1. AbsentIsUnknown' /\ FiledUnderDevice' /\ LeftIsClosed'
        BY <1>1 DEF Connect
    <2>2. ASSUME NEW e \in Conns, Connected(e)', e \notin closed', ~Detached(e)'
          PROVE  registry'[connDevice'[e]] = e
        <3>1. CASE e = c
            BY <1>1, <2>2, <3>1 DEF Connect
        <3>2. CASE e # c
            <4>1. replaced[c] = None /\ replaced'[c] = registry[d]
                BY <1>1 DEF Connect
            <4>2. ~Detached(e)
                BY <1>1, <2>2, <4>1 DEF Connect
            <4>3. registry[connDevice[e]] = e
                BY <1>1, <2>2, <3>2, <4>2 DEF Connect
            <4>4. connDevice[e] # d
                BY <2>2, <4>1, <4>3
            <4> QED BY <1>1, <3>2, <4>3, <4>4 DEF Connect
        <3> QED BY <3>1, <3>2
    <2> QED BY <2>1, <2>2
<1>2. ASSUME NEW c \in Conns, Start(c)
      PROVE  HubInv'
    <2>1. AbsentIsUnknown' /\ FiledUnderDevice' /\ LeftIsClosed'
        BY <1>2 DEF Start
    <2>2. ASSUME NEW e \in Conns, Connected(e)', e \notin closed', ~Detached(e)'
          PROVE  registry'[connDevice'[e]] = e
        <3>1. replaced[c] # e
            BY <1>2, <2>2 DEF Start
        <3>2. ~Detached(e)
            BY <1>2, <2>2, <3>1 DEF Start
        <3> QED BY <1>2, <2>2, <3>2 DEF Start
    <2> QED BY <2>1, <2>2
<1>3. ASSUME NEW c \in Conns, CloseConn(c) \/ FinishDisconnect(c)
      PROVE  HubInv'
    BY <1>3 DEF CloseConn, FinishDisconnect
<1>4. ASSUME NEW c \in Conns, Hello(c) \/ Read(c) \/ Handled(c)
      PROVE  HubInv'
    BY <1>4 DEF Hello, Read, Handled
<1>5. ASSUME NEW c \in Conns, ReadFails(c)
      PROVE  HubInv'
    BY <1>5 DEF ReadFails
<1>6. ASSUME NEW c \in Conns, Leave(c)
      PROVE  HubInv'
    <2>1. c \in closed /\ connDevice[c] \in Devices
        BY <1>6 DEF Leave
    <2> QED BY <1>6, <2>1 DEF Leave
<1>7. ASSUME NEW c \in Conns, Write(c) \/ WriteFails(c)
      PROVE  HubInv'
    BY <1>7 DEF Write, WriteFails
<1>8. ASSUME NEW c \in Conns, NEW m \in Uplink, DeviceSends(c, m)
      PROVE  HubInv'
    BY <1>8 DEF DeviceSends
<1>9. ASSUME NEW d \in Devices, Disconnect(d)
      PROVE  HubInv'
    BY <1>9 DEF Disconnect
<1>10. ASSUME NEW d \in Devices, NEW m \in Downlink, Send(d, m)
       PROVE  HubInv'
    BY <1>10 DEF Send
<1>11. CASE UNCHANGED hubVars
    BY <1>11 DEF hubVars
<1> QED
    BY <1>1, <1>2, <1>3, <1>4, <1>5, <1>6, <1>7, <1>8, <1>9, <1>10, <1>11
    DEF HubNext

\* The inductive invariant of the hub holds in every reachable state.
THEOREM HubInvariant == HubSafety => []HubInv
BY HubInitInv, HubStructurePreserved, PTL DEF HubSafety

\* registry.go's maps and connection.go's queues keep their types.
THEOREM HubTypeCorrect == HubSafety => []HubTypeOK
BY HubInvariant, PTL DEF HubInv

\* "A device has at most one live connection": however registrations, closes,
\* disconnects and clean-ups interleave, an open connection is the one the
\* registry delivers to unless a close is on its way to it.
THEOREM OpenConnectionIsCurrent == HubSafety => []LiveIsCurrent
BY HubInvariant, PTL DEF HubInv

-----------------------------------------------------------------------------
(* Relayed calls (module Relay) *)

\* A call under way has resolved its target.
CallTargets ==
    /\ pc \in [Requests -> CallStates]
    /\ target \in [Requests -> Devices \cup {None}]
    /\ watch \in [Requests -> Conns \cup {None}]
    /\ \A r \in Requests :
          target[r] = None => pc[r] \in {"idle", "returned"} /\ watch[r] = None

RelayInv == CallTargets /\ HubInv

LEMMA CallTargetsInit == RelayInit => CallTargets
BY DEF RelayInit, CallTargets, CallStates

-----------------------------------------------------------------------------
\* Every step is one step of the hub, or none.
LEMMA HubStep ==
    ASSUME CallTargets, [RelayNext]_relayVars
    PROVE  [HubNext]_hubVars
<1> USE RelayAssumption
<1>1. CASE \E r \in Requests, s \in Sessions, d \in Devices : CallRegister(r, s, d)
    BY <1>1 DEF CallRegister
<1>2. ASSUME NEW r \in Requests,
             CallUnresolved(r) \/ CallBusy(r) \/ CallAssociate(r) \/ CallAssociateFails(r)
             \/ CallGetConn(r) \/ CallOffline(r) \/ CallReceive(r)
             \/ CallGivesUp(r) \/ CallCtxDone(r) \/ WatcherFire(r) \/ WatcherStop(r)
      PROVE  UNCHANGED hubVars
    BY <1>2 DEF CallUnresolved, CallBusy, CallAssociate, CallAssociateFails, CallGetConn, CallOffline,
                CallReceive, CallGivesUp, CallCtxDone, WatcherFire, WatcherStop
<1>3. ASSUME NEW r \in Requests, CallSend(r) \/ CallSendFails(r) \/ SendCancel(r)
      PROVE  HubNext
    <2>1. target[r] \in Devices
        BY <1>3 DEF CallTargets, CallSend, CallSendFails, SendCancel
    <2>2. <<"request", r>> \in Downlink /\ <<"cancel", r>> \in Downlink
        OBVIOUS
    <2>3. \E d \in Devices, m \in Downlink : Send(d, m)
        BY <1>3, <2>1, <2>2 DEF CallSend, CallSendFails, SendCancel
    <2> QED BY <2>3 DEF HubNext
<1>4. ASSUME NEW c \in Conns, DeliverToDevice(c) \/ HandleResponse(c)
      PROVE  HubNext
    BY <1>4 DEF DeliverToDevice, HandleResponse, HubNext
<1>5. ASSUME NEW c \in Conns, NEW r \in Requests, DeviceAnswers(c, r)
      PROVE  HubNext
    BY <1>5 DEF DeviceAnswers, HubNext
<1>6. CASE PendingOnly
    BY <1>6 DEF PendingOnly
<1>7. CASE HubOnly
    BY <1>7 DEF HubOnly, HubNext
<1>8. CASE UNCHANGED relayVars
    BY <1>8 DEF relayVars, hubVars
<1> QED
    BY <1>1, <1>2, <1>3, <1>4, <1>5, <1>6, <1>7, <1>8 DEF RelayNext, CallStep

LEMMA CallTargetsStep ==
    ASSUME CallTargets, HubTypeOK, [RelayNext]_relayVars
    PROVE  CallTargets'
<1> USE IdsAssumption, RelayAssumption DEF CallTargets, CallStates, Goto, Return
<1>1. ASSUME NEW r \in Requests, NEW s \in Sessions, NEW d \in Devices,
             CallRegister(r, s, d)
      PROVE  CallTargets'
    BY <1>1 DEF CallRegister
<1>2. ASSUME NEW r \in Requests, CallUnresolved(r) \/ CallBusy(r) \/ CallAssociate(r) \/ CallAssociateFails(r)
      PROVE  CallTargets'
    BY <1>2 DEF CallUnresolved, CallBusy, CallAssociate, CallAssociateFails
<1>3. ASSUME NEW r \in Requests, CallGetConn(r)
      PROVE  CallTargets'
    <2>1. registry[target[r]] \in Conns /\ target[r] \in Devices
        BY <1>3 DEF CallGetConn, HubTypeOK
    <2> QED BY <1>3, <2>1 DEF CallGetConn
<1>4. ASSUME NEW r \in Requests, CallOffline(r) \/ CallSend(r) \/ CallSendFails(r)
      PROVE  CallTargets'
    BY <1>4 DEF CallOffline, CallSend, CallSendFails
<1>5. ASSUME NEW r \in Requests, CallReceive(r)
      PROVE  CallTargets'
    BY <1>5 DEF CallReceive
<1>6. ASSUME NEW r \in Requests, SendCancel(r) \/ CallGivesUp(r) \/ CallCtxDone(r)
      PROVE  CallTargets'
    BY <1>6 DEF SendCancel, CallGivesUp, CallCtxDone
<1>7. ASSUME NEW r \in Requests, WatcherFire(r) \/ WatcherStop(r)
      PROVE  CallTargets'
    BY <1>7 DEF WatcherFire, WatcherStop
<1>8. ASSUME NEW c \in Conns, DeliverToDevice(c) \/ HandleResponse(c)
      PROVE  CallTargets'
    BY <1>8 DEF DeliverToDevice, HandleResponse, callVars
<1>9. ASSUME NEW c \in Conns, NEW r \in Requests, DeviceAnswers(c, r)
      PROVE  CallTargets'
    BY <1>9 DEF DeviceAnswers
<1>10. CASE PendingOnly \/ HubOnly \/ UNCHANGED relayVars
    BY <1>10 DEF PendingOnly, HubOnly, relayVars, callVars
<1> QED
    BY <1>1, <1>2, <1>3, <1>4, <1>5, <1>6, <1>7, <1>8, <1>9, <1>10
    DEF RelayNext, CallStep

\* What a call drives has been found by it, and the connections are sound, in
\* every reachable state: the invariant the theorems below start from.
THEOREM RelayInvariant == RelaySafety => []RelayInv
<1>1. RelayInit => RelayInv
    BY CallTargetsInit, HubInitInv DEF RelayInit, RelayInv
<1>2. RelayInv /\ [RelayNext]_relayVars => RelayInv'
    <2> SUFFICES ASSUME RelayInv, [RelayNext]_relayVars
                 PROVE  RelayInv'
        OBVIOUS
    <2>1. CallTargets'
        BY CallTargetsStep DEF RelayInv, HubInv
    <2>2. HubInv'
        BY HubStep, HubStructurePreserved DEF RelayInv
    <2> QED BY <2>1, <2>2 DEF RelayInv
<1> QED BY <1>1, <1>2, PTL DEF RelaySafety

-----------------------------------------------------------------------------
\* Every step is one step of the correlation registry, or none.
LEMMA PendingStep ==
    ASSUME RelayInv, [RelayNext]_relayVars
    PROVE  [PendingNext]_pendingVars
<1> USE RelayAssumption
<1>1. ASSUME NEW r \in Requests, NEW s \in Sessions, NEW d \in Devices,
             CallRegister(r, s, d)
      PROVE  PendingNext
    BY <1>1 DEF CallRegister, PendingNext
<1>2. ASSUME NEW r \in Requests,
             CallUnresolved(r) \/ CallBusy(r) \/ CallGetConn(r) \/ CallSend(r) \/ CallReceive(r)
             \/ CallCtxDone(r) \/ SendCancel(r) \/ WatcherStop(r)
      PROVE  UNCHANGED pendingVars
    BY <1>2 DEF CallUnresolved, CallBusy, CallGetConn, CallSend, CallReceive, CallCtxDone,
                SendCancel, WatcherStop
<1>3. ASSUME NEW r \in Requests, CallAssociate(r)
      PROVE  PendingNext
    <2>1. target[r] \in Devices
        BY <1>3 DEF RelayInv, CallTargets, CallAssociate
    <2> QED BY <1>3, <2>1 DEF CallAssociate, PendingNext
<1>4. ASSUME NEW r \in Requests,
             CallAssociateFails(r) \/ CallOffline(r) \/ CallSendFails(r) \/ CallGivesUp(r)
      PROVE  PendingNext
    <2>1. \E o \in ResolveOutcomes : Resolve(r, o)
        BY <1>4 DEF CallAssociateFails, CallOffline, CallSendFails, CallGivesUp
    <2> QED BY <2>1 DEF PendingNext
<1>5. ASSUME NEW r \in Requests, WatcherFire(r)
      PROVE  PendingNext
    <2>1. target[r] \in Devices /\ r \in Sweepers
        BY <1>5 DEF RelayInv, CallTargets, WatcherFire
    <2> QED BY <1>5, <2>1 DEF WatcherFire, PendingNext
<1>6. ASSUME NEW c \in Conns, HandleResponse(c)
      PROVE  PendingNext
    <2>1. Head(inbox[c]) \in Requests
        BY <1>6 DEF HandleResponse, Handled, RelayInv, HubInv, HubTypeOK, HandlingHasFrame
    <2>2. "response" \in ResolveOutcomes
        OBVIOUS
    <2> QED BY <1>6, <2>1, <2>2 DEF HandleResponse, PendingNext
<1>7. ASSUME NEW c \in Conns, DeliverToDevice(c)
      PROVE  UNCHANGED pendingVars
    BY <1>7 DEF DeliverToDevice
<1>8. ASSUME NEW c \in Conns, NEW r \in Requests, DeviceAnswers(c, r)
      PROVE  UNCHANGED pendingVars
    BY <1>8 DEF DeviceAnswers
<1>9. CASE PendingOnly
    BY <1>9 DEF PendingOnly, PendingNext
<1>10. CASE HubOnly \/ UNCHANGED relayVars
    BY <1>10 DEF HubOnly, relayVars
<1> QED
    BY <1>1, <1>2, <1>3, <1>4, <1>5, <1>6, <1>7, <1>8, <1>9, <1>10
    DEF RelayNext, CallStep

\* What holds of the correlation registry by itself holds while calls are
\* relayed.
LEMMA RegistryOfCalls == RelaySafety => PendingSafety
<1>1. RelayInit => PendingInit
    BY DEF RelayInit
<1>2. RelayInv /\ [RelayNext]_relayVars => [PendingNext]_pendingVars
    BY PendingStep
<1> QED BY <1>1, <1>2, RelayInvariant, PTL DEF RelaySafety, PendingSafety

\* Whatever ends a relayed call first (response, deadline, session end, lost
\* connection, failed delivery), its channel is owed one outcome and no more.
THEOREM RelayedCallAnsweredOnce == RelaySafety => []ExactlyOnce
BY RegistryOfCalls, DeliveredExactlyOnce, PTL

-----------------------------------------------------------------------------
\* What OnlyAbandonedCallsLinger rests on: a call that has not registered is
\* not in the map, and one that is past waiting is there only if it gave up.
LingerInv ==
    \A r \in Requests :
        /\ pc[r] = "idle" => r \notin entries
        /\ pc[r] \in {"cancelling", "returned"} /\ r \in entries => ret[r] = "cancelled"

CallResultsTyped == pc \in [Requests -> CallStates] /\ DOMAIN ret = Requests

\* Only Register adds to the map.
LEMMA EntriesShrink ==
    ASSUME PendingOnly \/ \E c \in Conns : HandleResponse(c)
    PROVE  entries' \subseteq entries
<1>1. CASE PendingOnly
    BY <1>1 DEF PendingOnly, TimerFire, TimerDeliver, SendResult, SweepNext,
                CancelSession, Deliver, Remove
<1>2. CASE \E c \in Conns : HandleResponse(c)
    BY <1>2 DEF HandleResponse, Resolve, Deliver, Remove
<1> QED BY <1>1, <1>2

LEMMA LingerStep ==
    ASSUME LingerInv, CallResultsTyped, ExactlyOnce, [RelayNext]_relayVars
    PROVE  LingerInv' /\ CallResultsTyped'
<1> USE DEF LingerInv, CallResultsTyped, Goto, Return, CallStates
<1>1. ASSUME NEW r \in Requests, NEW s \in Sessions, NEW d \in Devices,
             CallRegister(r, s, d)
      PROVE  LingerInv' /\ CallResultsTyped'
    BY <1>1 DEF CallRegister, Register
<1>2. ASSUME NEW r \in Requests, CallUnresolved(r) \/ CallBusy(r)
      PROVE  LingerInv' /\ CallResultsTyped'
    BY <1>2 DEF CallUnresolved, CallBusy, pendingVars
<1>3. ASSUME NEW r \in Requests, CallAssociate(r)
      PROVE  LingerInv' /\ CallResultsTyped'
    BY <1>3 DEF CallAssociate, Associate
<1>4. ASSUME NEW r \in Requests, NEW o, Resolve(r, o), Return(r, o),
             pc[r] # "idle"
      PROVE  LingerInv' /\ CallResultsTyped'
    <2>1. entries' = entries \ {r}
        BY <1>4 DEF Resolve, Deliver, Remove
    <2> QED BY <1>4, <2>1
<1>5. ASSUME NEW r \in Requests, CallGetConn(r) \/ CallSend(r) \/ SendCancel(r)
      PROVE  LingerInv' /\ CallResultsTyped'
    BY <1>5 DEF CallGetConn, CallSend, SendCancel, pendingVars
<1>6. ASSUME NEW r \in Requests, CallReceive(r)
      PROVE  LingerInv' /\ CallResultsTyped'
    <2>1. r \notin entries /\ entries' = entries
        BY <1>6 DEF CallReceive, ExactlyOnce, pendingVars
    <2>2. \A q \in Requests : q # r => ret'[q] = ret[q] /\ pc'[q] = pc[q]
        BY <1>6 DEF CallReceive
    <2>3. CallResultsTyped'
        BY <1>6 DEF CallReceive
    <2>4. pc'[r] # "idle"
        BY <1>6 DEF CallReceive
    <2> QED BY <2>1, <2>2, <2>3, <2>4
<1>7. ASSUME NEW r \in Requests, CallCtxDone(r)
      PROVE  LingerInv' /\ CallResultsTyped'
    BY <1>7 DEF CallCtxDone, pendingVars
<1>8. ASSUME NEW r \in Requests, WatcherFire(r) \/ WatcherStop(r)
      PROVE  LingerInv' /\ CallResultsTyped'
    BY <1>8 DEF WatcherFire, WatcherStop, FailDevice, pendingVars
<1>9. CASE PendingOnly \/ \E c \in Conns : HandleResponse(c)
    <2>1. entries' \subseteq entries
        BY <1>9, EntriesShrink
    <2>2. UNCHANGED <<pc, ret>>
        BY <1>9 DEF PendingOnly, HandleResponse, callVars
    <2> QED BY <2>1, <2>2
<1>10. ASSUME NEW c \in Conns, DeliverToDevice(c) \/ \E r \in Requests : DeviceAnswers(c, r)
       PROVE  LingerInv' /\ CallResultsTyped'
    BY <1>10 DEF DeliverToDevice, DeviceAnswers, pendingVars
<1>11. CASE HubOnly \/ UNCHANGED relayVars
    BY <1>11 DEF HubOnly, relayVars, callVars, pendingVars
<1>12. ASSUME NEW r \in Requests,
              CallAssociateFails(r) \/ CallOffline(r) \/ CallSendFails(r) \/ CallGivesUp(r)
       PROVE  \E o : Resolve(r, o) /\ Return(r, o) /\ pc[r] # "idle"
    BY <1>12 DEF CallAssociateFails, CallOffline, CallSendFails, CallGivesUp
<1> QED
    BY <1>1, <1>2, <1>3, <1>4, <1>5, <1>6, <1>7, <1>8, <1>9, <1>10, <1>11, <1>12
    DEF RelayNext, CallStep

\* A call that returned has retired its correlation, unless its own caller gave
\* up waiting: late answers and lost devices find nothing of it.
THEOREM OnlyAbandonedLinger == RelaySafety => []OnlyAbandonedCallsLinger
<1>1. RelayInit => LingerInv /\ CallResultsTyped
    BY DEF RelayInit, PendingInit, LingerInv, CallResultsTyped, CallStates
<1>2. LingerInv /\ CallResultsTyped /\ ExactlyOnce /\ [RelayNext]_relayVars
          => LingerInv' /\ CallResultsTyped'
    BY LingerStep
<1>3. LingerInv => OnlyAbandonedCallsLinger
    BY DEF LingerInv, OnlyAbandonedCallsLinger
<1> QED BY <1>1, <1>2, <1>3, RelayedCallAnsweredOnce, PTL DEF RelaySafety
-----------------------------------------------------------------------------
(* The calls' own variables *)

LEMMA CallReturns ==
    /\ Outcomes \subseteq Returns
    /\ "noTarget" \in Returns /\ "busy" \in Returns
    /\ {"response", "invalidResponse", "deviceGone", "deadline", "cancelled"} \subseteq Returns
BY RelayAssumption DEF Returns, Outcomes, SweepOutcomes

\* What the rest of CallTypeOK rests on: results are outcomes, queues hold
\* envelopes and the registry holds connections.
CallTypeInv == CallTypeOK /\ TypeOK /\ HubTypeOK

LEMMA CallTypeStep ==
    ASSUME CallTypeInv, CallTargets', [RelayNext]_relayVars
    PROVE  CallTypeOK'
<1> SUFFICES /\ ret' \in [Requests -> Returns \cup {NoOutcome}]
             /\ sentOn' \in [Requests -> Conns \cup {None}]
             /\ work' \in [Requests -> WorkStates]
    BY DEF CallTypeOK, CallTargets
<1>0. /\ ret \in [Requests -> Returns \cup {NoOutcome}]
      /\ sentOn \in [Requests -> Conns \cup {None}]
      /\ work \in [Requests -> WorkStates]
    BY DEF CallTypeInv, CallTypeOK
<1>1. ASSUME NEW r \in Requests, NEW s \in Sessions, NEW d \in Devices,
             CallRegister(r, s, d)
      PROVE  UNCHANGED <<ret, sentOn, work>>
    BY <1>1 DEF CallRegister
<1>2. ASSUME NEW r \in Requests, NEW o \in Returns, Return(r, o)
      PROVE  ret' \in [Requests -> Returns \cup {NoOutcome}]
    BY <1>0, <1>2 DEF Return
<1>3. ASSUME NEW r \in Requests,
             CallUnresolved(r) \/ CallBusy(r) \/ CallAssociateFails(r) \/ CallOffline(r)
             \/ CallSendFails(r) \/ CallGivesUp(r)
      PROVE  (\E o \in Returns : Return(r, o)) /\ UNCHANGED <<sentOn, work>>
    BY <1>3, CallReturns
    DEF CallUnresolved, CallBusy, CallAssociateFails, CallOffline, CallSendFails, CallGivesUp
<1>4. ASSUME NEW r \in Requests,
             CallAssociate(r) \/ CallGetConn(r) \/ SendCancel(r) \/ WatcherFire(r) \/ WatcherStop(r)
      PROVE  UNCHANGED <<ret, sentOn, work>>
    BY <1>4 DEF CallAssociate, CallGetConn, SendCancel, WatcherFire, WatcherStop
<1>5. ASSUME NEW r \in Requests, CallSend(r)
      PROVE  /\ sentOn' \in [Requests -> Conns \cup {None}]
             /\ UNCHANGED <<ret, work>>
    <2>1. target[r] \in Devices
        BY <1>5, IdsAssumption DEF CallSend, CallTargets, Goto
    <2>2. registry[target[r]] \in Conns \cup {None}
        BY <1>5, <2>1 DEF CallTypeInv, HubTypeOK
    <2> QED BY <1>0, <1>5, <2>2 DEF CallSend
<1>6. ASSUME NEW r \in Requests, CallReceive(r) \/ CallCtxDone(r)
      PROVE  /\ ret' \in [Requests -> Returns \cup {NoOutcome}]
             /\ UNCHANGED <<sentOn, work>>
    <2>1. CASE CallReceive(r)
        <3>1. result[r] \in Returns
            BY <2>1, CallReturns DEF CallReceive, CallTypeInv, TypeOK
        <3>2. Judged(result[r]) \subseteq Returns
            BY <3>1, CallReturns DEF Judged
        <3> QED BY <1>0, <2>1, <3>2 DEF CallReceive
    <2>2. CASE CallCtxDone(r)
        BY <1>0, <2>2, CallReturns DEF CallCtxDone
    <2> QED BY <1>6, <2>1, <2>2
<1>7. ASSUME NEW c \in Conns, DeliverToDevice(c)
      PROVE  work' \in [Requests -> WorkStates] /\ UNCHANGED <<ret, sentOn>>
    BY <1>0, <1>7 DEF DeliverToDevice, WorkStates
<1>8. ASSUME NEW c \in Conns, NEW r \in Requests, DeviceAnswers(c, r)
      PROVE  work' \in [Requests -> WorkStates] /\ UNCHANGED <<ret, sentOn>>
    BY <1>0, <1>8 DEF DeviceAnswers, WorkStates
<1>9. CASE PendingOnly \/ HubOnly \/ UNCHANGED relayVars \/ \E c \in Conns : HandleResponse(c)
    BY <1>0, <1>9 DEF PendingOnly, HubOnly, relayVars, callVars, HandleResponse
<1> QED
    BY <1>0, <1>1, <1>2, <1>3, <1>4, <1>5, <1>6, <1>7, <1>8, <1>9
    DEF RelayNext, CallStep

\* The three components' variables keep their types while calls are relayed.
THEOREM RelayTypesHold == RelaySafety => []RelayTypeOK
<1>1. RelayInit => CallTypeOK
    BY DEF RelayInit, CallTypeOK, CallStates, WorkStates
<1>2. CallTypeOK /\ TypeOK /\ RelayInv /\ RelayInv' /\ [RelayNext]_relayVars => CallTypeOK'
    BY CallTypeStep DEF CallTypeInv, RelayInv, HubInv
<1>3. RelaySafety => []TypeOK
    BY RegistryOfCalls, PendingTypeCorrect, PTL
<1>4. RelaySafety => []CallTypeOK
    BY <1>1, <1>2, <1>3, RelayInvariant, PTL DEF RelaySafety
<1>5. RelayInv => HubTypeOK
    BY DEF RelayInv, HubInv
<1> QED BY <1>3, <1>4, <1>5, RelayInvariant, PTL DEF RelayTypeOK
-----------------------------------------------------------------------------
(* Refused calls never reach their device *)

Refusals == {"noTarget", "deviceGone", "busy"}

\* Envelope m waits in the writer queue of connection c.
Queued(c, m) == \E i \in 1..Len(queue[c]) : queue[c][i] = m

Untouched(r) ==
    /\ work[r] = "unseen"
    /\ \A c \in Conns : ~Queued(c, <<"request", r>>)

\* A call whose request is not sent yet has been refused by nobody.
NotSentYet(r) == pc[r] \in {"idle", "registered", "associated", "watching"}

\* The inductive invariant.  A refusal is final, and it is given before the
\* request is handed to a connection: never by an outcome that the correlation
\* registry delivers to a call that is waiting.
UndeliveredInv ==
    \A r \in Requests :
        /\ NotSentYet(r) => Untouched(r) /\ ret[r] = NoOutcome
        /\ ret[r] \in Refusals => pc[r] = "returned" /\ Untouched(r)
        /\ pc[r] # "returned" => result[r] # "deviceGone" /\ "deviceGone" \notin sends[r]

LEMMA AppendedElements ==
    ASSUME NEW S, NEW s \in Seq(S), NEW m \in S,
           NEW i \in 1..Len(Append(s, m))
    PROVE  Append(s, m)[i] = m \/ (i \in 1..Len(s) /\ Append(s, m)[i] = s[i])
OBVIOUS

LEMMA TailElements ==
    ASSUME NEW S, NEW s \in Seq(S), s # <<>>, NEW i \in 1..Len(Tail(s))
    PROVE  i + 1 \in 1..Len(s) /\ Tail(s)[i] = s[i + 1]
OBVIOUS

\* Only Send adds to a queue, and only the envelope it is given.
LEMMA QueuesShrink ==
    ASSUME HubTypeOK, NEW c \in Conns, NEW n, Queued(c, n)',
           \/ UNCHANGED queue
           \/ \E e \in Conns : Write(e) \/ WriteFails(e) \/ Leave(e)
    PROVE  Queued(c, n)
<1> USE DEF HubTypeOK
<1>1. CASE UNCHANGED queue
    BY <1>1 DEF Queued
<1>2. ASSUME NEW e \in Conns, Write(e) \/ WriteFails(e)
      PROVE  Queued(c, n)
    <2>1. CASE e = c
        <3>1. queue[c] \in Seq(Downlink) /\ queue[c] # <<>> /\ queue'[c] = Tail(queue[c])
            BY <1>2, <2>1 DEF Write, WriteFails
        <3>2. PICK i \in 1..Len(queue'[c]) : queue'[c][i] = n
            BY DEF Queued
        <3>3. i + 1 \in 1..Len(queue[c]) /\ queue[c][i + 1] = n
            BY <3>1, <3>2, TailElements
        <3> QED BY <3>3 DEF Queued
    <2>2. CASE e # c
        <3>1. queue'[c] = queue[c]
            BY <1>2, <2>2 DEF Write, WriteFails
        <3> QED BY <3>1 DEF Queued
    <2> QED BY <2>1, <2>2
<1>3. ASSUME NEW e \in Conns, Leave(e)
      PROVE  Queued(c, n)
    <2>1. queue'[c] = queue[c] \/ queue'[c] = <<>>
        BY <1>3 DEF Leave
    <2> QED BY <2>1 DEF Queued
<1> QED BY <1>1, <1>2, <1>3

LEMMA SendQueues ==
    ASSUME HubTypeOK, NEW d \in Devices, NEW m \in Downlink, Send(d, m),
           NEW c \in Conns, NEW n, Queued(c, n)'
    PROVE  Queued(c, n) \/ (n = m /\ Accepts(d))
<1> USE DEF HubTypeOK
<1>1. CASE Accepts(d) /\ registry[d] = c
    <2>1. queue[c] \in Seq(Downlink) /\ queue'[c] = Append(queue[c], m)
        BY <1>1 DEF Send
    <2>2. PICK i \in 1..Len(queue'[c]) : queue'[c][i] = n
        BY DEF Queued
    <2>3. n = m \/ (i \in 1..Len(queue[c]) /\ queue[c][i] = n)
        BY <2>1, <2>2, AppendedElements
    <2> QED BY <1>1, <2>3 DEF Queued
<1>2. CASE ~(Accepts(d) /\ registry[d] = c)
    <2>1. queue'[c] = queue[c]
        BY <1>2 DEF Send
    <2> QED BY <2>1 DEF Queued
<1> QED BY <1>1, <1>2

\* What a completion owes a channel besides what was owed before.
LEMMA DeliverSends ==
    ASSUME TypeOK, NEW r \in Requests, NEW o, Deliver(r, o), NEW q \in Requests, NEW p \in sends'[q]
    PROVE  p \in sends[q] \/ (q = r /\ p = o)
BY DEF Deliver, TypeOK

\* The registry's own goroutines never report a lost delivery.
LEMMA NoFalseRefusal ==
    ASSUME TypeOK, PendingOnly \/ (\E c \in Conns : HandleResponse(c)),
           HandlingHasFrame, HubTypeOK,
           NEW r \in Requests, result[r] # "deviceGone", "deviceGone" \notin sends[r]
    PROVE  result'[r] # "deviceGone" /\ "deviceGone" \notin sends'[r]
<1>1. ASSUME NEW q \in Requests, TimerDeliver(q)
      PROVE  result' = result /\ "deviceGone" \notin sends'[r]
    <2>1. Deliver(q, "deadline") /\ result' = result
        BY <1>1 DEF TimerDeliver
    <2> QED BY <2>1, DeliverSends
<1>2. ASSUME NEW w \in Sweepers, SweepNext(w)
      PROVE  result' = result /\ "deviceGone" \notin sends'[r]
    <2>1. PICK q \in sweepLeft[w] : Deliver(q, sweepCause[w]) /\ result' = result
        BY <1>2 DEF SweepNext
    <2>2. q \in Requests /\ sweepCause[w] # "deviceGone"
        BY <2>1 DEF TypeOK, SweepOutcomes, NoOutcome
    <2> QED BY <2>1, <2>2, DeliverSends
<1>3. ASSUME NEW q \in Requests, SendResult(q)
      PROVE  result'[r] # "deviceGone" /\ "deviceGone" \notin sends'[r]
    BY <1>3 DEF SendResult, TypeOK
<1>4. ASSUME NEW c \in Conns, HandleResponse(c)
      PROVE  result' = result /\ "deviceGone" \notin sends'[r]
    <2>1. Head(inbox[c]) \in Requests
        BY <1>4, RelayAssumption DEF HandleResponse, Handled, HubTypeOK, HandlingHasFrame
    <2>2. Deliver(Head(inbox[c]), "response") /\ result' = result
        BY <1>4 DEF HandleResponse, Resolve
    <2> QED BY <2>1, <2>2, DeliverSends
<1>5. ASSUME NEW q \in Requests, TimerFire(q)
      PROVE  UNCHANGED <<sends, result>>
    BY <1>5 DEF TimerFire
<1>6. ASSUME NEW w \in Sweepers, NEW s \in Sessions, CancelSession(w, s)
      PROVE  UNCHANGED <<sends, result>>
    BY <1>6 DEF CancelSession
<1> QED BY <1>1, <1>2, <1>3, <1>4, <1>5, <1>6 DEF PendingOnly

\* A call's own step, seen from call q: either it is q's, or it leaves q's part
\* of the invariant alone.
LEMMA UndeliveredByCall ==
    ASSUME RelayInv, TypeOK, CallTypeOK, UndeliveredInv,
           NEW r \in Requests, CallStep(r) \/ CallGivesUp(r)
    PROVE  UndeliveredInv'
<1> USE RelayAssumption DEF RelayInv, HubInv, CallTypeOK, NotSentYet, Refusals, Goto, Return
<1> DEFINE Others == \A q \in Requests \ {r} : ret'[q] = ret[q] /\ pc'[q] = pc[q]
<1>a. ASSUME UNCHANGED <<queue, work>>, NEW q \in Requests, Untouched(q)
      PROVE  Untouched(q)'
    BY <1>a DEF Untouched, Queued
<1>1. ASSUME UNCHANGED <<queue, work, sends, result>>, Others,
             pc[r] # "returned", pc'[r] # "idle",
             NotSentYet(r)' => NotSentYet(r) /\ ret'[r] = ret[r],
             ret'[r] \in Refusals => ret'[r] = ret[r]
      PROVE  UndeliveredInv'
    BY <1>1, <1>a DEF UndeliveredInv
<1>2. ASSUME UNCHANGED <<queue, work>>, NEW o, Resolve(r, o), Return(r, o), NotSentYet(r)
      PROVE  UndeliveredInv'
    <2>1. \A q \in Requests \ {r} :
              /\ ret'[q] = ret[q] /\ pc'[q] = pc[q] /\ result'[q] = result[q]
              /\ "deviceGone" \in sends'[q] => "deviceGone" \in sends[q]
        BY <1>2, DeliverSends DEF Resolve
    <2>2. pc'[r] = "returned" /\ Untouched(r)
        BY <1>2 DEF UndeliveredInv
    <2> QED BY <1>2, <2>1, <2>2, <1>a DEF UndeliveredInv
<1>3. CASE CallAssociate(r) \/ CallGetConn(r)
    <2>1. UNCHANGED <<queue, work, sends, result, ret>>
        BY <1>3 DEF CallAssociate, CallGetConn, Associate, hubVars, pendingVars
    <2>2. /\ NotSentYet(r) /\ pc'[r] \in {"associated", "watching"}
          /\ \A q \in Requests \ {r} : pc'[q] = pc[q]
        BY <1>3 DEF CallAssociate, CallGetConn
    <2> QED BY <1>1, <2>1, <2>2
<1>4. CASE CallAssociateFails(r) \/ CallOffline(r) \/ CallGivesUp(r)
    <2>1. UNCHANGED <<queue, work>> /\ NotSentYet(r)
        BY <1>4 DEF CallAssociateFails, CallOffline, CallGivesUp, hubVars
    <2>2. \E o : Resolve(r, o) /\ Return(r, o)
        BY <1>4 DEF CallAssociateFails, CallOffline, CallGivesUp
    <2> QED BY <1>2, <2>1, <2>2
<1>5. CASE CallSendFails(r)
    <2>1. UNCHANGED <<queue, work>> /\ NotSentYet(r)
        BY <1>5 DEF CallSendFails, Send
    <2>2. Resolve(r, "deviceGone") /\ Return(r, "deviceGone")
        BY <1>5 DEF CallSendFails
    <2> QED BY <1>2, <2>1, <2>2
<1>6. CASE CallReceive(r)
    <2>1. UNCHANGED <<queue, work, sends, result>> /\ Others
        BY <1>6 DEF CallReceive, hubVars, pendingVars
    <2>2. pc[r] = "waiting" /\ pc'[r] \in {"cancelling", "returned"}
        BY <1>6 DEF CallReceive
    <2>3. result[r] \in Outcomes /\ result[r] # "deviceGone"
        BY <1>6, <2>2 DEF CallReceive, TypeOK, UndeliveredInv
    <2>4. ret'[r] \in Judged(result[r])
        BY <1>6 DEF CallReceive
    <2>5. ret'[r] \notin Refusals
        BY <2>3, <2>4 DEF Judged, Outcomes, SweepOutcomes
    <2> QED BY <1>1, <2>1, <2>2, <2>5
<1>7. CASE CallSend(r)
    <2>1. target[r] \in Devices /\ <<"request", r>> \in Downlink
        BY <1>7 DEF CallSend, CallTargets
    <2>2. /\ UNCHANGED <<work, sends, result, ret>> /\ pc'[r] = "waiting" /\ NotSentYet(r)
          /\ \A q \in Requests \ {r} : pc'[q] = pc[q]
        BY <1>7 DEF CallSend, pendingVars
    <2>3. ASSUME NEW q \in Requests \ {r}, Untouched(q)
          PROVE  Untouched(q)'
        BY <1>7, <2>1, <2>2, <2>3, SendQueues DEF CallSend, Untouched
    <2>4. ret'[r] \notin Refusals
        BY <2>2 DEF UndeliveredInv, NoOutcome
    <2> QED BY <2>2, <2>3, <2>4 DEF UndeliveredInv
<1>8. CASE SendCancel(r)
    <2>1. target[r] \in Devices /\ <<"cancel", r>> \in Downlink
        BY <1>8 DEF SendCancel, CallTargets
    <2>2. /\ UNCHANGED <<work, sends, result, ret>> /\ pc[r] = "cancelling" /\ pc'[r] = "returned"
          /\ \A q \in Requests \ {r} : pc'[q] = pc[q]
        BY <1>8 DEF SendCancel, pendingVars
    <2>3. ASSUME NEW q \in Requests, Untouched(q)
          PROVE  Untouched(q)'
        BY <1>8, <2>1, <2>2, <2>3, SendQueues DEF SendCancel, Untouched
    <2> QED BY <2>2, <2>3 DEF UndeliveredInv
<1> QED BY <1>3, <1>4, <1>5, <1>6, <1>7, <1>8 DEF CallStep

LEMMA UndeliveredStep ==
    ASSUME RelayInv, TypeOK, CallTypeOK, UndeliveredInv, [RelayNext]_relayVars
    PROVE  UndeliveredInv'
<1> USE RelayAssumption DEF RelayInv, HubInv, CallTypeOK, NotSentYet, Refusals, Goto, Return
\* Calls stay where they are and keep what they returned.
<1>a. ASSUME UNCHANGED <<pc, ret>>,
             \A q \in Requests : Untouched(q) => Untouched(q)',
             \A q \in Requests :
                 result[q] # "deviceGone" /\ "deviceGone" \notin sends[q] =>
                     result'[q] # "deviceGone" /\ "deviceGone" \notin sends'[q]
      PROVE  UndeliveredInv'
    BY <1>a DEF UndeliveredInv
<1>b. ASSUME UNCHANGED <<queue, work>>, NEW q \in Requests, Untouched(q)
      PROVE  Untouched(q)'
    BY <1>b DEF Untouched, Queued
<1>1. ASSUME NEW r \in Requests, NEW s \in Sessions, NEW d \in Devices,
             CallRegister(r, s, d)
      PROVE  UndeliveredInv'
    <2>1. /\ UNCHANGED <<queue, work, sends, result, ret>> /\ pc[r] = "idle" /\ pc'[r] = "registered"
          /\ \A q \in Requests \ {r} : pc'[q] = pc[q]
        BY <1>1 DEF CallRegister, Register, hubVars
    <2> QED BY <2>1, <1>b DEF UndeliveredInv
<1>2. ASSUME NEW r \in Requests, CallUnresolved(r) \/ CallBusy(r)
      PROVE  UndeliveredInv'
    <2>1. /\ UNCHANGED <<queue, work, sends, result>> /\ pc[r] = "idle" /\ pc'[r] = "returned"
          /\ \A q \in Requests \ {r} : pc'[q] = pc[q] /\ ret'[q] = ret[q]
        BY <1>2 DEF CallUnresolved, CallBusy, hubVars, pendingVars
    <2> QED BY <2>1, <1>b DEF UndeliveredInv
<1>3. ASSUME NEW r \in Requests, CallCtxDone(r)
      PROVE  UndeliveredInv'
    <2>1. /\ UNCHANGED <<queue, work, sends, result>> /\ pc[r] = "waiting" /\ pc'[r] = "cancelling"
          /\ ret'[r] = "cancelled"
          /\ \A q \in Requests \ {r} : pc'[q] = pc[q] /\ ret'[q] = ret[q]
        BY <1>3 DEF CallCtxDone, hubVars, pendingVars
    <2> QED BY <2>1, <1>b DEF UndeliveredInv
<1>4. ASSUME NEW r \in Requests, WatcherFire(r) \/ WatcherStop(r)
      PROVE  UndeliveredInv'
    <2>1. UNCHANGED <<queue, work, sends, result, pc, ret>>
        BY <1>4 DEF WatcherFire, WatcherStop, FailDevice, hubVars, pendingVars
    <2> QED BY <2>1, <1>a, <1>b
<1>5. CASE PendingOnly \/ \E c \in Conns : HandleResponse(c)
    <2>1. UNCHANGED <<queue, work, pc, ret>>
        BY <1>5 DEF PendingOnly, HandleResponse, Handled, hubVars, callVars
    <2> QED BY <1>5, <2>1, <1>a, <1>b, NoFalseRefusal
<1>6. ASSUME NEW c \in Conns, DeliverToDevice(c)
      PROVE  UndeliveredInv'
    <2>1. UNCHANGED <<sends, result, pc, ret>> /\ Write(c)
        BY <1>6 DEF DeliverToDevice, pendingVars
    <2>2. ASSUME NEW q \in Requests, Untouched(q)
          PROVE  Untouched(q)'
        <3>1. \A e \in Conns : ~Queued(e, <<"request", q>>)'
            BY <2>1, <2>2, QueuesShrink DEF Untouched
        <3>2. queue[c] \in Seq(Downlink) /\ queue[c] # <<>>
            BY <2>1 DEF Write, HubTypeOK
        <3>3. Head(queue[c]) \in Downlink /\ Head(queue[c]) = queue[c][1] /\ 1 \in 1..Len(queue[c])
            BY <3>2
        <3>4. Head(queue[c]) # <<"request", q>>
            BY <2>2, <3>3 DEF Untouched, Queued
        <3>5. PICK k \in {"request", "cancel"}, r \in Requests : Head(queue[c]) = <<k, r>>
            BY <3>3
        <3>6. Head(queue[c])[1] = k /\ Head(queue[c])[2] = r
            BY <3>5
        <3>7. r # q \/ k = "cancel"
            BY <3>4, <3>5
        <3>8. work'[q] = work[q]
            BY <1>6, <2>2, <3>6, <3>7 DEF DeliverToDevice, Untouched
        <3> QED BY <2>2, <3>1, <3>8 DEF Untouched
    <2> QED BY <2>1, <2>2, <1>a
<1>7. ASSUME NEW c \in Conns, NEW r \in Requests, DeviceAnswers(c, r)
      PROVE  UndeliveredInv'
    <2>1. /\ UNCHANGED <<queue, sends, result, pc, ret>> /\ work[r] = "working"
          /\ \A q \in Requests \ {r} : work'[q] = work[q]
        BY <1>7 DEF DeviceAnswers, DeviceSends, pendingVars
    <2>2. ASSUME NEW q \in Requests, Untouched(q)
          PROVE  Untouched(q)'
        BY <2>1, <2>2 DEF Untouched, Queued
    <2> QED BY <2>1, <2>2, <1>a
<1>8. CASE HubOnly \/ UNCHANGED relayVars
    <2>1. UNCHANGED <<work, sends, result, pc, ret>>
        BY <1>8 DEF HubOnly, relayVars, callVars, pendingVars
    <2>2. \/ UNCHANGED queue
          \/ \E e \in Conns : Write(e) \/ WriteFails(e) \/ Leave(e)
        BY <1>8 DEF HubOnly, relayVars, hubVars, Connect, Start, CloseConn, FinishDisconnect,
                    Hello, Read, ReadFails, Disconnect
    <2>3. ASSUME NEW q \in Requests, Untouched(q)
          PROVE  Untouched(q)'
        BY <2>1, <2>2, <2>3, QueuesShrink DEF Untouched
    <2> QED BY <2>1, <2>3, <1>a
<1> QED
    BY <1>1, <1>2, <1>3, <1>4, <1>5, <1>6, <1>7, <1>8, UndeliveredByCall DEF RelayNext

\* A call told that it has no target, that its device is offline or that the
\* gateway is busy (relay.go, CallDetailed) never reached the device and never
\* will, whatever connections come and go: its caller may safely repeat it.
THEOREM RefusedIsUndelivered == RelaySafety => []RefusedMeansUndelivered
<1>1. RelayInit => UndeliveredInv
    BY DEF RelayInit, HubInit, PendingInit, UndeliveredInv, Untouched, Queued, NotSentYet, Refusals,
           NoOutcome
<1>2. /\ RelayInv /\ RelayTypeOK /\ UndeliveredInv /\ [RelayNext]_relayVars
      => UndeliveredInv'
    BY UndeliveredStep DEF RelayTypeOK
<1>3. UndeliveredInv => RefusedMeansUndelivered
    BY DEF UndeliveredInv, Untouched, Queued, Refusals, RefusedMeansUndelivered
<1> QED BY <1>1, <1>2, <1>3, RelayInvariant, RelayTypesHold, PTL DEF RelaySafety
-----------------------------------------------------------------------------
(* A failed device is one that lost a connection *)

Lost(d) == d # None /\ \E c \in closed : connDevice[c] = d

\* A call's entry is filed under the device the call resolved to, and only once
\* the call has filed it.
FiledUnderTarget ==
    \A r \in Requests :
        /\ pc[r] = "idle" => target[r] = None
        /\ device[r] # None => device[r] = target[r] /\ pc[r] \notin {"idle", "registered"}

\* A watcher waits on a connection of its call's device.
WatchesTarget ==
    \A r \in Requests : watch[r] # None => connDevice[watch[r]] = target[r]

\* A sweep for a failed device holds entries of a device that lost a connection.
SweepsLost ==
    \A w \in Sweepers : sweepCause[w] = "deviceFailed" =>
        \A q \in sweepLeft[w] : Lost(device[q])

ToldLost ==
    \A r \in Requests :
        "deviceFailed" \in sends[r] \cup {result[r], ret[r]} => Lost(target[r])

\* The inductive invariant: the news of a lost connection is true wherever it is
\* on its way from the watcher to the caller.
LostInv == FiledUnderTarget /\ WatchesTarget /\ SweepsLost /\ ToldLost

\* A connection keeps its device and stays closed.
LEMMA LostStays ==
    ASSUME HubTypeOK, [HubNext]_hubVars, NEW d, Lost(d)
    PROVE  Lost(d)'
<1>1. PICK c \in closed : connDevice[c] = d /\ d # None
    BY DEF Lost
<1>2. c \in closed'
    BY DEF HubNext, hubVars, Connect, Start, CloseConn, FinishDisconnect, Hello, Read, Handled,
           ReadFails, Leave, Write, WriteFails, DeviceSends, Disconnect, Send
<1>3. connDevice'[c] = d
    <2>1. CASE \E e \in Conns, f \in Devices : Connect(e, f)
        BY <1>1, <2>1 DEF Connect, Connected, HubTypeOK
    <2>2. CASE UNCHANGED connDevice
        BY <1>1, <2>2
    <2> QED
        BY <2>1, <2>2
        DEF HubNext, hubVars, Start, CloseConn, FinishDisconnect, Hello, Read, Handled,
            ReadFails, Leave, Write, WriteFails, DeviceSends, Disconnect, Send
<1> QED BY <1>1, <1>2, <1>3 DEF Lost

LEMMA FiledStep ==
    ASSUME CallTypeOK, TypeOK, FiledUnderTarget, [RelayNext]_relayVars
    PROVE  FiledUnderTarget'
<1> USE DEF FiledUnderTarget, CallTypeOK
<1>1. ASSUME NEW r \in Requests, NEW s \in Sessions, NEW d \in Devices,
             CallRegister(r, s, d)
      PROVE  FiledUnderTarget'
    <2>1. UNCHANGED device /\ pc[r] = "idle" /\ device[r] = None
        BY <1>1 DEF CallRegister, Register
    <2> QED BY <1>1, <2>1 DEF CallRegister, Goto
<1>2. ASSUME NEW r \in Requests, CallAssociate(r)
      PROVE  FiledUnderTarget'
    <2>1. UNCHANGED target /\ pc' = [pc EXCEPT ![r] = "associated"]
          /\ device' = [device EXCEPT ![r] = target[r]]
        BY <1>2 DEF CallAssociate, Associate, Goto
    <2> QED BY <2>1 DEF TypeOK
<1>3. ASSUME NEW r \in Requests, NEW l \in CallStates \ {"idle", "registered"},
             pc' = [pc EXCEPT ![r] = l], UNCHANGED <<device, target>>
      PROVE  FiledUnderTarget'
    BY <1>3
<1>4. ASSUME NEW r \in Requests,
             CallUnresolved(r) \/ CallBusy(r) \/ CallAssociateFails(r) \/ CallOffline(r)
             \/ CallSendFails(r) \/ CallGivesUp(r)
      PROVE  pc' = [pc EXCEPT ![r] = "returned"] /\ UNCHANGED <<device, target>>
    BY <1>4 DEF CallUnresolved, CallBusy, CallAssociateFails, CallOffline, CallSendFails,
                CallGivesUp, Return, Goto, Resolve, pendingVars
<1>5. ASSUME NEW r \in Requests,
             CallGetConn(r) \/ CallSend(r) \/ CallReceive(r) \/ CallCtxDone(r) \/ SendCancel(r)
      PROVE  /\ \E l \in CallStates \ {"idle", "registered"} : pc' = [pc EXCEPT ![r] = l]
             /\ UNCHANGED <<device, target>>
    BY <1>5 DEF CallGetConn, CallSend, CallReceive, CallCtxDone, SendCancel, Goto, pendingVars,
                CallStates
<1>6. ASSUME UNCHANGED <<pc, device, target>>
      PROVE  FiledUnderTarget'
    BY <1>6
<1>7. ASSUME NEW r \in Requests, WatcherFire(r) \/ WatcherStop(r)
      PROVE  UNCHANGED <<pc, device, target>>
    BY <1>7 DEF WatcherFire, WatcherStop, FailDevice, pendingVars
<1>8. CASE PendingOnly
    BY <1>6, <1>8 DEF PendingOnly, callVars, TimerFire, TimerDeliver, SendResult, SweepNext,
                      CancelSession
<1>9. CASE HubOnly \/ UNCHANGED relayVars \/ \E c \in Conns : HandleResponse(c) \/ DeliverToDevice(c)
    BY <1>6, <1>9 DEF HubOnly, relayVars, pendingVars, callVars, HandleResponse, DeliverToDevice,
                      Resolve
<1>10. ASSUME NEW c \in Conns, NEW r \in Requests, DeviceAnswers(c, r)
       PROVE  UNCHANGED <<pc, device, target>>
    BY <1>10 DEF DeviceAnswers, pendingVars
<1>11. "returned" \in CallStates \ {"idle", "registered"}
    BY DEF CallStates
<1> QED
    BY <1>1, <1>2, <1>3, <1>4, <1>5, <1>6, <1>7, <1>8, <1>9, <1>10, <1>11
    DEF RelayNext, CallStep

\* What the steps of a call do to the variables of its watcher.
LEMMA WatchMoves ==
    ASSUME [RelayNext]_relayVars
    PROVE  \/ UNCHANGED <<watch, target>>
           \/ \E r \in Requests : watch' = [watch EXCEPT ![r] = None] /\ UNCHANGED target
           \/ \E r \in Requests : CallGetConn(r)
           \/ \E r \in Requests, s \in Sessions, d \in Devices : CallRegister(r, s, d)
<1>1. ASSUME NEW r \in Requests, WatcherFire(r) \/ WatcherStop(r)
      PROVE  watch' = [watch EXCEPT ![r] = None] /\ UNCHANGED target
    BY <1>1 DEF WatcherFire, WatcherStop
<1>2. ASSUME NEW r \in Requests,
             CallUnresolved(r) \/ CallBusy(r) \/ CallAssociate(r) \/ CallAssociateFails(r)
             \/ CallOffline(r) \/ CallSend(r) \/ CallSendFails(r) \/ CallReceive(r)
             \/ SendCancel(r) \/ CallGivesUp(r) \/ CallCtxDone(r)
      PROVE  UNCHANGED <<watch, target>>
    BY <1>2 DEF CallUnresolved, CallBusy, CallAssociate, CallAssociateFails, CallOffline, CallSend,
                CallSendFails, CallReceive, SendCancel, CallGivesUp, CallCtxDone
<1>3. ASSUME NEW c \in Conns,
             DeliverToDevice(c) \/ HandleResponse(c) \/ \E r \in Requests : DeviceAnswers(c, r)
      PROVE  UNCHANGED <<watch, target>>
    BY <1>3 DEF DeliverToDevice, HandleResponse, DeviceAnswers, callVars
<1>4. CASE PendingOnly \/ HubOnly \/ UNCHANGED relayVars
    BY <1>4 DEF PendingOnly, HubOnly, relayVars, callVars
<1> QED BY <1>1, <1>2, <1>3, <1>4 DEF RelayNext, CallStep

LEMMA WatchesStep ==
    ASSUME RelayInv, FiledUnderTarget, WatchesTarget, [RelayNext]_relayVars
    PROVE  WatchesTarget'
<1> USE DEF RelayInv, HubInv, CallTargets
<1>0. [HubNext]_hubVars
    BY HubStep
<1>1. ASSUME NEW c \in Conns, connDevice[c] # None
      PROVE  connDevice'[c] = connDevice[c]
    <2>1. CASE \E e \in Conns, f \in Devices : Connect(e, f)
        BY <1>1, <2>1 DEF Connect, Connected, HubTypeOK
    <2>2. CASE UNCHANGED connDevice
        BY <2>2
    <2> QED
        BY <1>0, <2>1, <2>2
        DEF HubNext, hubVars, Start, CloseConn, FinishDisconnect, Hello, Read, Handled,
            ReadFails, Leave, Write, WriteFails, DeviceSends, Disconnect, Send
<1>2. ASSUME NEW r \in Requests, watch[r] # None
      PROVE  connDevice'[watch[r]] = target[r] /\ target[r] # None
    BY <1>1, <1>2 DEF WatchesTarget
<1>3. CASE UNCHANGED <<watch, target>>
    BY <1>2, <1>3 DEF WatchesTarget
<1>4. ASSUME NEW r \in Requests, watch' = [watch EXCEPT ![r] = None] /\ UNCHANGED target
      PROVE  WatchesTarget'
    BY <1>2, <1>4 DEF WatchesTarget
<1>5. ASSUME NEW r \in Requests, CallGetConn(r)
      PROVE  WatchesTarget'
    <2>1. target[r] \in Devices
        BY <1>5 DEF CallGetConn
    <2>2. connDevice[registry[target[r]]] = target[r] /\ connDevice' = connDevice
        BY <1>5, <2>1 DEF CallGetConn, FiledUnderDevice, hubVars
    <2>3. watch' = [watch EXCEPT ![r] = registry[target[r]]] /\ target' = target
        BY <1>5 DEF CallGetConn
    <2> QED BY <2>2, <2>3 DEF WatchesTarget
<1>6. ASSUME NEW r \in Requests, NEW s \in Sessions, NEW d \in Devices, CallRegister(r, s, d)
      PROVE  WatchesTarget'
    <2>1. watch[r] = None
        BY <1>6 DEF CallRegister, FiledUnderTarget
    <2>2. target' = [target EXCEPT ![r] = d] /\ watch' = watch
        BY <1>6 DEF CallRegister
    <2> QED BY <1>2, <2>1, <2>2 DEF WatchesTarget
<1> QED BY <1>3, <1>4, <1>5, <1>6, WatchMoves

\* What the steps do to the sweeps: a watcher starts one, others go on or end.
LEMMA SweepMoves ==
    ASSUME RelayInv, TypeOK, [RelayNext]_relayVars, NEW w \in Sweepers,
           sweepCause'[w] = "deviceFailed", NEW q \in sweepLeft'[w]
    PROVE  \/ sweepCause[w] = "deviceFailed" /\ q \in sweepLeft[w]
           \/ WatcherFire(w) /\ w \in Requests /\ q \in byDevice[target[w]]
<1> USE DEF TypeOK
<1>1. ASSUME NEW r \in Requests, WatcherFire(r)
      PROVE  \/ sweepCause[w] = "deviceFailed" /\ q \in sweepLeft[w]
             \/ r = w /\ q \in byDevice[target[r]]
    <2>1. r \in Sweepers
        BY RelayAssumption
    <2>2. sweepLeft' = [sweepLeft EXCEPT ![r] = byDevice[target[r]]]
        BY <1>1 DEF WatcherFire, FailDevice, Sweep
    <2>3. \A v \in Sweepers \ {r} : sweepCause'[v] = sweepCause[v]
        BY <1>1 DEF WatcherFire, FailDevice, Sweep
    <2> QED BY <2>1, <2>2, <2>3
<1>2. ASSUME NEW v \in Sweepers, NEW s \in Sessions, CancelSession(v, s)
      PROVE  sweepCause[w] = "deviceFailed" /\ q \in sweepLeft[w]
    BY <1>2 DEF CancelSession, Sweep, NoOutcome
<1>3. ASSUME NEW v \in Sweepers, SweepNext(v)
      PROVE  sweepCause[w] = "deviceFailed" /\ q \in sweepLeft[w]
    BY <1>3 DEF SweepNext, NoOutcome
<1>4. ASSUME NEW r \in Requests, TimerFire(r) \/ TimerDeliver(r) \/ SendResult(r)
      PROVE  UNCHANGED <<sweepLeft, sweepCause>>
    BY <1>4 DEF TimerFire, TimerDeliver, SendResult
<1>5. ASSUME NEW r \in Requests,
             CallUnresolved(r) \/ CallBusy(r) \/ CallStep(r) \/ CallGivesUp(r) \/ CallCtxDone(r)
             \/ WatcherStop(r) \/ \E s \in Sessions, d \in Devices : CallRegister(r, s, d)
      PROVE  UNCHANGED <<sweepLeft, sweepCause>>
    BY <1>5
    DEF CallUnresolved, CallBusy, CallStep, CallAssociate, CallAssociateFails, CallGetConn, CallOffline,
        CallSend, CallSendFails, CallReceive, SendCancel, CallGivesUp, CallCtxDone, WatcherStop,
        CallRegister, Register, Associate, Resolve, pendingVars
<1>6. ASSUME NEW c \in Conns,
             DeliverToDevice(c) \/ HandleResponse(c) \/ \E r \in Requests : DeviceAnswers(c, r)
      PROVE  UNCHANGED <<sweepLeft, sweepCause>>
    BY <1>6 DEF DeliverToDevice, HandleResponse, DeviceAnswers, Resolve, pendingVars
<1>7. CASE HubOnly \/ UNCHANGED relayVars
    BY <1>7 DEF HubOnly, relayVars, pendingVars
<1>8. CASE UNCHANGED <<sweepLeft, sweepCause>>
    BY <1>8
<1> QED
    BY <1>1, <1>2, <1>3, <1>4, <1>5, <1>6, <1>7, <1>8 DEF RelayNext, PendingOnly

LEMMA SweepsStep ==
    ASSUME RelayInv, PendingInv, CallTypeOK, LostInv, [RelayNext]_relayVars
    PROVE  SweepsLost'
<1> SUFFICES ASSUME NEW w \in Sweepers, sweepCause'[w] = "deviceFailed", NEW q \in sweepLeft'[w]
             PROVE  Lost(device[q])'
    BY DEF SweepsLost
<1>0. TypeOK /\ HubTypeOK /\ [HubNext]_hubVars
    BY HubStep DEF RelayInv, PendingInv, HubInv
<1>1. Lost(device[q]) /\ q \in Requests
    <2>1. CASE sweepCause[w] = "deviceFailed" /\ q \in sweepLeft[w]
        BY <1>0, <2>1 DEF LostInv, SweepsLost, TypeOK
    <2>2. CASE WatcherFire(w) /\ w \in Requests /\ q \in byDevice[target[w]]
        <3>1. watch[w] # None /\ watch[w] \in closed /\ connDevice[watch[w]] = target[w]
            BY <2>2 DEF WatcherFire, LostInv, WatchesTarget
        <3>2. target[w] \in Devices
            BY <2>2, <3>1 DEF RelayInv, CallTargets
        <3>3. q \in Requests
            BY <1>0, <2>2, <3>2 DEF TypeOK
        <3>4. device[q] = target[w]
            BY <2>2, <3>2, <3>3 DEF PendingInv, IndexesHoldLiveEntries
        <3>5. Lost(target[w])
            BY <3>1, <3>2, IdsAssumption DEF Lost
        <3> QED BY <3>3, <3>4, <3>5
    <2> QED BY <1>0, <2>1, <2>2, SweepMoves
<1>2. device'[q] = device[q]
    <2>1. device[q] = target[q] /\ pc[q] # "registered"
        BY <1>1 DEF LostInv, FiledUnderTarget, Lost
    <2>3. ASSUME NEW r \in Requests, CallAssociate(r)
          PROVE  device'[q] = device[q]
        BY <1>0, <1>1, <2>1, <2>3 DEF CallAssociate, Associate, TypeOK
    <2>2. UNCHANGED device \/ \E r \in Requests : CallAssociate(r)
        BY DEF RelayNext, CallUnresolved, CallBusy, CallStep, CallAssociateFails, CallGetConn,
               CallOffline, CallSend, CallSendFails, CallReceive, SendCancel, CallGivesUp, CallCtxDone,
               WatcherFire, WatcherStop, CallRegister, Register, Resolve, FailDevice, DeliverToDevice,
               HandleResponse, DeviceAnswers, PendingOnly, TimerFire, TimerDeliver, SendResult,
               SweepNext, CancelSession, HubOnly, relayVars, pendingVars
    <2> QED BY <2>2, <2>3
<1> PICK d : d = device[q]
    OBVIOUS
<1>3. Lost(d)'
    BY <1>0, <1>1, LostStays
<1> QED BY <1>2, <1>3 DEF Lost

Told(r) == "deviceFailed" \in sends[r] \cup {result[r], ret[r]}

\* The news reaches a call from a sweep, and goes on to its caller.
LEMMA NewsMoves ==
    ASSUME RelayInv, TypeOK, CallTypeOK, [RelayNext]_relayVars, NEW r \in Requests, Told(r)'
    PROVE  \/ Told(r)
           \/ \E w \in Sweepers : sweepCause[w] = "deviceFailed" /\ r \in sweepLeft[w]
<1> USE DEF TypeOK, CallTypeOK, Told
<1>1. ASSUME NEW q \in Requests, NEW o, o # "deviceFailed", Return(q, o)
      PROVE  ret'[r] = "deviceFailed" => ret[r] = "deviceFailed"
    BY <1>1 DEF Return
<1>2. ASSUME NEW q \in Requests, NEW o, o # "deviceFailed", Deliver(q, o)
      PROVE  "deviceFailed" \in sends'[r] => "deviceFailed" \in sends[r]
    BY <1>2, DeliverSends
<1>3. ASSUME NEW q \in Requests,
             CallAssociateFails(q) \/ CallOffline(q) \/ CallSendFails(q) \/ CallGivesUp(q)
      PROVE  Told(r)
    <2>1. \E o \in {"invalidResponse", "deviceGone"} : Return(q, o) /\ Deliver(q, o)
        BY <1>3 DEF CallAssociateFails, CallOffline, CallSendFails, CallGivesUp, Resolve
    <2>2. UNCHANGED result
        BY <1>3 DEF CallAssociateFails, CallOffline, CallSendFails, CallGivesUp, Resolve
    <2>3. PICK o \in {"invalidResponse", "deviceGone"} : Return(q, o) /\ Deliver(q, o)
        BY <2>1
    <2>4. o # "deviceFailed"
        OBVIOUS
    <2> QED BY <1>1, <1>2, <2>2, <2>3, <2>4
<1>4. ASSUME NEW q \in Requests, CallUnresolved(q) \/ CallBusy(q)
      PROVE  Told(r)
    BY <1>4 DEF CallUnresolved, CallBusy, Return, pendingVars
<1>5. ASSUME NEW q \in Requests, CallReceive(q)
      PROVE  Told(r)
    <2>1. UNCHANGED <<sends, result>> /\ \E o \in Judged(result[q]) : ret' = [ret EXCEPT ![q] = o]
        BY <1>5 DEF CallReceive, pendingVars
    <2>2. "deviceFailed" \in Judged(result[q]) => result[q] = "deviceFailed"
        BY DEF Judged
    <2> QED BY <2>1, <2>2
<1>6. ASSUME NEW q \in Requests, CallCtxDone(q)
      PROVE  Told(r)
    BY <1>6 DEF CallCtxDone, pendingVars
<1>7. ASSUME NEW q \in Requests,
             CallAssociate(q) \/ CallGetConn(q) \/ CallSend(q) \/ SendCancel(q) \/ WatcherFire(q)
             \/ WatcherStop(q) \/ \E s \in Sessions, d \in Devices : CallRegister(q, s, d)
      PROVE  Told(r)
    BY <1>7 DEF CallAssociate, CallGetConn, CallSend, SendCancel, WatcherFire, WatcherStop, CallRegister,
                Register, Associate, FailDevice, pendingVars
<1>8. ASSUME NEW c \in Conns, DeliverToDevice(c) \/ \E q \in Requests : DeviceAnswers(c, q)
      PROVE  Told(r)
    BY <1>8 DEF DeliverToDevice, DeviceAnswers, pendingVars
<1>9. ASSUME NEW c \in Conns, HandleResponse(c)
      PROVE  Told(r)
    <2>1. Head(inbox[c]) \in Requests
        BY <1>9, RelayAssumption DEF HandleResponse, Handled, RelayInv, HubInv, HubTypeOK, HandlingHasFrame
    <2>2. Deliver(Head(inbox[c]), "response") /\ UNCHANGED <<result, ret>>
        BY <1>9 DEF HandleResponse, Resolve, callVars
    <2> QED BY <1>2, <2>1, <2>2
<1>10. ASSUME NEW q \in Requests, TimerFire(q) \/ TimerDeliver(q), UNCHANGED callVars
       PROVE  Told(r)
    <2>1. CASE TimerFire(q)
        BY <1>10, <2>1 DEF TimerFire, callVars
    <2>2. CASE TimerDeliver(q)
        BY <1>2, <1>10, <2>2 DEF TimerDeliver, callVars
    <2> QED BY <1>10, <2>1, <2>2
<1>11. ASSUME NEW q \in Requests, SendResult(q), UNCHANGED callVars
       PROVE  Told(r)
    BY <1>11 DEF SendResult, callVars
<1>12. ASSUME NEW w \in Sweepers, SweepNext(w), UNCHANGED callVars
       PROVE  Told(r) \/ (sweepCause[w] = "deviceFailed" /\ r \in sweepLeft[w])
    <2>1. PICK q \in sweepLeft[w] : Deliver(q, sweepCause[w]) /\ UNCHANGED result
        BY <1>12 DEF SweepNext
    <2>2. q \in Requests
        BY <2>1
    <2>3. "deviceFailed" \in sends'[r] =>
              "deviceFailed" \in sends[r] \/ (q = r /\ sweepCause[w] = "deviceFailed")
        BY <2>1, <2>2, DeliverSends
    <2> QED BY <1>12, <2>1, <2>3 DEF callVars
<1>13. ASSUME NEW w \in Sweepers, NEW s \in Sessions, CancelSession(w, s), UNCHANGED callVars
       PROVE  Told(r)
    BY <1>13 DEF CancelSession, callVars
<1>14. CASE HubOnly \/ UNCHANGED relayVars
    BY <1>14 DEF HubOnly, relayVars, callVars, pendingVars
<1> QED
    BY <1>3, <1>4, <1>5, <1>6, <1>7, <1>8, <1>9, <1>10, <1>11, <1>12, <1>13, <1>14
    DEF RelayNext, CallStep, PendingOnly

LEMMA ToldStep ==
    ASSUME RelayInv, PendingInv, CallTypeOK, LostInv, [RelayNext]_relayVars
    PROVE  ToldLost'
<1> SUFFICES ASSUME NEW r \in Requests, Told(r)'
             PROVE  Lost(target[r])'
    BY DEF ToldLost, Told
<1>0. TypeOK /\ HubTypeOK /\ [HubNext]_hubVars
    BY HubStep DEF RelayInv, PendingInv, HubInv
<1>1. Lost(target[r])
    <2>1. CASE Told(r)
        BY <2>1 DEF LostInv, ToldLost, Told
    <2>2. ASSUME NEW w \in Sweepers, sweepCause[w] = "deviceFailed", r \in sweepLeft[w]
          PROVE  Lost(target[r])
        BY <2>2 DEF LostInv, SweepsLost, FiledUnderTarget, Lost
    <2> QED BY <1>0, <2>1, <2>2, NewsMoves
<1>2. target'[r] = target[r]
    <2>1. pc[r] # "idle"
        BY <1>1 DEF LostInv, FiledUnderTarget, Lost
    <2>2. ASSUME NEW q \in Requests, NEW s \in Sessions, NEW d \in Devices, CallRegister(q, s, d)
          PROVE  target'[r] = target[r]
        BY <2>1, <2>2 DEF CallRegister, CallTypeOK
    <2>3. ASSUME NEW q \in Requests, CallGetConn(q)
          PROVE  target'[r] = target[r]
        BY <2>3 DEF CallGetConn
    <2> QED BY <2>2, <2>3, WatchMoves
<1> PICK d : d = target[r]
    OBVIOUS
<1>3. Lost(d)'
    BY <1>0, <1>1, LostStays
<1> QED BY <1>2, <1>3 DEF Lost

\* A call whose caller learns of a failed device lost a connection of its own
\* device, whichever watcher noticed (relay.go, CallDetailed's watcher, and
\* pending.go, FailDevice), for any number of calls, devices and connections.
THEOREM DeviceFailedIsClosed == RelaySafety => []DeviceFailedMeansClosed
<1>1. RelayInit => LostInv
    BY DEF RelayInit, HubInit, PendingInit, LostInv, FiledUnderTarget, WatchesTarget, SweepsLost,
           ToldLost, NoOutcome
<1>2. RelayInv /\ PendingInv /\ RelayTypeOK /\ LostInv /\ [RelayNext]_relayVars => LostInv'
    <2> SUFFICES ASSUME RelayInv, PendingInv, RelayTypeOK, LostInv, [RelayNext]_relayVars
                 PROVE  LostInv'
        OBVIOUS
    <2>1. CallTypeOK /\ TypeOK
        BY DEF RelayTypeOK
    <2>2. FiledUnderTarget'
        BY <2>1, FiledStep DEF LostInv
    <2>3. WatchesTarget'
        BY WatchesStep DEF LostInv
    <2> QED BY <2>1, <2>2, <2>3, SweepsStep, ToldStep DEF LostInv
<1>3. LostInv => DeviceFailedMeansClosed
    BY DEF LostInv, ToldLost, Lost, DeviceFailedMeansClosed
<1>4. RelaySafety => []PendingInv
    BY RegistryOfCalls, PendingInvariant, PTL
<1> QED BY <1>1, <1>2, <1>3, <1>4, RelayInvariant, RelayTypesHold, PTL DEF RelaySafety
=============================================================================
