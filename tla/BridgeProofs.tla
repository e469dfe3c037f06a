---------------------------- MODULE BridgeProofs -----------------------------
(***************************************************************************)
(* Answers reach their own request: the correlations of one connected      *)
(* cycle of the Bridge, for any number of requests and any size of the     *)
(* queues and pipes between the relay loop and its child.                  *)
(*                                                                         *)
(* A local id is used for one request, so every frame about it, on its way *)
(* to the child or back, names the request that the loop correlates it     *)
(* with (CallsAgree).  The child may use the same ids in requests of its   *)
(* own: the loop, which looks at nothing else, then takes one for the      *)
(* answer, but never another call's answer.                                *)
(***************************************************************************)
EXTENDS BridgeRelay, FiniteSetTheorems, TLAPS

Elems(s) == {s[n] : n \in 1..Len(s)}

\* Frames on their way to the child, and from it to the loop.
ToChild == Elems(writes) \cup {writing} \cup Elems(stdin)
FromChild == {childOut} \cup Elems(stdout) \cup Elems(responses)

IsCall(f) == f.kind = "request" /\ f.id \in LocalIds /\ f.req \in Requests

\* What the loop forwards as a request is one.
CallsTyped == \A f \in ToChild : f.kind = "request" => IsCall(f)

\* The frame of the dispatch under way.  The id of a request is its own, and
\* the request was never dispatched before.
CurrentInv ==
    /\ loop \in {"select", "stopped"} => current = NoFrame
    /\ loop \in {"sending", "awaiting"} => current.kind \in {"request", "cancelled"}
    /\ current.kind = "request" =>
          /\ IsCall(current) /\ current.id < nextLocalID
          /\ localByID[current.id] = None
          /\ byGatewayID[current.req] = 0
          /\ forwards[current.req] = <<>>
          /\ <<"request", current.req>> \in taken

\* Only requests that were dispatched, and are not answered, are correlated.
CorrelationInv ==
    /\ MapsAgree
    /\ \A i \in LocalIds : localByID[i] # None => i < nextLocalID
    /\ \A r \in Requests :
          /\ byGatewayID[r] # 0 => forwards[r] = <<>>
          /\ byGatewayID[r] # 0 \/ forwards[r] # <<>> => <<"request", r>> \in taken

\* A cancelled request is never correlated again.
CancelledInv ==
    \A p \in cancelled :
        /\ byGatewayID[p[2]] = 0
        /\ <<"request", p[2]>> \in taken
        /\ ~(current.kind = "request" /\ current.req = p[2])

\* No id is used up without a request.
TakenRequests == {r \in Requests : <<"request", r>> \in taken}
IdsSuffice == nextLocalID <= Cardinality(TakenRequests) + 1

\* The bookkeeping of a cycle, whatever the child sends.
CycleInv ==
    /\ BridgeTypeOK
    /\ CallsTyped
    /\ CurrentInv
    /\ CorrelationInv
    /\ CancelledInv
    /\ IdsSuffice

\* The request a local id stands for, however far the call is.
Agrees(i, r) ==
    /\ i < nextLocalID
    /\ localByID[i] \in {None, r}
    /\ current.kind = "request" /\ current.id = i => current.req = r

\* What the child sends besides answers is about no request of the gateway.
IsOwn(f) == f.kind # "response" /\ f.id \in ChildIds \cup {0} /\ f.req = None

\* Every call and every answer on its way names the request its id stands for.
CallsAgree ==
    /\ \A f \in ToChild : f.kind = "request" => Agrees(f.id, f.req)
    /\ \A p \in executing : Agrees(p[1], p[2])
    /\ \A f \in FromChild : IF f.kind = "response" THEN f.id \in LocalIds /\ Agrees(f.id, f.req)
                                                   ELSE IsOwn(f)

AnswerInv == CallsAgree /\ NeverCollide

Healthy == child = "alive" /\ ~ctxDone

\* The frame of a dispatch is in one place between the loop and the child.
HandOver ==
    /\ loop # "awaiting" => writes = <<>> /\ writing = NoFrame /\ ~written
    /\ loop = "awaiting" =>
          \/ writes = <<current>> /\ writing = NoFrame /\ ~written
          \/ writes = <<>> /\ writing = current /\ ~written
          \/ writes = <<>> /\ writing = NoFrame /\ written

\* The writer has passed the call on, and its answer is not routed yet.
BeyondWriter(i) ==
    \/ \E f \in Elems(stdin) : f.kind = "request" /\ f.id = i
    \/ \E p \in executing : p[1] = i
    \/ \E f \in FromChild : f.kind = "response" /\ f.id = i

\* A pending call is correlated, or cancelled, or is the dispatch under way, unless
\* the child uses its id.
PendingCallInv ==
    /\ \A i \in pendingCalls \ ChildIds :
          \/ localByID[i] # None
          \/ \E r \in Requests : <<i, r>> \in cancelled
          \/ loop = "awaiting" /\ current.kind = "request" /\ current.id = i
    /\ \A f \in Elems(responses) : f.kind = "response" => f.id \notin pendingCalls
    /\ current.kind = "request" /\ ~written /\ loop # "select" => ~BeyondWriter(current.id)

HealthyInv == Healthy => HandOver /\ PendingCallInv

-----------------------------------------------------------------------------
(* Sequences and frames *)

LEMMA ElemsFacts ==
  ASSUME NEW S, NEW s \in Seq(S)
  PROVE  /\ Elems(s) \subseteq S
         /\ \A x \in S : /\ Append(s, x) \in Seq(S) /\ Len(Append(s, x)) = Len(s) + 1
                         /\ Elems(Append(s, x)) = Elems(s) \cup {x}
         /\ s # <<>> => /\ Tail(s) \in Seq(S) /\ Len(Tail(s)) = Len(s) - 1 /\ Len(s) > 0
                        /\ Head(s) \in Elems(s) /\ Elems(Tail(s)) \subseteq Elems(s)
         /\ Len(s) \in Nat
<1>1. ASSUME NEW x \in S
      PROVE  Elems(Append(s, x)) = Elems(s) \cup {x}
  <2>1. Len(Append(s, x)) = Len(s) + 1 /\ Append(s, x)[Len(s) + 1] = x
        /\ \A n \in 1..Len(s) : Append(s, x)[n] = s[n]
    OBVIOUS
  <2>2. 1..(Len(s) + 1) = (1..Len(s)) \cup {Len(s) + 1}
    OBVIOUS
  <2> QED BY <2>1, <2>2 DEF Elems
<1>2. ASSUME s # <<>>
      PROVE  Head(s) \in Elems(s) /\ Elems(Tail(s)) \subseteq Elems(s)
  <2>1. Head(s) = s[1] /\ 1 \in 1..Len(s)
    BY <1>2
  <2>2. \A n \in 1..Len(Tail(s)) : Tail(s)[n] = s[n + 1] /\ n + 1 \in 1..Len(s)
    BY <1>2
  <2> QED BY <2>1, <2>2 DEF Elems
<1>3. Elems(s) \subseteq S
  BY DEF Elems
<1> QED BY <1>1, <1>2, <1>3

LEMMA EmptyElems ==
  ASSUME NEW S
  PROVE  Elems(<<>>) = {} /\ <<>> \in Seq(S) /\ Len(<<>>) = 0
BY DEF Elems

LEMMA LocalIdsFacts ==
  /\ Cardinality(Requests) \in Nat
  /\ LocalIds \subseteq Nat \ {0}
  /\ \A i \in LocalIds : i <= Cardinality(Requests)
<1>1. Cardinality(Requests) \in Nat
  BY FS_CardinalityType, BridgeAssumption
<1> QED BY <1>1 DEF LocalIds

LEMMA FrameFacts ==
  /\ NoFrame \in Frames /\ NoFrame.kind = "none" /\ NoFrame.id = 0 /\ NoFrame.req = None
  /\ \A k, i, r : /\ Frame(k, i, r).kind = k /\ Frame(k, i, r).id = i /\ Frame(k, i, r).req = r
  /\ \A k \in Kinds, i \in LocalIds \cup ChildIds \cup {0}, r \in Requests \cup {None} :
        Frame(k, i, r) \in Frames
BY DEF NoFrame, Frame, Frames, Kinds

-----------------------------------------------------------------------------
(* Which steps touch what *)

LEMMA LoopMoves ==
  ASSUME [BridgeNext]_bridgeVars
  PROVE  UNCHANGED loopVars \/ Dispatch \/ LoopStep
BY DEF BridgeNext, bridgeVars, Cancel, SessionCloses, CloseSession, StopChild,
   WriterTakes, WriterFlushes, ReadStdout, ChildExits, Reap, ChildReads, ChildEmits,
   ChildWrites, ChildAnswers

LEMMA DispatchLeaves ==
  ASSUME Dispatch
  PROVE  UNCHANGED <<session, ctxDone, forwards, processVars, childVars>>
BY DEF Dispatch, Dispatches, DropExpired, ForwardRequest, ForwardCancel, CancelUnknown, loopVars

LEMMA ProcessMoves ==
  ASSUME [BridgeNext]_bridgeVars
  PROVE  \/ UNCHANGED processVars
         \/ RouteChildFrame \/ SendAccepted \/ SendDone \/ SendFails
         \/ WriterTakes \/ WriterFlushes \/ ReadStdout \/ Reap
BY DispatchLeaves
   DEF BridgeNext, bridgeVars, Cancel, SessionCloses, CloseSession, StopChild,
   LoopStep, LoopSeesCancel, LoopSeesClose, LoopSeesExit,
   ChildExits, ChildReads, ChildEmits, ChildWrites, ChildAnswers

LEMMA ChildMoves ==
  ASSUME [BridgeNext]_bridgeVars
  PROVE  \/ UNCHANGED childVars
         \/ WriterFlushes \/ ReadStdout \/ ChildExits \/ Reap \/ ChildReads \/ ChildEmits
         \/ ChildWrites \/ \E id \in LocalIds, r \in Requests : ChildAnswers(id, r)
BY DispatchLeaves
   DEF BridgeNext, bridgeVars, Cancel, SessionCloses, CloseSession, StopChild,
   LoopStep, LoopSeesCancel, LoopSeesClose, LoopSeesExit, RouteChildFrame, SendAccepted,
   SendDone, SendFails, WriterTakes

LEMMA SessionMoves ==
  ASSUME [BridgeNext]_bridgeVars
  PROVE  \/ UNCHANGED sessionVars \/ Dispatch \/ RouteChildFrame
         \/ Cancel \/ SessionCloses
BY DEF BridgeNext, bridgeVars, CloseSession, StopChild,
   LoopStep, LoopSeesCancel, LoopSeesClose, LoopSeesExit, SendAccepted, SendDone, SendFails,
   WriterTakes, WriterFlushes, ReadStdout, ChildExits, Reap, ChildReads, ChildEmits,
   ChildWrites, ChildAnswers

-----------------------------------------------------------------------------
(* Types, by the part of the Bridge that owns the variables *)

SessionTypes ==
    /\ session \in {"open", "closed"}
    /\ taken \subseteq Envelopes
    /\ ctxDone \in BOOLEAN

LoopTypes ==
    /\ loop \in {"select", "sending", "awaiting", "stopped"}
    /\ current \in Frames
    /\ nextLocalID \in 1..(Cardinality(Requests) + 1)
    /\ localByID \in [LocalIds -> Requests \cup {None}]
    /\ byGatewayID \in [Requests -> LocalIds \cup {0}]
    /\ forwards \in [Requests -> Seq(Requests \cup {None})]
    /\ cancelled \subseteq LocalIds \X Requests

ProcessTypes ==
    /\ writes \in Seq(Frames) /\ Len(writes) <= QueueSize
    /\ writing \in Frames
    /\ written \in BOOLEAN
    /\ pendingCalls \subseteq LocalIds
    /\ responses \in Seq(Frames) /\ Len(responses) <= QueueSize

ChildTypes ==
    /\ stdin \in Seq(Frames) /\ Len(stdin) <= PipeSize
    /\ stdout \in Seq(Frames) /\ Len(stdout) <= PipeSize
    /\ child \in {"alive", "exited", "reaped"}
    /\ childOut \in Frames
    /\ executing \in SUBSET (LocalIds \X Requests)

LEMMA TypesByPart == BridgeTypeOK <=> SessionTypes /\ LoopTypes /\ ProcessTypes /\ ChildTypes
BY DEF BridgeTypeOK, SessionTypes, LoopTypes, ProcessTypes, ChildTypes

LEMMA TypesByPartNext ==
  BridgeTypeOK' <=> SessionTypes' /\ LoopTypes' /\ ProcessTypes' /\ ChildTypes'
BY DEF BridgeTypeOK, SessionTypes, LoopTypes, ProcessTypes, ChildTypes

LEMMA CycleInitInv == BridgeInit => CycleInv
<1> SUFFICES ASSUME BridgeInit
             PROVE  CycleInv
  OBVIOUS
<1> USE BridgeAssumption DEF BridgeInit
<1>1. SessionTypes
  BY DEF SessionTypes
<1>2. LoopTypes
  <2>1. 1 \in 1..(Cardinality(Requests) + 1)
    BY LocalIdsFacts
  <2>2. <<>> \in Seq(Requests \cup {None})
    OBVIOUS
  <2> QED BY <2>1, <2>2, FrameFacts DEF LoopTypes
<1>3. ProcessTypes
  <2>1. <<>> \in Seq(Frames) /\ Len(<<>>) <= QueueSize
    BY EmptyElems
  <2>2. NoFrame \in Frames
    BY FrameFacts
  <2>3. pendingCalls \subseteq LocalIds
    OBVIOUS
  <2> QED BY <2>1, <2>2, <2>3 DEF ProcessTypes
<1>4. ChildTypes
  BY FrameFacts, EmptyElems DEF ChildTypes
<1>5. CallsTyped
  BY EmptyElems, FrameFacts DEF CallsTyped, ToChild
<1>6. CurrentInv /\ CancelledInv
  BY FrameFacts DEF CurrentInv, CancelledInv
<1>7. CorrelationInv
  BY DEF CorrelationInv, MapsAgree
<1>8. IdsSuffice
  <2>1. TakenRequests = {}
    BY DEF TakenRequests
  <2> QED BY <2>1, FS_EmptySet DEF IdsSuffice
<1> QED BY <1>1, <1>2, <1>3, <1>4, <1>5, <1>6, <1>7, <1>8, TypesByPart DEF CycleInv

\* forwardRequest still has an id to give: every id before it went to a request
\* that was dispatched, and this one was not.
LEMMA IdIsFree ==
  ASSUME SessionTypes, LoopTypes, IdsSuffice, NEW r \in Requests, <<"request", r>> \notin taken
  PROVE  /\ nextLocalID \in LocalIds
         /\ nextLocalID + 1 \in 1..(Cardinality(Requests) + 1)
<1>1. IsFiniteSet(TakenRequests \cup {r}) /\ IsFiniteSet(TakenRequests)
      /\ Cardinality(TakenRequests \cup {r}) <= Cardinality(Requests)
  <2>1. TakenRequests \cup {r} \subseteq Requests /\ TakenRequests \subseteq Requests
    BY DEF TakenRequests
  <2> QED BY <2>1, FS_Subset, BridgeAssumption
<1>2. r \notin TakenRequests
  BY DEF TakenRequests
<1>3. Cardinality(TakenRequests \cup {r}) = Cardinality(TakenRequests) + 1
  BY <1>1, <1>2, FS_AddElement
<1>4. Cardinality(TakenRequests) \in Nat /\ Cardinality(Requests) \in Nat
  BY <1>1, FS_CardinalityType, LocalIdsFacts
<1>5. nextLocalID \in Nat /\ nextLocalID >= 1
  BY <1>4 DEF LoopTypes
<1>6. nextLocalID <= Cardinality(Requests)
  BY <1>1, <1>3, <1>4, <1>5 DEF IdsSuffice
<1> QED BY <1>4, <1>5, <1>6 DEF LocalIds

LEMMA SessionTypesKept ==
  ASSUME SessionTypes, [BridgeNext]_bridgeVars
  PROVE  SessionTypes'
<1>1. CASE UNCHANGED sessionVars
  BY <1>1 DEF SessionTypes, sessionVars
<1>2. CASE Dispatch
  BY <1>2, DispatchLeaves
  DEF SessionTypes, Dispatch, DropExpired, ForwardRequest, ForwardCancel, CancelUnknown,
      Dispatches, Envelopes
<1>3. CASE RouteChildFrame
  BY <1>3 DEF SessionTypes, RouteChildFrame, Enqueue
<1>4. CASE Cancel \/ SessionCloses
  BY <1>4 DEF SessionTypes, Cancel, SessionCloses
<1> QED BY <1>1, <1>2, <1>3, <1>4, SessionMoves

LEMMA LoopTypesKept ==
  ASSUME CycleInv, [BridgeNext]_bridgeVars
  PROVE  LoopTypes'
<1>0. SessionTypes /\ LoopTypes /\ ProcessTypes
  BY TypesByPart DEF CycleInv
<1>1. CASE UNCHANGED loopVars
  BY <1>0, <1>1 DEF LoopTypes, loopVars
<1>2. ASSUME NEW r \in Requests, ForwardRequest(r)
      PROVE  LoopTypes'
  <2>1. nextLocalID \in LocalIds /\ nextLocalID + 1 \in 1..(Cardinality(Requests) + 1)
    BY <1>0, <1>2, IdIsFree DEF ForwardRequest, Dispatches, CycleInv
  <2>2. Frame("request", nextLocalID, r) \in Frames
    BY <2>1, FrameFacts DEF Kinds
  <2> QED BY <1>0, <1>2, <2>1, <2>2 DEF ForwardRequest, LoopTypes
<1>3. ASSUME NEW r \in Requests, ForwardCancel(r)
      PROVE  LoopTypes'
  <2>1. byGatewayID[r] \in LocalIds
    BY <1>0, <1>3 DEF ForwardCancel, LoopTypes
  <2>2. Frame("cancelled", byGatewayID[r], r) \in Frames
    BY <2>1, FrameFacts DEF Kinds
  <2> QED BY <1>0, <1>3, <2>1, <2>2 DEF ForwardCancel, LoopTypes
<1>4. ASSUME NEW r \in Requests, DropExpired(r) \/ CancelUnknown(r)
      PROVE  LoopTypes'
  BY <1>0, <1>4 DEF DropExpired, CancelUnknown, LoopTypes, loopVars
<1>5. CASE LoopSeesCancel \/ LoopSeesClose \/ LoopSeesExit
  BY <1>0, <1>5 DEF LoopSeesCancel, LoopSeesClose, LoopSeesExit, LoopTypes
<1>6. CASE RouteChildFrame
  <2> DEFINE f == Head(responses)
             r == localByID[f.id]
  <2>1. f \in Frames
    BY <1>0, <1>6, ElemsFacts DEF RouteChildFrame, ProcessTypes
  <2>2. CASE f.id \in LocalIds /\ r # None
    <3>1. r \in Requests /\ f.req \in Requests \cup {None}
      BY <1>0, <2>1, <2>2 DEF LoopTypes, Frames
    <3>2. Append(forwards[r], f.req) \in Seq(Requests \cup {None})
      BY <1>0, <3>1 DEF LoopTypes
    <3>3. /\ localByID' = [localByID EXCEPT ![f.id] = None]
          /\ byGatewayID' = [byGatewayID EXCEPT ![r] = 0]
          /\ Enqueue(r, f.req)
          /\ UNCHANGED <<loop, current, nextLocalID, cancelled>>
      BY <1>6, <2>2 DEF RouteChildFrame
    <3>4. forwards' \in [Requests -> Seq(Requests \cup {None})]
      BY <1>0, <3>2, <3>3 DEF Enqueue, LoopTypes
    <3> QED BY <1>0, <3>3, <3>4 DEF LoopTypes
  <2>3. CASE ~(f.id \in LocalIds /\ r # None)
    BY <1>0, <1>6, <2>3 DEF RouteChildFrame, LoopTypes
  <2> QED BY <2>2, <2>3
<1>7. CASE SendAccepted
  BY <1>0, <1>7 DEF SendAccepted, LoopTypes
<1>8. CASE SendDone
  <2>1. current.kind = "request" => current.id \in LocalIds /\ current.req \in Requests
    BY DEF CycleInv, CurrentInv, IsCall
  <2> QED BY <1>0, <1>8, <2>1, FrameFacts DEF SendDone, LoopTypes
<1>9. CASE SendFails
  BY <1>0, <1>9, FrameFacts DEF SendFails, LoopTypes
<1> QED
  BY <1>1, <1>2, <1>3, <1>4, <1>5, <1>6, <1>7, <1>8, <1>9, LoopMoves DEF Dispatch, LoopStep

\* The process's queues keep their bounds, and hold calls with a request each.
LEMMA ProcessTypesKept ==
  ASSUME CycleInv, [BridgeNext]_bridgeVars
  PROVE  ProcessTypes'
<1>0. LoopTypes /\ ProcessTypes /\ ChildTypes
  BY TypesByPart DEF CycleInv
<1> USE BridgeAssumption DEF ProcessTypes
<1>1. CASE UNCHANGED processVars
  BY <1>0, <1>1 DEF processVars
<1>2. CASE RouteChildFrame
  <2>1. Tail(responses) \in Seq(Frames) /\ Len(Tail(responses)) <= QueueSize
    BY <1>0, <1>2, ElemsFacts DEF RouteChildFrame
  <2> QED BY <1>0, <1>2, <2>1 DEF RouteChildFrame
<1>3. CASE SendAccepted
  <2>1. Append(writes, current) \in Seq(Frames) /\ Len(Append(writes, current)) <= QueueSize
    BY <1>0, <1>3, ElemsFacts DEF SendAccepted, LoopTypes
  <2> QED BY <1>0, <1>3, <2>1 DEF SendAccepted
<1>4. CASE SendDone \/ SendFails
  BY <1>0, <1>4 DEF SendDone, SendFails
<1>5. CASE WriterTakes
  <2>1. /\ Tail(writes) \in Seq(Frames) /\ Len(Tail(writes)) <= QueueSize
        /\ Head(writes) \in Frames /\ Head(writes) \in Elems(writes)
    BY <1>0, <1>5, ElemsFacts DEF WriterTakes
  <2>2. Head(writes).kind = "request" => Head(writes).id \in LocalIds
    BY <2>1 DEF CycleInv, CallsTyped, ToChild, IsCall
  <2> QED BY <1>0, <1>5, <2>1, <2>2, FrameFacts DEF WriterTakes
<1>6. CASE WriterFlushes
  BY <1>0, <1>6, FrameFacts DEF WriterFlushes
<1>7. CASE ReadStdout
  <2> DEFINE f == Head(stdout)
             valid == f.kind = "response" => f.id \in pendingCalls
  <2>1. f \in Frames
    BY <1>0, <1>7, ElemsFacts DEF ReadStdout, ChildTypes
  <2>2. valid => Append(responses, f) \in Seq(Frames) /\ Len(Append(responses, f)) <= QueueSize
    <3>1. valid => Len(responses) < QueueSize
      BY <1>7 DEF ReadStdout
    <3>2. Append(responses, f) \in Seq(Frames) /\ Len(Append(responses, f)) = Len(responses) + 1
          /\ Len(responses) \in Nat
      BY <1>0, <2>1, ElemsFacts
    <3> QED BY <3>1, <3>2
  <2>3. responses' = IF valid THEN Append(responses, f) ELSE responses
    BY <1>7 DEF ReadStdout
  <2>4. pendingCalls' \subseteq pendingCalls /\ UNCHANGED <<writes, writing, written>>
    BY <1>7 DEF ReadStdout
  <2> QED BY <1>0, <2>2, <2>3, <2>4
<1>8. CASE Reap
  BY <1>0, <1>8, FrameFacts DEF Reap
<1> QED BY <1>1, <1>2, <1>3, <1>4, <1>5, <1>6, <1>7, <1>8, ProcessMoves

LEMMA ChildTypesKept ==
  ASSUME CycleInv, [BridgeNext]_bridgeVars
  PROVE  ChildTypes'
<1>0. ProcessTypes /\ ChildTypes
  BY TypesByPart DEF CycleInv
<1> USE BridgeAssumption DEF ChildTypes
<1>1. CASE UNCHANGED childVars
  BY <1>0, <1>1 DEF childVars
<1>2. CASE WriterFlushes
  <2>1. Append(stdin, writing) \in Seq(Frames) /\ Len(Append(stdin, writing)) <= PipeSize
    BY <1>0, <1>2, ElemsFacts DEF WriterFlushes, ProcessTypes
  <2> QED BY <1>0, <1>2, <2>1 DEF WriterFlushes
<1>3. CASE ReadStdout
  <2>1. Tail(stdout) \in Seq(Frames) /\ Len(Tail(stdout)) <= PipeSize
    BY <1>0, <1>3, ElemsFacts DEF ReadStdout
  <2> QED BY <1>0, <1>3, <2>1 DEF ReadStdout
<1>4. CASE ChildExits \/ Reap
  <2>1. <<>> \in Seq(Frames) /\ Len(<<>>) <= PipeSize
    BY EmptyElems
  <2>2. CASE ChildExits
    BY <1>0, <2>1, <2>2, FrameFacts DEF ChildExits
  <2>3. CASE Reap
    BY <1>0, <2>1, <2>3 DEF Reap
  <2> QED BY <1>4, <2>2, <2>3
<1>5. CASE ChildReads
  <2> DEFINE f == Head(stdin)
  <2>1. Tail(stdin) \in Seq(Frames) /\ Len(Tail(stdin)) <= PipeSize /\ f \in Elems(stdin)
    BY <1>0, <1>5, ElemsFacts DEF ChildReads
  <2>2. f.kind = "request" => <<f.id, f.req>> \in LocalIds \X Requests
    BY <2>1 DEF CycleInv, CallsTyped, ToChild, IsCall
  <2>3. executing' \subseteq LocalIds \X Requests
    BY <1>0, <1>5, <2>2 DEF ChildReads
  <2> QED BY <1>0, <1>5, <2>1, <2>3 DEF ChildReads
<1>6. CASE ChildEmits
  <2>1. childOut' \in Frames
    BY <1>6, FrameFacts DEF ChildEmits, Kinds
  <2> QED BY <1>0, <1>6, <2>1 DEF ChildEmits
<1>7. CASE ChildWrites
  <2>1. Append(stdout, childOut) \in Seq(Frames) /\ Len(Append(stdout, childOut)) <= PipeSize
    BY <1>0, <1>7, ElemsFacts DEF ChildWrites
  <2> QED BY <1>0, <1>7, <2>1, FrameFacts DEF ChildWrites
<1>8. ASSUME NEW id \in LocalIds, NEW r \in Requests, ChildAnswers(id, r)
      PROVE  ChildTypes'
  <2>1. Frame("response", id, r) \in Frames
    BY FrameFacts DEF Kinds
  <2> QED BY <1>0, <1>8, <2>1 DEF ChildAnswers
<1> QED BY <1>1, <1>2, <1>3, <1>4, <1>5, <1>6, <1>7, <1>8, ChildMoves

-----------------------------------------------------------------------------
(* Which frames are on their way *)

LEMMA StdinMoves ==
  ASSUME ProcessTypes, ChildTypes, [BridgeNext]_bridgeVars, NEW f \in Elems(stdin)'
  PROVE  f \in Elems(stdin) \/ (WriterFlushes /\ f = writing)
<1>1. CASE WriterFlushes
  <2>1. Elems(Append(stdin, writing)) = Elems(stdin) \cup {writing}
    BY ElemsFacts DEF ProcessTypes, ChildTypes
  <2> QED BY <1>1, <2>1 DEF WriterFlushes
<1>2. CASE ChildReads
  <2>1. Elems(Tail(stdin)) \subseteq Elems(stdin)
    BY <1>2, ElemsFacts DEF ChildTypes, ChildReads
  <2> QED BY <1>2, <2>1 DEF ChildReads
<1>3. CASE ChildExits
  <2>1. Elems(<<>>) = {}
    BY EmptyElems
  <2> QED BY <1>3, <2>1 DEF ChildExits
<1>4. CASE UNCHANGED stdin
  BY <1>4
<1> QED
  BY <1>1, <1>2, <1>3, <1>4, ChildMoves
  DEF childVars, ReadStdout, Reap, ChildEmits, ChildWrites, ChildAnswers

LEMMA ResponsesMoves ==
  ASSUME ProcessTypes, ChildTypes, [BridgeNext]_bridgeVars, NEW f \in Elems(responses)'
  PROVE  \/ f \in Elems(responses)
         \/ ReadStdout /\ f = Head(stdout) /\ f \in Elems(stdout)
<1>1. CASE ReadStdout
  <2>1. Head(stdout) \in Elems(stdout) /\ Head(stdout) \in Frames
    BY <1>1, ElemsFacts DEF ChildTypes, ReadStdout
  <2>2. Elems(Append(responses, Head(stdout))) = Elems(responses) \cup {Head(stdout)}
    BY <2>1, ElemsFacts DEF ProcessTypes
  <2>3. responses' = responses \/ responses' = Append(responses, Head(stdout))
    BY <1>1 DEF ReadStdout
  <2> QED BY <1>1, <2>1, <2>2, <2>3
<1>2. CASE RouteChildFrame
  <2>1. Elems(Tail(responses)) \subseteq Elems(responses)
    BY <1>2, ElemsFacts DEF ProcessTypes, RouteChildFrame
  <2> QED BY <1>2, <2>1 DEF RouteChildFrame
<1>3. CASE UNCHANGED responses
  BY <1>3
<1> QED
  BY <1>1, <1>2, <1>3, ProcessMoves
  DEF processVars, SendAccepted, SendDone, SendFails, WriterTakes, WriterFlushes, Reap

\* The child is sent what the loop hands over, and nothing else.
LEMMA ToChildMoves ==
  ASSUME ProcessTypes, LoopTypes, ChildTypes, [BridgeNext]_bridgeVars, NEW f \in ToChild'
  PROVE  f \in ToChild \/ f = NoFrame \/ (SendAccepted /\ f = current)
<1>1. f \in Elems(writes)' \/ f = writing' \/ f \in Elems(stdin)'
  BY DEF ToChild
<1>2. ASSUME f \in Elems(writes)'
      PROVE  f \in Elems(writes) \/ (SendAccepted /\ f = current)
  <2>1. CASE SendAccepted
    <3>1. Elems(Append(writes, current)) = Elems(writes) \cup {current}
      BY ElemsFacts DEF ProcessTypes, LoopTypes
    <3> QED BY <1>2, <2>1, <3>1 DEF SendAccepted
  <2>2. CASE WriterTakes
    <3>1. Elems(Tail(writes)) \subseteq Elems(writes)
      BY <2>2, ElemsFacts DEF ProcessTypes, WriterTakes
    <3> QED BY <1>2, <2>2, <3>1 DEF WriterTakes
  <2>3. CASE UNCHANGED writes
    BY <1>2, <2>3
  <2> QED
    BY <2>1, <2>2, <2>3, ProcessMoves
    DEF processVars, RouteChildFrame, SendDone, SendFails, WriterFlushes, ReadStdout, Reap
<1>3. ASSUME f = writing'
      PROVE  f = writing \/ f = NoFrame \/ f \in Elems(writes)
  <2>1. CASE WriterTakes
    <3>1. Head(writes) \in Elems(writes)
      BY <2>1, ElemsFacts DEF ProcessTypes, WriterTakes
    <3> QED BY <1>3, <2>1, <3>1 DEF WriterTakes
  <2>2. CASE WriterFlushes \/ Reap
    BY <1>3, <2>2 DEF WriterFlushes, Reap
  <2>3. CASE UNCHANGED writing
    BY <1>3, <2>3
  <2> QED
    BY <2>1, <2>2, <2>3, ProcessMoves
    DEF processVars, RouteChildFrame, SendAccepted, SendDone, SendFails, ReadStdout
<1>4. ASSUME f \in Elems(stdin)'
      PROVE  f \in Elems(stdin) \/ f = writing
  BY <1>4, StdinMoves
<1> QED BY <1>1, <1>2, <1>3, <1>4 DEF ToChild

\* The child sends answers to what it works on, and frames of its own.
LEMMA FromChildMoves ==
  ASSUME ProcessTypes, ChildTypes, [BridgeNext]_bridgeVars, NEW f \in FromChild'
  PROVE  \/ f \in FromChild
         \/ IsOwn(f)
         \/ \E id \in LocalIds, r \in Requests :
               ChildAnswers(id, r) /\ f = Frame("response", id, r)
<1>1. f = childOut' \/ f \in Elems(stdout)' \/ f \in Elems(responses)'
  BY DEF FromChild
<1>2. ASSUME f = childOut'
      PROVE  \/ f = childOut \/ f = NoFrame
             \/ IsOwn(f)
             \/ \E id \in LocalIds, r \in Requests :
                   ChildAnswers(id, r) /\ f = Frame("response", id, r)
  <2>1. CASE ChildEmits
    BY <1>2, <2>1, FrameFacts DEF ChildEmits, IsOwn
  <2>2. CASE \E id \in LocalIds, r \in Requests : ChildAnswers(id, r)
    BY <1>2, <2>2 DEF ChildAnswers
  <2>3. CASE ChildWrites \/ ChildExits
    BY <1>2, <2>3 DEF ChildWrites, ChildExits
  <2>4. CASE UNCHANGED childOut
    BY <1>2, <2>4
  <2> QED
    BY <2>1, <2>2, <2>3, <2>4, ChildMoves
    DEF childVars, WriterFlushes, ReadStdout, Reap, ChildReads
<1>3. ASSUME f \in Elems(stdout)'
      PROVE  f \in Elems(stdout) \/ f = childOut
  <2>1. CASE ChildWrites
    <3>1. Elems(Append(stdout, childOut)) = Elems(stdout) \cup {childOut}
      BY ElemsFacts DEF ChildTypes
    <3> QED BY <1>3, <2>1, <3>1 DEF ChildWrites
  <2>2. CASE ReadStdout
    <3>1. Elems(Tail(stdout)) \subseteq Elems(stdout)
      BY <2>2, ElemsFacts DEF ChildTypes, ReadStdout
    <3> QED BY <1>3, <2>2, <3>1 DEF ReadStdout
  <2>3. CASE Reap
    <3>1. Elems(<<>>) = {}
      BY EmptyElems
    <3> QED BY <1>3, <2>3, <3>1 DEF Reap
  <2>4. CASE UNCHANGED stdout
    BY <1>3, <2>4
  <2> QED
    BY <2>1, <2>2, <2>3, <2>4, ChildMoves
    DEF childVars, WriterFlushes, ChildExits, ChildReads, ChildEmits, ChildAnswers
<1>4. ASSUME f \in Elems(responses)'
      PROVE  f \in Elems(responses) \/ f \in Elems(stdout)
  BY <1>4, ResponsesMoves
<1>5. IsOwn(NoFrame)
  BY FrameFacts DEF IsOwn
<1> QED BY <1>1, <1>2, <1>3, <1>4, <1>5 DEF FromChild

LEMMA ExecutingMoves ==
  ASSUME ChildTypes, [BridgeNext]_bridgeVars, NEW p \in executing'
  PROVE  p \in executing \/ \E f \in Elems(stdin) : f.kind = "request" /\ p = <<f.id, f.req>>
<1>1. CASE ChildReads
  <2>1. Head(stdin) \in Elems(stdin)
    BY <1>1, ElemsFacts DEF ChildTypes, ChildReads
  <2> QED BY <1>1, <2>1 DEF ChildReads
<1>2. CASE executing' \subseteq executing
  BY <1>2
<1> QED
  BY <1>1, <1>2, ChildMoves
  DEF childVars, WriterFlushes, ReadStdout, ChildExits, Reap, ChildEmits, ChildWrites,
      ChildAnswers

LEMMA TakenGrows ==
  ASSUME [BridgeNext]_bridgeVars
  PROVE  taken \subseteq taken'
BY SessionMoves
DEF sessionVars, Dispatch, DropExpired, ForwardRequest, ForwardCancel, CancelUnknown, Dispatches,
    RouteChildFrame, Cancel, SessionCloses

-----------------------------------------------------------------------------
(* The correlations of the loop *)

LEMMA CallsTypedKept ==
  ASSUME CycleInv, [BridgeNext]_bridgeVars
  PROVE  CallsTyped'
<1>0. SessionTypes /\ LoopTypes /\ ProcessTypes /\ ChildTypes
  BY TypesByPart DEF CycleInv
<1>1. current.kind = "request" => IsCall(current)
  BY DEF CycleInv, CurrentInv
<1>2. \A f \in ToChild : f.kind = "request" => IsCall(f)
  BY DEF CycleInv, CallsTyped
<1>3. \A f \in ToChild' : f.kind = "request" => IsCall(f)
  BY <1>0, <1>1, <1>2, ToChildMoves, FrameFacts
<1> QED BY <1>3 DEF CallsTyped, IsCall

LEMMA CorrelationKept ==
  ASSUME CycleInv, [BridgeNext]_bridgeVars
  PROVE  CurrentInv' /\ CorrelationInv' /\ CancelledInv'
<1>0. SessionTypes /\ LoopTypes /\ ProcessTypes
  BY TypesByPart DEF CycleInv
<1>a. CurrentInv /\ CorrelationInv /\ CancelledInv
  BY DEF CycleInv
<1>b. taken \subseteq taken'
  BY TakenGrows
<1>c. nextLocalID \in Nat
  BY <1>0, LocalIdsFacts DEF LoopTypes
<1>1. CASE UNCHANGED loopVars
  BY <1>a, <1>b, <1>1
  DEF CurrentInv, CorrelationInv, CancelledInv, MapsAgree, IsCall, loopVars
<1>2. ASSUME NEW r \in Requests, ForwardRequest(r)
      PROVE  CurrentInv' /\ CorrelationInv' /\ CancelledInv'
  <2>1. nextLocalID \in LocalIds /\ nextLocalID < nextLocalID + 1
    BY <1>0, <1>2, <1>c, IdIsFree DEF ForwardRequest, Dispatches, CycleInv
  <2>2. /\ current' = Frame("request", nextLocalID, r) /\ nextLocalID' = nextLocalID + 1
        /\ loop' = "sending" /\ <<"request", r>> \in taken' /\ <<"request", r>> \notin taken
        /\ UNCHANGED <<localByID, byGatewayID, forwards, cancelled>>
    BY <1>2 DEF ForwardRequest, Dispatches
  <2>3. byGatewayID[r] = 0 /\ forwards[r] = <<>>
    BY <1>a, <2>2 DEF CorrelationInv
  <2>4. localByID[nextLocalID] = None
    BY <1>a, <1>c, <2>1 DEF CorrelationInv
  <2>5. CurrentInv'
    BY <2>1, <2>2, <2>3, <2>4, FrameFacts DEF CurrentInv, IsCall
  <2>6. \A i \in LocalIds : i < nextLocalID => i < nextLocalID'
    BY <1>c, <2>2, LocalIdsFacts
  <2>7. CorrelationInv'
    BY <1>a, <1>b, <2>2, <2>6 DEF CorrelationInv, MapsAgree
  <2>8. ASSUME NEW p \in cancelled
        PROVE  /\ byGatewayID[p[2]] = 0 /\ <<"request", p[2]>> \in taken
               /\ current'.req # p[2]
    <3>1. byGatewayID[p[2]] = 0 /\ <<"request", p[2]>> \in taken
      BY <1>a DEF CancelledInv
    <3>2. current'.req = r
      BY <2>2, FrameFacts
    <3>3. p[2] # r
      BY <2>2, <3>1
    <3> QED BY <3>1, <3>2, <3>3
  <2>9. CancelledInv'
    BY <1>b, <2>2, <2>8 DEF CancelledInv
  <2> QED BY <2>5, <2>7, <2>9
<1>3. ASSUME NEW r \in Requests, ForwardCancel(r)
      PROVE  CurrentInv' /\ CorrelationInv' /\ CancelledInv'
  <2> DEFINE i == byGatewayID[r]
  <2>1. i \in LocalIds /\ i # 0 /\ localByID[i] = r /\ r # None
    BY <1>0, <1>a, <1>3, BridgeAssumption DEF ForwardCancel, LoopTypes, CorrelationInv, MapsAgree
  <2>2. /\ byGatewayID' = [byGatewayID EXCEPT ![r] = 0]
        /\ localByID' = [localByID EXCEPT ![i] = None]
        /\ cancelled' = cancelled \cup {<<i, r>>}
        /\ current' = Frame("cancelled", i, r) /\ loop' = "sending"
        /\ <<"request", r>> \in taken
        /\ UNCHANGED <<nextLocalID, forwards>>
    BY <1>3 DEF ForwardCancel, Dispatches
  <2>3. CurrentInv'
    BY <2>2, FrameFacts DEF CurrentInv
  <2>4. MapsAgree'
    BY <1>0, <1>a, <2>1, <2>2 DEF CorrelationInv, MapsAgree, LoopTypes
  <2>5. CorrelationInv'
    BY <1>0, <1>a, <1>b, <2>1, <2>2, <2>4 DEF CorrelationInv, LoopTypes
  <2>6. ASSUME NEW p \in cancelled'
        PROVE  byGatewayID'[p[2]] = 0 /\ <<"request", p[2]>> \in taken'
    <3>1. CASE p \in cancelled
      <4>1. byGatewayID[p[2]] = 0 /\ <<"request", p[2]>> \in taken /\ p[2] \in Requests
        BY <1>0, <1>a, <3>1 DEF CancelledInv, LoopTypes
      <4> QED BY <1>0, <1>b, <2>2, <4>1 DEF LoopTypes
    <3>2. CASE p = <<i, r>>
      <4>1. p[2] = r
        BY <3>2
      <4> QED BY <1>0, <1>b, <2>2, <4>1 DEF LoopTypes
    <3> QED BY <2>2, <3>1, <3>2
  <2>7. current'.kind # "request"
    BY <2>2, FrameFacts
  <2>8. CancelledInv'
    BY <2>6, <2>7 DEF CancelledInv
  <2> QED BY <2>3, <2>5, <2>8
<1>4. ASSUME NEW r \in Requests, DropExpired(r) \/ CancelUnknown(r)
      PROVE  UNCHANGED loopVars
  BY <1>4 DEF DropExpired, CancelUnknown
<1>5. CASE LoopSeesCancel \/ LoopSeesClose \/ LoopSeesExit
  <2>1. loop = "select" /\ loop' = "stopped"
        /\ UNCHANGED <<current, nextLocalID, localByID, byGatewayID, forwards, cancelled, taken>>
    BY <1>5 DEF LoopSeesCancel, LoopSeesClose, LoopSeesExit, sessionVars
  <2> QED
    BY <1>a, <2>1 DEF CurrentInv, CorrelationInv, CancelledInv, MapsAgree, IsCall
<1>6. CASE RouteChildFrame
  <2> DEFINE f == Head(responses)
             r == localByID[f.id]
  <2>0. loop = "select" /\ current = NoFrame
        /\ UNCHANGED <<loop, current, nextLocalID, cancelled, taken>>
    BY <1>a, <1>6 DEF RouteChildFrame, CurrentInv
  <2>1. CurrentInv'
    BY <2>0, FrameFacts DEF CurrentInv
  <2>2. CASE f.id \in LocalIds /\ r # None
    <3>1. r \in Requests /\ byGatewayID[r] = f.id /\ f.id # 0
      BY <1>0, <1>a, <2>2, LocalIdsFacts DEF LoopTypes, CorrelationInv, MapsAgree
    <3>2. /\ localByID' = [localByID EXCEPT ![f.id] = None]
          /\ byGatewayID' = [byGatewayID EXCEPT ![r] = 0]
          /\ Enqueue(r, f.req)
      BY <1>6, <2>2 DEF RouteChildFrame
    <3>3. \A q \in Requests : q # r => forwards'[q] = forwards[q]
      BY <1>0, <3>2 DEF Enqueue, LoopTypes
    <3>4. MapsAgree'
      BY <1>0, <1>a, <2>2, <3>1, <3>2 DEF CorrelationInv, MapsAgree, LoopTypes
    <3>5. \A j \in LocalIds : localByID'[j] # None => j < nextLocalID'
      BY <1>0, <1>a, <2>0, <2>2, <3>2 DEF CorrelationInv, LoopTypes
    <3>6. ASSUME NEW q \in Requests
          PROVE  /\ byGatewayID'[q] # 0 => forwards'[q] = <<>>
                 /\ byGatewayID'[q] # 0 \/ forwards'[q] # <<>> => <<"request", q>> \in taken'
      <4>1. CASE q = r
        BY <1>0, <1>a, <2>0, <3>1, <3>2, <4>1 DEF CorrelationInv, LoopTypes
      <4>2. CASE q # r
        BY <1>0, <1>a, <2>0, <3>2, <3>3, <4>2 DEF CorrelationInv, LoopTypes
      <4> QED BY <4>1, <4>2
    <3>7. CancelledInv'
      BY <1>0, <1>a, <2>0, <3>2, FrameFacts DEF CancelledInv, LoopTypes
    <3> QED BY <2>1, <3>4, <3>5, <3>6, <3>7 DEF CorrelationInv
  <2>3. CASE ~(f.id \in LocalIds /\ r # None)
    <3>1. UNCHANGED <<localByID, byGatewayID, forwards>>
      BY <1>6, <2>3 DEF RouteChildFrame
    <3> QED BY <1>a, <2>0, <2>1, <3>1 DEF CorrelationInv, CancelledInv, MapsAgree
  <2> QED BY <2>2, <2>3
<1>7. CASE SendAccepted
  <2>1. loop = "sending" /\ loop' = "awaiting"
        /\ UNCHANGED <<current, nextLocalID, localByID, byGatewayID, forwards, cancelled, taken>>
    BY <1>7 DEF SendAccepted, sessionVars
  <2> QED
    BY <1>a, <2>1 DEF CurrentInv, CorrelationInv, CancelledInv, MapsAgree, IsCall
<1>8. CASE SendDone
  <2>1. loop' = "select" /\ current' = NoFrame
        /\ UNCHANGED <<nextLocalID, forwards, cancelled, taken>>
    BY <1>8 DEF SendDone, sessionVars
  <2>2. CurrentInv'
    BY <2>1, FrameFacts DEF CurrentInv
  <2>3. CASE current.kind = "request"
    <3> DEFINE i == current.id
               r == current.req
    <3>1. /\ i \in LocalIds /\ r \in Requests /\ i < nextLocalID /\ i # 0 /\ r # None
          /\ localByID[i] = None /\ byGatewayID[r] = 0 /\ forwards[r] = <<>>
          /\ <<"request", r>> \in taken
      BY <1>a, <2>3, LocalIdsFacts, BridgeAssumption DEF CurrentInv, IsCall
    <3>2. /\ localByID' = [localByID EXCEPT ![i] = r]
          /\ byGatewayID' = [byGatewayID EXCEPT ![r] = i]
      BY <1>8, <2>3 DEF SendDone
    <3>a. ASSUME NEW q \in Requests, byGatewayID'[q] # 0
          PROVE  localByID'[byGatewayID'[q]] = q
      <4>1. CASE q = r
        BY <1>0, <3>1, <3>2, <4>1 DEF LoopTypes
      <4>2. CASE q # r
        <5>1. byGatewayID'[q] = byGatewayID[q] /\ byGatewayID[q] \in LocalIds
          BY <1>0, <3>a, <3>2, <4>2 DEF LoopTypes
        <5>2. localByID[byGatewayID[q]] = q /\ q # None
          BY <1>a, <3>a, <5>1, BridgeAssumption DEF CorrelationInv, MapsAgree
        <5> QED BY <1>0, <3>1, <3>2, <5>1, <5>2 DEF LoopTypes
      <4> QED BY <4>1, <4>2
    <3>b. ASSUME NEW j \in LocalIds, localByID'[j] # None
          PROVE  byGatewayID'[localByID'[j]] = j
      <4>1. CASE j = i
        BY <1>0, <3>1, <3>2, <4>1 DEF LoopTypes
      <4>2. CASE j # i
        <5>1. localByID'[j] = localByID[j] /\ localByID[j] \in Requests
          BY <1>0, <3>b, <3>2, <4>2 DEF LoopTypes
        <5>2. byGatewayID[localByID[j]] = j /\ j # 0
          BY <1>a, <3>b, <5>1, LocalIdsFacts DEF CorrelationInv, MapsAgree
        <5> QED BY <1>0, <3>1, <3>2, <5>1, <5>2 DEF LoopTypes
      <4> QED BY <4>1, <4>2
    <3>3. MapsAgree'
      BY <3>a, <3>b DEF MapsAgree
    <3>4. CorrelationInv'
      BY <1>0, <1>a, <2>1, <3>1, <3>2, <3>3 DEF CorrelationInv, LoopTypes
    <3>5. CancelledInv'
      BY <1>0, <1>a, <2>1, <2>3, <3>1, <3>2, FrameFacts DEF CancelledInv, LoopTypes
    <3> QED BY <2>2, <3>4, <3>5
  <2>4. CASE current.kind # "request"
    <3>1. UNCHANGED <<localByID, byGatewayID>>
      BY <1>8, <2>4 DEF SendDone
    <3> QED BY <1>a, <2>1, <2>2, <3>1, FrameFacts DEF CorrelationInv, CancelledInv, MapsAgree
  <2> QED BY <2>3, <2>4
<1>9. CASE SendFails
  <2>1. loop' = "select" /\ current' = NoFrame
        /\ UNCHANGED <<nextLocalID, localByID, byGatewayID, forwards, cancelled, taken>>
    BY <1>9 DEF SendFails, sessionVars
  <2> QED
    BY <1>a, <2>1, FrameFacts DEF CurrentInv, CorrelationInv, CancelledInv, MapsAgree
<1> QED
  BY <1>1, <1>2, <1>3, <1>4, <1>5, <1>6, <1>7, <1>8, <1>9, LoopMoves DEF Dispatch, LoopStep

LEMMA IdsSufficeKept ==
  ASSUME CycleInv, [BridgeNext]_bridgeVars
  PROVE  IdsSuffice'
<1>0. SessionTypes /\ LoopTypes /\ IdsSuffice
  BY TypesByPart DEF CycleInv
<1>1. /\ IsFiniteSet(TakenRequests) /\ IsFiniteSet(TakenRequests')
      /\ Cardinality(TakenRequests) <= Cardinality(TakenRequests')
      /\ Cardinality(TakenRequests) \in Nat /\ Cardinality(TakenRequests') \in Nat
  <2>1. TakenRequests \subseteq TakenRequests' /\ TakenRequests' \subseteq Requests
    BY TakenGrows DEF TakenRequests
  <2>2. IsFiniteSet(TakenRequests')
    BY <2>1, FS_Subset, BridgeAssumption
  <2> QED BY <2>1, <2>2, FS_Subset, FS_CardinalityType
<1>2. nextLocalID \in Nat
  BY <1>0, LocalIdsFacts DEF LoopTypes
<1>3. ASSUME NEW r \in Requests, ForwardRequest(r)
      PROVE  IdsSuffice'
  <2>1. r \notin TakenRequests /\ TakenRequests' = TakenRequests \cup {r}
    BY <1>3 DEF ForwardRequest, Dispatches, TakenRequests
  <2>2. Cardinality(TakenRequests \cup {r}) = Cardinality(TakenRequests) + 1
    BY <1>1, <2>1, FS_AddElement
  <2>3. Cardinality(TakenRequests') = Cardinality(TakenRequests) + 1
    BY <2>1, <2>2
  <2>4. nextLocalID' = nextLocalID + 1
    BY <1>3 DEF ForwardRequest
  <2> QED BY <1>0, <1>1, <1>2, <2>3, <2>4 DEF IdsSuffice
<1>4. CASE UNCHANGED nextLocalID
  BY <1>0, <1>1, <1>2, <1>4 DEF IdsSuffice
<1> QED
  BY <1>3, <1>4, LoopMoves
  DEF loopVars, Dispatch, LoopStep, DropExpired, ForwardCancel, CancelUnknown, LoopSeesCancel,
      LoopSeesClose, LoopSeesExit, RouteChildFrame, SendAccepted, SendDone, SendFails

LEMMA CycleStep ==
  ASSUME CycleInv, [BridgeNext]_bridgeVars
  PROVE  CycleInv'
<1>1. SessionTypes
  BY TypesByPart DEF CycleInv
<1>2. BridgeTypeOK'
  BY <1>1, SessionTypesKept, LoopTypesKept, ProcessTypesKept, ChildTypesKept, TypesByPartNext
<1> QED BY <1>2, CallsTypedKept, CorrelationKept, IdsSufficeKept DEF CycleInv

\* The bookkeeping of a cycle, whatever the child sends.
THEOREM BridgeInvHolds == BridgeSafety => []CycleInv
BY CycleInitInv, CycleStep, PTL DEF BridgeSafety

\* BridgeTypeOK of BridgeRelay: the queues keep the bounds of process.go, and the
\* Bridge never runs out of local ids.
THEOREM BridgeTypesHold == BridgeSafety => []BridgeTypeOK
<1>1. CycleInv => BridgeTypeOK
  BY DEF CycleInv
<1> QED BY <1>1, BridgeInvHolds, PTL

\* NoAnswerAfterCancel of BridgeRelay: what a child answers to a call that was
\* cancelled is never handed to the gateway, whatever id it carries.
THEOREM NoAnswerAfterCancelHolds == BridgeSafety => NoAnswerAfterCancel
<1>1. ASSUME CycleInv, [BridgeNext]_bridgeVars, NEW p \in cancelled
      PROVE  forwards'[p[2]] = forwards[p[2]]
  <2>0. LoopTypes /\ CorrelationInv /\ CancelledInv
    BY <1>1, TypesByPart DEF CycleInv
  <2>1. CASE UNCHANGED forwards
    BY <2>1
  <2>2. CASE RouteChildFrame
    <3> DEFINE f == Head(responses)
               r == localByID[f.id]
    <3>1. CASE f.id \in LocalIds /\ r # None
      <4>1. r \in Requests /\ byGatewayID[r] = f.id /\ f.id # 0 /\ p[2] \in Requests
        BY <2>0, <3>1, <1>1, LocalIdsFacts DEF LoopTypes, CorrelationInv, MapsAgree
      <4>2. p[2] # r
        BY <2>0, <4>1 DEF CancelledInv
      <4>3. Enqueue(r, f.req)
        BY <2>2, <3>1 DEF RouteChildFrame
      <4> QED BY <2>0, <4>1, <4>2, <4>3 DEF Enqueue, LoopTypes
    <3>2. CASE ~(f.id \in LocalIds /\ r # None)
      BY <2>2, <3>2 DEF RouteChildFrame
    <3> QED BY <3>1, <3>2
  <2> QED
    BY <1>1, <2>1, <2>2, LoopMoves, DispatchLeaves
    DEF loopVars, LoopStep, LoopSeesCancel, LoopSeesClose, LoopSeesExit, SendAccepted,
        SendDone, SendFails
<1>2. CycleInv /\ [BridgeNext]_bridgeVars => [\A p \in cancelled : forwards'[p[2]] = forwards[p[2]]]_bridgeVars
  BY <1>1
<1> QED BY <1>2, BridgeInvHolds, PTL DEF BridgeSafety, NoAnswerAfterCancel

-----------------------------------------------------------------------------
(* Answers and the requests they answer *)

LEMMA AnswerInitInv == BridgeInit => AnswerInv /\ HealthyInv
<1> SUFFICES ASSUME BridgeInit
             PROVE  AnswerInv /\ HealthyInv
  OBVIOUS
<1>1. ToChild = {NoFrame} /\ FromChild = {NoFrame} /\ Elems(stdin) = {} /\ Elems(responses) = {}
  BY EmptyElems DEF BridgeInit, ToChild, FromChild
<1>2. NoFrame.kind = "none" /\ IsOwn(NoFrame)
  BY FrameFacts DEF IsOwn
<1>3. CallsAgree
  BY <1>1, <1>2 DEF BridgeInit, CallsAgree
<1>4. NeverCollide
  BY DEF BridgeInit, NeverCollide
<1>5. HandOver
  BY DEF BridgeInit, HandOver
<1>6. PendingCallInv
  BY <1>1, <1>2 DEF BridgeInit, PendingCallInv
<1> QED BY <1>3, <1>4, <1>5, <1>6 DEF AnswerInv, HealthyInv

\* A local id stands for its request for as long as the cycle lasts.
LEMMA AgreesKept ==
  ASSUME CycleInv, [BridgeNext]_bridgeVars, NEW i \in LocalIds, NEW r, Agrees(i, r)
  PROVE  Agrees(i, r)'
<1>0. LoopTypes /\ CurrentInv /\ i \in Nat /\ nextLocalID \in Nat
  BY TypesByPart, LocalIdsFacts DEF CycleInv, LoopTypes
<1>1. CASE UNCHANGED loopVars
  BY <1>1 DEF Agrees, loopVars
<1>2. ASSUME NEW q \in Requests, ForwardRequest(q)
      PROVE  Agrees(i, r)'
  <2>1. /\ nextLocalID' = nextLocalID + 1 /\ localByID' = localByID
        /\ current'.id = nextLocalID
    BY <1>2, FrameFacts DEF ForwardRequest
  <2> QED BY <1>0, <2>1 DEF Agrees
<1>3. ASSUME NEW q \in Requests, ForwardCancel(q)
      PROVE  Agrees(i, r)'
  <2>1. nextLocalID' = nextLocalID /\ current'.kind = "cancelled"
    BY <1>3, FrameFacts DEF ForwardCancel
  <2>2. localByID'[i] \in {None, localByID[i]}
    BY <1>0, <1>3 DEF ForwardCancel, LoopTypes
  <2> QED BY <2>1, <2>2 DEF Agrees
<1>4. CASE RouteChildFrame
  <2>1. UNCHANGED <<nextLocalID, current>>
    BY <1>4 DEF RouteChildFrame
  <2>2. localByID'[i] \in {None, localByID[i]}
    BY <1>0, <1>4 DEF RouteChildFrame, LoopTypes
  <2> QED BY <2>1, <2>2 DEF Agrees
<1>5. CASE SendDone
  <2>1. nextLocalID' = nextLocalID /\ current'.kind = "none"
    BY <1>5, FrameFacts DEF SendDone
  <2>2. localByID'[i] \in {None, r}
    BY <1>0, <1>5 DEF SendDone, LoopTypes, Agrees
  <2> QED BY <2>1, <2>2 DEF Agrees
<1>6. CASE SendFails
  <2>1. UNCHANGED <<nextLocalID, localByID>> /\ current'.kind = "none"
    BY <1>6, FrameFacts DEF SendFails
  <2> QED BY <2>1 DEF Agrees
<1>7. CASE LoopSeesCancel \/ LoopSeesClose \/ LoopSeesExit \/ SendAccepted
  <2>1. UNCHANGED <<nextLocalID, localByID, current>>
    BY <1>7 DEF LoopSeesCancel, LoopSeesClose, LoopSeesExit, SendAccepted
  <2> QED BY <2>1 DEF Agrees
<1>8. ASSUME NEW q \in Requests, DropExpired(q) \/ CancelUnknown(q)
      PROVE  UNCHANGED loopVars
  BY <1>8 DEF DropExpired, CancelUnknown
<1> QED
  BY <1>1, <1>2, <1>3, <1>4, <1>5, <1>6, <1>7, <1>8, LoopMoves DEF Dispatch, LoopStep

LEMMA CallsAgreeKept ==
  ASSUME CycleInv, CallsAgree, [BridgeNext]_bridgeVars
  PROVE  CallsAgree'
<1>0. LoopTypes /\ ProcessTypes /\ ChildTypes
  BY TypesByPart DEF CycleInv
<1>1. \A f \in ToChild : f.kind = "request" => Agrees(f.id, f.req) /\ f.id \in LocalIds
  BY DEF CallsAgree, CycleInv, CallsTyped, IsCall
<1>2. ASSUME NEW f \in ToChild', f.kind = "request"
      PROVE  Agrees(f.id, f.req)'
  <2>1. CASE f \in ToChild
    BY <1>1, <1>2, <2>1, AgreesKept
  <2>2. CASE SendAccepted /\ f = current
    <3>1. /\ current.id \in LocalIds /\ current.id < nextLocalID /\ localByID[current.id] = None
          /\ UNCHANGED <<current, nextLocalID, localByID>>
      BY <1>2, <2>2 DEF CycleInv, CurrentInv, IsCall, SendAccepted
    <3> QED BY <2>2, <3>1 DEF Agrees
  <2>3. f # NoFrame
    BY <1>2, FrameFacts
  <2> QED BY <1>0, <2>1, <2>2, <2>3, ToChildMoves
<1>3. ASSUME NEW p \in executing'
      PROVE  Agrees(p[1], p[2])'
  <2>1. CASE p \in executing
    <3>1. p[1] \in LocalIds /\ Agrees(p[1], p[2])
      BY <1>0, <2>1 DEF ChildTypes, CallsAgree
    <3> QED BY <3>1, AgreesKept
  <2>2. ASSUME NEW f \in Elems(stdin), f.kind = "request", p = <<f.id, f.req>>
        PROVE  Agrees(p[1], p[2])'
    <3>1. f \in ToChild
      BY DEF ToChild
    <3>2. p[1] = f.id /\ p[2] = f.req
      BY <2>2
    <3>3. p[1] \in LocalIds /\ Agrees(p[1], p[2])
      BY <1>1, <2>2, <3>1, <3>2
    <3> QED BY <3>3, AgreesKept
  <2> QED BY <1>0, <2>1, <2>2, ExecutingMoves
<1>4. ASSUME NEW f \in FromChild'
      PROVE  IF f.kind = "response" THEN f.id \in LocalIds /\ Agrees(f.id, f.req)'
                                    ELSE IsOwn(f)
  <2>1. CASE f \in FromChild
    BY <2>1, AgreesKept DEF CallsAgree
  <2>2. ASSUME NEW id \in LocalIds, NEW r \in Requests,
               ChildAnswers(id, r), f = Frame("response", id, r)
        PROVE  f.kind = "response" /\ f.id \in LocalIds /\ Agrees(f.id, f.req)'
    <3>1. f.kind = "response" /\ f.id = id /\ f.req = r
      BY <2>2, FrameFacts
    <3>2. <<id, r>> \in executing
      BY <2>2 DEF ChildAnswers
    <3>3. Agrees(<<id, r>>[1], <<id, r>>[2])
      BY <3>2 DEF CallsAgree
    <3>4. Agrees(id, r)
      BY <3>3
    <3>5. Agrees(id, r)'
      BY <3>4, AgreesKept
    <3> QED BY <3>1, <3>5
  <2>3. CASE IsOwn(f)
    BY <2>3 DEF IsOwn
  <2> QED BY <1>0, <2>1, <2>2, <2>3, FromChildMoves
<1>5. \A f \in ToChild' : f.kind = "request" => Agrees(f.id, f.req)'
  BY <1>2
<1>6. \A p \in executing' : Agrees(p[1], p[2])'
  BY <1>3
<1>7. \A f \in FromChild' : IF f.kind = "response" THEN f.id \in LocalIds /\ Agrees(f.id, f.req)'
                                                   ELSE IsOwn(f)
  BY <1>4
<1> QED BY <1>5, <1>6, <1>7 DEF CallsAgree

\* What is routed to a correlation answers its request, or is the child's own.
LEMMA RoutedIsAnswer ==
  ASSUME CycleInv, CallsAgree, RouteChildFrame,
         Head(responses).id \in LocalIds, localByID[Head(responses).id] # None
  PROVE  /\ Head(responses) \in Elems(responses)
         /\ IF Head(responses).kind = "response"
            THEN localByID[Head(responses).id] = Head(responses).req
            ELSE Head(responses).id \in ChildIds /\ Head(responses).req = None
<1>1. Head(responses) \in Elems(responses)
  BY ElemsFacts, TypesByPart DEF RouteChildFrame, CycleInv, ProcessTypes
<1>2. Head(responses) \in FromChild
  BY <1>1 DEF FromChild
<1>3. CASE Head(responses).kind = "response"
  <2>1. Agrees(Head(responses).id, Head(responses).req)
    BY <1>2, <1>3 DEF CallsAgree
  <2> QED BY <1>1, <1>3, <2>1 DEF Agrees
<1>4. CASE Head(responses).kind # "response"
  <2>1. IsOwn(Head(responses))
    BY <1>2, <1>4 DEF CallsAgree
  <2>2. Head(responses).id # 0
    BY LocalIdsFacts
  <2> QED BY <1>1, <1>4, <2>1, <2>2 DEF IsOwn
<1> QED BY <1>3, <1>4

LEMMA AnswersKept ==
  ASSUME CycleInv, AnswerInv, [BridgeNext]_bridgeVars
  PROVE  NeverCollide'
<1>0. LoopTypes /\ CorrelationInv
  BY TypesByPart DEF CycleInv
<1>1. CASE UNCHANGED forwards
  BY <1>1 DEF AnswerInv, NeverCollide
<1>2. CASE RouteChildFrame
  <2> DEFINE f == Head(responses)
             r == localByID[f.id]
  <2>1. CASE f.id \in LocalIds /\ r # None
    <3>1. f.req \in {r, None}
      BY <1>2, <2>1, RoutedIsAnswer DEF AnswerInv
    <3>2. r \in Requests /\ byGatewayID[r] # 0
      BY <1>0, <2>1, LocalIdsFacts DEF LoopTypes, CorrelationInv, MapsAgree
    <3>3. forwards[r] = <<>>
      BY <1>0, <3>2 DEF CorrelationInv
    <3>4. Append(<<>>, f.req) = <<f.req>>
      OBVIOUS
    <3>5. Enqueue(r, f.req)
      BY <1>2, <2>1 DEF RouteChildFrame
    <3> HIDE DEF f, r
    <3>6. forwards' = forwards \/ forwards' = [forwards EXCEPT ![r] = <<f.req>>]
      BY <1>0, <3>2, <3>3, <3>4, <3>5 DEF Enqueue, LoopTypes
    <3>7. ASSUME NEW q \in Requests
          PROVE  forwards'[q] \in {<<>>, <<q>>, <<None>>}
      BY <1>0, <3>1, <3>2, <3>6 DEF AnswerInv, NeverCollide, LoopTypes
    <3> QED BY <3>7 DEF NeverCollide
  <2>2. CASE ~(f.id \in LocalIds /\ r # None)
    BY <1>1, <1>2, <2>2 DEF RouteChildFrame
  <2> QED BY <2>1, <2>2
<1> QED
  BY <1>1, <1>2, LoopMoves, DispatchLeaves
  DEF loopVars, LoopStep, LoopSeesCancel, LoopSeesClose, LoopSeesExit, SendAccepted,
      SendDone, SendFails

-----------------------------------------------------------------------------
(* Calls and their correlations *)

LEMMA HandOverKept ==
  ASSUME CycleInv, HandOver, Healthy, Healthy', [BridgeNext]_bridgeVars
  PROVE  HandOver'
<1>0. LoopTypes /\ ProcessTypes /\ CurrentInv
  BY TypesByPart DEF CycleInv
<1>1. CASE UNCHANGED <<loop, current, writes, writing, written>>
  BY <1>1 DEF HandOver
<1>2. CASE Dispatch
  <2>1. loop = "select" /\ loop' # "awaiting" /\ UNCHANGED <<writes, writing, written>>
    BY <1>2, DispatchLeaves
    DEF processVars, Dispatch, Dispatches, DropExpired, ForwardRequest, ForwardCancel,
        CancelUnknown, loopVars
  <2> QED BY <2>1 DEF HandOver
<1>3. CASE LoopSeesCancel \/ LoopSeesClose \/ LoopSeesExit
  <2>1. loop = "select" /\ loop' = "stopped" /\ UNCHANGED <<writes, writing, written>>
    BY <1>3 DEF LoopSeesCancel, LoopSeesClose, LoopSeesExit, processVars
  <2> QED BY <2>1 DEF HandOver
<1>4. CASE SendAccepted
  <2>1. Append(<<>>, current) = <<current>>
    OBVIOUS
  <2> QED BY <1>4, <2>1 DEF SendAccepted, HandOver
<1>5. CASE SendDone
  BY <1>5, FrameFacts DEF SendDone, HandOver
<1>6. CASE SendFails
  BY <1>6 DEF SendFails, Healthy
<1>7. CASE WriterTakes
  <2>1. loop = "awaiting" /\ writes = <<current>> /\ ~written
    BY <1>7 DEF WriterTakes, HandOver
  <2>2. Head(<<current>>) = current /\ Tail(<<current>>) = <<>>
    OBVIOUS
  <2> QED BY <1>7, <2>1, <2>2 DEF WriterTakes, Healthy, HandOver, loopVars
<1>8. CASE WriterFlushes
  BY <1>8 DEF WriterFlushes, HandOver, loopVars
<1>9. CASE Reap
  BY <1>9 DEF Reap, Healthy
<1> QED
  BY <1>1, <1>2, <1>3, <1>4, <1>5, <1>6, <1>7, <1>8, <1>9, LoopMoves, ProcessMoves
  DEF loopVars, processVars, LoopStep, RouteChildFrame, ReadStdout

\* Only the writer takes a call beyond itself.
LEMMA BeyondWriterMoves ==
  ASSUME ProcessTypes, ChildTypes, [BridgeNext]_bridgeVars, NEW i, BeyondWriter(i)'
  PROVE  BeyondWriter(i) \/ (WriterFlushes /\ writing.kind = "request" /\ writing.id = i)
<1>1. ASSUME NEW f \in Elems(stdin)', f.kind = "request", f.id = i
      PROVE  BeyondWriter(i) \/ (WriterFlushes /\ writing.kind = "request" /\ writing.id = i)
  BY <1>1, StdinMoves DEF BeyondWriter
<1>2. ASSUME NEW p \in executing', p[1] = i
      PROVE  BeyondWriter(i)
  BY <1>2, ExecutingMoves DEF BeyondWriter
<1>3. ASSUME NEW f \in FromChild', f.kind = "response", f.id = i
      PROVE  BeyondWriter(i)
  <2>1. CASE f \in FromChild
    BY <1>3, <2>1 DEF BeyondWriter
  <2>2. ASSUME NEW id \in LocalIds, NEW r \in Requests,
               ChildAnswers(id, r), f = Frame("response", id, r)
        PROVE  BeyondWriter(i)
    <3>1. <<id, r>> \in executing /\ <<id, r>>[1] = i
      BY <1>3, <2>2, FrameFacts DEF ChildAnswers
    <3> QED BY <3>1 DEF BeyondWriter
  <2> QED BY <1>3, <2>1, <2>2, FromChildMoves DEF IsOwn
<1> QED BY <1>1, <1>2, <1>3 DEF BeyondWriter

\* An id not given yet is nowhere on its way.
LEMMA FreshIsNotBeyond ==
  ASSUME LoopTypes, CallsAgree
  PROVE  ~BeyondWriter(nextLocalID)
<1>1. nextLocalID \in Nat
  BY LocalIdsFacts DEF LoopTypes
<1>2. \A f \in Elems(stdin) : f.kind = "request" => f.id < nextLocalID
  BY DEF CallsAgree, ToChild, Agrees
<1>3. \A p \in executing : p[1] < nextLocalID
  BY DEF CallsAgree, Agrees
<1>4. \A f \in FromChild : f.kind = "response" => f.id < nextLocalID
  BY DEF CallsAgree, Agrees
<1> QED BY <1>1, <1>2, <1>3, <1>4 DEF BeyondWriter

LEMMA PendingCallKept ==
  ASSUME CycleInv, CallsAgree, HandOver, PendingCallInv, Healthy, Healthy',
         [BridgeNext]_bridgeVars
  PROVE  PendingCallInv'
<1>0. LoopTypes /\ ProcessTypes /\ ChildTypes /\ CurrentInv /\ CorrelationInv
  BY TypesByPart DEF CycleInv
<1> DEFINE Held(i) == \/ localByID[i] # None
                      \/ \E r \in Requests : <<i, r>> \in cancelled
                      \/ loop = "awaiting" /\ current.kind = "request" /\ current.id = i
<1>h. \A i \in pendingCalls \ ChildIds : Held(i)
  BY DEF PendingCallInv
<1>w. WriterTakes => /\ loop = "awaiting" /\ ~written /\ Head(writes) = current
                     /\ UNCHANGED <<loop, current, localByID, cancelled>>
  <2>1. Head(<<current>>) = current
    OBVIOUS
  <2> QED BY <2>1 DEF WriterTakes, HandOver, loopVars
<1>1. ASSUME NEW i \in pendingCalls'
      PROVE  i \in pendingCalls \/ (WriterTakes /\ current.kind = "request" /\ i = current.id)
  BY <1>1, <1>w, ProcessMoves
  DEF processVars, RouteChildFrame, SendAccepted, SendDone, SendFails, WriterTakes,
      WriterFlushes, ReadStdout, Reap
<1>2. ASSUME NEW i \in pendingCalls \ ChildIds
      PROVE  Held(i)'
  <2>0. i \in LocalIds
    BY <1>0, <1>2 DEF ProcessTypes
  <2>h. Held(i)
    BY <1>h, <1>2
  <2>1. CASE UNCHANGED <<loop, current, localByID, cancelled>>
    BY <2>0, <2>h, <2>1
  <2>2. ASSUME NEW r \in Requests, ForwardRequest(r)
        PROVE  Held(i)'
    <3>1. loop = "select" /\ UNCHANGED <<localByID, cancelled>>
      BY <2>2 DEF ForwardRequest, Dispatches
    <3> QED BY <2>h, <3>1
  <2>3. ASSUME NEW r \in Requests, ForwardCancel(r)
        PROVE  Held(i)'
    <3>1. loop = "select" /\ cancelled' = cancelled \cup {<<byGatewayID[r], r>>}
          /\ localByID' = [localByID EXCEPT ![byGatewayID[r]] = None]
      BY <2>3 DEF ForwardCancel, Dispatches
    <3>2. CASE i = byGatewayID[r]
      BY <3>1, <3>2
    <3>3. CASE i # byGatewayID[r]
      <4>1. localByID'[i] = localByID[i]
        BY <1>0, <2>0, <3>1, <3>3 DEF LoopTypes
      <4> QED BY <2>h, <3>1, <4>1
    <3> QED BY <3>2, <3>3
  <2>4. CASE LoopSeesCancel \/ LoopSeesClose \/ LoopSeesExit
    <3>1. loop = "select" /\ UNCHANGED <<localByID, cancelled>>
      BY <2>4 DEF LoopSeesCancel, LoopSeesClose, LoopSeesExit
    <3> QED BY <2>h, <3>1
  <2>5. CASE RouteChildFrame
    <3> DEFINE f == Head(responses)
               r == localByID[f.id]
    <3>1. loop = "select" /\ UNCHANGED cancelled
      BY <2>5 DEF RouteChildFrame
    <3>2. CASE f.id \in LocalIds /\ r # None
      <4>1. f \in Elems(responses) /\ (f.kind = "response" \/ f.id \in ChildIds)
        BY <2>5, <3>2, RoutedIsAnswer
      <4>2. i # f.id
        BY <1>2, <4>1 DEF PendingCallInv
      <4>3. localByID' = [localByID EXCEPT ![f.id] = None]
        BY <2>5, <3>2 DEF RouteChildFrame
      <4>4. localByID'[i] = localByID[i]
        BY <1>0, <2>0, <4>2, <4>3 DEF LoopTypes
      <4> QED BY <2>h, <2>0, <3>1, <4>4
    <3>3. CASE ~(f.id \in LocalIds /\ r # None)
      <4>1. localByID' = localByID
        BY <2>5, <3>3 DEF RouteChildFrame
      <4> QED BY <2>h, <2>0, <3>1, <4>1
    <3> QED BY <3>2, <3>3
  <2>6. CASE SendAccepted
    <3>1. loop = "sending" /\ UNCHANGED <<localByID, cancelled>>
      BY <2>6 DEF SendAccepted
    <3> QED BY <2>h, <3>1
  <2>7. CASE SendDone
    <3>1. UNCHANGED cancelled
      BY <2>7 DEF SendDone
    <3>2. CASE current.kind = "request"
      <4>1. current.req # None /\ current.id \in LocalIds
        BY <1>0, <3>2, BridgeAssumption DEF CurrentInv, IsCall
      <4>2. localByID' = [localByID EXCEPT ![current.id] = current.req]
        BY <2>7, <3>2 DEF SendDone
      <4>3. CASE i = current.id
        BY <1>0, <2>0, <4>1, <4>2, <4>3 DEF LoopTypes
      <4>4. CASE i # current.id
        <5>1. localByID'[i] = localByID[i]
          BY <1>0, <2>0, <4>2, <4>4 DEF LoopTypes
        <5> QED BY <2>h, <3>1, <4>4, <5>1
      <4> QED BY <2>0, <4>3, <4>4
    <3>3. CASE current.kind # "request"
      <4>1. localByID' = localByID
        BY <2>7, <3>3 DEF SendDone
      <4> QED BY <2>0, <2>h, <3>1, <3>3, <4>1
    <3> QED BY <3>2, <3>3
  <2>8. CASE SendFails
    BY <2>8 DEF SendFails, Healthy
  <2>9. ASSUME NEW r \in Requests, DropExpired(r) \/ CancelUnknown(r)
        PROVE  UNCHANGED <<loop, current, localByID, cancelled>>
    BY <2>9 DEF DropExpired, CancelUnknown, loopVars
  <2> QED
    BY <2>0, <2>1, <2>2, <2>3, <2>4, <2>5, <2>6, <2>7, <2>8, <2>9, LoopMoves
    DEF Dispatch, LoopStep, loopVars
<1>3. ASSUME NEW i \in pendingCalls' \ ChildIds
      PROVE  Held(i)'
  <2>1. CASE i \in pendingCalls
    BY <1>2, <2>1
  <2>2. CASE WriterTakes /\ current.kind = "request" /\ i = current.id
    BY <1>w, <2>2
  <2> QED BY <1>1, <1>3, <2>1, <2>2
<1>4. (current.kind = "request" /\ ~written /\ loop # "select" => ~BeyondWriter(current.id))'
  <2> SUFFICES ASSUME current'.kind = "request", ~written', loop' # "select",
                      BeyondWriter(current.id)'
               PROVE  FALSE
    OBVIOUS
  <2> PICK i : i = current'.id
    OBVIOUS
  <2>0. BeyondWriter(i)'
    BY DEF BeyondWriter
  <2>1. BeyondWriter(i)
    BY <1>0, <2>0, BeyondWriterMoves DEF WriterFlushes
  <2>2. CASE UNCHANGED current /\ loop # "select" /\ ~written
    BY <2>1, <2>2 DEF PendingCallInv
  <2>3. CASE UNCHANGED current /\ loop \in {"select", "stopped"}
    BY <1>0, <2>3, FrameFacts DEF CurrentInv
  <2>4. ASSUME NEW r \in Requests, ForwardRequest(r)
        PROVE  FALSE
    <3>1. i = nextLocalID
      BY <2>4, FrameFacts DEF ForwardRequest
    <3> QED BY <1>0, <2>1, <3>1, FreshIsNotBeyond
  <2>5. ASSUME NEW r \in Requests, ForwardCancel(r)
        PROVE  FALSE
    BY <2>5, FrameFacts DEF ForwardCancel
  <2>6. CASE SendDone \/ SendFails
    BY <2>6 DEF SendDone, SendFails
  <2>7. CASE UNCHANGED <<current, loop, written>>
    BY <2>2, <2>7
  <2>8. CASE SendAccepted
    BY <2>2, <2>8 DEF SendAccepted, HandOver
  <2>9. CASE WriterFlushes
    BY <2>9 DEF WriterFlushes
  <2>10. CASE LoopSeesCancel \/ LoopSeesClose \/ LoopSeesExit
    BY <2>3, <2>10 DEF LoopSeesCancel, LoopSeesClose, LoopSeesExit
  <2>11. ASSUME NEW r \in Requests, DropExpired(r) \/ CancelUnknown(r)
        PROVE  UNCHANGED <<current, loop, written>>
    BY <2>11 DEF DropExpired, CancelUnknown, loopVars, processVars
  <2>12. RouteChildFrame => UNCHANGED <<current, loop, written>>
    BY DEF RouteChildFrame
  <2>13. UNCHANGED processVars \/ ReadStdout \/ Reap \/ WriterTakes => UNCHANGED written
    BY DEF processVars, ReadStdout, Reap, WriterTakes
  <2> QED
    BY <2>4, <2>5, <2>6, <2>7, <2>8, <2>9, <2>10, <2>11, <2>12, <2>13, LoopMoves,
       ProcessMoves
    DEF Dispatch, LoopStep, loopVars
<1>5. ASSUME NEW f \in Elems(responses)', f.kind = "response"
      PROVE  f.id \notin pendingCalls'
  <2>1. CASE ReadStdout
    <3>1. f \in Elems(responses) \/ f = Head(stdout)
      BY <1>0, <1>5, ResponsesMoves
    <3>2. f \in Elems(responses) => f.id \notin pendingCalls
      BY <1>5 DEF PendingCallInv
    <3> QED BY <1>5, <2>1, <3>1, <3>2 DEF ReadStdout
  <2>2. CASE ~ReadStdout
    <3>1. f \in Elems(responses) /\ f \in FromChild
      BY <1>0, <1>5, <2>2, ResponsesMoves DEF FromChild
    <3>2. f.id \notin pendingCalls
      BY <1>5, <3>1 DEF PendingCallInv
    <3>3. WriterTakes /\ current.kind = "request" => f.id # current.id
      BY <1>5, <1>w, <3>1 DEF PendingCallInv, BeyondWriter
    <3> QED BY <1>1, <3>2, <3>3
  <2> QED BY <2>1, <2>2
<1> QED BY <1>3, <1>4, <1>5 DEF PendingCallInv

LEMMA AnswerStep ==
  ASSUME CycleInv, AnswerInv, HealthyInv, [BridgeNext]_bridgeVars
  PROVE  AnswerInv' /\ HealthyInv'
<1>1. AnswerInv'
  BY CallsAgreeKept, AnswersKept DEF AnswerInv
<1>2. Healthy' => Healthy
  <2>1. ctxDone => ctxDone'
    BY SessionMoves
    DEF sessionVars, Dispatch, DropExpired, ForwardRequest, ForwardCancel, CancelUnknown,
        RouteChildFrame, Cancel, SessionCloses
  <2>2. child' = "alive" => child = "alive"
    BY ChildMoves
    DEF childVars, WriterFlushes, ReadStdout, ChildExits, Reap, ChildReads, ChildEmits,
        ChildWrites, ChildAnswers
  <2> QED BY <2>1, <2>2 DEF Healthy
<1>3. ASSUME Healthy'
      PROVE  HandOver' /\ PendingCallInv'
  <2>1. Healthy /\ HandOver /\ PendingCallInv /\ CallsAgree
    BY <1>2, <1>3 DEF HealthyInv, AnswerInv
  <2> QED BY <1>3, <2>1, HandOverKept, PendingCallKept
<1> QED BY <1>1, <1>3 DEF HealthyInv

\* The bookkeeping above, for every child.
THEOREM AnswerInvHolds ==
  BridgeSafety => [](CycleInv /\ AnswerInv /\ HealthyInv)
<1>1. CycleInv /\ AnswerInv /\ HealthyInv /\ [BridgeNext]_bridgeVars
        => (CycleInv /\ AnswerInv /\ HealthyInv)'
  BY CycleStep, AnswerStep
<1> QED BY CycleInitInv, AnswerInitInv, <1>1, PTL DEF BridgeSafety

\* NeverCollide of BridgeRelay: "two concurrent gateway requests can never
\* collide inside the child", for any number of them and whatever ids the child
\* uses in requests of its own.
THEOREM NeverCollideHolds ==
  BridgeSafety => []NeverCollide
<1>1. AnswerInv => NeverCollide
  BY DEF AnswerInv
<1> QED BY <1>1, AnswerInvHolds, PTL

\* Correlated of BridgeRelay: the maps agree, and a call that was written can
\* still be answered unless the child uses its id.
THEOREM CorrelatedHolds ==
  BridgeSafety => []Correlated
<1>1. CycleInv /\ HealthyInv => Correlated
  BY DEF CycleInv, CorrelationInv, HealthyInv, Healthy, PendingCallInv, Correlated,
         WrittenIsCorrelated
<1> QED BY <1>1, AnswerInvHolds, PTL

=============================================================================
