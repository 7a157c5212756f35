----------------------- MODULE RecorderServiceProofs -----------------------
(***************************************************************************)
(* Proofs about RecorderService, for any set of sessions and users, either *)
(* order of promise reactions and all bounds.                              *)
(***************************************************************************)
EXTENDS RecorderService, SequenceTheorems, TLAPS

USE DEF onCleanup

-----------------------------------------------------------------------------
(* Types *)

LEMMA EmitType ==
  ASSUME TypeOK, NEW k \in Kinds, NEW s \in Sessions, NEW u \in Users \cup {Nobody},
         Emit(k, s, u)
  PROVE  events' \in Seq(Event)
<1>1. [kind |-> k, sid |-> s, uid |-> u] \in Event
  BY DEF Event
<1> QED
  BY <1>1, AppendProperties DEF Emit, TypeOK

LEMMA TypeInit == Init => TypeOK
  BY BoundsAreNaturals DEF Init, TypeOK

LEMMA RequestsType ==
  ASSUME TypeOK, NEW s \in Sessions, Requests(s)
  PROVE  TypeOK'
<1> USE DEF TypeOK, loopVars, engineVars
<1>1. CASE StartRequest(s)
  BY <1>1 DEF StartRequest
<1>2. CASE StartRejected(s)
  BY <1>2 DEF StartRejected
<1>3. CASE StopRequest(s)
  BY <1>3 DEF StopRequest
<1> QED
  BY <1>1, <1>2, <1>3 DEF Requests

LEMMA StorageType ==
  ASSUME TypeOK, NEW s \in Sessions, Storage(s)
  PROVE  TypeOK'
<1> USE DEF TypeOK, requestVars, loopVars, engineVars
<1>1. CASE MkdirDone(s)
  BY <1>1 DEF MkdirDone
<1>2. CASE AccessDone(s)
  BY <1>2 DEF AccessDone
<1>3. CASE StorageFails(s)
  BY <1>3 DEF StorageFails
<1>4. CASE WriteFileDone(s)
  <2>1. CASE canvas[s] \in Resolutions
    <3>1. events' = events
          /\ \E o \in {"absent", "refused", "joining"} : engine' = [engine EXCEPT ![s] = o]
      BY <1>4, <2>1 DEF WriteFileDone, NativeJoin
    <3>2. engine' \in [Sessions -> {"absent", "refused", "joining", "inChannel",
                                   "failed", "left", "stopped"}]
      BY <3>1
    <3> QED
      BY <1>4, <3>1, <3>2 DEF WriteFileDone
  <2>2. CASE canvas[s] \notin Resolutions
    <3>1. Emit("error", s, Nobody) /\ engine' = engine
      BY <1>4, <2>2 DEF WriteFileDone, NativeJoin
    <3>2. events' \in Seq(Event)
      BY <3>1, EmitType DEF Kinds
    <3> QED
      BY <1>4, <3>1, <3>2 DEF WriteFileDone
  <2> QED
    BY <2>1, <2>2
<1>5. CASE ListenOnce(s)
  BY <1>5 DEF ListenOnce
<1> QED
  BY <1>1, <1>2, <1>3, <1>4, <1>5 DEF Storage

LEMMA EngineType ==
  ASSUME TypeOK, NEW s \in Sessions, EngineReports(s)
  PROVE  TypeOK'
<1> USE DEF requestVars, loopVars
<1>1. CASE JoinChannelSuccess(s)
  <2>1. events' \in Seq(Event)
    BY <1>1, EmitType DEF JoinChannelSuccess, Kinds
  <2> QED
    BY <1>1, <2>1 DEF JoinChannelSuccess, TypeOK
<1>2. CASE EngineError(s)
  <2>1. events' \in Seq(Event)
    BY <1>2, EmitType DEF EngineError, Kinds
  <2> QED
    BY <1>2, <2>1 DEF EngineError, TypeOK
<1>3. CASE LeaveChannel(s)
  <2>1. events' \in Seq(Event)
    BY <1>3, EmitType DEF LeaveChannel, Kinds
  <2> QED
    BY <1>3, <2>1 DEF LeaveChannel, TypeOK
<1>4. CASE RecoverCoreService(s)
  BY <1>4, BoundsAreNaturals DEF RecoverCoreService, TypeOK
<1>5. ASSUME NEW u \in Users, UserJoined(s, u) PROVE TypeOK'
  <2>1. events' \in Seq(Event)
    BY <1>5, EmitType DEF UserJoined, Kinds
  <2>2. reports' \in [Sessions -> 0..MaxReports]
    BY <1>5, BoundsAreNaturals DEF UserJoined, TypeOK
  <2>3. present' \in [Sessions -> SUBSET Users]
    BY <1>5 DEF UserJoined, TypeOK
  <2> QED
    BY <1>5, <2>1, <2>2, <2>3 DEF UserJoined, TypeOK
<1>6. ASSUME NEW u \in Users, UserOffline(s, u) PROVE TypeOK'
  <2>1. events' \in Seq(Event)
    BY <1>6, EmitType DEF UserOffline, Kinds
  <2> QED
    BY <1>6, <2>1 DEF UserOffline, TypeOK
<1> QED
  BY <1>1, <1>2, <1>3, <1>4, <1>5, <1>6 DEF EngineReports

LEMMA SettleType ==
  ASSUME TypeOK, NEW s \in Sessions, NEW state \in {"resolved", "rejected"},
         NEW reaction \in {"joined", "failed"}, Settle(s, state, reaction)
  PROVE  /\ promise' \in [Sessions -> {"pending", "resolved", "rejected"}]
         /\ micro' \in Seq(Reaction)
<1>1. [then |-> reaction, sid |-> s] \in Reaction
  BY DEF Reaction
<1>2. Append(micro, [then |-> reaction, sid |-> s]) \in Seq(Reaction)
  BY <1>1, AppendProperties DEF TypeOK
<1>3. micro' \in Seq(Reaction)
  BY <1>2 DEF Settle, TypeOK
<1>4. promise' = promise \/ promise' = [promise EXCEPT ![s] = state]
  BY DEF Settle
<1>5. promise \in [Sessions -> {"pending", "resolved", "rejected"}]
  BY DEF TypeOK
<1>6. promise' \in [Sessions -> {"pending", "resolved", "rejected"}]
  BY <1>4, <1>5
<1> QED
  BY <1>3, <1>6

LEMMA ImmediateType ==
  ASSUME TypeOK, NEW e \in Event, Immediate(e)
  PROVE  e.sid \in Sessions /\ batch' \in Seq(Event)
  BY HeadTailProperties DEF TypeOK, Immediate, Event

LEMMA ReactType ==
  ASSUME TypeOK, NEW r \in Reaction, React(r)
  PROVE  r.sid \in Sessions /\ Tail(micro) \in Seq(Reaction)
  BY HeadTailProperties DEF TypeOK, React, Reaction

LEMMA LoopType ==
  ASSUME TypeOK, DispatchEvent \/ CheckPhase \/ RunImmediate \/ RunReaction
  PROVE  TypeOK'
<1> USE DEF requestVars, loopVars, engineVars
<1>1. CASE DispatchEvent
  <2>1. Head(events) \in Event /\ Tail(events) \in Seq(Event)
    BY <1>1, HeadTailProperties DEF DispatchEvent, TypeOK
  <2>2. Append(fired, Head(events)) \in Seq(Event)
    BY <2>1, AppendProperties DEF TypeOK
  <2> QED
    BY <1>1, <2>1, <2>2 DEF DispatchEvent, TypeOK
<1>2. CASE CheckPhase
  BY <1>2 DEF CheckPhase, TypeOK
<1>3. CASE EmitJoinChannel
  <2>1. PICK e \in Event : Immediate(e) /\ Settle(e.sid, "resolved", "joined")
    BY <1>3 DEF EmitJoinChannel
  <2>2. e.sid \in Sessions /\ batch' \in Seq(Event)
    BY <2>1, ImmediateType
  <2>3. /\ promise' \in [Sessions -> {"pending", "resolved", "rejected"}]
        /\ micro' \in Seq(Reaction)
    BY <2>1, <2>2, SettleType
  <2> QED
    BY <1>3, <2>2, <2>3 DEF EmitJoinChannel, TypeOK
<1>4. CASE EmitError
  <2>1. PICK e \in Event : Immediate(e) /\ Settle(e.sid, "rejected", "failed")
    BY <1>4 DEF EmitError
  <2>2. e.sid \in Sessions /\ batch' \in Seq(Event)
    BY <2>1, ImmediateType
  <2>3. /\ promise' \in [Sessions -> {"pending", "resolved", "rejected"}]
        /\ micro' \in Seq(Reaction)
    BY <2>1, <2>2, SettleType
  <2> QED
    BY <1>4, <2>2, <2>3 DEF EmitError, TypeOK
<1>5. CASE EmitUser
  BY <1>5, ImmediateType DEF EmitUser, TypeOK
<1>6. CASE RegisterRecorder
  <2>1. PICK r \in Reaction : /\ React(r)
                              /\ registry' = registry \cup {r.sid}
                              /\ micro' = Append(Tail(micro), [then |-> "replyOk", sid |-> r.sid])
    BY <1>6 DEF RegisterRecorder
  <2>2. r.sid \in Sessions /\ Tail(micro) \in Seq(Reaction)
    BY <2>1, ReactType
  <2>3. [then |-> "replyOk", sid |-> r.sid] \in Reaction
    BY <2>2 DEF Reaction
  <2>4. micro' \in Seq(Reaction)
    BY <2>1, <2>2, <2>3, AppendProperties
  <2> QED
    BY <1>6, <2>1, <2>2, <2>4 DEF RegisterRecorder, TypeOK
<1>7. CASE RejectStart
  <2>1. PICK r \in Reaction : /\ React(r)
                              /\ micro' = Append(Tail(micro), [then |-> "replyError", sid |-> r.sid])
    BY <1>7 DEF RejectStart
  <2>2. r.sid \in Sessions /\ Tail(micro) \in Seq(Reaction)
    BY <2>1, ReactType
  <2>3. [then |-> "replyError", sid |-> r.sid] \in Reaction
    BY <2>2 DEF Reaction
  <2>4. micro' \in Seq(Reaction)
    BY <2>1, <2>2, <2>3, AppendProperties
  <2> QED
    BY <1>7, <2>4 DEF RejectStart, TypeOK
<1>8. CASE AnswerStart
  BY <1>8, ReactType DEF AnswerStart, TypeOK
<1> QED
  BY <1>1, <1>2, <1>3, <1>4, <1>5, <1>6, <1>7, <1>8 DEF RunImmediate, RunReaction

LEMMA TypeStep == TypeOK /\ [Next]_serviceVars => TypeOK'
<1>1. CASE UNCHANGED serviceVars
  BY <1>1 DEF serviceVars, requestVars, loopVars, engineVars, TypeOK
<1> QED
  BY <1>1, RequestsType, StorageType, EngineType, LoopType DEF Next

(* Every variable of the service keeps its type: no event, reaction or     *)
(* answer outside those the handlers of recordManager.js and               *)
(* AgoraRecordSdk.js know ever arises.                                     *)
THEOREM TypeCorrect == Spec => []TypeOK
  BY TypeInit, TypeStep, PTL DEF Spec, Safe

-----------------------------------------------------------------------------
(* The inductive invariant.                                                *)

(* The native joinChannel of s has been called. *)
JoinCalled(s) == step[s] \in {"joinCalled", "listening"}

(* Before that there is no engine and nothing of the session in the pipe;  *)
(* the canvas is set before the join needs it.                             *)
StepInv ==
  \A s \in Sessions :
    /\ step[s] \in {"access", "write"} => canvas[s] = Canvas
    /\ ~JoinCalled(s) => engine[s] = "absent"
    /\ answer[s] = "none" => step[s] = "idle"

(* What an event on its way says of the engine that sent it.               *)
Attested(e) ==
  /\ JoinCalled(e.sid)
  /\ e.kind = "joinchannel" => HasJoined(e.sid)
  /\ e.kind = "error" => engine[e.sid] \in {"failed", "stopped"}

EventInv == \A i \in DOMAIN Pipe : Attested(Pipe[i])

(* The events taken out of the queue, those ListenersBeforeEvents is about. *)
Taken == batch \o fired

TakenInv == \A i \in DOMAIN Taken : step[Taken[i].sid] = "listening"

(* The line holds a joinchannel event of s, and no error of s before it.   *)
IsJoin(e, s) == e.kind = "joinchannel" /\ e.sid = s

IsError(e, s) == e.kind = "error" /\ e.sid = s

JoinComesFirst(line, s) ==
  \E j \in DOMAIN line :
    /\ IsJoin(line[j], s)
    /\ \A i \in DOMAIN line : i < j => ~IsError(line[i], s)

(* As long as the promise is pending, the join of the engine is on its way *)
(* and no error overtakes it.                                              *)
OvertakingInv ==
  \A s \in Sessions :
    HasJoined(s) /\ promise[s] = "pending" => JoinComesFirst(Pipe, s)

PromiseInv ==
  \A s \in Sessions :
    /\ promise[s] = "resolved" => HasJoined(s)
    /\ promise[s] = "rejected" => engine[s] = "failed"

(* A waiting reaction follows from how the promise was settled.            *)
Justified(r) ==
  /\ r.then \in {"joined", "replyOk"} => promise[r.sid] = "resolved"
  /\ r.then \in {"failed", "replyError"} => promise[r.sid] = "rejected"
  /\ r.then = "replyOk" => r.sid \in registry

MicroInv == \A i \in DOMAIN micro : Justified(micro[i])

AnswerInv ==
  \A s \in Sessions :
    /\ s \in registry => promise[s] = "resolved"
    /\ answer[s] = "ok" => s \in registry
    /\ answer[s] = "error" => promise[s] = "rejected"

ServiceInv ==
  /\ TypeOK /\ StepInv /\ EventInv /\ TakenInv
  /\ OvertakingInv /\ PromiseInv /\ MicroInv /\ AnswerInv

LEMMA InvInit == Init => ServiceInv
<1> SUFFICES ASSUME Init PROVE ServiceInv
  OBVIOUS
<1>1. TypeOK
  BY TypeInit
<1>2. Pipe = <<>> /\ Taken = <<>> /\ micro = <<>>
  BY EmptySeq, ConcatEmptySeq DEF Init, Pipe, Taken
<1> QED
  BY <1>1, <1>2
  DEF Init, ServiceInv, StepInv, EventInv, TakenInv, OvertakingInv, PromiseInv,
      MicroInv, AnswerInv, HasJoined, JoinCalled

-----------------------------------------------------------------------------
(* The pipe.  A step leaves it as it is, appends an event, or takes one    *)
(* out and moves those behind it up.                                       *)

LEMMA PipeType ==
  TypeOK => Pipe \in Seq(Event) /\ Taken \in Seq(Event) /\ Pipe = Taken \o events
  BY ConcatProperties DEF TypeOK, Pipe, Taken

LEMMA EntryIsEvent ==
  ASSUME NEW line \in Seq(Event), NEW i \in DOMAIN line
  PROVE  line[i] \in Event /\ line[i].sid \in Sessions /\ line[i].kind \in Kinds
<1>1. line[i] \in Event
  BY LenProperties, ElementOfSeq
<1> QED
  BY <1>1 DEF Event

LEMMA EmitPipe ==
  ASSUME TypeOK, NEW k \in Kinds, NEW s \in Sessions, NEW u \in Users \cup {Nobody},
         Emit(k, s, u), UNCHANGED <<fired, batch>>
  PROVE  /\ Taken' = Taken
         /\ Pipe' = Append(Pipe, [kind |-> k, sid |-> s, uid |-> u])
         /\ [kind |-> k, sid |-> s, uid |-> u] \in Event
<1> DEFINE e == [kind |-> k, sid |-> s, uid |-> u]
<1>1. e \in Event /\ <<e>> \in Seq(Event)
  BY DEF Event
<1>2. Taken \in Seq(Event) /\ events \in Seq(Event) /\ Pipe \in Seq(Event)
  BY PipeType DEF TypeOK
<1>3. events' = events \o <<e>>
  BY <1>1, <1>2, AppendIsConcat DEF Emit
<1>4. Pipe' = Taken \o (events \o <<e>>)
  BY <1>3 DEF Pipe, Taken
<1>5. Taken \o (events \o <<e>>) = (Taken \o events) \o <<e>>
  BY <1>1, <1>2, ConcatAssociative
<1>6. Append(Pipe, e) = Pipe \o <<e>>
  BY <1>1, <1>2, AppendIsConcat
<1>7. Pipe = Taken \o events /\ Taken' = Taken
  BY DEF Pipe, Taken
<1> QED
  BY <1>1, <1>4, <1>5, <1>6, <1>7

(* new is old without its entry number r. *)
Shorter(new, old, r) ==
  /\ new \in Seq(Event)
  /\ old \in Seq(Event)
  /\ r \in 1..Len(old)
  /\ DOMAIN new = 1..(Len(old) - 1)
  /\ \A i \in DOMAIN new : new[i] = old[IF i < r THEN i ELSE i + 1]

LEMMA DropIsShorter ==
  ASSUME NEW a \in Seq(Event), NEW c \in Seq(Event), c # <<>>
  PROVE  /\ Shorter(a \o Tail(c), a \o c, Len(a) + 1)
         /\ (a \o c)[Len(a) + 1] = Head(c)
<1>1. /\ Tail(c) \in Seq(Event)
      /\ Len(Tail(c)) = Len(c) - 1
      /\ \A i \in 1..Len(Tail(c)) : Tail(c)[i] = c[i + 1]
  BY HeadTailProperties
<1>2. Len(a) \in Nat /\ Len(c) \in Nat /\ Len(c) > 0
  BY EmptySeq, LenProperties
<1>3. /\ a \o Tail(c) \in Seq(Event)
      /\ Len(a \o Tail(c)) = Len(a) + Len(c) - 1
      /\ \A i \in 1..(Len(a) + Len(c) - 1) : (a \o Tail(c))[i] =
             IF i <= Len(a) THEN a[i] ELSE Tail(c)[i - Len(a)]
  BY <1>1, <1>2, ConcatProperties
<1>4. /\ a \o c \in Seq(Event)
      /\ Len(a \o c) = Len(a) + Len(c)
      /\ \A i \in 1..(Len(a) + Len(c)) : (a \o c)[i] =
             IF i <= Len(a) THEN a[i] ELSE c[i - Len(a)]
  BY ConcatProperties
<1>5. DOMAIN (a \o Tail(c)) = 1..(Len(a) + Len(c) - 1)
  BY <1>3, LenProperties
<1>6. ASSUME NEW i \in 1..(Len(a) + Len(c) - 1)
      PROVE  (a \o Tail(c))[i] = (a \o c)[IF i < Len(a) + 1 THEN i ELSE i + 1]
  <2>1. CASE i <= Len(a)
    BY <2>1, <1>2, <1>3, <1>4
  <2>2. CASE i > Len(a)
    <3>1. i - Len(a) \in 1..Len(Tail(c))
      BY <2>2, <1>1, <1>2
    <3>2. Tail(c)[i - Len(a)] = c[(i + 1) - Len(a)]
      BY <3>1, <1>1, <1>2
    <3>3. (a \o Tail(c))[i] = Tail(c)[i - Len(a)]
      BY <2>2, <1>2, <1>3
    <3>4. i + 1 \in 1..(Len(a) + Len(c)) /\ ~(i + 1 <= Len(a))
      BY <2>2, <1>2
    <3>5. (a \o c)[i + 1] = c[(i + 1) - Len(a)]
      BY <3>4, <1>4
    <3> QED
      BY <2>2, <1>2, <3>2, <3>3, <3>5
  <2> QED
    BY <2>1, <2>2, <1>2
<1>7. (a \o c)[Len(a) + 1] = c[1] /\ Head(c) = c[1]
  <2>1. Len(a) + 1 \in 1..(Len(a) + Len(c)) /\ (Len(a) + 1) - Len(a) = 1
    BY <1>2
  <2> QED
    BY <1>2, <1>4, <2>1
<1>8. /\ DOMAIN (a \o Tail(c)) = 1..(Len(a \o c) - 1)
      /\ Len(a) + 1 \in 1..Len(a \o c)
  BY <1>2, <1>4, <1>5
<1> DEFINE new == a \o Tail(c)
           old == a \o c
<1>9. /\ new \in Seq(Event) /\ old \in Seq(Event) /\ Len(a) + 1 \in 1..Len(old)
      /\ DOMAIN new = 1..(Len(old) - 1)
      /\ \A i \in DOMAIN new : new[i] = old[IF i < Len(a) + 1 THEN i ELSE i + 1]
  BY <1>3, <1>4, <1>5, <1>6, <1>8
<1>10. old[Len(a) + 1] = Head(c)
  BY <1>7
<1> HIDE DEF new, old
<1>11. Shorter(new, old, Len(a) + 1)
  BY <1>9 DEF Shorter
<1> QED
  BY <1>10, <1>11 DEF new, old

(* Every entry of the shorter line was in the longer one. *)
LEMMA ShorterEntry ==
  ASSUME NEW new, NEW old, NEW r, Shorter(new, old, r), NEW i \in DOMAIN new
  PROVE  \E k \in DOMAIN old : new[i] = old[k]
<1>1. DOMAIN old = 1..Len(old) /\ Len(old) \in Nat
  BY LenProperties DEF Shorter
<1> QED
  BY <1>1 DEF Shorter

LEMMA ShorterKeepsJoin ==
  ASSUME NEW new, NEW old, NEW r, Shorter(new, old, r), NEW s,
         ~IsJoin(old[r], s), JoinComesFirst(old, s)
  PROVE  JoinComesFirst(new, s)
<1>1. DOMAIN old = 1..Len(old) /\ Len(old) \in Nat
  BY LenProperties DEF Shorter
<1>2. PICK j \in DOMAIN old :
        /\ IsJoin(old[j], s)
        /\ \A i \in DOMAIN old : i < j => ~IsError(old[i], s)
  BY DEF JoinComesFirst
<1>3. j # r
  BY <1>2
<1> DEFINE m == IF j < r THEN j ELSE j - 1
<1>4. m \in DOMAIN new /\ new[m] = old[j]
  BY <1>1, <1>3 DEF Shorter
<1>5. ASSUME NEW i \in DOMAIN new, i < m PROVE ~IsError(new[i], s)
  <2> DEFINE k == IF i < r THEN i ELSE i + 1
  <2>1. k \in DOMAIN old /\ k < j /\ new[i] = old[k]
    BY <1>1, <1>3, <1>5 DEF Shorter
  <2> HIDE DEF k
  <2> QED
    BY <1>2, <2>1
<1> HIDE DEF m
<1> QED
  BY <1>2, <1>4, <1>5 DEF JoinComesFirst

LEMMA AppendEntries ==
  ASSUME NEW line \in Seq(Event), NEW e \in Event
  PROVE  /\ DOMAIN line = 1..Len(line) /\ Len(line) \in Nat
         /\ DOMAIN Append(line, e) = 1..(Len(line) + 1)
         /\ \A i \in DOMAIN line : Append(line, e)[i] = line[i]
         /\ Append(line, e)[Len(line) + 1] = e
  BY AppendProperties, LenProperties

LEMMA AppendKeepsJoin ==
  ASSUME NEW line \in Seq(Event), NEW e \in Event, NEW s, JoinComesFirst(line, s)
  PROVE  JoinComesFirst(Append(line, e), s)
<1>1. PICK j \in DOMAIN line :
        /\ IsJoin(line[j], s)
        /\ \A i \in DOMAIN line : i < j => ~IsError(line[i], s)
  BY DEF JoinComesFirst
<1>2. j \in DOMAIN Append(line, e) /\ Append(line, e)[j] = line[j]
  BY AppendEntries
<1>3. \A i \in DOMAIN Append(line, e) :
         i < j => i \in DOMAIN line /\ Append(line, e)[i] = line[i]
  BY AppendEntries
<1> QED
  BY <1>1, <1>2, <1>3 DEF JoinComesFirst

LEMMA AppendJoin ==
  ASSUME NEW line \in Seq(Event), NEW e \in Event, NEW s, IsJoin(e, s),
         \A i \in DOMAIN line : ~IsError(line[i], s)
  PROVE  JoinComesFirst(Append(line, e), s)
<1> DEFINE j == Len(line) + 1
<1>1. j \in DOMAIN Append(line, e) /\ Append(line, e)[j] = e
  BY AppendEntries
<1>2. \A i \in DOMAIN Append(line, e) :
         i < j => i \in DOMAIN line /\ Append(line, e)[i] = line[i]
  BY AppendEntries
<1> HIDE DEF j
<1> QED
  BY <1>1, <1>2 DEF JoinComesFirst

-----------------------------------------------------------------------------
(* The steps that leave the pipe, the engines, the promises and what       *)
(* follows from them alone.                                                *)

FlowUnchanged ==
  /\ UNCHANGED <<registry, promise, engine>>
  /\ Pipe' = Pipe /\ Taken' = Taken /\ micro' = micro

StepsForward ==
  \A s \in Sessions :
    /\ JoinCalled(s)' <=> JoinCalled(s)
    /\ step[s] = "listening" => step'[s] = "listening"
    /\ step'[s] \in {"access", "write"} => canvas'[s] = Canvas
    /\ answer'[s] \in {"ok", "error"} => answer'[s] = answer[s]
    /\ answer'[s] = "none" => step'[s] = "idle"

LEMMA FlowKept ==
  ASSUME ServiceInv, TypeOK', FlowUnchanged, StepsForward
  PROVE  ServiceInv'
<1>0. Pipe \in Seq(Event) /\ Taken \in Seq(Event)
  BY PipeType DEF ServiceInv
<1>1. StepInv'
  BY DEF ServiceInv, StepInv, FlowUnchanged, StepsForward
<1>2. \A s \in Sessions : HasJoined(s)' <=> HasJoined(s)
  BY DEF FlowUnchanged, HasJoined
<1>3. EventInv'
  <2>1. ASSUME NEW i \in DOMAIN Pipe PROVE Attested(Pipe[i])'
    <3>1. Pipe[i].sid \in Sessions /\ Attested(Pipe[i])
      BY <1>0, EntryIsEvent DEF ServiceInv, EventInv
    <3> QED
      BY <3>1, <1>2 DEF FlowUnchanged, StepsForward, Attested
  <2> QED
    BY <2>1 DEF EventInv, FlowUnchanged
<1>4. TakenInv'
  <2>1. ASSUME NEW i \in DOMAIN Taken PROVE step'[Taken[i].sid] = "listening"
    <3>1. Taken[i].sid \in Sessions /\ step[Taken[i].sid] = "listening"
      BY <1>0, EntryIsEvent DEF ServiceInv, TakenInv
    <3> QED
      BY <3>1 DEF StepsForward
  <2> QED
    BY <2>1 DEF TakenInv, FlowUnchanged
<1>5. OvertakingInv'
  BY <1>2 DEF ServiceInv, OvertakingInv, FlowUnchanged, JoinComesFirst
<1>6. PromiseInv'
  BY <1>2 DEF ServiceInv, PromiseInv, FlowUnchanged
<1>7. MicroInv'
  BY DEF ServiceInv, MicroInv, Justified, FlowUnchanged
<1>8. AnswerInv'
  BY DEF ServiceInv, AnswerInv, FlowUnchanged, StepsForward
<1> QED
  BY <1>1, <1>3, <1>4, <1>5, <1>6, <1>7, <1>8 DEF ServiceInv

LEMMA RequestsInv ==
  ASSUME ServiceInv, NEW s \in Sessions, Requests(s)
  PROVE  ServiceInv'
<1>1. TypeOK /\ TypeOK' /\ StepInv
  BY RequestsType DEF ServiceInv
<1>2. FlowUnchanged
  BY DEF Requests, StartRequest, StartRejected, StopRequest, loopVars, engineVars,
         Pipe, Taken, FlowUnchanged
<1>3. StepsForward
  <2>1. CASE StartRequest(s)
    BY <1>1, <2>1 DEF StepInv, StartRequest, TypeOK, StepsForward, JoinCalled
  <2>2. CASE StartRejected(s)
    <3>1. step' = step /\ canvas' = canvas
      BY <2>2 DEF StartRejected
    <3>2. \A x \in Sessions :
            answer'[x] \in {"none", "ok", "error"} => answer'[x] = answer[x]
      BY <1>1, <2>2 DEF StartRejected, TypeOK
    <3> QED
      BY <1>1, <3>1, <3>2 DEF StepInv, StepsForward, JoinCalled
  <2>3. CASE StopRequest(s)
    BY <1>1, <2>3 DEF StepInv, StopRequest, TypeOK, StepsForward, JoinCalled
  <2> QED
    BY <2>1, <2>2, <2>3 DEF Requests
<1> QED
  BY <1>1, <1>2, <1>3, FlowKept

LEMMA StorageInv ==
  ASSUME ServiceInv, NEW s \in Sessions, Storage(s), ~WriteFileDone(s)
  PROVE  ServiceInv'
<1>1. TypeOK /\ TypeOK' /\ StepInv
  BY StorageType DEF ServiceInv
<1>2. FlowUnchanged
  BY DEF Storage, MkdirDone, AccessDone, StorageFails, ListenOnce, requestVars,
         loopVars, engineVars, Pipe, Taken, FlowUnchanged
<1>3. StepsForward
  <2>1. CASE MkdirDone(s)
    BY <1>1, <2>1 DEF StepInv, MkdirDone, TypeOK, StepsForward, JoinCalled
  <2>2. CASE AccessDone(s)
    BY <1>1, <2>2 DEF StepInv, AccessDone, TypeOK, StepsForward, JoinCalled
  <2>3. CASE StorageFails(s)
    BY <1>1, <2>3 DEF StepInv, StorageFails, requestVars, StepsForward, JoinCalled
  <2>4. CASE ListenOnce(s)
    BY <1>1, <2>4 DEF StepInv, ListenOnce, TypeOK, StepsForward, JoinCalled
  <2> QED
    BY <2>1, <2>2, <2>3, <2>4 DEF Storage
<1> QED
  BY <1>1, <1>2, <1>3, FlowKept

LEMMA RecoverInv ==
  ASSUME ServiceInv, NEW s \in Sessions, RecoverCoreService(s)
  PROVE  ServiceInv'
<1>1. TypeOK /\ TypeOK' /\ StepInv
  BY EngineType DEF ServiceInv, EngineReports
<1>2. FlowUnchanged
  BY DEF RecoverCoreService, requestVars, loopVars, Pipe, Taken, FlowUnchanged
<1>3. StepsForward
  BY <1>1 DEF StepInv, RecoverCoreService, requestVars, StepsForward, JoinCalled
<1> QED
  BY <1>1, <1>2, <1>3, FlowKept

(* The native join finds a canvas it knows: no error without an engine.    *)
LEMMA WriteFileInv ==
  ASSUME ServiceInv, NEW s \in Sessions, WriteFileDone(s)
  PROVE  ServiceInv'
<1>1. TypeOK /\ TypeOK' /\ StepInv
  BY StorageType DEF ServiceInv, Storage
<1>2. step[s] = "write" /\ canvas[s] = Canvas /\ engine[s] = "absent"
  BY <1>1 DEF WriteFileDone, StepInv, JoinCalled
<1>3. Canvas \in Resolutions
  BY DEF Canvas, Resolutions
<1>4. PICK o \in {"absent", "refused", "joining"} : engine' = [engine EXCEPT ![s] = o]
  BY <1>2, <1>3 DEF WriteFileDone, NativeJoin
<1>5. UNCHANGED <<registry, promise, canvas, answer, events, fired, batch, micro>>
  BY <1>2, <1>3 DEF WriteFileDone, NativeJoin
<1>6. step' = [step EXCEPT ![s] = "joinCalled"]
  BY DEF WriteFileDone
<1>7. Pipe' = Pipe /\ Taken' = Taken /\ Pipe \in Seq(Event) /\ Taken \in Seq(Event)
  BY <1>1, <1>5, PipeType DEF Pipe, Taken
<1>8. \A x \in Sessions :
        /\ HasJoined(x)' <=> HasJoined(x)
        /\ engine'[x] \in {"failed", "stopped"} <=> engine[x] \in {"failed", "stopped"}
        /\ engine'[x] = "failed" <=> engine[x] = "failed"
        /\ JoinCalled(x) => JoinCalled(x)'
        /\ step[x] = "listening" => step'[x] = "listening"
  <2>1. \A x \in Sessions : x # s => engine'[x] = engine[x] /\ step'[x] = step[x]
    BY <1>1, <1>4, <1>6 DEF TypeOK
  <2>2. engine'[s] \in {"absent", "refused", "joining"} /\ step'[s] = "joinCalled"
    BY <1>1, <1>4, <1>6 DEF TypeOK
  <2> QED
    BY <1>2, <2>1, <2>2 DEF HasJoined, JoinCalled
<1>9. StepInv'
  BY <1>1, <1>2, <1>4, <1>5, <1>6 DEF StepInv, JoinCalled, TypeOK
<1>10. EventInv'
  <2>1. ASSUME NEW i \in DOMAIN Pipe PROVE Attested(Pipe[i])'
    <3>1. Pipe[i].sid \in Sessions /\ Attested(Pipe[i])
      BY <1>7, EntryIsEvent DEF ServiceInv, EventInv
    <3> QED
      BY <3>1, <1>7, <1>8 DEF Attested
  <2> QED
    BY <2>1, <1>7 DEF EventInv
<1>11. TakenInv'
  <2>1. ASSUME NEW i \in DOMAIN Taken PROVE step'[Taken[i].sid] = "listening"
    BY <1>7, <1>8, EntryIsEvent DEF ServiceInv, TakenInv
  <2> QED
    BY <2>1, <1>7 DEF TakenInv
<1>12. OvertakingInv' /\ PromiseInv'
  BY <1>5, <1>7, <1>8 DEF ServiceInv, OvertakingInv, PromiseInv, JoinComesFirst
<1>13. MicroInv' /\ AnswerInv'
  BY <1>5 DEF ServiceInv, MicroInv, Justified, AnswerInv
<1> QED
  BY <1>1, <1>9, <1>10, <1>11, <1>12, <1>13 DEF ServiceInv

-----------------------------------------------------------------------------
(* The callbacks of an engine.                                             *)

(* An engine that has joined or failed stays so, and only the callback of  *)
(* the join makes it join.                                                 *)
EngineForward(k, s) ==
  /\ \A x \in Sessions :
       /\ engine[x] = "absent" => engine'[x] = "absent"
       /\ engine[x] = "failed" => engine'[x] = "failed"
       /\ engine[x] = "stopped" => engine'[x] = "stopped"
       /\ HasJoined(x) => HasJoined(x)'
       /\ HasJoined(x)' => HasJoined(x) \/ (x = s /\ k = "joinchannel")
  /\ engine[s] # "absent"
  /\ k = "joinchannel" => engine[s] = "joining" /\ HasJoined(s)'
  /\ k = "error" => engine'[s] \in {"failed", "stopped"}

LEMMA EmitInv ==
  ASSUME ServiceInv, TypeOK', NEW k \in Kinds, NEW s \in Sessions,
         NEW u \in Users \cup {Nobody}, Emit(k, s, u), EngineForward(k, s),
         UNCHANGED <<requestVars, fired, batch, micro>>
  PROVE  ServiceInv'
<1> DEFINE e == [kind |-> k, sid |-> s, uid |-> u]
<1>1. TypeOK /\ StepInv
  BY DEF ServiceInv
<1>2. /\ Taken' = Taken /\ Pipe' = Append(Pipe, e) /\ e \in Event
      /\ Pipe \in Seq(Event) /\ Taken \in Seq(Event)
  BY <1>1, EmitPipe, PipeType
<1>3. UNCHANGED <<step, answer, registry, promise, canvas, micro>>
  BY DEF requestVars
<1>4. e.kind = k /\ e.sid = s
  OBVIOUS
<1> HIDE DEF e
<1>5. StepInv'
  BY <1>1, <1>3 DEF StepInv, JoinCalled, EngineForward
<1>6. EventInv'
  <2>1. \A f \in Event : Attested(f) => Attested(f)'
    BY <1>3 DEF Attested, EngineForward, JoinCalled, Event
  <2>2. Attested(e)'
    BY <1>1, <1>3, <1>4 DEF Attested, EngineForward, StepInv, JoinCalled
  <2>3. \A i \in DOMAIN Append(Pipe, e) :
          Append(Pipe, e)[i] = e \/ \E j \in DOMAIN Pipe : Append(Pipe, e)[i] = Pipe[j]
    BY <1>2, AppendEntries
  <2>4. \A j \in DOMAIN Pipe : Pipe[j] \in Event /\ Attested(Pipe[j])
    BY <1>2, EntryIsEvent DEF ServiceInv, EventInv
  <2>5. ASSUME NEW f, f = e \/ \E j \in DOMAIN Pipe : f = Pipe[j]
        PROVE  Attested(f)'
    BY <2>1, <2>2, <2>4, <2>5
  <2>6. \A f : (f = e \/ \E j \in DOMAIN Pipe : f = Pipe[j]) => Attested(f)'
    BY <2>5
  <2> QED
    BY <1>2, <2>3, <2>6 DEF EventInv, Attested
<1>7. TakenInv'
  BY <1>2, <1>3 DEF ServiceInv, TakenInv
<1>8. ASSUME NEW x \in Sessions, HasJoined(x)', promise'[x] = "pending"
      PROVE  JoinComesFirst(Append(Pipe, e), x)
  <2>1. CASE HasJoined(x)
    BY <1>2, <1>3, <1>8, <2>1, AppendKeepsJoin DEF ServiceInv, OvertakingInv
  <2>2. CASE ~HasJoined(x)
    <3>1. x = s /\ k = "joinchannel" /\ engine[x] = "joining"
      BY <1>8, <2>2 DEF EngineForward
    <3>2. \A i \in DOMAIN Pipe : ~IsError(Pipe[i], x)
      BY <3>1 DEF ServiceInv, EventInv, Attested, IsError
    <3> QED
      BY <1>2, <1>4, <3>1, <3>2, AppendJoin DEF IsJoin
  <2> QED
    BY <2>1, <2>2
<1>9. OvertakingInv'
  BY <1>2, <1>8 DEF OvertakingInv, JoinComesFirst
<1>10. PromiseInv'
  BY <1>3 DEF ServiceInv, PromiseInv, EngineForward
<1>11. MicroInv' /\ AnswerInv'
  BY <1>3 DEF ServiceInv, MicroInv, Justified, AnswerInv
<1> QED
  BY <1>5, <1>6, <1>7, <1>9, <1>10, <1>11 DEF ServiceInv

LEMMA EngineInv ==
  ASSUME ServiceInv, NEW s \in Sessions, EngineReports(s)
  PROVE  ServiceInv'
<1>1. TypeOK /\ TypeOK'
  BY EngineType DEF ServiceInv
<1>2. CASE JoinChannelSuccess(s)
  <2>1. EngineForward("joinchannel", s)
    BY <1>1, <1>2 DEF JoinChannelSuccess, EngineForward, HasJoined, TypeOK
  <2> QED
    BY <1>1, <1>2, <2>1, EmitInv DEF JoinChannelSuccess, Kinds
<1>3. CASE EngineError(s)
  <2>1. EngineForward("error", s)
    BY <1>1, <1>3 DEF EngineError, EngineForward, HasJoined, TypeOK
  <2> QED
    BY <1>1, <1>3, <2>1, EmitInv DEF EngineError, Kinds
<1>4. CASE LeaveChannel(s)
  <2>1. EngineForward("leavechannel", s)
    BY <1>1, <1>4 DEF LeaveChannel, EngineForward, HasJoined, TypeOK
  <2> QED
    BY <1>1, <1>4, <2>1, EmitInv DEF LeaveChannel, Kinds
<1>5. CASE RecoverCoreService(s)
  BY <1>5, RecoverInv
<1>6. ASSUME NEW u \in Users, UserJoined(s, u) PROVE ServiceInv'
  <2>1. EngineForward("userjoin", s)
    BY <1>1, <1>6 DEF UserJoined, EngineForward, HasJoined
  <2> QED
    BY <1>1, <1>6, <2>1, EmitInv DEF UserJoined, Kinds
<1>7. ASSUME NEW u \in Users, UserOffline(s, u) PROVE ServiceInv'
  <2>1. EngineForward("userleave", s)
    BY <1>1, <1>7 DEF UserOffline, EngineForward, HasJoined
  <2> QED
    BY <1>1, <1>7, <2>1, EmitInv DEF UserOffline, Kinds
<1> QED
  BY <1>2, <1>3, <1>4, <1>5, <1>6, <1>7 DEF EngineReports

-----------------------------------------------------------------------------
(* The event loop.                                                         *)

(* What a shorter pipe keeps, when nothing else changes but promises that  *)
(* are settled.                                                            *)
LEMMA ShorterPipe ==
  ASSUME ServiceInv, NEW r, Shorter(Pipe', Pipe, r), UNCHANGED <<step, engine>>,
         \A s \in Sessions :
           HasJoined(s) /\ promise'[s] = "pending" =>
             promise[s] = "pending" /\ ~IsJoin(Pipe[r], s)
  PROVE  EventInv' /\ OvertakingInv'
<1>1. EventInv'
  <2>1. \A f : Attested(f) => Attested(f)'
    BY DEF Attested, JoinCalled, HasJoined
  <2>2. ASSUME NEW i \in DOMAIN Pipe', NEW f, f = Pipe'[i] PROVE Attested(f)'
    BY <2>1, <2>2, ShorterEntry DEF ServiceInv, EventInv
  <2> QED
    BY <2>2 DEF EventInv, Attested
<1>2. ASSUME NEW s \in Sessions, HasJoined(s)', promise'[s] = "pending"
      PROVE  JoinComesFirst(Pipe', s)
  <2>1. HasJoined(s)
    BY <1>2 DEF HasJoined
  <2>2. JoinComesFirst(Pipe, s) /\ ~IsJoin(Pipe[r], s)
    BY <1>2, <2>1 DEF ServiceInv, OvertakingInv
  <2> QED
    BY <2>2, ShorterKeepsJoin
<1> QED
  BY <1>1, <1>2 DEF OvertakingInv, JoinComesFirst

(* What the dispatch of the next event does to the pipe: nothing when the  *)
(* wrapper fires it again, and without a handler the event drops out.      *)
LEMMA DispatchPipe ==
  ASSUME TypeOK, TypeOK', DispatchEvent, NEW h, h = Head(events)
  PROVE  /\ h \in Event /\ h.sid \in Sessions /\ step[h.sid] # "joinCalled"
         /\ Len(fired) + 1 \in DOMAIN Pipe /\ Pipe[Len(fired) + 1] = h
         /\ fired \in Seq(Event) /\ Taken = fired /\ Taken' = fired'
         /\ h.kind \in Subscribed => Pipe' = Pipe /\ fired' = Append(fired, h)
         /\ h.kind \notin Subscribed =>
              Shorter(Pipe', Pipe, Len(fired) + 1) /\ fired' = fired
<1>1. /\ events \in Seq(Event) /\ events # <<>> /\ fired \in Seq(Event)
      /\ h \in Event /\ Tail(events) \in Seq(Event)
      /\ batch = <<>> /\ batch' = <<>> /\ events' = Tail(events)
  BY HeadTailProperties DEF DispatchEvent, Polling, TypeOK
<1>2. Taken = fired /\ Taken' = fired' /\ fired' \in Seq(Event)
  BY <1>1, ConcatEmptySeq DEF Taken, TypeOK
<1>3. Pipe = fired \o events /\ Pipe' = fired' \o Tail(events)
  BY <1>1, <1>2 DEF Pipe, Taken
<1>4. /\ Shorter(fired \o Tail(events), Pipe, Len(fired) + 1)
      /\ Pipe[Len(fired) + 1] = h
  BY <1>1, <1>3, DropIsShorter
<1>5. Len(fired) \in Nat /\ Len(fired) + 1 \in DOMAIN Pipe
  BY <1>1, <1>4, LenProperties DEF Shorter
<1>6. h.sid \in Sessions
  BY <1>1 DEF Event
<1>7. step[h.sid] # "joinCalled"
  BY <1>6 DEF DispatchEvent, Polling
<1>8. CASE h.kind \in Subscribed
  <2>1. fired' = Append(fired, h)
    BY <1>8 DEF DispatchEvent
  <2>2. Pipe' = Pipe
    <3>1. <<h>> \in Seq(Event) /\ Append(fired, h) = fired \o <<h>>
      BY <1>1, AppendIsConcat
    <3>2. <<h>> \o Tail(events) = events
      <4> DEFINE whole == <<h>> \o Tail(events)
      <4>1. /\ Len(Tail(events)) = Len(events) - 1
            /\ \A i \in 1..Len(Tail(events)) : Tail(events)[i] = events[i + 1]
        BY <1>1, HeadTailProperties
      <4>2. Len(<<h>>) = 1 /\ <<h>>[1] = events[1]
        BY <1>1
      <4>3. Len(events) \in Nat /\ Len(events) > 0
        BY <1>1, EmptySeq, LenProperties
      <4>4. /\ whole \in Seq(Event)
            /\ Len(whole) = Len(events)
            /\ \A i \in 1..Len(events) : whole[i] =
                   IF i <= 1 THEN <<h>>[i] ELSE Tail(events)[i - 1]
        BY <1>1, <3>1, <4>1, <4>2, <4>3, ConcatProperties
      <4>5. \A i \in 1..Len(whole) : whole[i] = events[i]
        BY <4>1, <4>2, <4>3, <4>4
      <4> QED
        BY <1>1, <4>4, <4>5, SeqEqual
    <3>3. (fired \o <<h>>) \o Tail(events) = fired \o (<<h>> \o Tail(events))
      BY <1>1, <3>1, ConcatAssociative
    <3> QED
      BY <1>3, <2>1, <3>1, <3>2, <3>3
  <2> QED
    BY <1>1, <1>2, <1>4, <1>5, <1>6, <1>7, <1>8, <2>1, <2>2
<1>9. CASE h.kind \notin Subscribed
  <2>1. fired' = fired
    BY <1>9 DEF DispatchEvent
  <2> QED
    BY <1>1, <1>2, <1>3, <1>4, <1>5, <1>6, <1>7, <1>9, <2>1
<1> QED
  BY <1>8, <1>9

LEMMA DispatchInv == ServiceInv /\ DispatchEvent => ServiceInv'
<1> SUFFICES ASSUME ServiceInv, DispatchEvent PROVE ServiceInv'
  OBVIOUS
<1> DEFINE h == Head(events)
<1>1. TypeOK /\ TypeOK'
  BY LoopType DEF ServiceInv
<1>2. UNCHANGED <<step, answer, registry, promise, canvas, engine, micro>>
  BY DEF DispatchEvent, requestVars, engineVars
<1>3. /\ h \in Event /\ h.sid \in Sessions /\ step[h.sid] # "joinCalled"
      /\ Len(fired) + 1 \in DOMAIN Pipe /\ Pipe[Len(fired) + 1] = h
      /\ fired \in Seq(Event) /\ Taken = fired /\ Taken' = fired'
      /\ h.kind \in Subscribed => Pipe' = Pipe /\ fired' = Append(fired, h)
      /\ h.kind \notin Subscribed =>
           Shorter(Pipe', Pipe, Len(fired) + 1) /\ fired' = fired
  BY <1>1, DispatchPipe
<1> HIDE DEF h
<1>4. Attested(h)
  BY <1>3 DEF ServiceInv, EventInv
<1>5. step[h.sid] = "listening"
  BY <1>3, <1>4 DEF Attested, JoinCalled
<1>6. StepInv' /\ PromiseInv'
  BY <1>2 DEF ServiceInv, StepInv, PromiseInv, JoinCalled, HasJoined
<1>7. MicroInv' /\ AnswerInv'
  BY <1>2 DEF ServiceInv, MicroInv, Justified, AnswerInv
<1>8. CASE h.kind \in Subscribed
  <2>1. TakenInv'
    <3>1. \A i \in DOMAIN Append(fired, h) :
            \/ Append(fired, h)[i] = h
            \/ i \in DOMAIN fired /\ Append(fired, h)[i] = fired[i]
      BY <1>3, AppendEntries
    <3>2. \A i \in DOMAIN fired : step[fired[i].sid] = "listening"
      BY <1>3 DEF ServiceInv, TakenInv
    <3> QED
      BY <1>2, <1>3, <1>5, <1>8, <3>1, <3>2 DEF TakenInv
  <2>2. EventInv' /\ OvertakingInv'
    BY <1>2, <1>3, <1>8 DEF ServiceInv, EventInv, Attested, OvertakingInv, JoinComesFirst,
                     JoinCalled, HasJoined
  <2> QED
    BY <1>1, <1>6, <1>7, <2>1, <2>2 DEF ServiceInv
<1>9. CASE h.kind \notin Subscribed
  <2>1. \A s \in Sessions : ~IsJoin(h, s)
    BY <1>9 DEF Subscribed, Kinds, IsJoin
  <2>2. EventInv' /\ OvertakingInv'
    BY <1>2, <1>3, <1>9, <2>1, ShorterPipe
  <2>3. TakenInv'
    BY <1>2, <1>3, <1>9 DEF ServiceInv, TakenInv
  <2> QED
    BY <1>1, <1>6, <1>7, <2>2, <2>3 DEF ServiceInv
<1> QED
  BY <1>8, <1>9

LEMMA CheckPhaseInv == ServiceInv /\ CheckPhase => ServiceInv'
<1> SUFFICES ASSUME ServiceInv, CheckPhase PROVE ServiceInv'
  OBVIOUS
<1>1. TypeOK /\ TypeOK' /\ StepInv
  BY LoopType DEF ServiceInv
<1>2. Taken = fired /\ Taken' = fired /\ UNCHANGED events
  BY <1>1, ConcatEmptySeq DEF CheckPhase, Polling, Taken, TypeOK
<1>3. FlowUnchanged
  BY <1>2 DEF CheckPhase, requestVars, engineVars, FlowUnchanged, Pipe, Taken
<1>4. StepsForward
  BY <1>1 DEF CheckPhase, requestVars, StepsForward, StepInv, JoinCalled
<1> QED
  BY <1>1, <1>3, <1>4, FlowKept

(* Concatenation of three lines of events.                                 *)
LEMMA ThreeLines ==
  ASSUME NEW a \in Seq(Event), NEW b \in Seq(Event), NEW c \in Seq(Event)
  PROVE  (a \o b) \o c = a \o (b \o c)
  BY ConcatAssociative

(* An immediate takes the oldest event out of the pipe.                    *)
LEMMA ImmediatePipe ==
  ASSUME ServiceInv, NEW e \in Event, Immediate(e), UNCHANGED <<fired, events>>
  PROVE  /\ Shorter(Pipe', Pipe, 1) /\ Pipe[1] = e
         /\ Shorter(Taken', Taken, 1)
         /\ Attested(e) /\ step[e.sid] = "listening" /\ e.sid \in Sessions
<1>1. /\ batch \in Seq(Event) /\ fired \in Seq(Event) /\ events \in Seq(Event)
      /\ batch # <<>> /\ e = Head(batch) /\ Tail(batch) \in Seq(Event)
      /\ batch' = Tail(batch)
  BY HeadTailProperties DEF ServiceInv, TypeOK, Immediate
<1>2. ASSUME NEW rest \in Seq(Event)
      PROVE  Shorter(Tail(batch) \o rest, batch \o rest, 1) /\ (batch \o rest)[1] = e
  <2>1. /\ Len(Tail(batch)) = Len(batch) - 1
        /\ \A i \in 1..Len(Tail(batch)) : Tail(batch)[i] = batch[i + 1]
    BY <1>1, HeadTailProperties
  <2>2. Len(batch) \in Nat /\ Len(batch) > 0 /\ Len(rest) \in Nat /\ Head(batch) = batch[1]
    BY <1>1, EmptySeq, LenProperties
  <2>3. /\ batch \o rest \in Seq(Event)
        /\ Len(batch \o rest) = Len(batch) + Len(rest)
        /\ \A i \in 1..(Len(batch) + Len(rest)) : (batch \o rest)[i] =
               IF i <= Len(batch) THEN batch[i] ELSE rest[i - Len(batch)]
    BY <1>1, ConcatProperties
  <2>4. /\ Tail(batch) \o rest \in Seq(Event)
        /\ Len(Tail(batch) \o rest) = Len(Tail(batch)) + Len(rest)
        /\ \A i \in 1..(Len(Tail(batch)) + Len(rest)) : (Tail(batch) \o rest)[i] =
               IF i <= Len(Tail(batch)) THEN Tail(batch)[i]
               ELSE rest[i - Len(Tail(batch))]
    BY <1>1, ConcatProperties
  <2>5. DOMAIN (Tail(batch) \o rest) = 1..(Len(batch \o rest) - 1)
    BY <2>1, <2>2, <2>3, <2>4, LenProperties
  <2>6. ASSUME NEW i \in 1..(Len(batch) + Len(rest) - 1)
        PROVE  (Tail(batch) \o rest)[i] = (batch \o rest)[i + 1]
    <3>1. CASE i <= Len(batch) - 1
      BY <3>1, <2>1, <2>2, <2>3, <2>4
    <3>2. CASE i > Len(batch) - 1
      <4>1. /\ (Tail(batch) \o rest)[i] = rest[i - (Len(batch) - 1)]
            /\ (batch \o rest)[i + 1] = rest[(i + 1) - Len(batch)]
        BY <3>2, <2>1, <2>2, <2>3, <2>4
      <4> QED
        BY <4>1, <2>2
    <3> QED
      BY <3>1, <3>2, <2>2
  <2>7. Len(batch \o rest) - 1 = Len(batch) + Len(rest) - 1 /\ 1 \in 1..Len(batch \o rest)
    BY <2>2, <2>3
  <2>8. \A i \in DOMAIN (Tail(batch) \o rest) : (Tail(batch) \o rest)[i] =
           (batch \o rest)[IF i < 1 THEN i ELSE i + 1]
    BY <2>2, <2>5, <2>6, <2>7
  <2>9. (batch \o rest)[1] = e
    BY <1>1, <2>2, <2>3
  <2> QED
    BY <2>3, <2>4, <2>5, <2>7, <2>8, <2>9 DEF Shorter
<1>3. fired \o events \in Seq(Event)
  BY <1>1, ConcatProperties
<1>4. /\ Pipe = batch \o (fired \o events)
      /\ Pipe' = Tail(batch) \o (fired \o events)
  <2>1. Pipe = (batch \o fired) \o events /\ Pipe' = (Tail(batch) \o fired) \o events
    BY <1>1 DEF Pipe
  <2>5. /\ batch \in Seq(Event) /\ Tail(batch) \in Seq(Event)
        /\ fired \in Seq(Event) /\ events \in Seq(Event)
    BY <1>1
  <2>2. (batch \o fired) \o events = batch \o (fired \o events)
    BY ONLY <2>5, ThreeLines
  <2>3. (Tail(batch) \o fired) \o events = Tail(batch) \o (fired \o events)
    BY ONLY <2>5, ThreeLines
  <2> QED
    BY <2>1, <2>2, <2>3
<1>5. Taken = batch \o fired /\ Taken' = Tail(batch) \o fired
  BY <1>1 DEF Taken
<1>6. Shorter(Pipe', Pipe, 1) /\ Pipe[1] = e
  BY <1>2, <1>3, <1>4
<1>7. Shorter(Taken', Taken, 1) /\ Taken[1] = e
  BY <1>1, <1>2, <1>5
<1>8. 1 \in DOMAIN Pipe /\ 1 \in DOMAIN Taken
  BY <1>6, <1>7, LenProperties DEF Shorter
<1> QED
  BY <1>6, <1>7, <1>8 DEF ServiceInv, EventInv, TakenInv, Event

LEMMA ShorterTaken ==
  ASSUME ServiceInv, Shorter(Taken', Taken, 1), UNCHANGED step
  PROVE  TakenInv'
<1>1. ASSUME NEW i \in DOMAIN Taken', NEW f, f = Taken'[i]
      PROVE  step[f.sid] = "listening"
  BY <1>1, ShorterEntry DEF ServiceInv, TakenInv
<1> QED
  BY <1>1 DEF TakenInv

(* Settling a promise that was pending justifies the reactions that wait.  *)
LEMMA SettleInv ==
  ASSUME ServiceInv, NEW s \in Sessions, NEW state \in {"resolved", "rejected"},
         NEW reaction \in {"joined", "failed"}, Settle(s, state, reaction),
         UNCHANGED <<answer, registry>>,
         state = "resolved" <=> reaction = "joined"
  PROVE  MicroInv' /\ AnswerInv'
<1> DEFINE new == [then |-> reaction, sid |-> s]
<1>1. TypeOK /\ MicroInv /\ AnswerInv
  BY DEF ServiceInv
<1>2. CASE UNCHANGED <<promise, micro>>
  BY <1>1, <1>2 DEF MicroInv, Justified, AnswerInv
<1>3. CASE /\ promise[s] = "pending"
           /\ promise' = [promise EXCEPT ![s] = state]
           /\ micro' = Append(micro, new)
  <2>1. \A x \in Sessions : promise[x] # "pending" => promise'[x] = promise[x]
    BY <1>1, <1>3 DEF TypeOK
  <2>2. promise'[s] = state
    BY <1>1, <1>3 DEF TypeOK
  <2>3. AnswerInv'
    BY <1>1, <2>1 DEF AnswerInv
  <2>4. new \in Reaction /\ micro \in Seq(Reaction)
    BY <1>1 DEF Reaction, TypeOK
  <2>5. \A f \in Reaction : Justified(f) => Justified(f)'
    BY <2>1 DEF Justified, Reaction
  <2>6. Justified(new)'
    BY <2>2 DEF Justified
  <2> HIDE DEF new
  <2>7. /\ DOMAIN micro' = 1..(Len(micro) + 1) /\ DOMAIN micro = 1..Len(micro)
        /\ Len(micro) \in Nat
        /\ \A i \in DOMAIN micro : micro'[i] = micro[i] /\ micro[i] \in Reaction
        /\ micro'[Len(micro) + 1] = new
    BY <1>3, <2>4, AppendProperties, LenProperties, ElementOfSeq
  <2>8. ASSUME NEW i \in DOMAIN micro', NEW f, f = micro'[i] PROVE Justified(f)'
    <3>1. CASE i = Len(micro) + 1
      BY <2>6, <2>7, <2>8, <3>1
    <3>2. CASE i # Len(micro) + 1
      <4>1. i \in DOMAIN micro /\ f = micro[i] /\ f \in Reaction
        BY <2>7, <2>8, <3>2
      <4> QED
        BY <1>1, <2>5, <4>1 DEF MicroInv
    <3> QED
      BY <3>1, <3>2
  <2>9. MicroInv'
    BY <2>8 DEF MicroInv, Justified
  <2> QED
    BY <2>3, <2>9
<1> QED
  BY <1>2, <1>3 DEF Settle

LEMMA EmitJoinInv == ServiceInv /\ EmitJoinChannel => ServiceInv'
<1> SUFFICES ASSUME ServiceInv, EmitJoinChannel PROVE ServiceInv'
  OBVIOUS
<1>1. TypeOK /\ TypeOK'
  BY LoopType DEF ServiceInv, RunImmediate
<1>2. PICK e \in Event : /\ Immediate(e) /\ e.kind = "joinchannel"
                         /\ Settle(e.sid, "resolved", "joined")
  BY DEF EmitJoinChannel
<1>3. UNCHANGED <<process, step, answer, registry, canvas, events, fired, engine>>
  BY DEF EmitJoinChannel, engineVars
<1>4. /\ Shorter(Pipe', Pipe, 1) /\ Pipe[1] = e /\ Shorter(Taken', Taken, 1)
      /\ HasJoined(e.sid) /\ step[e.sid] = "listening" /\ e.sid \in Sessions
  BY <1>2, <1>3, ImmediatePipe DEF Attested
<1>5. \A s \in Sessions :
        /\ promise'[s] = "pending" => promise[s] = "pending" /\ s # e.sid
        /\ promise'[s] = "resolved" => promise[s] = "resolved" \/ s = e.sid
        /\ promise'[s] = "rejected" => promise[s] = "rejected"
  <2>1. promise \in [Sessions -> {"pending", "resolved", "rejected"}]
    BY <1>1 DEF TypeOK
  <2>2. CASE promise[e.sid] = "pending" /\ promise' = [promise EXCEPT ![e.sid] = "resolved"]
    BY <1>4, <2>1, <2>2
  <2>3. CASE promise[e.sid] # "pending" /\ promise' = promise
    BY <2>3
  <2>4. promise[e.sid] = "pending" => promise' = [promise EXCEPT ![e.sid] = "resolved"]
    BY <1>2, <1>4 DEF Settle
  <2>5. promise[e.sid] # "pending" => promise' = promise
    BY <1>2 DEF Settle
  <2> QED
    BY <2>2, <2>3, <2>4, <2>5
<1>6. EventInv' /\ OvertakingInv'
  BY <1>3, <1>4, <1>5, ShorterPipe DEF IsJoin
<1>7. TakenInv'
  BY <1>3, <1>4, ShorterTaken
<1>8. PromiseInv' /\ StepInv'
  BY <1>3, <1>4, <1>5 DEF ServiceInv, PromiseInv, StepInv, HasJoined, JoinCalled
<1>9. MicroInv' /\ AnswerInv'
  BY <1>2, <1>3, <1>4, SettleInv
<1> QED
  BY <1>1, <1>6, <1>7, <1>8, <1>9 DEF ServiceInv

(* An error is emitted for a pending promise only if the engine never      *)
(* joined: its join would be before the error in the pipe.                 *)
LEMMA EmitErrorInv == ServiceInv /\ EmitError => ServiceInv'
<1> SUFFICES ASSUME ServiceInv, EmitError PROVE ServiceInv'
  OBVIOUS
<1>1. TypeOK /\ TypeOK'
  BY LoopType DEF ServiceInv, RunImmediate
<1>2. PICK e \in Event : /\ Immediate(e) /\ e.kind = "error"
                         /\ Settle(e.sid, "rejected", "failed")
  BY DEF EmitError
<1>3. UNCHANGED <<process, step, answer, registry, canvas, events, fired, engine>>
  BY DEF EmitError, engineVars
<1>4. /\ Shorter(Pipe', Pipe, 1) /\ Pipe[1] = e /\ Shorter(Taken', Taken, 1)
      /\ engine[e.sid] \in {"failed", "stopped"}
      /\ step[e.sid] = "listening" /\ e.sid \in Sessions
  BY <1>2, <1>3, ImmediatePipe DEF Attested
<1>5. promise[e.sid] = "pending" => engine[e.sid] = "failed"
  <2> SUFFICES ASSUME promise[e.sid] = "pending", engine[e.sid] = "stopped" PROVE FALSE
    BY <1>4
  <2>1. JoinComesFirst(Pipe, e.sid)
    BY <1>4 DEF ServiceInv, OvertakingInv, HasJoined
  <2>2. PICK j \in DOMAIN Pipe :
          /\ IsJoin(Pipe[j], e.sid)
          /\ \A i \in DOMAIN Pipe : i < j => ~IsError(Pipe[i], e.sid)
    BY <2>1 DEF JoinComesFirst
  <2>3. 1 \in DOMAIN Pipe /\ DOMAIN Pipe = 1..Len(Pipe) /\ Len(Pipe) \in Nat
    BY <1>4, LenProperties DEF Shorter
  <2>4. IsError(Pipe[1], e.sid) /\ j # 1
    BY <1>2, <1>4, <2>2 DEF IsError, IsJoin
  <2> QED
    BY <2>2, <2>3, <2>4
<1>6. \A s \in Sessions :
        /\ promise'[s] = "pending" => promise[s] = "pending"
        /\ promise'[s] = "resolved" => promise[s] = "resolved"
        /\ promise'[s] = "rejected" =>
             promise[s] = "rejected" \/ (s = e.sid /\ engine[s] = "failed")
  <2>1. CASE promise' = promise
    BY <2>1
  <2>2. CASE promise[e.sid] = "pending" /\ promise' = [promise EXCEPT ![e.sid] = "rejected"]
    BY <1>1, <1>4, <1>5, <2>2 DEF TypeOK
  <2> QED
    BY <1>2, <2>1, <2>2 DEF Settle
<1>7. EventInv' /\ OvertakingInv'
  BY <1>2, <1>3, <1>4, <1>6, ShorterPipe DEF IsJoin
<1>8. TakenInv'
  BY <1>3, <1>4, ShorterTaken
<1>9. PromiseInv' /\ StepInv'
  BY <1>3, <1>6 DEF ServiceInv, PromiseInv, StepInv, HasJoined, JoinCalled
<1>10. MicroInv' /\ AnswerInv'
  BY <1>2, <1>3, <1>4, SettleInv
<1> QED
  BY <1>1, <1>7, <1>8, <1>9, <1>10 DEF ServiceInv

LEMMA EmitUserInv == ServiceInv /\ EmitUser => ServiceInv'
<1> SUFFICES ASSUME ServiceInv, EmitUser PROVE ServiceInv'
  OBVIOUS
<1>1. TypeOK'
  BY LoopType DEF ServiceInv, RunImmediate
<1>2. PICK e \in Event : Immediate(e) /\ e.kind \in {"userjoin", "userleave"}
  BY DEF EmitUser
<1>3. UNCHANGED <<step, answer, registry, promise, canvas, micro, events, fired, engine>>
  BY DEF EmitUser, requestVars, engineVars
<1>4. Shorter(Pipe', Pipe, 1) /\ Pipe[1] = e /\ Shorter(Taken', Taken, 1)
  BY <1>2, <1>3, ImmediatePipe
<1>5. EventInv' /\ OvertakingInv'
  BY <1>2, <1>3, <1>4, ShorterPipe DEF IsJoin
<1>6. TakenInv'
  BY <1>3, <1>4, ShorterTaken
<1>7. PromiseInv' /\ StepInv'
  BY <1>3 DEF ServiceInv, PromiseInv, StepInv, HasJoined, JoinCalled
<1>8. MicroInv' /\ AnswerInv'
  BY <1>3 DEF ServiceInv, MicroInv, Justified, AnswerInv
<1> QED
  BY <1>1, <1>5, <1>6, <1>7, <1>8 DEF ServiceInv

-----------------------------------------------------------------------------
(* The promise reactions.                                                  *)

(* The next reaction goes, and another may come.                           *)
LEMMA NextReaction ==
  ASSUME ServiceInv, NEW r \in Reaction, React(r)
  PROVE  /\ r.sid \in Sessions /\ Justified(r)
         /\ Tail(micro) \in Seq(Reaction)
         /\ \A i \in DOMAIN Tail(micro) : Justified(Tail(micro)[i]) /\ Tail(micro)[i] \in Reaction
<1>1. micro \in Seq(Reaction) /\ micro # <<>> /\ r = Head(micro)
  BY DEF ServiceInv, TypeOK, React
<1>2. /\ Tail(micro) \in Seq(Reaction) /\ Len(Tail(micro)) = Len(micro) - 1
      /\ \A i \in 1..Len(Tail(micro)) : Tail(micro)[i] = micro[i + 1]
  BY <1>1, HeadTailProperties
<1>3. /\ DOMAIN Tail(micro) = 1..Len(Tail(micro)) /\ DOMAIN micro = 1..Len(micro)
      /\ Len(micro) \in Nat /\ Len(micro) > 0 /\ r = micro[1]
  BY <1>1, <1>2, EmptySeq, LenProperties
<1>4. \A i \in DOMAIN Tail(micro) : Tail(micro)[i] = micro[i + 1] /\ i + 1 \in DOMAIN micro
  BY <1>2, <1>3
<1>5. \A i \in DOMAIN Tail(micro) : Tail(micro)[i] \in Reaction
  BY <1>2, <1>3, ElementOfSeq
<1> QED
  BY <1>2, <1>3, <1>4, <1>5 DEF ServiceInv, MicroInv, Reaction

LEMMA ReplaceReaction ==
  ASSUME ServiceInv, NEW r \in Reaction, React(r), NEW new \in Reaction,
         micro' = Append(Tail(micro), new), Justified(new)',
         UNCHANGED promise, registry \subseteq registry'
  PROVE  MicroInv'
<1>1. /\ Tail(micro) \in Seq(Reaction)
      /\ \A i \in DOMAIN Tail(micro) : Justified(Tail(micro)[i]) /\ Tail(micro)[i] \in Reaction
  BY NextReaction
<1>2. /\ DOMAIN micro' = 1..(Len(Tail(micro)) + 1)
      /\ DOMAIN Tail(micro) = 1..Len(Tail(micro)) /\ Len(Tail(micro)) \in Nat
      /\ \A i \in DOMAIN Tail(micro) : micro'[i] = Tail(micro)[i]
      /\ micro'[Len(Tail(micro)) + 1] = new
  BY <1>1, AppendProperties, LenProperties
<1>3. \A f \in Reaction : Justified(f) => Justified(f)'
  BY DEF Justified, Reaction
<1>4. ASSUME NEW i \in DOMAIN micro', NEW f, f = micro'[i] PROVE Justified(f)'
  <2>1. CASE i = Len(Tail(micro)) + 1
    BY <1>2, <1>4, <2>1
  <2>2. CASE i # Len(Tail(micro)) + 1
    <3>1. i \in DOMAIN Tail(micro) /\ f = Tail(micro)[i]
      BY <1>2, <1>4, <2>2
    <3> QED
      BY <1>1, <1>3, <3>1
  <2> QED
    BY <2>1, <2>2
<1> QED
  BY <1>4 DEF MicroInv, Justified

LEMMA ReactionKeepsFlow ==
  ASSUME ServiceInv, RunReaction
  PROVE  StepInv' /\ EventInv' /\ TakenInv' /\ OvertakingInv' /\ PromiseInv'
<1>1. UNCHANGED <<step, promise, canvas, engine>> /\ Pipe' = Pipe /\ Taken' = Taken
  BY DEF RunReaction, RegisterRecorder, RejectStart, AnswerStart, requestVars,
         engineVars, Pipe, Taken
<1>2. \A s \in Sessions : answer'[s] = "none" => answer[s] = "none"
  <2>1. CASE answer' = answer
    BY <2>1
  <2>2. CASE AnswerStart
    BY <2>2, ReactType DEF AnswerStart, ServiceInv, TypeOK
  <2> QED
    BY <2>1, <2>2 DEF RunReaction, RegisterRecorder, RejectStart, requestVars
<1> QED
  BY <1>1, <1>2
  DEF ServiceInv, StepInv, EventInv, TakenInv, OvertakingInv, PromiseInv, Attested,
      JoinComesFirst, JoinCalled, HasJoined

LEMMA ReactionInv == ServiceInv /\ RunReaction => ServiceInv'
<1> SUFFICES ASSUME ServiceInv, RunReaction PROVE ServiceInv'
  OBVIOUS
<1>1. TypeOK /\ TypeOK'
  BY LoopType DEF ServiceInv
<1>2. CASE RegisterRecorder
  <2>1. PICK r \in Reaction :
          /\ React(r) /\ r.then = "joined" /\ registry' = registry \cup {r.sid}
          /\ micro' = Append(Tail(micro), [then |-> "replyOk", sid |-> r.sid])
    BY <1>2 DEF RegisterRecorder
  <2>2. UNCHANGED <<answer, promise>>
    BY <1>2 DEF RegisterRecorder
  <2>3. r.sid \in Sessions /\ promise[r.sid] = "resolved"
    BY <2>1, NextReaction DEF Justified
  <2>4. [then |-> "replyOk", sid |-> r.sid] \in Reaction
    BY <2>3 DEF Reaction
  <2>5. Justified([then |-> "replyOk", sid |-> r.sid])'
    BY <2>1, <2>2, <2>3 DEF Justified
  <2>6. MicroInv'
    BY <2>1, <2>2, <2>4, <2>5, ReplaceReaction
  <2>7. AnswerInv'
    BY <2>1, <2>2, <2>3 DEF ServiceInv, AnswerInv
  <2> QED
    BY <1>1, <2>6, <2>7, ReactionKeepsFlow DEF ServiceInv
<1>3. CASE RejectStart
  <2>1. PICK r \in Reaction :
          /\ React(r) /\ r.then = "failed"
          /\ micro' = Append(Tail(micro), [then |-> "replyError", sid |-> r.sid])
    BY <1>3 DEF RejectStart
  <2>2. UNCHANGED <<answer, promise, registry>>
    BY <1>3 DEF RejectStart, requestVars
  <2>3. r.sid \in Sessions /\ promise[r.sid] = "rejected"
    BY <2>1, NextReaction DEF Justified
  <2>4. [then |-> "replyError", sid |-> r.sid] \in Reaction
    BY <2>3 DEF Reaction
  <2>5. Justified([then |-> "replyError", sid |-> r.sid])'
    BY <2>2, <2>3 DEF Justified
  <2>6. MicroInv'
    BY <2>1, <2>2, <2>4, <2>5, ReplaceReaction
  <2>7. AnswerInv'
    BY <2>2 DEF ServiceInv, AnswerInv
  <2> QED
    BY <1>1, <2>6, <2>7, ReactionKeepsFlow DEF ServiceInv
<1>4. CASE AnswerStart
  <2>1. PICK r \in Reaction :
          /\ React(r) /\ r.then \in {"replyOk", "replyError"}
          /\ answer' = [answer EXCEPT ![r.sid] =
                          IF r.then = "replyOk" THEN "ok" ELSE "error"]
          /\ micro' = Tail(micro)
    BY <1>4 DEF AnswerStart
  <2>2. UNCHANGED <<promise, registry>>
    BY <1>4 DEF AnswerStart
  <2>3. /\ r.sid \in Sessions /\ Justified(r)
        /\ \A i \in DOMAIN Tail(micro) : Justified(Tail(micro)[i])
    BY <2>1, NextReaction
  <2>4. MicroInv'
    BY <2>1, <2>2, <2>3 DEF MicroInv, Justified
  <2>5. ASSUME NEW s \in Sessions
        PROVE  /\ answer'[s] = "ok" => s \in registry
               /\ answer'[s] = "error" => promise[s] = "rejected"
    <3>1. CASE s = r.sid
      BY <1>1, <2>1, <2>3, <3>1 DEF Justified, TypeOK
    <3>2. CASE s # r.sid
      BY <1>1, <2>1, <3>2 DEF ServiceInv, AnswerInv, TypeOK
    <3> QED
      BY <3>1, <3>2
  <2>6. AnswerInv'
    BY <2>2, <2>5 DEF ServiceInv, AnswerInv
  <2> QED
    BY <1>1, <2>4, <2>6, ReactionKeepsFlow DEF ServiceInv
<1> QED
  BY <1>2, <1>3, <1>4 DEF RunReaction

-----------------------------------------------------------------------------
LEMMA InvStep == ServiceInv /\ [Next]_serviceVars => ServiceInv'
<1> SUFFICES ASSUME ServiceInv, [Next]_serviceVars PROVE ServiceInv'
  OBVIOUS
<1>1. CASE UNCHANGED serviceVars
  <2>1. TypeOK' /\ StepInv
    BY <1>1, TypeStep DEF ServiceInv
  <2>2. FlowUnchanged
    BY <1>1 DEF serviceVars, requestVars, loopVars, engineVars, FlowUnchanged, Pipe, Taken
  <2>3. StepsForward
    BY <1>1, <2>1 DEF serviceVars, requestVars, StepsForward, StepInv, JoinCalled
  <2> QED
    BY <2>1, <2>2, <2>3, FlowKept
<1>2. CASE RunImmediate
  BY <1>2, EmitJoinInv, EmitErrorInv, EmitUserInv DEF RunImmediate
<1>3. ASSUME NEW s \in Sessions, Storage(s) PROVE ServiceInv'
  BY <1>3, StorageInv, WriteFileInv
<1> QED
  BY <1>1, <1>2, <1>3, RequestsInv, EngineInv, DispatchInv, CheckPhaseInv, ReactionInv
  DEF Next

LEMMA AlwaysServiceInv == Spec => []ServiceInv
  BY InvInit, InvStep, PTL DEF Spec, Safe

(* No event is taken out of the queue before the once-listeners of its     *)
(* session are registered, though the native joinChannel is called first   *)
(* (AgoraRecordSdk.js:96-102).                                             *)
THEOREM NoEventBeforeListeners == Spec => []ListenersBeforeEvents
<1>1. ServiceInv => ListenersBeforeEvents
  BY DEF ServiceInv, TakenInv, Taken, ListenersBeforeEvents
<1> QED
  BY <1>1, AlwaysServiceInv, PTL

(* An answered start tells the truth about the registry and the engine,    *)
(* however many recorders share the queue and the loop, with either order  *)
(* of promise reactions (recordManager.js:54-60, app.js:35-47).            *)
THEOREM AnswersAreTruthful == Spec => []StartAnswerTruthful
<1>1. ServiceInv => StartAnswerTruthful
  BY DEF ServiceInv, AnswerInv, PromiseInv, StartAnswerTruthful
<1> QED
  BY <1>1, AlwaysServiceInv, PTL
=============================================================================
