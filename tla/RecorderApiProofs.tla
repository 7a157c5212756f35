------------------------- MODULE RecorderApiProofs -------------------------
(***************************************************************************)
(* RecorderService implements RecorderApi: the proof that every step of    *)
(* the service is a step of the abstract interface, or none.               *)
(***************************************************************************)
EXTENDS RecorderServiceProofs

USE DEF onCleanup

(* The reactions that wait are for different sessions, each of which waits *)
(* for its answer.                                                         *)
Waiting ==
  \A i \in DOMAIN micro :
    /\ answer[micro[i].sid] = "waiting"
    /\ promise[micro[i].sid] # "pending"
    /\ \A j \in DOMAIN micro : i # j => micro[i].sid # micro[j].sid

(* A session is registered if its start is answered with success, or is    *)
(* about to be.                                                            *)
Registered ==
  \A s \in Sessions :
    s \in registry =>
      \/ answer[s] = "ok"
      \/ \E i \in DOMAIN micro : micro[i].then = "replyOk" /\ micro[i].sid = s

(* How far a start request got, and its answer. *)
Progress ==
  \A s \in Sessions :
    /\ step[s] # "idle" => answer[s] \in {"waiting", "ok", "error"}
    /\ promise[s] = "pending" => answer[s] \notin {"ok", "error"}

ApiInv == ServiceInv /\ Waiting /\ Registered /\ Progress

LEMMA ApiInvInit == Init => ApiInv
<1> SUFFICES ASSUME Init PROVE ApiInv
  OBVIOUS
<1>1. ServiceInv /\ micro = <<>>
  BY InvInit DEF Init
<1> QED
  BY <1>1 DEF Init, ApiInv, Waiting, Registered, Progress

LEMMA ReactionType ==
  ASSUME TypeOK, NEW i \in DOMAIN micro
  PROVE  micro[i] \in Reaction /\ micro[i].sid \in Sessions
<1>1. micro[i] \in Reaction
  BY LenProperties, ElementOfSeq DEF TypeOK
<1> QED
  BY <1>1 DEF Reaction

(* The steps that leave promises, reactions and the registry alone.        *)
LEMMA QuietStep ==
  ASSUME ApiInv, UNCHANGED <<micro, promise, registry>>,
         \A s \in Sessions :
           /\ answer[s] \in {"waiting", "ok", "error"} => answer'[s] = answer[s]
           /\ answer'[s] \in {"ok", "error"} => answer[s] = answer'[s]
           /\ step'[s] # "idle" => answer'[s] \in {"waiting", "ok", "error"}
  PROVE  Waiting' /\ Registered' /\ Progress'
<1>1. TypeOK
  BY DEF ApiInv, ServiceInv
<1>2. Waiting'
  BY <1>1, ReactionType DEF ApiInv, Waiting
<1>3. Registered' /\ Progress'
  BY DEF ApiInv, Registered, Progress
<1> QED
  BY <1>2, <1>3

LEMMA SettleWaits ==
  ASSUME ApiInv, NEW s \in Sessions, NEW state \in {"resolved", "rejected"},
         NEW reaction \in {"joined", "failed"}, Settle(s, state, reaction),
         UNCHANGED <<step, answer, registry>>
  PROVE  Waiting' /\ Registered' /\ Progress'
<1> DEFINE new == [then |-> reaction, sid |-> s]
<1>1. TypeOK /\ Waiting /\ Registered /\ Progress
  BY DEF ApiInv, ServiceInv
<1>2. CASE UNCHANGED <<promise, micro>>
  BY <1>1, <1>2 DEF Waiting, Registered, Progress
<1>3. CASE /\ promise[s] = "pending" /\ step[s] = "listening"
           /\ promise' = [promise EXCEPT ![s] = state]
           /\ micro' = Append(micro, new)
  <2>1. new \in Reaction /\ micro \in Seq(Reaction) /\ new.sid = s
    BY <1>1 DEF Reaction, TypeOK
  <2> HIDE DEF new
  <2>2. /\ DOMAIN micro' = 1..(Len(micro) + 1) /\ DOMAIN micro = 1..Len(micro)
        /\ Len(micro) \in Nat
        /\ \A i \in DOMAIN micro : micro'[i] = micro[i]
        /\ micro'[Len(micro) + 1] = new
    BY <1>3, <2>1, AppendProperties, LenProperties
  <2>3. answer[s] = "waiting"
    BY <1>1, <1>3 DEF Progress
  <2>4. \A x \in Sessions : promise[x] # "pending" => promise'[x] = promise[x]
    BY <1>1, <1>3 DEF TypeOK
  <2>5. promise'[s] # "pending"
    BY <1>1, <1>3 DEF TypeOK
  <2>6. \A i \in DOMAIN micro : micro[i].sid \in Sessions /\ micro[i].sid # s
    BY <1>1, <1>3, ReactionType DEF Waiting
  <2>7. \A i \in DOMAIN micro' : i # Len(micro) + 1 => i \in DOMAIN micro
    BY <2>2
  <2>8. \A i \in DOMAIN micro :
          answer[micro[i].sid] = "waiting" /\ promise'[micro[i].sid] # "pending"
    BY <1>1, <2>4, <2>6 DEF Waiting
  <2>9. ASSUME NEW i \in DOMAIN micro'
        PROVE  /\ answer[micro'[i].sid] = "waiting"
               /\ promise'[micro'[i].sid] # "pending"
               /\ \A j \in DOMAIN micro' : i # j => micro'[i].sid # micro'[j].sid
    <3>1. CASE i = Len(micro) + 1
      BY <2>1, <2>2, <2>3, <2>5, <2>6, <2>7, <3>1
    <3>2. CASE i # Len(micro) + 1
      <4>1. i \in DOMAIN micro /\ micro'[i] = micro[i]
        BY <2>2, <2>7, <3>2
      <4>2. ASSUME NEW j \in DOMAIN micro', i # j PROVE micro'[i].sid # micro'[j].sid
        <5>1. CASE j = Len(micro) + 1
          BY <2>1, <2>2, <2>6, <4>1, <5>1
        <5>2. CASE j # Len(micro) + 1
          <6>1. j \in DOMAIN micro /\ micro'[j] = micro[j]
            BY <2>2, <2>7, <5>2
          <6> QED
            BY <1>1, <4>1, <4>2, <6>1 DEF Waiting
        <5> QED
          BY <5>1, <5>2
      <4> QED
        BY <2>8, <4>1, <4>2
    <3> QED
      BY <3>1, <3>2
  <2>10. Waiting'
    BY <2>9 DEF Waiting
  <2>11. Registered'
    BY <1>1, <2>2 DEF Registered
  <2>12. Progress'
    <3>1. \A x \in Sessions : promise'[x] = "pending" => promise[x] = "pending"
      BY <1>1, <1>3 DEF TypeOK
    <3> QED
      BY <1>1, <3>1 DEF Progress
  <2> QED
    BY <2>10, <2>11, <2>12
<1> QED
  BY <1>2, <1>3 DEF Settle

-----------------------------------------------------------------------------
(* The steps up to the promises.                                           *)

LEMMA RequestWaits ==
  ASSUME ApiInv, NEW s \in Sessions, Requests(s)
  PROVE  Waiting' /\ Registered' /\ Progress'
<1>1. TypeOK /\ StepInv /\ Progress
  BY DEF ApiInv, ServiceInv
<1>2. UNCHANGED <<micro, promise, registry>>
  BY DEF Requests, StartRequest, StartRejected, StopRequest, loopVars
<1>3. \A x \in Sessions :
        /\ answer[x] \in {"waiting", "ok", "error"} => answer'[x] = answer[x]
        /\ answer'[x] \in {"ok", "error"} => answer[x] = answer'[x]
        /\ step'[x] # "idle" => answer'[x] \in {"waiting", "ok", "error"}
  <2>1. CASE StartRequest(s)
    BY <1>1, <2>1 DEF StartRequest, TypeOK, Progress
  <2>2. CASE StartRejected(s)
    BY <1>1, <2>2 DEF StartRejected, TypeOK, Progress, StepInv
  <2>3. CASE StopRequest(s)
    BY <1>1, <2>3 DEF StopRequest, Progress
  <2> QED
    BY <2>1, <2>2, <2>3 DEF Requests
<1> QED
  BY <1>2, <1>3, QuietStep

LEMMA StorageWaits ==
  ASSUME ApiInv, NEW s \in Sessions, Storage(s)
  PROVE  Waiting' /\ Registered' /\ Progress'
<1>1. TypeOK /\ Progress
  BY DEF ApiInv, ServiceInv
<1>2. UNCHANGED <<micro, promise, registry, answer>>
  BY DEF Storage, MkdirDone, AccessDone, StorageFails, WriteFileDone, ListenOnce,
         loopVars, requestVars
<1>3. \A x \in Sessions : step'[x] # "idle" => step[x] # "idle"
  BY <1>1 DEF Storage, MkdirDone, AccessDone, StorageFails, WriteFileDone, ListenOnce,
              requestVars, TypeOK
<1> QED
  BY <1>1, <1>2, <1>3, QuietStep DEF Progress

LEMMA StillWaits ==
  ASSUME ApiInv, UNCHANGED <<micro, promise, registry, answer, step>>
  PROVE  Waiting' /\ Registered' /\ Progress'
  BY QuietStep DEF ApiInv, Progress

(* The reaction that runs next, and those behind it.                       *)
LEMMA TailWaits ==
  ASSUME ApiInv, NEW r \in Reaction, React(r)
  PROVE  /\ r.sid \in Sessions /\ answer[r.sid] = "waiting" /\ promise[r.sid] # "pending"
         /\ Tail(micro) \in Seq(Reaction)
         /\ \A i \in DOMAIN Tail(micro) :
              /\ Tail(micro)[i].sid \in Sessions /\ Tail(micro)[i].sid # r.sid
              /\ answer[Tail(micro)[i].sid] = "waiting"
              /\ promise[Tail(micro)[i].sid] # "pending"
              /\ \A j \in DOMAIN Tail(micro) :
                   i # j => Tail(micro)[i].sid # Tail(micro)[j].sid
         /\ \A i \in DOMAIN micro :
              \/ micro[i] = r
              \/ \E k \in DOMAIN Tail(micro) : Tail(micro)[k] = micro[i]
<1>1. micro \in Seq(Reaction) /\ micro # <<>> /\ r = Head(micro) /\ TypeOK /\ Waiting
  BY DEF ApiInv, ServiceInv, TypeOK, React
<1>2. /\ Tail(micro) \in Seq(Reaction) /\ Len(Tail(micro)) = Len(micro) - 1
      /\ \A i \in 1..Len(Tail(micro)) : Tail(micro)[i] = micro[i + 1]
  BY <1>1, HeadTailProperties
<1>3. /\ DOMAIN Tail(micro) = 1..Len(Tail(micro)) /\ DOMAIN micro = 1..Len(micro)
      /\ Len(micro) \in Nat /\ Len(micro) > 0 /\ r = micro[1]
  BY <1>1, <1>2, EmptySeq, LenProperties
<1>4. \A i \in DOMAIN Tail(micro) :
        /\ Tail(micro)[i] = micro[i + 1] /\ i + 1 \in DOMAIN micro
        /\ i + 1 # 1 /\ i \in Nat
  BY <1>2, <1>3
<1>5. 1 \in DOMAIN micro
  BY <1>3
<1>6. ASSUME NEW i \in DOMAIN micro
      PROVE  \/ micro[i] = r
             \/ \E k \in DOMAIN Tail(micro) : Tail(micro)[k] = micro[i]
  <2>1. CASE i = 1
    BY <1>3, <2>1
  <2>2. CASE i # 1
    <3>1. i - 1 \in DOMAIN Tail(micro) /\ Tail(micro)[i - 1] = micro[(i - 1) + 1]
      BY <1>2, <1>3, <2>2
    <3>2. (i - 1) + 1 = i
      BY <1>3
    <3> QED
      BY <3>1, <3>2
  <2> QED
    BY <2>1, <2>2
<1>7. ASSUME NEW i \in DOMAIN Tail(micro)
      PROVE  /\ Tail(micro)[i].sid \in Sessions /\ Tail(micro)[i].sid # r.sid
             /\ answer[Tail(micro)[i].sid] = "waiting"
             /\ promise[Tail(micro)[i].sid] # "pending"
  BY <1>1, <1>3, <1>4, <1>5, ReactionType DEF Waiting
<1>8. ASSUME NEW i \in DOMAIN Tail(micro), NEW j \in DOMAIN Tail(micro), i # j
      PROVE  Tail(micro)[i].sid # Tail(micro)[j].sid
  <2>1. i + 1 # j + 1
    BY <1>4, <1>8
  <2> QED
    BY <1>1, <1>4, <2>1 DEF Waiting
<1>9. r.sid \in Sessions /\ answer[r.sid] = "waiting" /\ promise[r.sid] # "pending"
  BY <1>1, <1>3, <1>5, ReactionType DEF Waiting
<1> QED
  BY <1>2, <1>6, <1>7, <1>8, <1>9

(* A reaction is replaced by one of the same session.                      *)
LEMMA ReplaceWaits ==
  ASSUME ApiInv, NEW r \in Reaction, React(r), NEW new \in Reaction,
         r.then \in {"joined", "failed"}, new.sid = r.sid,
         micro' = Append(Tail(micro), new),
         registry' = registry \/ (registry' = registry \cup {r.sid} /\ new.then = "replyOk"),
         UNCHANGED <<answer, promise, step>>
  PROVE  Waiting' /\ Registered' /\ Progress'
<1> DEFINE rest == Tail(micro)
<1>1. /\ r.sid \in Sessions /\ answer[r.sid] = "waiting" /\ promise[r.sid] # "pending"
      /\ rest \in Seq(Reaction)
      /\ \A i \in DOMAIN rest :
           /\ rest[i].sid # r.sid
           /\ answer[rest[i].sid] = "waiting" /\ promise[rest[i].sid] # "pending"
           /\ \A j \in DOMAIN rest : i # j => rest[i].sid # rest[j].sid
      /\ \A i \in DOMAIN micro :
           micro[i] = r \/ \E k \in DOMAIN rest : rest[k] = micro[i]
  BY TailWaits
<1> HIDE DEF rest
<1>2. /\ DOMAIN micro' = 1..(Len(rest) + 1)
      /\ DOMAIN rest = 1..Len(rest) /\ Len(rest) \in Nat
      /\ \A i \in DOMAIN rest : micro'[i] = rest[i]
      /\ micro'[Len(rest) + 1] = new
  BY <1>1, AppendProperties, LenProperties DEF rest
<1>3. \A i \in DOMAIN micro' : i # Len(rest) + 1 => i \in DOMAIN rest
  BY <1>2
<1>4. ASSUME NEW i \in DOMAIN micro'
      PROVE  /\ answer[micro'[i].sid] = "waiting" /\ promise[micro'[i].sid] # "pending"
             /\ \A j \in DOMAIN micro' : i # j => micro'[i].sid # micro'[j].sid
  <2>1. CASE i = Len(rest) + 1
    BY <1>1, <1>2, <1>3, <2>1
  <2>2. CASE i # Len(rest) + 1
    BY <1>1, <1>2, <1>3, <2>2
  <2> QED
    BY <2>1, <2>2
<1>5. Waiting'
  BY <1>4 DEF Waiting
<1>6. ASSUME NEW s \in Sessions, s \in registry'
      PROVE  \/ answer[s] = "ok"
             \/ \E i \in DOMAIN micro' : micro'[i].then = "replyOk" /\ micro'[i].sid = s
  <2>1. CASE s \notin registry
    <3>1. s = r.sid /\ new.then = "replyOk" /\ Len(rest) + 1 \in DOMAIN micro'
      BY <1>2, <1>6, <2>1
    <3> QED
      BY <1>2, <3>1
  <2>2. CASE answer[s] = "ok"
    BY <2>2
  <2>3. ASSUME NEW i \in DOMAIN micro, micro[i].then = "replyOk", micro[i].sid = s
        PROVE  \E k \in DOMAIN micro' : micro'[k].then = "replyOk" /\ micro'[k].sid = s
    <3>1. micro[i] # r
      BY <2>3
    <3>2. PICK k \in DOMAIN rest : rest[k] = micro[i]
      BY <1>1, <3>1
    <3>3. k \in DOMAIN micro' /\ micro'[k] = micro[i]
      BY <1>2, <3>2
    <3> QED
      BY <2>3, <3>3
  <2> QED
    BY <2>1, <2>2, <2>3 DEF ApiInv, Registered
<1>7. Registered'
  BY <1>6 DEF Registered
<1>8. Progress'
  BY DEF ApiInv, Progress
<1> QED
  BY <1>5, <1>7, <1>8

LEMMA AnswerWaits ==
  ASSUME ApiInv, AnswerStart
  PROVE  Waiting' /\ Registered' /\ Progress'
<1> DEFINE rest == Tail(micro)
<1>1. PICK r \in Reaction :
        /\ React(r) /\ r.then \in {"replyOk", "replyError"}
        /\ answer' = [answer EXCEPT ![r.sid] =
                        IF r.then = "replyOk" THEN "ok" ELSE "error"]
        /\ micro' = rest
  BY DEF AnswerStart
<1>2. UNCHANGED <<step, registry, promise>>
  BY DEF AnswerStart
<1>3. TypeOK /\ AnswerInv /\ Registered /\ Progress
  BY DEF ApiInv, ServiceInv
<1>4. /\ r.sid \in Sessions /\ promise[r.sid] # "pending"
      /\ \A i \in DOMAIN rest :
           /\ rest[i].sid \in Sessions /\ rest[i].sid # r.sid
           /\ answer[rest[i].sid] = "waiting" /\ promise[rest[i].sid] # "pending"
           /\ \A j \in DOMAIN rest : i # j => rest[i].sid # rest[j].sid
      /\ \A i \in DOMAIN micro :
           micro[i] = r \/ \E k \in DOMAIN rest : rest[k] = micro[i]
  BY <1>1, TailWaits
<1> HIDE DEF rest
<1>5. \A s \in Sessions : s # r.sid => answer'[s] = answer[s]
  BY <1>1, <1>3 DEF TypeOK
<1>6. answer'[r.sid] = IF r.then = "replyOk" THEN "ok" ELSE "error"
  BY <1>1, <1>3, <1>4 DEF TypeOK
<1>7. Waiting'
  BY <1>1, <1>2, <1>4, <1>5 DEF Waiting
<1>8. ASSUME NEW s \in Sessions, s \in registry
      PROVE  \/ answer'[s] = "ok"
             \/ \E i \in DOMAIN rest : rest[i].then = "replyOk" /\ rest[i].sid = s
  <2>1. CASE s = r.sid
    <3>1. promise[s] = "resolved"
      BY <1>3, <1>8 DEF AnswerInv
    <3>2. Justified(r)
      BY <1>1, NextReaction DEF ApiInv
    <3>3. r.then = "replyOk"
      BY <1>1, <2>1, <3>1, <3>2 DEF Justified
    <3> QED
      BY <1>6, <2>1, <3>3
  <2>2. CASE s # r.sid
    BY <1>3, <1>4, <1>5, <1>8, <2>2 DEF Registered
  <2> QED
    BY <2>1, <2>2
<1>9. Registered'
  BY <1>1, <1>2, <1>8 DEF Registered
<1>10. Progress'
  BY <1>2, <1>3, <1>4, <1>5, <1>6 DEF Progress
<1> QED
  BY <1>7, <1>9, <1>10

LEMMA ReactionWaits ==
  ASSUME ApiInv, RunReaction
  PROVE  Waiting' /\ Registered' /\ Progress'
<1>1. CASE RegisterRecorder
  <2>1. PICK r \in Reaction :
          /\ React(r) /\ r.then = "joined" /\ registry' = registry \cup {r.sid}
          /\ micro' = Append(Tail(micro), [then |-> "replyOk", sid |-> r.sid])
    BY <1>1 DEF RegisterRecorder
  <2>2. [then |-> "replyOk", sid |-> r.sid] \in Reaction
    BY DEF Reaction
  <2>3. UNCHANGED <<answer, promise, step>>
    BY <1>1 DEF RegisterRecorder
  <2> QED
    BY <2>1, <2>2, <2>3, ReplaceWaits
<1>2. CASE RejectStart
  <2>1. PICK r \in Reaction :
          /\ React(r) /\ r.then = "failed"
          /\ micro' = Append(Tail(micro), [then |-> "replyError", sid |-> r.sid])
    BY <1>2 DEF RejectStart
  <2>2. [then |-> "replyError", sid |-> r.sid] \in Reaction
    BY DEF Reaction
  <2>3. UNCHANGED <<answer, promise, step, registry>>
    BY <1>2 DEF RejectStart, requestVars
  <2> QED
    BY <2>1, <2>2, <2>3, ReplaceWaits
<1> QED
  BY <1>1, <1>2, AnswerWaits DEF RunReaction

LEMMA ImmediateWaits ==
  ASSUME ApiInv, RunImmediate
  PROVE  Waiting' /\ Registered' /\ Progress'
<1>1. CASE EmitJoinChannel
  <2>1. PICK e \in Event : Immediate(e) /\ Settle(e.sid, "resolved", "joined")
    BY <1>1 DEF EmitJoinChannel
  <2>2. UNCHANGED <<step, answer, registry>> /\ e.sid \in Sessions
    BY <1>1 DEF EmitJoinChannel, Event
  <2> QED
    BY <2>1, <2>2, SettleWaits
<1>2. CASE EmitError
  <2>1. PICK e \in Event : Immediate(e) /\ Settle(e.sid, "rejected", "failed")
    BY <1>2 DEF EmitError
  <2>2. UNCHANGED <<step, answer, registry>> /\ e.sid \in Sessions
    BY <1>2 DEF EmitError, Event
  <2> QED
    BY <2>1, <2>2, SettleWaits
<1>3. CASE EmitUser
  <2>1. UNCHANGED <<micro, promise, registry, answer, step>>
    BY <1>3 DEF EmitUser, requestVars
  <2> QED
    BY <2>1, StillWaits
<1> QED
  BY <1>1, <1>2, <1>3 DEF RunImmediate

LEMMA ApiInvStep == ApiInv /\ [Next]_serviceVars => ApiInv'
<1> SUFFICES ASSUME ApiInv, [Next]_serviceVars PROVE ApiInv'
  OBVIOUS
<1>1. ServiceInv'
  BY InvStep DEF ApiInv
<1>2. CASE \/ UNCHANGED serviceVars \/ DispatchEvent \/ CheckPhase
           \/ \E s \in Sessions : EngineReports(s)
  <2>1. UNCHANGED <<micro, promise, registry, answer, step>>
    BY <1>2 DEF serviceVars, requestVars, loopVars, DispatchEvent, CheckPhase,
         EngineReports, JoinChannelSuccess, EngineError, LeaveChannel,
         RecoverCoreService, UserJoined, UserOffline
  <2> QED
    BY <1>1, <2>1, StillWaits DEF ApiInv
<1> QED
  BY <1>1, <1>2, RequestWaits, StorageWaits, ImmediateWaits, ReactionWaits
  DEF Next, ApiInv

LEMMA AlwaysApiInv == Spec => []ApiInv
  BY ApiInvInit, ApiInvStep, PTL DEF Spec, Safe

-----------------------------------------------------------------------------
(* Every step of the service is a step of its interface, or none.          *)

LEMMA ApiInit == Init => Api!Init
  BY DEF Init, Api!Init, HasJoined

LEMMA ApiStutter ==
  ASSUME UNCHANGED <<process, answer, engine, stopReply>>
  PROVE  UNCHANGED Api!apiVars
  BY DEF Api!apiVars, HasJoined

LEMMA RequestsKeepApi ==
  ASSUME ApiInv, NEW s \in Sessions, Requests(s)
  PROVE  Api!Next
<1>1. process = "running" /\ UNCHANGED <<process, engine>>
  BY DEF Requests, StartRequest, StartRejected, StopRequest, Polling, engineVars
<1>2. CASE StartRequest(s)
  <2>1. Api!Begin(s)
    BY <1>1, <1>2 DEF StartRequest, Api!Begin, Api!Change, HasJoined
  <2> QED
    BY <1>1, <2>1 DEF Api!Next, Api!Step
<1>3. CASE StartRejected(s)
  <2>1. Api!Reject(s)
    BY <1>1, <1>3 DEF StartRejected, Api!Reject, Api!Change, HasJoined
  <2> QED
    BY <1>1, <2>1 DEF Api!Next, Api!Step
<1>4. CASE StopRequest(s)
  (* A registered session has its answer: no reaction is left to run. *)
  <2>1. micro = <<>>
    BY <1>4 DEF StopRequest, Polling
  <2>2. s \in registry <=> answer[s] = "ok"
    BY <2>1 DEF ApiInv, ServiceInv, AnswerInv, Registered
  <2>3. stopReply' = [stopReply EXCEPT ![s] =
                        IF answer[s] = "ok" \/ stopReply[s] = "ok"
                        THEN "ok" ELSE "refused"]
    BY <1>4, <2>2 DEF StopRequest
  <2>4. \E a \in Api!BestAnswers(s) : stopReply' = [stopReply EXCEPT ![s] = a]
    BY <2>3 DEF Api!BestAnswers
  <2>5. UNCHANGED <<process, answer, engine>>
    BY <1>1, <1>4 DEF StopRequest
  <2>6. Api!Stop(s)
    BY <2>4, <2>5 DEF Api!Stop, HasJoined
  <2> QED
    BY <1>1, <2>6 DEF Api!Next, Api!Step
<1> QED
  BY <1>2, <1>3, <1>4 DEF Requests

LEMMA StorageKeepsApi ==
  ASSUME ApiInv, NEW s \in Sessions, Storage(s)
  PROVE  Api!Next \/ UNCHANGED Api!apiVars
<1>1. CASE StorageFails(s)
  <2>1. Api!Crash
    BY <1>1 DEF StorageFails, requestVars, engineVars, Api!Crash, HasJoined
  <2> QED
    BY <1>1, <2>1 DEF StorageFails, Polling, Api!Next
<1>2. CASE MkdirDone(s) \/ AccessDone(s) \/ ListenOnce(s)
  BY <1>2, ApiStutter DEF MkdirDone, AccessDone, ListenOnce, engineVars
(* A new engine has neither joined nor failed. *)
<1>3. CASE WriteFileDone(s)
  <2>1. TypeOK /\ engine[s] = "absent"
    BY <1>3 DEF ApiInv, ServiceInv, StepInv, WriteFileDone, JoinCalled
  <2>2. UNCHANGED <<process, answer, stopReply>>
    BY <1>3 DEF WriteFileDone
  <2>3. \/ engine' = engine
        \/ \E o \in {"absent", "refused", "joining"} :
             engine' = [engine EXCEPT ![s] = o]
    BY <1>3 DEF WriteFileDone, NativeJoin
  <2>4. \A x \in Sessions : /\ HasJoined(x)' <=> HasJoined(x)
                            /\ engine'[x] = "failed" <=> engine[x] = "failed"
                            /\ engine'[x] = "stopped" <=> engine[x] = "stopped"
    BY <2>1, <2>3 DEF TypeOK, HasJoined
  <2> QED
    BY <2>2, <2>4 DEF Api!apiVars
<1> QED
  BY <1>1, <1>2, <1>3 DEF Storage

LEMMA EngineKeepsApi ==
  ASSUME ApiInv, NEW s \in Sessions, EngineReports(s)
  PROVE  Api!Next \/ UNCHANGED Api!apiVars
<1>1. TypeOK
  BY DEF ApiInv, ServiceInv
<1>2. process = "running" /\ UNCHANGED <<process, answer, stopReply>>
  BY DEF EngineReports, JoinChannelSuccess, EngineError, LeaveChannel,
         RecoverCoreService, UserJoined, UserOffline, requestVars
(* An engine that is joining or was refused has a start that waits. *)
<1>3. engine[s] \in {"joining", "refused"} => answer[s] = "waiting"
  <2> SUFFICES ASSUME engine[s] \in {"joining", "refused"} PROVE answer[s] = "waiting"
    OBVIOUS
  <2>1. step[s] # "idle"
    BY DEF ApiInv, ServiceInv, StepInv, JoinCalled
  <2>2. promise[s] = "pending"
    BY <1>1 DEF ApiInv, ServiceInv, PromiseInv, HasJoined, TypeOK
  <2> QED
    BY <2>1, <2>2 DEF ApiInv, Progress
<1>4. CASE JoinChannelSuccess(s)
  <2>1. engine[s] = "joining" /\ engine' = [engine EXCEPT ![s] = "inChannel"]
    BY <1>4 DEF JoinChannelSuccess
  <2>2. /\ \A x \in Sessions : HasJoined(x)' <=> HasJoined(x) \/ x = s
        /\ \A x \in Sessions : engine'[x] = "failed" <=> engine[x] = "failed"
        /\ \A x \in Sessions : engine'[x] = "stopped" <=> engine[x] = "stopped"
        /\ ~HasJoined(s) /\ engine[s] # "failed"
    BY <1>1, <2>1 DEF TypeOK, HasJoined
  <2>3. Api!Join(s)
    BY <1>2, <1>3, <2>1, <2>2 DEF Api!Join
  <2> QED
    BY <1>2, <2>3 DEF Api!Next, Api!Step
<1>5. CASE EngineError(s) /\ engine[s] = "inChannel"
  <2>1. engine' = [engine EXCEPT ![s] = "stopped"]
    BY <1>5 DEF EngineError
  <2>2. /\ \A x \in Sessions : HasJoined(x)' <=> HasJoined(x)
        /\ \A x \in Sessions : engine'[x] = "failed" <=> engine[x] = "failed"
        /\ \A x \in Sessions :
             engine'[x] = "stopped" <=> engine[x] = "stopped" \/ x = s
        /\ HasJoined(s) /\ engine[s] # "stopped"
    BY <1>1, <1>5, <2>1 DEF TypeOK, HasJoined
  <2>3. Api!Break(s)
    BY <1>2, <2>2 DEF Api!Break
  <2> QED
    BY <1>2, <2>3 DEF Api!Next, Api!Step
<1>6. CASE EngineError(s) /\ engine[s] # "inChannel"
  <2>1. /\ engine[s] \in {"joining", "refused"}
        /\ engine' = [engine EXCEPT ![s] = "failed"]
    BY <1>6 DEF EngineError
  <2>2. /\ \A x \in Sessions : HasJoined(x)' <=> HasJoined(x)
        /\ \A x \in Sessions : engine'[x] = "failed" <=> engine[x] = "failed" \/ x = s
        /\ \A x \in Sessions : engine'[x] = "stopped" <=> engine[x] = "stopped"
        /\ ~HasJoined(s) /\ engine[s] # "failed"
    BY <1>1, <2>1 DEF TypeOK, HasJoined
  <2>3. Api!GiveUp(s)
    BY <1>2, <1>3, <2>1, <2>2 DEF Api!GiveUp
  <2> QED
    BY <1>2, <2>3 DEF Api!Next, Api!Step
<1>7. CASE LeaveChannel(s)
  <2>1. engine[s] = "inChannel" /\ engine' = [engine EXCEPT ![s] = "left"]
    BY <1>7 DEF LeaveChannel
  <2>2. \A x \in Sessions : /\ HasJoined(x)' <=> HasJoined(x)
                            /\ engine'[x] = "failed" <=> engine[x] = "failed"
                            /\ engine'[x] = "stopped" <=> engine[x] = "stopped"
    BY <1>1, <2>1 DEF TypeOK, HasJoined
  <2> QED
    BY <1>2, <2>2 DEF Api!apiVars
<1>8. CASE RecoverCoreService(s) \/ \E u \in Users : UserJoined(s, u) \/ UserOffline(s, u)
  BY <1>2, <1>8, ApiStutter DEF RecoverCoreService, UserJoined, UserOffline
<1> QED
  BY <1>4, <1>5, <1>6, <1>7, <1>8 DEF EngineReports

(* An answer is the truth about the engine, by Justified and PromiseInv. *)
LEMMA AnswerKeepsApi ==
  ASSUME ApiInv, AnswerStart
  PROVE  Api!Next
<1>1. PICK r \in Reaction :
        /\ React(r) /\ r.then \in {"replyOk", "replyError"}
        /\ answer' = [answer EXCEPT ![r.sid] =
                        IF r.then = "replyOk" THEN "ok" ELSE "error"]
  BY DEF AnswerStart
<1>2. process = "running" /\ UNCHANGED <<process, engine, stopReply>>
  BY <1>1 DEF AnswerStart, React, engineVars
<1>3. r.sid \in Sessions /\ answer[r.sid] = "waiting"
  BY <1>1, TailWaits
<1>4. Justified(r)
  BY <1>1, NextReaction DEF ApiInv
<1>5. CASE r.then = "replyOk"
  <2>1. HasJoined(r.sid)
    BY <1>3, <1>4, <1>5 DEF Justified, ApiInv, ServiceInv, PromiseInv
  <2>2. Api!Confirm(r.sid)
    BY <1>1, <1>2, <1>3, <1>5, <2>1 DEF Api!Confirm, Api!Change, HasJoined
  <2> QED
    BY <1>2, <1>3, <2>2 DEF Api!Next, Api!Step
<1>6. CASE r.then = "replyError"
  <2>1. engine[r.sid] = "failed"
    BY <1>3, <1>4, <1>6 DEF Justified, ApiInv, ServiceInv, PromiseInv
  <2>2. Api!Fail(r.sid)
    BY <1>1, <1>2, <1>3, <1>6, <2>1 DEF Api!Fail, Api!Change, HasJoined
  <2> QED
    BY <1>2, <1>3, <2>2 DEF Api!Next, Api!Step
<1> QED
  BY <1>1, <1>5, <1>6

LEMMA StepKeepsApi ==
  ASSUME ApiInv, [Next]_serviceVars
  PROVE  [Api!Next]_(Api!apiVars)
<1>1. CASE \/ UNCHANGED serviceVars \/ DispatchEvent \/ CheckPhase
           \/ RunImmediate \/ RegisterRecorder \/ RejectStart
  <2>1. UNCHANGED <<process, answer, engine, stopReply>>
    BY <1>1 DEF serviceVars, requestVars, engineVars, DispatchEvent, CheckPhase,
         RunImmediate, EmitJoinChannel, EmitError, EmitUser, RegisterRecorder,
         RejectStart
  <2> QED
    BY <2>1, ApiStutter
<1> QED
  BY <1>1, RequestsKeepApi, StorageKeepsApi, EngineKeepsApi, AnswerKeepsApi
  DEF Next, RunReaction

(* The service implements RecorderApi: at most one answer to a start,      *)
(* success only once the engine has joined, failure only when it never     *)
(* will, and a stop that succeeds for a start answered with success, and   *)
(* for no other, unless the recorder was stopped before or its engine has  *)
(* failed (app.js:26-61, recordManager.js:33-63 and 134-143).              *)
THEOREM ServiceKeepsApi == Spec => KeepsApi
<1>1. Init => Api!Init
  BY ApiInit
<1>2. ApiInv /\ [Next]_serviceVars => [Api!Next]_(Api!apiVars)
  BY StepKeepsApi
<1> QED
  BY <1>1, <1>2, AlwaysApiInv, PTL DEF Spec, Safe, KeepsApi, Api!Spec
=============================================================================
