-------------------------- MODULE RecorderService --------------------------
(***************************************************************************)
(* The recording service of one Node.js process: the REST handlers of      *)
(* app.js, RecordManager, the AgoraRecordSdk wrapper and the event side of *)
(* the native addon, for a set of start requests, each with its own sid.   *)
(*                                                                         *)
(* Engine threads hand events to the JavaScript thread through the one     *)
(* queue of AsyncQueue, here the FIFO "events".  The wrapper re-fires each *)
(* event with setImmediate ("fired"); a check phase of the event loop runs *)
(* the immediates it finds ("batch"); promise reactions wait in "micro".   *)
(* Since Node 11 reactions run after every callback; in Node 8.9.1, the    *)
(* version the Dockerfile installs, they run when the batch is over.       *)
(*                                                                         *)
(* The regions on the canvas are the business of MixLayout, which extends  *)
(* this module.                                                            *)
(***************************************************************************)
EXTENDS Naturals, Sequences

CONSTANTS
  Sessions,               \* start requests, named by their sid
  Users,                  \* uids of the users in the channels
  Nobody,                 \* the uid of an event about no user
  MicrotasksPerCallback,  \* TRUE: Node 11 and later; FALSE: Node 8
  MaxReports,             \* bound: onUserJoined callbacks per session
  MaxPending,             \* bound: events on their way when a user event comes
  MaxRecoveries           \* bound: core service recoveries per session

ASSUME NobodyIsNoUser == Nobody \notin Users
ASSUME NodeVersionIsKnown == MicrotasksPerCallback \in BOOLEAN
ASSUME BoundsAreNaturals ==
  MaxReports \in Nat /\ MaxPending \in Nat /\ MaxRecoveries \in Nat

VARIABLES
  process,      \* the Node.js process
  step,         \* how far the start of a session got
  answer,       \* the response to the start request
  stopReply,    \* the best response to a stop request so far
  registry,     \* the sids in RecordManager.recorders
  promise,      \* the promise of AgoraRecordSdk.joinChannel
  canvas,       \* width and height in m_layout of the native object
  events,       \* the queue from the engine threads to JavaScript
  fired,        \* immediates set and not yet in a check phase
  batch,        \* immediates of the running check phase
  micro,        \* promise reactions waiting to run
  engine,       \* the native engine behind a session
  present,      \* users the engine has reported and not taken back
  reports,      \* onUserJoined callbacks so far
  recoveries    \* core service recoveries so far

requestVars == <<step, answer, stopReply, registry, promise, canvas>>
loopVars == <<events, fired, batch, micro>>
engineVars == <<engine, present, reports, recoveries>>
serviceVars == <<process, requestVars, loopVars, engineVars>>

Kinds == {"joinchannel", "error", "userjoin", "userleave", "leavechannel"}

Event == [kind : Kinds, sid : Sessions, uid : Users \cup {Nobody}]

Reaction == [then : {"joined", "failed", "replyOk", "replyError"},
             sid : Sessions]

(* Mutant of Subscribed: no handler for errors. *)
SubscribedButError == Kinds \ {"leavechannel", "error"}

(* The events AgoraRecordSdk subscribes to: it has no handler for          *)
(* leavechannel, so the native dispatch of that event calls nothing.       *)
Subscribed == Kinds \ {"leavechannel"}

(* The canvas RecordManager asks for, and the table of the native object.  *)
Canvas == <<640, 480>>

Resolutions ==
  {<<3840, 2160>>, <<2560, 1440>>, <<1920, 1080>>, <<1280, 720>>, <<960, 720>>,
   <<848, 480>>, <<640, 480>>, <<480, 480>>, <<640, 360>>, <<360, 360>>,
   <<424, 240>>, <<320, 240>>, <<240, 240>>, <<320, 180>>, <<240, 180>>,
   <<180, 180>>, <<160, 120>>, <<120, 120>>}

(* The events on their way from an engine to the handlers, oldest first. *)
Pipe == batch \o fired \o events

(* A callback hands an event to the JavaScript thread. *)
Emit(kind, s, u) ==
  events' = Append(events, [kind |-> kind, sid |-> s, uid |-> u])

Init ==
  /\ process = "running"
  /\ step = [s \in Sessions |-> "idle"]
  /\ answer = [s \in Sessions |-> "none"]
  /\ stopReply = [s \in Sessions |-> "none"]
  /\ registry = {}
  /\ promise = [s \in Sessions |-> "pending"]
  /\ canvas = [s \in Sessions |-> <<0, 0>>]
  /\ events = <<>>
  /\ fired = <<>>
  /\ batch = <<>>
  /\ micro = <<>>
  /\ engine = [s \in Sessions |-> "absent"]
  /\ present = [s \in Sessions |-> {}]
  /\ reports = [s \in Sessions |-> 0]
  /\ recoveries = [s \in Sessions |-> 0]

-----------------------------------------------------------------------------
(* Mutant of Polling: the callback that joins is interrupted before it has *)
(* registered the once-listeners.                                          *)
PollingHalfway ==
  /\ process = "running"
  /\ batch = <<>>
  /\ micro = <<>>

(* The event loop may take a request, a file system callback or a queue    *)
(* wake-up only between check phases, with no reaction left to run and no  *)
(* callback half done: "joinCalled" is the middle of a callback.           *)
Polling ==
  /\ process = "running"
  /\ batch = <<>>
  /\ micro = <<>>
  /\ \A s \in Sessions : step[s] # "joinCalled"

(* POST /recorder/v1/start: RecordManager.start draws a sid and creates    *)
(* its storage directory.                                                  *)
StartRequest(s) ==
  /\ Polling
  /\ answer[s] = "none"
  /\ answer' = [answer EXCEPT ![s] = "waiting"]
  /\ step' = [step EXCEPT ![s] = "mkdir"]
  /\ UNCHANGED <<process, stopReply, registry, promise, canvas, loopVars, engineVars>>

(* A start request without appid or channel throws into the error handler. *)
StartRejected(s) ==
  /\ Polling
  /\ answer[s] = "none"
  /\ answer' = [answer EXCEPT ![s] = "invalid"]
  /\ UNCHANGED <<process, step, stopReply, registry, promise, canvas, loopVars,
                 engineVars>>

(* onCleanup looks the recorder up and logs: the lines that make it leave  *)
(* its channel and delete it from the registry are commented out.          *)
onCleanup(s) == UNCHANGED <<registry, engine>>

(* POST /recorder/v1/stop: a registered recorder is cleaned up. *)
StopRequest(s) ==
  /\ Polling
  /\ stopReply' = [stopReply EXCEPT ![s] =
                     IF s \in registry \/ @ = "ok" THEN "ok" ELSE "refused"]
  /\ onCleanup(s)
  /\ UNCHANGED <<process, step, answer, promise, canvas, loopVars, present,
                 reports, recoveries>>

(* Mutant of MkdirDone: the width of the canvas is used as its height. *)
MkdirDoneSquare(s) ==
  /\ Polling
  /\ step[s] = "mkdir"
  /\ step' = [step EXCEPT ![s] = "access"]
  /\ canvas' = [canvas EXCEPT ![s] = <<Canvas[1], Canvas[1]>>]
  /\ UNCHANGED <<process, answer, stopReply, registry, promise, loopVars,
                 engineVars>>

(* mkdir succeeded: the wrapper and its native object are created, the     *)
(* empty layout is set, event handlers are subscribed and joinChannel asks *)
(* for access to the folder.                                               *)
MkdirDone(s) ==
  /\ Polling
  /\ step[s] = "mkdir"
  /\ step' = [step EXCEPT ![s] = "access"]
  /\ canvas' = [canvas EXCEPT ![s] = Canvas]
  /\ UNCHANGED <<process, answer, stopReply, registry, promise, loopVars,
                 engineVars>>

AccessDone(s) ==
  /\ Polling
  /\ step[s] = "access"
  /\ step' = [step EXCEPT ![s] = "write"]
  /\ UNCHANGED <<process, answer, stopReply, registry, promise, canvas, loopVars,
                 engineVars>>

(* An error of mkdir or access is thrown from the callback: nothing        *)
(* catches it and the process ends, with every recorder in it.             *)
StorageFails(s) ==
  /\ Polling
  /\ step[s] \in {"mkdir", "access"}
  /\ process' = "crashed"
  /\ UNCHANGED <<requestVars, loopVars, engineVars>>

(* The native joinChannel.  A canvas that is not in the table of           *)
(* resolutions is reported as an error event, without an engine; otherwise *)
(* no engine could be created, or it refused to join, or it is joining.    *)
NativeJoin(s) ==
  IF canvas[s] \in Resolutions
  THEN /\ \E o \in {"absent", "refused", "joining"} :
            engine' = [engine EXCEPT ![s] = o]
       /\ UNCHANGED events
  ELSE /\ Emit("error", s, Nobody)
       /\ UNCHANGED engine

(* cfg.json written, or not: an error is ignored.  The native joinChannel  *)
(* is called and its result is not looked at.  From here on the engine may *)
(* report on its own threads.                                              *)
WriteFileDone(s) ==
  /\ Polling
  /\ step[s] = "write"
  /\ step' = [step EXCEPT ![s] = "joinCalled"]
  /\ NativeJoin(s)
  /\ UNCHANGED <<process, answer, stopReply, registry, promise, canvas, fired,
                 batch, micro, present, reports, recoveries>>

(* Only then the same callback registers the once-listeners that settle    *)
(* the promise.                                                            *)
ListenOnce(s) ==
  /\ process = "running"
  /\ step[s] = "joinCalled"
  /\ step' = [step EXCEPT ![s] = "listening"]
  /\ UNCHANGED <<process, answer, stopReply, registry, promise, canvas, loopVars,
                 engineVars>>

-----------------------------------------------------------------------------
(* Callbacks of the engine, on its own threads.                            *)

JoinChannelSuccess(s) ==
  /\ process = "running"
  /\ engine[s] = "joining"
  /\ engine' = [engine EXCEPT ![s] = "inChannel"]
  /\ Emit("joinchannel", s, Nobody)
  /\ UNCHANGED <<process, requestVars, fired, batch, micro, present, reports,
                 recoveries>>

(* onErrorImpl stops the engine, then hands the error over. *)
EngineError(s) ==
  /\ process = "running"
  /\ engine[s] \in {"joining", "refused", "inChannel"}
  /\ engine' = [engine EXCEPT ![s] =
                  IF @ = "inChannel" THEN "stopped" ELSE "failed"]
  /\ Emit("error", s, Nobody)
  /\ UNCHANGED <<process, requestVars, fired, batch, micro, present, reports,
                 recoveries>>

(* The engine leaves by itself when the channel has been idle for          *)
(* idleLimitSec seconds.                                                   *)
LeaveChannel(s) ==
  /\ process = "running"
  /\ engine[s] = "inChannel"
  /\ present[s] = {}
  /\ engine' = [engine EXCEPT ![s] = "left"]
  /\ Emit("leavechannel", s, Nobody)
  /\ UNCHANGED <<process, requestVars, fired, batch, micro, present, reports,
                 recoveries>>

UserJoined(s, u) ==
  /\ process = "running"
  /\ engine[s] = "inChannel"
  /\ u \notin present[s]
  /\ reports[s] < MaxReports
  /\ Len(Pipe) < MaxPending
  /\ reports' = [reports EXCEPT ![s] = @ + 1]
  /\ present' = [present EXCEPT ![s] = @ \cup {u}]
  /\ Emit("userjoin", s, u)
  /\ UNCHANGED <<process, requestVars, fired, batch, micro, engine, recoveries>>

UserOffline(s, u) ==
  /\ process = "running"
  /\ engine[s] = "inChannel"
  /\ u \in present[s]
  /\ Len(Pipe) < MaxPending
  /\ present' = [present EXCEPT ![s] = @ \ {u}]
  /\ Emit("userleave", s, u)
  /\ UNCHANGED <<process, requestVars, fired, batch, micro, engine, reports,
                 recoveries>>

(* The core service failed and was recovered: onWarningImpl only logs, and *)
(* the engine will report the users of the channel again.  Without users   *)
(* nothing changes.                                                        *)
RecoverCoreService(s) ==
  /\ process = "running"
  /\ engine[s] = "inChannel"
  /\ present[s] # {}
  /\ recoveries[s] < MaxRecoveries
  /\ recoveries' = [recoveries EXCEPT ![s] = @ + 1]
  /\ present' = [present EXCEPT ![s] = {}]
  /\ UNCHANGED <<process, requestVars, loopVars, engine, reports>>

-----------------------------------------------------------------------------
(* The JavaScript thread.                                                  *)

(* One round of on_event: the native dispatch calls the wrapper's handler, *)
(* which re-fires the event with setImmediate.                             *)
DispatchEvent ==
  /\ Polling
  /\ events # <<>>
  /\ events' = Tail(events)
  /\ fired' = IF Head(events).kind \in Subscribed
              THEN Append(fired, Head(events))
              ELSE fired
  /\ UNCHANGED <<process, requestVars, batch, micro, engineVars>>

CheckPhase ==
  /\ Polling
  /\ fired # <<>>
  /\ batch' = fired
  /\ fired' = <<>>
  /\ UNCHANGED <<process, requestVars, events, micro, engineVars>>

(* The next immediate of the batch emits event e. *)
Immediate(e) ==
  /\ process = "running"
  /\ batch # <<>>
  /\ MicrotasksPerCallback => micro = <<>>
  /\ e = Head(batch)
  /\ batch' = Tail(batch)

(* Mutant of Settle: the listeners settle the promise every time. *)
SettleAgain(s, state, reaction) ==
  /\ promise' = [promise EXCEPT ![s] = state]
  /\ micro' = Append(micro, [then |-> reaction, sid |-> s])

(* A once-listener settles the promise, which queues its reaction; a       *)
(* settled promise stays as it is.                                         *)
Settle(s, state, reaction) ==
  IF promise[s] = "pending" /\ step[s] = "listening"
  THEN /\ promise' = [promise EXCEPT ![s] = state]
       /\ micro' = Append(micro, [then |-> reaction, sid |-> s])
  ELSE UNCHANGED <<promise, micro>>

(* The once-listener of joinChannel resolves. *)
EmitJoinChannel ==
  \E e \in Event :
    /\ Immediate(e)
    /\ e.kind = "joinchannel"
    /\ Settle(e.sid, "resolved", "joined")
    /\ UNCHANGED <<process, step, answer, stopReply, registry, canvas, events,
                   fired, engineVars>>

(* RecordManager's listener cleans the recorder up and the once-listener   *)
(* rejects.                                                                *)
EmitError ==
  \E e \in Event :
    /\ Immediate(e)
    /\ e.kind = "error"
    /\ onCleanup(e.sid)
    /\ Settle(e.sid, "rejected", "failed")
    /\ UNCHANGED <<process, step, answer, stopReply, canvas, events, fired,
                   present, reports, recoveries>>

(* userjoin and userleave change the regions of the session, and nothing   *)
(* of the state in this module.                                            *)
EmitUser ==
  \E e \in Event :
    /\ Immediate(e)
    /\ e.kind \in {"userjoin", "userleave"}
    /\ UNCHANGED <<process, requestVars, events, fired, micro, engineVars>>

(* A reaction runs when the callback, or the whole batch, is over. *)
React(r) ==
  /\ process = "running"
  /\ micro # <<>>
  /\ MicrotasksPerCallback \/ batch = <<>>
  /\ r = Head(micro)

(* Mutant of RegisterRecorder: the start is answered and not registered. *)
ResolveOnly ==
  \E r \in Reaction :
    /\ React(r)
    /\ r.then = "joined"
    /\ micro' = Append(Tail(micro), [then |-> "replyOk", sid |-> r.sid])
    /\ UNCHANGED <<process, requestVars, events, fired, batch, engineVars>>

(* The recorder is registered and the promise of start resolved. *)
RegisterRecorder ==
  \E r \in Reaction :
    /\ React(r)
    /\ r.then = "joined"
    /\ registry' = registry \cup {r.sid}
    /\ micro' = Append(Tail(micro), [then |-> "replyOk", sid |-> r.sid])
    /\ UNCHANGED <<process, step, answer, stopReply, promise, canvas, events,
                   fired, batch, engineVars>>

(* The promise of start is rejected in turn. *)
RejectStart ==
  \E r \in Reaction :
    /\ React(r)
    /\ r.then = "failed"
    /\ micro' = Append(Tail(micro), [then |-> "replyError", sid |-> r.sid])
    /\ UNCHANGED <<process, requestVars, events, fired, batch, engineVars>>

(* The response to the start request. *)
AnswerStart ==
  \E r \in Reaction :
    /\ React(r)
    /\ r.then \in {"replyOk", "replyError"}
    /\ answer' = [answer EXCEPT ![r.sid] =
                    IF r.then = "replyOk" THEN "ok" ELSE "error"]
    /\ micro' = Tail(micro)
    /\ UNCHANGED <<process, step, stopReply, registry, promise, canvas, events,
                   fired, batch, engineVars>>

-----------------------------------------------------------------------------
Requests(s) == StartRequest(s) \/ StartRejected(s) \/ StopRequest(s)

Storage(s) ==
  \/ MkdirDone(s) \/ AccessDone(s) \/ StorageFails(s)
  \/ WriteFileDone(s) \/ ListenOnce(s)

EngineReports(s) ==
  \/ JoinChannelSuccess(s)
  \/ EngineError(s)
  \/ LeaveChannel(s)
  \/ RecoverCoreService(s)
  \/ \E u \in Users : UserJoined(s, u) \/ UserOffline(s, u)

RunImmediate == EmitJoinChannel \/ EmitError \/ EmitUser

RunReaction == RegisterRecorder \/ RejectStart \/ AnswerStart

Next ==
  \/ \E s \in Sessions : Requests(s) \/ Storage(s) \/ EngineReports(s)
  \/ DispatchEvent
  \/ CheckPhase
  \/ RunImmediate
  \/ RunReaction

(* The loop never stops while there is work: it polls the queue, runs its  *)
(* check phases and reactions, and file system calls complete.  An engine  *)
(* that is joining reports success or an error in the end.                 *)
Fairness ==
  /\ WF_serviceVars(DispatchEvent)
  /\ WF_serviceVars(CheckPhase)
  /\ WF_serviceVars(RunImmediate)
  /\ WF_serviceVars(RunReaction)
  /\ \A s \in Sessions :
       /\ WF_serviceVars(Storage(s))
       /\ WF_serviceVars(engine[s] = "joining"
                           /\ (JoinChannelSuccess(s) \/ EngineError(s)))

Safe == Init /\ [][Next]_serviceVars

Spec == Safe /\ Fairness

-----------------------------------------------------------------------------
(* Properties *)

TypeOK ==
  /\ process \in {"running", "crashed"}
  /\ step \in [Sessions -> {"idle", "mkdir", "access", "write", "joinCalled",
                       "listening"}]
  /\ answer \in [Sessions -> {"none", "waiting", "invalid", "ok", "error"}]
  /\ stopReply \in [Sessions -> {"none", "ok", "refused"}]
  /\ registry \subseteq Sessions
  /\ promise \in [Sessions -> {"pending", "resolved", "rejected"}]
  /\ canvas \in [Sessions -> {<<0, 0>>, Canvas}]
  /\ events \in Seq(Event)
  /\ fired \in Seq(Event)
  /\ batch \in Seq(Event)
  /\ micro \in Seq(Reaction)
  /\ engine \in [Sessions -> {"absent", "refused", "joining", "inChannel",
                              "failed", "left", "stopped"}]
  /\ present \in [Sessions -> SUBSET Users]
  /\ reports \in [Sessions -> 0..MaxReports]
  /\ recoveries \in [Sessions -> 0..MaxRecoveries]

(* The engine of a session has been in its channel. *)
HasJoined(s) == engine[s] \in {"inChannel", "left", "stopped"}

(* A start request answered with success has an engine that did join, and  *)
(* its recorder is registered, so that it can be stopped, at least until   *)
(* it was stopped or its engine failed; one answered with an error has an  *)
(* engine that failed without ever joining: an error reported after the    *)
(* join cannot overtake it on the way through the queue and the immediates.*)
StartAnswerTruthful ==
  \A s \in Sessions :
    /\ answer[s] = "ok" =>
         /\ HasJoined(s)
         /\ stopReply[s] # "ok" /\ engine[s] # "stopped" => s \in registry
    /\ answer[s] = "error" => s \notin registry /\ engine[s] = "failed"

(* The once-listeners of joinChannel are registered only after the native  *)
(* call, while the engine may report from its own thread at once.  The     *)
(* event may be queued before the listeners are there, but it is never     *)
(* taken out of the queue, let alone emitted, before.                      *)
ListenersBeforeEvents ==
  \A i \in DOMAIN (batch \o fired) : step[(batch \o fired)[i].sid] = "listening"

(* Once the native engine is joining, the start request is answered,       *)
(* unless the process crashes because of the storage of some session.      *)
JoiningIsAnswered ==
  \A s \in Sessions :
    engine[s] = "joining" ~> answer[s] \in {"ok", "error"} \/ process = "crashed"

(* The service keeps the promises of its REST interface. *)
Api == INSTANCE RecorderApi
         WITH status <- answer,
              joined <- {s \in Sessions : HasJoined(s)},
              dead <- {s \in Sessions : engine[s] = "failed"},
              broken <- {s \in Sessions : engine[s] = "stopped"},
              stopStatus <- stopReply

KeepsApi == Api!Spec

(* Claims of the documentation that the code does not keep. *)

(* README: the sid is needed to stop the recorder; RecordManager: "clear   *)
(* recorder if error received".  A recorder that was stopped with success, *)
(* or whose engine failed, is cleared: it is out of its channel and out of *)
(* the registry, now or later.                                             *)
CleanupEnds ==
  \A s \in Sessions :
    stopReply[s] = "ok" \/ (s \in registry /\ engine[s] = "stopped")
      ~> s \notin registry /\ engine[s] # "inChannel"

(* app.js answers a start that fails.  Every valid start request is        *)
(* answered, unless the process crashes.                                   *)
StartIsAnswered ==
  \A s \in Sessions :
    answer[s] = "waiting" ~> answer[s] # "waiting" \/ process = "crashed"
=============================================================================
