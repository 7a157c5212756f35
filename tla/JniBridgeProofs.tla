--------------------------- MODULE JniBridgeProofs ---------------------------
(***************************************************************************)
(* Proofs about JniBridge: the handle Java holds, the threads of the engine *)
(* and the arrays they share, and what Java asks the engine for, for any    *)
(* sets of threads, arguments, layouts and frames.                          *)
(***************************************************************************)
EXTENDS JniBridge, FiniteSetTheorems, TLAPS

-----------------------------------------------------------------------------
(* The handle *)

(* Where createChannel is while Java may hold a handle or be inside a       *)
(* leaveChannel that found one.                                             *)
Reachable == {"path", "loop", "stopProc"}
Leaving == {"reading", "clearing", "leaving"}

(* The object lives until createChannel has returned, its engine from the   *)
(* creation to the release; a leaving thread holds the monitor, so that     *)
(* stopJavaProc waits for it.                                               *)
HandleInv ==
    /\ DOMAIN calls = Callers
    /\ pc # "returned" => object = "alive"
    /\ pc \in {"joining", "handOver", "leave", "release"} \union Reachable => pointer
    /\ handle => pc \in Reachable
    /\ \A t \in Callers :
         calls[t].at \in Leaving => monitor = t /\ pc \in Reachable

LEMMA HandleInit == Init => HandleInv
  BY DEF Init, HandleInv, Idle, Reachable, Leaving

LEMMA HandleSession ==
  ASSUME HandleInv, Session
  PROVE  HandleInv'
<1> USE DEF HandleInv, Reachable, Leaving, At, Goto, javaVars
<1>1. CASE CheckArguments
  BY <1>1 DEF CheckArguments
<1>2. CASE initialize \/ Configure
  BY <1>2 DEF initialize, Configure
<1>3. CASE CreateEngine
  BY <1>3 DEF CreateEngine
<1>4. CASE Join
  BY <1>4 DEF Join
<1>5. CASE nativeObjectRef \/ setJavaRecordingPath \/ TestStopped
  BY <1>5 DEF nativeObjectRef, setJavaRecordingPath, TestStopped
<1>6. CASE stopJavaProc
  <2>1. \A t \in Callers : calls[t].at \notin Leaving
    BY <1>6, NoneAssumption DEF stopJavaProc
  <2> QED
    BY <1>6, <2>1 DEF stopJavaProc
<1>7. CASE Leave \/ release \/ DestroyBridge \/ Destroy
  BY <1>7 DEF Leave, leaveChannel, release, DestroyBridge, Destroy
<1> QED
  BY <1>1, <1>2, <1>3, <1>4, <1>5, <1>6, <1>7 DEF Session

(* A call that is not leaveChannel changes neither the handle nor the       *)
(* monitor, and ends as an idle thread.                                     *)
LEMMA HandleCallReturns ==
  ASSUME HandleInv, NEW t \in Callers, CallReturns(t)
  PROVE  HandleInv'
  BY DEF HandleInv, Reachable, Leaving, CallReturns, Idle

LEMMA JavaCases ==
  ASSUME Java
  PROVE  \E t \in Callers :
           \/ EnterLeave(t) \/ ReadHandle(t) \/ ClearHandle(t) \/ NativeLeave(t)
           \/ Call(t)
           \/ setVideoMixingLayout(t) \/ updateWatermarkConfigs(t) \/ setLogLevel(t)
           \/ updateSubscribeUids(t) \/ getProperties(t) \/ forward(t)
  BY Zenon DEF Java, LeaveGoesOn

(* What every call that is not leaveChannel does when it returns. *)
LEMMA NativeReturns ==
  ASSUME NEW t \in Callers,
         \/ setVideoMixingLayout(t) \/ updateWatermarkConfigs(t) \/ setLogLevel(t)
         \/ updateSubscribeUids(t) \/ getProperties(t) \/ forward(t)
  PROVE  CallReturns(t)
  BY DEF setVideoMixingLayout, updateWatermarkConfigs, setLogLevel, updateSubscribeUids,
         getProperties, forward

LEMMA HandleJava ==
  ASSUME HandleInv, Java
  PROVE  HandleInv'
<1> USE DEF HandleInv, Reachable, Leaving, sessionVars
<1> PICK t \in Callers :
      \/ EnterLeave(t) \/ ReadHandle(t) \/ ClearHandle(t) \/ NativeLeave(t)
      \/ Call(t)
      \/ setVideoMixingLayout(t) \/ updateWatermarkConfigs(t) \/ setLogLevel(t)
      \/ updateSubscribeUids(t) \/ getProperties(t) \/ forward(t)
  BY JavaCases
<1>1. CASE EnterLeave(t)
  <2>1. \A u \in Callers : calls[u].at \notin Leaving
    BY <1>1, NoneAssumption DEF EnterLeave
  <2> QED
    BY <1>1, <2>1 DEF EnterLeave
<1>2. CASE ReadHandle(t) \/ ClearHandle(t)
  <2>1. \A u \in Callers : u # t => calls[u].at \notin Leaving
    BY <1>2 DEF ReadHandle, ClearHandle
  <2>2. calls[t].at \in Leaving /\ UNCHANGED <<pc, object, pointer, monitor>>
    BY <1>2 DEF ReadHandle, ClearHandle
  <2>3. handle' => handle
    BY <1>2 DEF ReadHandle, ClearHandle
  <2>4. DOMAIN calls' = Callers /\ \A u \in Callers : u # t => calls'[u] = calls[u]
    BY <1>2 DEF ReadHandle, ClearHandle
  <2> QED
    BY <2>1, <2>2, <2>3, <2>4
<1>3. CASE NativeLeave(t)
  <2>1. \A u \in Callers : u # t => calls[u].at \notin Leaving
    BY <1>3 DEF NativeLeave
  <2> QED
    BY <1>3, <2>1 DEF NativeLeave, Idle
<1>4. CASE Call(t)
  <2>1. PICK r \in Requests : calls' = [calls EXCEPT ![t] = r]
    BY <1>4 DEF Call
  <2>2. r.at \notin Leaving
    BY DEF Requests
  <2> QED
    BY <1>4, <2>1, <2>2 DEF Call
<1>5. CASE \/ setVideoMixingLayout(t) \/ updateWatermarkConfigs(t) \/ setLogLevel(t)
           \/ updateSubscribeUids(t) \/ getProperties(t) \/ forward(t)
  BY <1>5, NativeReturns, HandleCallReturns
<1> QED
  BY <1>1, <1>2, <1>3, <1>4, <1>5

(* Most callbacks only tell Java. *)
LEMMA CallbackCases ==
  ASSUME NEW e \in EngineThreads, Callback(e)
  PROVE  \/ Tell(e)
         \/ \E kind \in FrameKinds, size \in FrameSizes : FrameReceived(e, kind, size)
         \/ NewArray(e) \/ FillAndCall(e)
         \/ onLeaveChannel(e) \/ onError(e) \/ onErrorImpl(e) \/ LeaveOnError(e)
<1>1. CASE \/ onReceivingStreamStatusChanged(e) \/ onConnectionInterrupted(e)
           \/ onConnectionLost(e) \/ onRemoteAudioStats(e) \/ onRemoteVideoStats(e)
           \/ onRecordingStats(e) \/ onActiveSpeaker(e) \/ onUserOffline(e)
           \/ onWarning(e) \/ onFirstRemoteVideoDecoded(e) \/ onFirstRemoteAudioFrame(e)
           \/ onConnectionStateChanged(e) \/ onRemoteStreamStateChanged(e)
           \/ onUserJoined(e) \/ onJoinChannelSuccess(e) \/ onRejoinChannelSuccess(e)
           \/ onLocalUserRegistered(e) \/ onUserInfoUpdated(e)
           \/ onAudioVolumeIndication(e)
  BY <1>1 DEF onReceivingStreamStatusChanged, onConnectionInterrupted,
       onConnectionLost, onRemoteAudioStats, onRemoteVideoStats, onRecordingStats,
       onActiveSpeaker, onUserOffline, onWarning, onFirstRemoteVideoDecoded,
       onFirstRemoteAudioFrame, onConnectionStateChanged, onRemoteStreamStateChanged,
       onUserJoined, onJoinChannelSuccess, onRejoinChannelSuccess,
       onLocalUserRegistered, onUserInfoUpdated, onAudioVolumeIndication
<1>2. CASE \E size \in FrameSizes : audioFrameReceived(e, size) \/ videoFrameReceived(e, size)
  BY <1>2 DEF audioFrameReceived, videoFrameReceived, FrameKinds
<1>3. CASE \/ onLeaveChannel(e) \/ onError(e) \/ onErrorImpl(e) \/ CallbackGoesOn(e)
  BY <1>3, Zenon DEF CallbackGoesOn
<1> QED
  BY <1>1, <1>2, <1>3, Zenon DEF Callback

(* Callbacks that do more than tell Java; an error forgets the handle and   *)
(* leaves the channel, but lets the object live.                            *)
LEMMA HandleCallback ==
  ASSUME HandleInv, NEW e \in EngineThreads, Callback(e)
  PROVE  HandleInv'
<1> USE DEF HandleInv, Reachable, Leaving
<1>1. CASE Tell(e)
  BY <1>1 DEF Tell, sessionVars, javaVars
<1>2. CASE \E kind \in FrameKinds, size \in FrameSizes : FrameReceived(e, kind, size)
  BY <1>2 DEF FrameReceived, sessionVars
<1>3. CASE NewArray(e) \/ FillAndCall(e)
  <2>1. UNCHANGED <<handle, monitor, calls, pc, object, pointer>>
    BY <1>3, Zenon DEF NewArray, FillAndCall, sessionVars, javaVars
  <2> QED
    BY <2>1
<1>4. CASE onLeaveChannel(e)
  BY <1>4 DEF onLeaveChannel, sessionVars, javaVars
<1>5. CASE onError(e)
  BY <1>5 DEF onError, sessionVars
<1>6. CASE onErrorImpl(e) \/ LeaveOnError(e)
  BY <1>6 DEF onErrorImpl, LeaveOnError, leaveChannel, javaVars
<1> QED
  BY <1>1, <1>2, <1>3, <1>4, <1>5, <1>6, CallbackCases

THEOREM HandleInvariant == Spec => []HandleInv
<1>1. HandleInv /\ [Next]_vars => HandleInv'
  <2> SUFFICES ASSUME HandleInv, [Next]_vars PROVE HandleInv'
    OBVIOUS
  <2>1. CASE Session
    BY <2>1, HandleSession
  <2>2. CASE Java
    BY <2>2, HandleJava
  <2>3. CASE \E e \in EngineThreads : Callback(e)
    BY <2>3, HandleCallback
  <2>4. CASE UNCHANGED vars
    BY <2>4 DEF HandleInv, Leaving, vars, sessionVars, javaVars
  <2> QED
    BY <2>1, <2>2, <2>3, <2>4 DEF Next
<1> QED
  BY HandleInit, <1>1, PTL DEF Spec

(* A native leaveChannel that Java's passes a handle to finds the object    *)
(* alive and its engine not released.                                       *)
THEOREM LeaveFindsIt == Spec => []LeaveFindsTheObject
<1>1. HandleInv => LeaveFindsTheObject
  BY DEF HandleInv, Reachable, Leaving, LeaveFindsTheObject
<1> QED
  BY <1>1, HandleInvariant, PTL

(* Java never holds a handle to a native object whose engine is released.   *)
THEOREM HandleIsLive == Spec => []HandleIsOfLiveEngine
<1>1. HandleInv => HandleIsOfLiveEngine
  BY DEF HandleInv, Reachable, HandleIsOfLiveEngine
<1> QED
  BY <1>1, HandleInvariant, PTL

-----------------------------------------------------------------------------
(* The threads of the engine *)

Frame == [kind : FrameKinds, size : FrameSizes]
Thread == [attached : BOOLEAN, at : {"idle", "growing", "filling", "errorTold"},
           frame : {None} \union Frame]
AsAsked(e) == IF mode = "default" THEN threads[e] = Detached
                                  ELSE threads[e].attached <=> e \in reported

(* The mode is set before there is an engine, so that no thread has         *)
(* reported under the other one; from then on every callback that ends      *)
(* leaves its thread as the mode asks.                                      *)
BeforeEngine ==
    /\ mode = "default" /\ engine = "none" /\ ~ pointer /\ config = None
    /\ reported = {} /\ threads = [e \in EngineThreads |-> Detached]
ThreadInv ==
    /\ threads \in [EngineThreads -> Thread]
    /\ mode \in {"default", "raw"}
    /\ pc \in {"check", "initialize", "configure"} => BeforeEngine
    /\ config # None => (mode = "raw" <=> RawData(config))
    /\ \A e \in EngineThreads :
         /\ threads[e].at = "idle" => AsAsked(e)
         /\ HasFrame(e) => /\ threads[e].frame \in Frame
                           /\ mode = "default" => ~ threads[e].attached

LEMMA ThreadInit == Init => ThreadInv
  BY DEF Init, ThreadInv, BeforeEngine, AsAsked, HasFrame, Thread, Detached

LEMMA ThreadSession ==
  ASSUME ThreadInv, Session
  PROVE  ThreadInv'
<1> USE DEF ThreadInv, AsAsked, HasFrame, At, Goto, bridgeVars, historyVars
<1>1. CASE CheckArguments
  BY <1>1 DEF CheckArguments, BeforeEngine
<1>2. CASE initialize
  BY <1>2 DEF initialize, BeforeEngine
<1>3. CASE Configure
  <2>1. BeforeEngine
    BY <1>3 DEF Configure
  <2>2. /\ pc' = "create" /\ UNCHANGED <<threads, reported>>
        /\ mode' = IF RawData(config') THEN "raw" ELSE "default"
    BY <1>3, <2>1 DEF Configure, BeforeEngine
  <2>3. \A e \in EngineThreads : threads[e] = Detached /\ e \notin reported
    BY <2>1 DEF BeforeEngine
  <2>4. \A e \in EngineThreads : AsAsked(e)'
    BY <2>2, <2>3 DEF Detached
  <2>5. config' # None => (mode' = "raw" <=> RawData(config'))
    <3>1. CASE RawData(config')
      BY <2>2, <3>1
    <3>2. CASE ~ RawData(config')
      BY <2>2, <3>2
    <3> QED
      BY <3>1, <3>2
  <2>6. mode' \in {"default", "raw"}
    BY <2>2, Zenon
  <2>7. \A e \in EngineThreads : threads'[e].at = "idle"
    BY <2>2, <2>3 DEF Detached
  <2> QED
    BY <2>2, <2>4, <2>5, <2>6, <2>7
<1>4. CASE CreateEngine \/ Join
  BY <1>4 DEF CreateEngine, Join, RawData
<1>5. CASE nativeObjectRef \/ setJavaRecordingPath \/ TestStopped \/ stopJavaProc
  BY <1>5 DEF nativeObjectRef, setJavaRecordingPath, TestStopped, stopJavaProc, RawData
<1>6. CASE Leave \/ release \/ DestroyBridge \/ Destroy
  BY <1>6 DEF Leave, release, DestroyBridge, Destroy, RawData
<1> QED
  BY <1>1, <1>2, <1>3, <1>4, <1>5, <1>6 DEF Session

(* Calls of Java touch no thread of the engine. *)
LEMMA ThreadJava ==
  ASSUME ThreadInv, Java
  PROVE  ThreadInv'
<1> PICK t \in Callers :
      \/ EnterLeave(t) \/ ReadHandle(t) \/ ClearHandle(t) \/ NativeLeave(t)
      \/ Call(t)
      \/ setVideoMixingLayout(t) \/ updateWatermarkConfigs(t) \/ setLogLevel(t)
      \/ updateSubscribeUids(t) \/ getProperties(t) \/ forward(t)
  BY JavaCases
<1>1. /\ UNCHANGED <<pc, config, mode, pointer, threads, reported>>
      /\ pc \in {"check", "initialize", "configure"} => engine' = engine
  <2>1. CASE EnterLeave(t) \/ ReadHandle(t) \/ ClearHandle(t) \/ Call(t)
    BY <2>1 DEF EnterLeave, ReadHandle, ClearHandle, Call, sessionVars, bridgeVars,
         historyVars
  <2>2. CASE NativeLeave(t)
    BY <2>2 DEF NativeLeave, leaveChannel, ThreadInv, BeforeEngine, bridgeVars
  <2>3. CASE CallReturns(t)
    BY <2>3 DEF CallReturns, bridgeVars
  <2> QED
    BY <2>1, <2>2, <2>3, NativeReturns
<1> QED
  BY <1>1 DEF ThreadInv, BeforeEngine, AsAsked, HasFrame, RawData

(* A callback that ends leaves its thread as the mode asks. *)
LEMMA AfterCallAsAsked ==
  ASSUME ThreadInv, NEW e \in EngineThreads, threads[e].at # "errorTold"
  PROVE  /\ AfterCall(e) \in Thread
         /\ AfterCall(e).at = "idle"
         /\ mode = "default" => AfterCall(e) = Detached
         /\ mode # "default" => AfterCall(e).attached
<1>1. threads[e].at \in {"idle", "growing", "filling"}
  BY DEF ThreadInv, Thread
<1>2. mode = "default" => ~ threads[e].attached
  BY <1>1 DEF ThreadInv, AsAsked, HasFrame, Detached
<1> QED
  BY <1>2 DEF AfterCall, Detached, Thread

(* A step of a live engine that changes one thread, to one that is busy or  *)
(* as asked, and takes only that thread into or out of those that reported. *)
LEMMA ThreadStep ==
  ASSUME ThreadInv, NEW e \in EngineThreads, NEW th \in Thread,
         pc \notin {"check", "initialize", "configure"},
         threads' = [threads EXCEPT ![e] = th],
         UNCHANGED <<pc, config, mode>>,
         \A f \in EngineThreads \ {e} : f \in reported' <=> f \in reported,
         th.at = "idle" => IF mode = "default" THEN th = Detached
                                               ELSE th.attached <=> e \in reported',
         th.at \in {"growing", "filling"} =>
           th.frame \in Frame /\ (mode = "default" => ~ th.attached)
  PROVE  ThreadInv'
<1>1. threads' \in [EngineThreads -> Thread]
  BY DEF ThreadInv
<1>2. \A f \in EngineThreads : threads'[f].at = "idle" => AsAsked(f)'
  BY DEF ThreadInv, AsAsked
<1>3. \A f \in EngineThreads : HasFrame(f)' =>
        threads'[f].frame \in Frame /\ (mode' = "default" => ~ threads'[f].attached)
  BY DEF ThreadInv, HasFrame
<1> QED
  BY <1>1, <1>2, <1>3 DEF ThreadInv, RawData

(* The engine is there when a thread reports or has something in hand. *)
LEMMA BusyEngine ==
  ASSUME ThreadInv, NEW e \in EngineThreads,
         engine = "live" \/ engine = "left" \/ threads[e].at # "idle"
  PROVE  pc \notin {"check", "initialize", "configure"}
  BY DEF ThreadInv, BeforeEngine, Detached

LEMMA ThreadReports ==
  ASSUME ThreadInv, NEW e \in EngineThreads, threads[e].at # "errorTold",
         engine = "live" \/ threads[e].at # "idle",
         UNCHANGED <<pc, config, mode>>,
         threads' = [threads EXCEPT ![e] = AfterCall(e)],
         reported' = reported \union {e}
  PROVE  ThreadInv'
<1>1. pc \notin {"check", "initialize", "configure"}
  BY BusyEngine
<1> QED
  BY <1>1, AfterCallAsAsked, ThreadStep

LEMMA ThreadCallback ==
  ASSUME ThreadInv, NEW e \in EngineThreads, Callback(e)
  PROVE  ThreadInv'
<1>1. Detached \in Thread /\ Detached.attached = FALSE /\ Detached.at = "idle"
  BY DEF Detached, Thread
<1>2. threads[e] \in Thread /\ DOMAIN threads = EngineThreads
  BY DEF ThreadInv
<1>3. CASE Tell(e)
  BY <1>3, ThreadReports DEF Tell, CanReport, sessionVars
<1>4. ASSUME NEW kind \in FrameKinds, NEW size \in FrameSizes, FrameReceived(e, kind, size)
      PROVE  ThreadInv'
  <2> DEFINE at == IF TooShort(arrays[kind], size) THEN "growing" ELSE "filling"
             th == [threads[e] EXCEPT !.at = at, !.frame = [kind |-> kind, size |-> size]]
  <2>1. /\ threads' = [threads EXCEPT ![e] = th]
        /\ UNCHANGED <<pc, config, mode, reported>> /\ threads[e].at = "idle"
        /\ engine = "live"
    BY <1>4 DEF FrameReceived, CanReport, sessionVars
  <2>2. at \in {"growing", "filling"}
    OBVIOUS
  <2> HIDE DEF at
  <2>3. th \in Thread /\ th.at # "idle" /\ th.frame \in Frame /\ th.attached = threads[e].attached
    BY <1>2, <2>2 DEF Thread, Frame
  <2>4. mode = "default" => ~ threads[e].attached
    BY <2>1 DEF ThreadInv, AsAsked, Detached
  <2>5. pc \notin {"check", "initialize", "configure"}
    BY <2>1, BusyEngine
  <2> HIDE DEF th
  <2> QED
    BY <2>1, <2>3, <2>4, <2>5, ThreadStep
<1>5. CASE NewArray(e)
  <2> DEFINE th == [threads[e] EXCEPT !.at = "filling"]
  <2>1. /\ threads' = [threads EXCEPT ![e] = th]
        /\ UNCHANGED <<pc, config, mode, reported>> /\ threads[e].at = "growing"
    BY <1>5, <1>2 DEF NewArray, sessionVars, historyVars
  <2>2. /\ th \in Thread /\ th.at = "filling" /\ th.frame = threads[e].frame
        /\ th.attached = threads[e].attached
    BY <1>2 DEF Thread
  <2>3. threads[e].frame \in Frame /\ (mode = "default" => ~ threads[e].attached)
    BY <2>1 DEF ThreadInv, HasFrame
  <2>4. pc \notin {"check", "initialize", "configure"}
    BY <2>1, BusyEngine
  <2> HIDE DEF th
  <2> QED
    BY <2>1, <2>2, <2>3, <2>4, ThreadStep
<1>6. CASE FillAndCall(e)
  BY <1>6, ThreadReports DEF FillAndCall, sessionVars
<1>7. CASE onLeaveChannel(e)
  <2>1. pc \notin {"check", "initialize", "configure"}
    BY <1>7, BusyEngine DEF onLeaveChannel
  <2> QED
    BY <1>1, <1>7, <2>1, ThreadStep DEF onLeaveChannel, sessionVars
<1>8. CASE onError(e)
  <2> DEFINE th == [threads[e] EXCEPT !.attached = TRUE, !.at = "errorTold"]
  <2>1. pc \notin {"check", "initialize", "configure"}
    BY <1>8, BusyEngine DEF onError, CanReport
  <2>2. th \in Thread /\ th.at = "errorTold"
    BY <1>2 DEF Thread
  <2>3. threads' = [threads EXCEPT ![e] = th] /\ UNCHANGED <<pc, config, mode, reported>>
    BY <1>8 DEF onError, sessionVars
  <2> HIDE DEF th
  <2> QED
    BY <2>1, <2>2, <2>3, ThreadStep
<1>9. CASE onErrorImpl(e)
  <2>1. /\ UNCHANGED <<pc, config, mode, threads, reported>> /\ pc = "destroyBase"
    BY <1>9 DEF onErrorImpl, bridgeVars
  <2> QED
    BY <2>1 DEF ThreadInv, AsAsked, HasFrame, RawData
<1>10. CASE LeaveOnError(e)
  <2>1. pc \notin {"check", "initialize", "configure"}
    BY <1>10, BusyEngine DEF LeaveOnError
  <2> QED
    BY <1>1, <1>10, <2>1, ThreadStep DEF LeaveOnError
<1> QED
  BY <1>3, <1>4, <1>5, <1>6, <1>7, <1>8, <1>9, <1>10, CallbackCases

THEOREM ThreadInvariant == Spec => []ThreadInv
<1>1. ThreadInv /\ [Next]_vars => ThreadInv'
  <2> SUFFICES ASSUME ThreadInv, [Next]_vars PROVE ThreadInv'
    OBVIOUS
  <2>1. CASE Session
    BY <2>1, ThreadSession
  <2>2. CASE Java
    BY <2>2, ThreadJava
  <2>3. CASE \E e \in EngineThreads : Callback(e)
    BY <2>3, ThreadCallback
  <2>4. CASE UNCHANGED vars
    BY <2>4 DEF ThreadInv, BeforeEngine, AsAsked, HasFrame, RawData, vars, sessionVars,
                bridgeVars, historyVars
  <2> QED
    BY <2>1, <2>2, <2>3, <2>4 DEF Next
<1> QED
  BY ThreadInit, <1>1, PTL DEF Spec

(* Between callbacks a thread of the engine is attached to the Java machine *)
(* as the kind of recording asks.                                           *)
THEOREM ThreadsAsAsked == Spec => []ThreadsAttachedAsAsked
<1>1. ThreadInv => ThreadsAttachedAsAsked
  BY DEF ThreadInv, AsAsked, Detached, ThreadsAttachedAsAsked, RawData
<1> QED
  BY <1>1, ThreadInvariant, PTL

-----------------------------------------------------------------------------
(* The arrays *)

LEMMA KeptIsNat == Kept \in Nat
<1> DEFINE A == {"AudioStats", "VideoStats", "RecordingStats", "VideoFrame",
                 "VideoYuvFrame", "VideoJpgFrame"}
           B == {"VideoH264Frame", "VideoH265Frame", "VIDEO_FRAME_TYPE",
                 "AudioFrame", "AudioPcmFrame", "AudioAacFrame"}
           C == {"class", "object"}
<1> HIDE DEF A, B, C
<1>1. \A S, x : IsFiniteSet(S) => IsFiniteSet(S \union {x})
  BY FS_AddElement
<1>2. \A a, b, c, d, e, f : IsFiniteSet({a, b, c, d, e, f})
  <2> TAKE a, b, c, d, e, f
  <2>1. IsFiniteSet({a})
    BY FS_Singleton
  <2>2. IsFiniteSet({a, b})
    <3>1. {a, b} = {a} \union {b}
      OBVIOUS
    <3> QED
      BY <2>1, <3>1, <1>1
  <2>3. IsFiniteSet({a, b, c})
    <3>1. {a, b, c} = {a, b} \union {c}
      OBVIOUS
    <3> QED
      BY <2>2, <3>1, <1>1
  <2>4. IsFiniteSet({a, b, c, d})
    <3>1. {a, b, c, d} = {a, b, c} \union {d}
      OBVIOUS
    <3> QED
      BY <2>3, <3>1, <1>1
  <2>5. IsFiniteSet({a, b, c, d, e})
    <3>1. {a, b, c, d, e} = {a, b, c, d} \union {e}
      OBVIOUS
    <3> QED
      BY <2>4, <3>1, <1>1
  <2>6. {a, b, c, d, e, f} = {a, b, c, d, e} \union {f}
    OBVIOUS
  <2> QED
    BY <2>5, <2>6, <1>1
<1>3. IsFiniteSet(A) /\ IsFiniteSet(B)
  BY <1>2 DEF A, B
<1>4. IsFiniteSet(C)
  <2>1. C = {"class"} \union {"object"}
    BY DEF C
  <2> QED
    BY <1>1, <2>1, FS_Singleton
<1>5. IsFiniteSet((A \union B) \X C)
  BY <1>3, <1>4, FS_Union, FS_Product
<1>6. JavaObjects = ((A \union B) \X C) \union {<<"AudioVolumeInfo", "class">>}
  BY DEF JavaObjects, A, B, C
<1>7. IsFiniteSet(JavaObjects)
  BY <1>1, <1>5, <1>6
<1>8. Cardinality(JavaObjects) \in Nat
  BY <1>7, FS_CardinalityType
<1> QED
  BY <1>8 DEF Kept

Array == [length : Nat, room : Nat, is : {"null", "there", "deleted"}]

(* Global references that are not those of the arrays.                      *)
Spare == globals - Held(arrays["audio"]) - Held(arrays["video"])

(* Whatever the threads do: an engine that reports has its pointer, and     *)
(* there are as many global references as arrays.                           *)
CountInv ==
    /\ arrays \in [FrameKinds -> Array]
    /\ Spare \in Nat
    /\ engine = "live" => pointer
    /\ pc = "returned" => engine # "live"
    /\ pc \in {"check", "initialize"} => engine = "none" /\ ~ pointer

LEMMA KindCases == \A kind \in FrameKinds : kind = "audio" \/ kind = "video"
  BY DEF FrameKinds

(* One array changes and the number of references with it. *)
LEMMA SpareStep ==
  ASSUME arrays \in [FrameKinds -> Array], NEW kind \in FrameKinds, NEW b \in Array,
         NEW g \in Int, Spare \in Nat, globals \in Int,
         arrays' = [arrays EXCEPT ![kind] = b], globals' = globals + g
  PROVE  /\ arrays' \in [FrameKinds -> Array]
         /\ Spare' = Spare + g - Held(b) + Held(arrays[kind])
<1>1. arrays' \in [FrameKinds -> Array]
  OBVIOUS
<1>2. /\ "audio" \in FrameKinds /\ "video" \in FrameKinds
      /\ \A k \in FrameKinds : arrays'[k] = IF k = kind THEN b ELSE arrays[k]
  BY DEF FrameKinds
<1>3. \A a : Held(a) \in {0, 1}
  BY DEF Held
<1>4. Spare' = globals' - Held(arrays'["audio"]) - Held(arrays'["video"])
  BY DEF Spare
<1>5. Spare = globals - Held(arrays["audio"]) - Held(arrays["video"])
  BY DEF Spare
<1>6. CASE kind = "audio"
  <2>1. arrays'["audio"] = b /\ arrays'["video"] = arrays["video"]
    BY <1>2, <1>6
  <2> QED
    BY <1>1, <1>3, <1>4, <1>5, <1>6, <2>1
<1>7. CASE kind = "video"
  <2>1. arrays'["audio"] = arrays["audio"] /\ arrays'["video"] = b
    BY <1>2, <1>7
  <2> QED
    BY <1>1, <1>3, <1>4, <1>5, <1>7, <2>1
<1> QED
  BY <1>6, <1>7, KindCases

LEMMA GlobalsAreNat ==
  ASSUME Spare \in Nat, globals \in Int
  PROVE  globals \in Nat
  BY DEF Spare, Held

(* The arrays a request leaves, and those it makes. *)
LEMMA ArraysMade ==
  ASSUME NEW a \in Array, NEW size \in Nat, NEW slack \in Nat
  PROVE  /\ GivenBack(a, size, slack) \in Array
         /\ GivenBack(a, size, slack).is # "there"
         /\ GivenBack(a, size, slack).length = size + slack
         /\ \A b \in NewArrays(a) :
              /\ b \in Array /\ b.is # "deleted"
              /\ b.is = "there" => b.room = b.length /\ b.length = a.length
<1>1. NoArray \in Array /\ NoArray.is = "null"
  BY DEF NoArray, Array
<1>2. /\ GivenBack(a, size, slack) \in Array
      /\ GivenBack(a, size, slack).is # "there"
      /\ GivenBack(a, size, slack).length = size + slack
  BY DEF GivenBack, Array
<1>3. ASSUME NEW b \in NewArrays(a)
      PROVE  /\ b \in Array /\ b.is # "deleted"
             /\ b.is = "there" => b.room = b.length /\ b.length = a.length
  <2>1. CASE b = NoArray
    BY <1>1, <2>1
  <2>2. CASE b = [a EXCEPT !.room = 0, !.is = "null"]
    BY <2>2 DEF Array
  <2>3. CASE b = [a EXCEPT !.room = a.length, !.is = "there"]
    BY <2>3 DEF Array
  <2> QED
    BY <1>3, <2>1, <2>2, <2>3 DEF NewArrays
<1> QED
  BY <1>2, <1>3

LEMMA NothingIsAnArray == NoArray \in Array /\ NoArray.is = "null" /\ Held(NoArray) = 0
  BY DEF NoArray, Array, Held

LEMMA SlackIsNat ==
  ASSUME NEW kind, NEW size \in FrameSizes
  PROVE  size \in Nat /\ Slack(kind) \in Nat
<1>1. {AudioSlack, VideoSlack} \subseteq Nat
  BY SizesAssumption
<1> QED
  BY <1>1, SizesAssumption DEF Slack

(* While no two threads were at one array: a thread with a frame is the     *)
(* only one with a frame of its kind; the array is where it was given back  *)
(* only while that thread grows it, and then has the length of the frame;   *)
(* otherwise, if it is there, it is as long as noted.  No frame is in hand  *)
(* in the destructor.                                                       *)
FrameOf(e, kind) == HasFrame(e) /\ threads[e].frame.kind = kind
Grows(e, kind)   == threads[e].at = "growing" /\ threads[e].frame.kind = kind
Alone ==
    \A e, f \in EngineThreads, kind \in FrameKinds :
        FrameOf(e, kind) /\ FrameOf(f, kind) => e = f
Agrees ==
    \A kind \in FrameKinds :
        \/ \E e \in EngineThreads : Grows(e, kind)
        \/ /\ arrays[kind].is # "deleted"
           /\ arrays[kind].is = "there" => arrays[kind].room = arrays[kind].length
Fits ==
    \A e \in EngineThreads, kind \in FrameKinds :
        FrameOf(e, kind) =>
            IF threads[e].at = "growing"
              THEN /\ arrays[kind].is # "there"
                   /\ threads[e].frame.size <= arrays[kind].length
              ELSE arrays[kind].is = "there" =>
                     threads[e].frame.size <= arrays[kind].room
Dropped ==
    pc \in {"destroyBase", "returned"} =>
        /\ \A e \in EngineThreads : ~ HasFrame(e)
        /\ \A kind \in FrameKinds : arrays[kind].is = "null"
Counted ==
    \/ /\ globals = 0 /\ \A kind \in FrameKinds : arrays[kind].is = "null"
       /\ pc \in {"check", "initialize", "destroy", "destroyBase", "returned"}
       /\ engine = "none" /\ ~ pointer /\ \A e \in EngineThreads : ~ HasFrame(e)
    \/ Spare = Kept
LastFits == last # None => last.size <= last.room
ArrayInv ==
    /\ CountInv /\ globals \in Int
    /\ ~ raced => Alone /\ Agrees /\ Fits /\ Dropped /\ Counted /\ LastFits

LEMMA ArrayInit == Init => ArrayInv
<1> SUFFICES ASSUME Init PROVE ArrayInv
  OBVIOUS
<1>1. /\ arrays = [kind \in FrameKinds |-> NoArray] /\ globals = 0 /\ last = None
      /\ engine = "none" /\ pointer = FALSE /\ pc = "check"
      /\ \A e \in EngineThreads : threads[e].at = "idle"
  BY DEF Init, Detached
<1>2. /\ "audio" \in FrameKinds /\ "video" \in FrameKinds
      /\ \A kind \in FrameKinds : arrays[kind] = NoArray
  BY <1>1 DEF FrameKinds
<1>3. Spare = 0
  BY <1>1, <1>2, NothingIsAnArray DEF Spare
<1>4. CountInv
  BY <1>1, <1>3, NothingIsAnArray DEF CountInv
<1>5. Alone /\ Fits /\ Dropped /\ LastFits
  BY <1>1 DEF Alone, Fits, Dropped, LastFits, FrameOf, HasFrame
<1>6. Agrees /\ Counted
  BY <1>1, <1>2, NothingIsAnArray DEF Agrees, Counted, HasFrame
<1> QED
  BY <1>1, <1>4, <1>5, <1>6 DEF ArrayInv

(* A step that touches neither arrays nor frames in hand, nor brings a      *)
(* session into or out of its ends.                                         *)
LEMMA ArrayStutter ==
  ASSUME ArrayInv,
         UNCHANGED <<arrays, globals, raced, last>>,
         \A e \in EngineThreads :
            threads'[e].at \in {"growing", "filling"} => threads'[e] = threads[e],
         \A e \in EngineThreads : threads[e].at = "growing" => threads'[e] = threads[e],
         engine' = "live" => pointer',
         pc' = "returned" => engine' # "live" /\ pc \in {"returned", "destroyBase"},
         pc' = "destroyBase" => pc = "destroyBase",
         pc' \in {"check", "initialize"} => engine' = "none" /\ ~ pointer',
         \/ raced \/ Spare = Kept
         \/ /\ pc' \in {"check", "initialize", "destroy", "destroyBase", "returned"}
            /\ engine' = "none" /\ ~ pointer'
  PROVE  ArrayInv'
<1>1. Spare' = Spare /\ \A kind \in FrameKinds : arrays'[kind] = arrays[kind]
  BY DEF Spare
<1>2. CountInv'
  BY <1>1 DEF ArrayInv, CountInv
<1>3. \A e \in EngineThreads, kind \in FrameKinds : FrameOf(e, kind)' => FrameOf(e, kind)
  BY DEF FrameOf, HasFrame
<1>4. ASSUME Alone PROVE Alone'
  BY <1>3, <1>4 DEF Alone
<1>5. ASSUME Agrees PROVE Agrees'
  BY <1>1, <1>5 DEF Agrees, Grows
<1>6. ASSUME Fits PROVE Fits'
  <2> SUFFICES ASSUME NEW e \in EngineThreads, NEW kind \in FrameKinds, FrameOf(e, kind)'
               PROVE  IF threads'[e].at = "growing"
                        THEN /\ arrays'[kind].is # "there"
                             /\ threads'[e].frame.size <= arrays'[kind].length
                        ELSE arrays'[kind].is = "there" =>
                               threads'[e].frame.size <= arrays'[kind].room
    BY DEF Fits
  <2>1. threads'[e] = threads[e] /\ FrameOf(e, kind) /\ arrays' = arrays
    BY <1>3 DEF FrameOf, HasFrame
  <2> QED
    BY <1>6, <2>1 DEF Fits
<1>7. ASSUME Dropped PROVE Dropped'
  BY <1>1, <1>7 DEF Dropped, HasFrame
<1>8. ASSUME Counted, ~ raced PROVE Counted'
  <2>1. CASE Spare = Kept
    BY <1>1, <2>1 DEF Counted
  <2>2. CASE Spare # Kept
    BY <1>1, <1>8, <2>2 DEF Counted, HasFrame
  <2> QED
    BY <2>1, <2>2
<1>9. ASSUME LastFits PROVE LastFits'
  BY <1>9 DEF LastFits
<1> QED
  BY <1>2, <1>4, <1>5, <1>6, <1>7, <1>8, <1>9 DEF ArrayInv

(* ... nor is it a step of createChannel: the engine may be told to leave.  *)
NoFrames ==
    /\ arrays' = arrays /\ globals' = globals /\ raced' = raced /\ last' = last
    /\ pc' = pc /\ pointer' = pointer
    /\ engine' = engine \/ (pointer /\ engine' = "left")
    /\ \A e \in EngineThreads :
         \/ threads'[e] = threads[e]
         \/ {threads[e].at, threads'[e].at} \subseteq {"idle", "errorTold"}
LEMMA ArrayQuiet ==
  ASSUME ArrayInv, NoFrames
  PROVE  ArrayInv'
<1> USE DEF NoFrames
<1>1. /\ engine' = "live" => pointer'
      /\ pc' = "returned" => engine' # "live" /\ pc \in {"returned", "destroyBase"}
      /\ pc' = "destroyBase" => pc = "destroyBase"
      /\ pc' \in {"check", "initialize"} => engine' = "none" /\ ~ pointer'
  BY DEF ArrayInv, CountInv
<1>2. \/ raced \/ Spare = Kept
      \/ /\ pc' \in {"check", "initialize", "destroy", "destroyBase", "returned"}
         /\ engine' = "none" /\ ~ pointer'
  BY DEF ArrayInv, Counted
<1>3. \A e \in EngineThreads :
        /\ threads'[e].at \in {"growing", "filling"} => threads'[e] = threads[e]
        /\ threads[e].at = "growing" => threads'[e] = threads[e]
  OBVIOUS
<1> QED
  BY <1>1, <1>2, <1>3, ArrayStutter

(* createChannel makes the arrays before there is an engine, and drops them *)
(* when the engine that is left has no frame in hand, or a race is noted.   *)
LEMMA ArraySession ==
  ASSUME ArrayInv, ThreadInv, Session
  PROVE  ArrayInv'
<1> USE DEF At, Goto
<1>1. ASSUME UNCHANGED <<arrays, globals, threads, raced, last>>,
             engine' = "live" => pointer',
             pc' = "returned" => engine' # "live" /\ pc = "destroyBase",
             pc' # "destroyBase",
             pc' \in {"check", "initialize"} => engine' = "none" /\ ~ pointer',
             \/ raced \/ Spare = Kept
             \/ /\ pc' \in {"check", "initialize", "destroy", "destroyBase", "returned"}
                /\ engine' = "none" /\ ~ pointer'
      PROVE  ArrayInv'
  BY <1>1, ArrayStutter
<1>2. CASE CheckArguments
  <2>1. engine = "none" /\ ~ pointer
    BY <1>2 DEF CheckArguments, ArrayInv, CountInv
  <2>2. UNCHANGED <<arrays, globals, threads, raced, last, engine, pointer>>
    BY <1>2 DEF CheckArguments, bridgeVars, historyVars
  <2>3. pc' \in {"initialize", "destroy"}
    BY <1>2 DEF CheckArguments
  <2> QED
    BY <1>1, <2>1, <2>2, <2>3
<1>3. CASE initialize
  <2>1. BeforeEngine
    BY <1>3 DEF initialize, ThreadInv
  <2>2. \A e \in EngineThreads : threads'[e].at = "idle"
    BY <1>3, <2>1 DEF initialize, BeforeEngine, Detached
  <2>3. PICK a \in NewArrays(GivenBack(NoArray, FirstAudio, AudioSlack)),
             v \in NewArrays(GivenBack(NoArray, FirstVideo, VideoSlack)) :
               /\ arrays' = [kind \in FrameKinds |-> IF kind = "audio" THEN a ELSE v]
               /\ globals' = Kept + Held(a) + Held(v)
    BY <1>3 DEF initialize
  <2>4. /\ a \in Array /\ a.is # "deleted" /\ (a.is = "there" => a.room = a.length)
        /\ v \in Array /\ v.is # "deleted" /\ (v.is = "there" => v.room = v.length)
    <3>1. {FirstAudio, FirstVideo, AudioSlack, VideoSlack} \subseteq Nat
      BY SizesAssumption
    <3> QED
      BY <2>3, <3>1, NothingIsAnArray, ArraysMade
  <2>5. /\ arrays' \in [FrameKinds -> Array]
        /\ arrays'["audio"] = a /\ arrays'["video"] = v
    BY <2>3, <2>4 DEF FrameKinds
  <2>6. Spare' = Kept /\ globals' \in Int
    <3>1. Spare' = globals' - Held(a) - Held(v)
      BY <2>5 DEF Spare
    <3> QED
      BY <2>3, <3>1, KeptIsNat DEF Held
  <2>7. pc' = "configure" /\ UNCHANGED <<engine, pointer, raced, last>>
    BY <1>3 DEF initialize, historyVars
  <2>8. CountInv'
    BY <2>1, <2>5, <2>6, <2>7, KeptIsNat DEF CountInv, BeforeEngine
  <2>9. Alone' /\ Fits' /\ Dropped' /\ Counted'
    BY <2>2, <2>6, <2>7 DEF Alone, Fits, Dropped, Counted, FrameOf, HasFrame
  <2>10. Agrees'
    BY <2>4, <2>5, KindCases DEF Agrees
  <2>11. ~ raced' => LastFits'
    BY <2>7 DEF ArrayInv, LastFits
  <2> QED
    BY <2>6, <2>8, <2>9, <2>10, <2>11 DEF ArrayInv
<1>4. CASE Configure \/ CreateEngine \/ Join
  <2>1. UNCHANGED <<arrays, globals, threads, raced, last>>
    BY <1>4 DEF Configure, CreateEngine, Join, bridgeVars, historyVars
  <2>2. raced \/ Spare = Kept
    BY <1>4 DEF Configure, CreateEngine, Join, ArrayInv, Counted
  <2>3. /\ pc' \in {"create", "joining", "handOver", "destroy"}
        /\ engine' = "live" => pointer'
    BY <1>4 DEF Configure, CreateEngine, Join, ArrayInv, CountInv
  <2> QED
    BY <1>1, <2>1, <2>2, <2>3
<1>5. CASE nativeObjectRef \/ setJavaRecordingPath \/ TestStopped \/ stopJavaProc
  <2>1. UNCHANGED <<arrays, globals, threads, raced, last, engine, pointer>>
    BY <1>5 DEF nativeObjectRef, setJavaRecordingPath, TestStopped, stopJavaProc,
         bridgeVars, historyVars
  <2>2. raced \/ Spare = Kept
    BY <1>5 DEF nativeObjectRef, setJavaRecordingPath, TestStopped, stopJavaProc,
         ArrayInv, Counted
  <2>3. pc' \in {"path", "loop", "stopProc", "leave"}
    BY <1>5 DEF nativeObjectRef, setJavaRecordingPath, TestStopped, stopJavaProc
  <2> QED
    BY <1>1, <2>1, <2>2, <2>3 DEF ArrayInv, CountInv
<1>6. CASE Leave \/ release
  <2>1. UNCHANGED <<arrays, globals, threads, raced, last>>
    BY <1>6 DEF Leave, release, bridgeVars, historyVars
  <2>2. raced \/ Spare = Kept
    BY <1>6 DEF Leave, release, ArrayInv, Counted
  <2>3. /\ pc' \in {"release", "destroy"}
        /\ engine' = "live" => pointer'
    BY <1>6 DEF Leave, leaveChannel, release, ArrayInv, CountInv
  <2> QED
    BY <1>1, <2>1, <2>2, <2>3
<1>7. CASE DestroyBridge
  <2>1. arrays' = [kind \in FrameKinds |-> [arrays[kind] EXCEPT !.is = "null"]]
    BY <1>7 DEF DestroyBridge
  <2>2. /\ arrays' \in [FrameKinds -> Array]
        /\ \A kind \in FrameKinds : arrays'[kind].is = "null"
    BY <2>1 DEF ArrayInv, CountInv, Array
  <2>3. Held(arrays'["audio"]) = 0 /\ Held(arrays'["video"]) = 0
    BY <2>2 DEF Held, FrameKinds
  <2>4. globals' = Spare
    BY <1>7 DEF DestroyBridge, Spare
  <2>5. Spare' = Spare /\ Spare \in Nat
    <3>1. Spare' = globals' - Held(arrays'["audio"]) - Held(arrays'["video"])
      BY DEF Spare
    <3>2. Spare \in Nat
      BY DEF ArrayInv, CountInv
    <3> QED
      BY <3>1, <3>2, <2>3, <2>4
  <2>6. /\ pc = "destroy" /\ pc' = "destroyBase"
        /\ UNCHANGED <<engine, pointer, threads, last>>
        /\ raced' = (raced \/ \E e \in EngineThreads : HasFrame(e))
    BY <1>7 DEF DestroyBridge
  <2>7. CountInv'
    BY <2>2, <2>5, <2>6 DEF ArrayInv, CountInv
  <2>8. ASSUME ~ raced'
        PROVE  Alone' /\ Agrees' /\ Fits' /\ Dropped' /\ Counted' /\ LastFits'
    <3>1. ~ raced /\ \A e \in EngineThreads : ~ HasFrame(e)'
      BY <2>6, <2>8 DEF HasFrame
    <3>2. Alone' /\ Agrees' /\ Fits' /\ Dropped'
      BY <2>2, <3>1 DEF Alone, Agrees, Fits, Dropped, FrameOf
    <3>3. Counted'
      <4>1. CASE Spare = Kept
        BY <4>1, <2>5 DEF Counted
      <4>2. CASE Spare # Kept
        <5>1. globals = 0 /\ (\A kind \in FrameKinds : arrays[kind].is = "null")
                /\ engine = "none" /\ ~ pointer
          BY <3>1, <4>2 DEF ArrayInv, Counted
        <5>2. Spare = 0
          BY <5>1 DEF Spare, Held, FrameKinds
        <5> QED
          BY <2>2, <2>4, <2>6, <3>1, <5>1, <5>2 DEF Counted
      <4> QED
        BY <4>1, <4>2
    <3>4. LastFits'
      BY <2>6, <3>1 DEF ArrayInv, LastFits
    <3> QED
      BY <3>2, <3>3, <3>4
  <2> QED
    BY <2>4, <2>5, <2>7, <2>8 DEF ArrayInv
<1>8. CASE Destroy
  <2>1. UNCHANGED <<arrays, globals, threads, raced, last, pointer>>
    BY <1>8 DEF Destroy, bridgeVars, historyVars
  <2>2. /\ pc = "destroyBase" /\ pc' = "returned"
        /\ engine' = IF pointer THEN "released" ELSE engine
    BY <1>8 DEF Destroy
  <2>3. engine' # "live"
    BY <2>2 DEF ArrayInv, CountInv
  <2>4. raced \/ Spare = Kept \/ (engine' = "none" /\ ~ pointer')
    BY <2>1, <2>2 DEF ArrayInv, Counted
  <2> QED
    BY <1>1, <2>1, <2>2, <2>3, <2>4
<1> QED
  BY <1>2, <1>3, <1>4, <1>5, <1>6, <1>7, <1>8 DEF Session

(* Calls of Java touch no array. *)
LEMMA ArrayJava ==
  ASSUME ArrayInv, Java
  PROVE  ArrayInv'
<1> PICK t \in Callers :
      \/ EnterLeave(t) \/ ReadHandle(t) \/ ClearHandle(t) \/ NativeLeave(t)
      \/ Call(t)
      \/ setVideoMixingLayout(t) \/ updateWatermarkConfigs(t) \/ setLogLevel(t)
      \/ updateSubscribeUids(t) \/ getProperties(t) \/ forward(t)
  BY JavaCases
<1>1. /\ UNCHANGED <<arrays, globals, threads, raced, last, pc, pointer>>
      /\ engine' = engine \/ (pointer /\ engine' = "left")
  <2>1. CASE EnterLeave(t) \/ ReadHandle(t) \/ ClearHandle(t) \/ Call(t)
    BY <2>1 DEF EnterLeave, ReadHandle, ClearHandle, Call, sessionVars, bridgeVars,
         historyVars
  <2>2. CASE NativeLeave(t)
    BY <2>2 DEF NativeLeave, leaveChannel, bridgeVars
  <2>3. CASE CallReturns(t)
    BY <2>3 DEF CallReturns, bridgeVars
  <2> QED
    BY <2>1, <2>2, <2>3, NativeReturns
<1>2. NoFrames
  BY <1>1 DEF NoFrames
<1> QED
  BY <1>2, ArrayQuiet

LEMMA LiveEngine ==
  ASSUME ArrayInv, NEW e \in EngineThreads, CanReport(e)
  PROVE  /\ pointer /\ pc \notin {"check", "initialize", "returned"}
         /\ raced \/ Spare = Kept
  BY DEF ArrayInv, CountInv, Counted, CanReport

(* A frame begins: a too short array is given back and noted as long        *)
(* enough; unless another frame of the kind is in hand, which is noted as a *)
(* race, the array is the thread's own.                                     *)
LEMMA ArrayFrame ==
  ASSUME ArrayInv, ThreadInv, NEW e \in EngineThreads, NEW kind \in FrameKinds,
         NEW size \in FrameSizes, FrameReceived(e, kind, size)
  PROVE  ArrayInv'
<1> DEFINE a == arrays[kind]
           b == GivenBack(a, size, Slack(kind))
           short == TooShort(a, size)
           th == [threads[e] EXCEPT !.at = IF short THEN "growing" ELSE "filling",
                                    !.frame = [kind |-> kind, size |-> size]]
<1>1. /\ arrays' = IF short THEN [arrays EXCEPT ![kind] = b] ELSE arrays
      /\ globals' = IF short THEN globals - Held(a) + Held(b) ELSE globals
      /\ threads' = [threads EXCEPT ![e] = th] /\ threads[e].at = "idle"
      /\ raced' = (raced \/ \E f \in EngineThreads :
                               HasFrame(f) /\ threads[f].frame.kind = kind)
      /\ UNCHANGED <<pc, engine, pointer, last>> /\ pc # "destroyBase"
  BY DEF FrameReceived, CanReport, sessionVars
<1>2. pointer /\ pc \notin {"check", "initialize", "returned"} /\ (raced \/ Spare = Kept)
  BY LiveEngine DEF FrameReceived
<1>3. a \in Array /\ size \in Nat /\ Slack(kind) \in Nat
  BY SlackIsNat DEF ArrayInv, CountInv
<1>4. b \in Array /\ b.is # "there" /\ size <= b.length
  <2>1. b \in Array /\ b.is # "there" /\ b.length = size + Slack(kind)
    BY <1>3, ArraysMade
  <2> QED
    BY <1>3, <2>1
<1>5. /\ arrays' \in [FrameKinds -> Array] /\ Spare' = Spare /\ globals' \in Int
      /\ \A k \in FrameKinds : k # kind => arrays'[k] = arrays[k]
      /\ arrays'[kind] = IF short THEN b ELSE a
  <2>1. CASE short
    <3> DEFINE g == Held(b) - Held(a)
    <3>1. g \in Int /\ globals' = globals + g
      BY <1>1, <2>1 DEF Held, ArrayInv
    <3>2. arrays' = [arrays EXCEPT ![kind] = b] /\ arrays \in [FrameKinds -> Array]
            /\ Spare \in Nat /\ globals \in Int
      BY <1>1, <2>1 DEF ArrayInv, CountInv
    <3> HIDE DEF b, short
    <3>3. Spare' = Spare + g - Held(b) + Held(arrays[kind])
      BY <1>4, <3>1, <3>2, SpareStep
    <3>4. Spare' = Spare
      BY <3>2, <3>3 DEF Held
    <3> QED
      BY <1>4, <2>1, <3>1, <3>2, <3>4
  <2>2. CASE ~ short
    BY <1>1, <2>2 DEF ArrayInv, CountInv, Spare
  <2> QED
    BY <2>1, <2>2
<1> HIDE DEF b
<1>6. DOMAIN threads = EngineThreads /\ threads[e] \in Thread
  BY DEF ThreadInv
<1>7. /\ \A f \in EngineThreads \ {e} : threads'[f] = threads[f]
      /\ threads'[e].at = IF short THEN "growing" ELSE "filling"
      /\ threads'[e].frame.kind = kind /\ threads'[e].frame.size = size
  BY <1>1, <1>6 DEF Thread
<1>8. CountInv'
  BY <1>1, <1>2, <1>5 DEF ArrayInv, CountInv
<1>9. ASSUME ~ raced'
      PROVE  Alone' /\ Agrees' /\ Fits' /\ Dropped' /\ Counted' /\ LastFits'
  <2>1. ~ raced /\ \A f \in EngineThreads : ~ FrameOf(f, kind)
    BY <1>1, <1>9 DEF FrameOf
  <2>2. /\ \A f \in EngineThreads : FrameOf(f, kind)' => f = e
        /\ \A f \in EngineThreads, k \in FrameKinds : k # kind =>
             /\ FrameOf(f, k)' => FrameOf(f, k) /\ f # e
             /\ Grows(f, k) => Grows(f, k)'
    BY <1>1, <1>7, <2>1 DEF FrameOf, Grows, HasFrame
  <2>3. Alone'
    BY <2>1, <2>2 DEF ArrayInv, Alone
  <2>4. a.is # "deleted" /\ (a.is = "there" => a.room = a.length)
    BY <2>1 DEF ArrayInv, Agrees, FrameOf, Grows, HasFrame
  <2>5. Agrees'
    <3> SUFFICES ASSUME NEW k \in FrameKinds
                 PROVE  \/ \E f \in EngineThreads : Grows(f, k)'
                        \/ /\ arrays'[k].is # "deleted"
                           /\ arrays'[k].is = "there" =>
                                arrays'[k].room = arrays'[k].length
      BY DEF Agrees
    <3>1. CASE k = kind /\ short
      BY <1>7, <3>1 DEF Grows
    <3>2. CASE k = kind /\ ~ short
      BY <1>5, <2>4, <3>2
    <3>3. CASE k # kind
      BY <1>5, <2>1, <2>2, <3>3 DEF ArrayInv, Agrees
    <3> QED
      BY <3>1, <3>2, <3>3
  <2>6. Fits'
    <3> SUFFICES ASSUME NEW f \in EngineThreads, NEW k \in FrameKinds, FrameOf(f, k)'
                 PROVE  IF threads'[f].at = "growing"
                          THEN /\ arrays'[k].is # "there"
                               /\ threads'[f].frame.size <= arrays'[k].length
                          ELSE arrays'[k].is = "there" =>
                                 threads'[f].frame.size <= arrays'[k].room
      BY DEF Fits
    <3>1. CASE k = kind /\ short
      BY <1>4, <1>5, <1>7, <2>2, <3>1
    <3>2. CASE k = kind /\ ~ short
      <4>1. size <= a.length
        BY <1>3, <3>2 DEF TooShort, Array
      <4> QED
        BY <1>5, <1>7, <2>2, <2>4, <3>2, <4>1
    <3>3. CASE k # kind
      <4>1. f # e /\ FrameOf(f, k)
        BY <2>2, <3>3
      <4>2. threads'[f] = threads[f] /\ arrays'[k] = arrays[k]
        BY <1>5, <1>7, <3>3, <4>1
      <4> QED
        BY <2>1, <4>1, <4>2 DEF ArrayInv, Fits
    <3> QED
      BY <3>1, <3>2, <3>3
  <2> QED
    BY <1>1, <1>2, <1>5, <2>1, <2>3, <2>5, <2>6 DEF ArrayInv, Dropped, Counted, LastFits
<1> QED
  BY <1>5, <1>8, <1>9 DEF ArrayInv

(* The array is made anew by the thread that gave it back. *)
LEMMA ArrayGrown ==
  ASSUME ArrayInv, ThreadInv, NEW e \in EngineThreads, NewArray(e)
  PROVE  ArrayInv'
<1> DEFINE kind == threads[e].frame.kind
           th == [threads[e] EXCEPT !.at = "filling"]
<1>1. threads[e] \in Thread /\ threads[e].at = "growing" /\ threads[e].frame \in Frame
  BY DEF ThreadInv, NewArray, HasFrame
<1>2. kind \in FrameKinds /\ threads[e].frame.size \in Nat
  BY <1>1, SizesAssumption DEF Frame
<1>3. arrays[kind] \in Array
  BY <1>2 DEF ArrayInv, CountInv
<1>4. PICK a \in NewArrays(arrays[kind]) :
        arrays' = [arrays EXCEPT ![kind] = a] /\ globals' = globals + Held(a)
  BY DEF NewArray
<1>5. /\ a \in Array /\ a.is # "deleted"
      /\ a.is = "there" => a.room = a.length /\ a.length = arrays[kind].length
  <2>1. \A b \in NewArrays(arrays[kind]) :
           /\ b \in Array /\ b.is # "deleted"
           /\ b.is = "there" => b.room = b.length /\ b.length = arrays[kind].length
    BY <1>3, ArraysMade, 0 \in Nat
  <2> QED
    BY <2>1
<1>6. /\ UNCHANGED <<pc, engine, pointer, last, raced>>
      /\ threads' = [threads EXCEPT ![e] = th]
  BY DEF NewArray, sessionVars, historyVars
<1>7. /\ \A f \in EngineThreads \ {e} : threads'[f] = threads[f]
      /\ threads'[e].at = "filling" /\ threads'[e].frame = threads[e].frame
  BY <1>1, <1>6 DEF ThreadInv, Thread
<1>8. /\ Held(a) \in Int /\ arrays \in [FrameKinds -> Array]
      /\ Spare \in Nat /\ globals \in Int
  BY DEF Held, ArrayInv, CountInv
<1>9. /\ arrays' \in [FrameKinds -> Array]
      /\ Spare' = Spare + Held(a) - Held(a) + Held(arrays[kind])
  <2> HIDE DEF kind
  <2> QED
    BY <1>2, <1>4, <1>5, <1>8, SpareStep
<1>10. Spare' = Spare + Held(arrays[kind]) /\ Spare' \in Nat /\ globals' \in Int
  BY <1>4, <1>8, <1>9 DEF Held
<1>11. CountInv'
  BY <1>6, <1>9, <1>10 DEF ArrayInv, CountInv
<1>12. arrays'[kind] = a /\ \A k \in FrameKinds : k # kind => arrays'[k] = arrays[k]
  BY <1>2, <1>4, <1>8
<1> HIDE DEF kind
<1>13. ASSUME ~ raced
       PROVE  Alone' /\ Agrees' /\ Fits' /\ Dropped' /\ Counted' /\ LastFits'
  <2>1. /\ FrameOf(e, kind) /\ ~ (pc \in {"destroyBase", "returned"})
        /\ arrays[kind].is # "there" /\ threads[e].frame.size <= arrays[kind].length
        /\ Spare = Kept
    <3>1. FrameOf(e, kind)
      BY <1>1 DEF FrameOf, HasFrame, kind
    <3> QED
      BY <1>1, <1>2, <1>13, <3>1 DEF ArrayInv, Fits, Dropped, Counted, FrameOf
  <2>2. /\ \A f \in EngineThreads, k \in FrameKinds : FrameOf(f, k)' => FrameOf(f, k)
        /\ \A f \in EngineThreads, k \in FrameKinds :
             k # kind => (Grows(f, k) => Grows(f, k)')
    BY <1>1, <1>7 DEF FrameOf, Grows, HasFrame, kind
  <2>3. Alone'
    BY <1>13, <2>2 DEF ArrayInv, Alone
  <2>4. Agrees'
    <3> SUFFICES ASSUME NEW k \in FrameKinds
                 PROVE  \/ \E f \in EngineThreads : Grows(f, k)'
                        \/ /\ arrays'[k].is # "deleted"
                           /\ arrays'[k].is = "there" =>
                                arrays'[k].room = arrays'[k].length
      BY DEF Agrees
    <3>1. CASE k = kind
      BY <1>5, <1>12, <3>1
    <3>2. CASE k # kind
      BY <1>12, <1>13, <2>2, <3>2 DEF ArrayInv, Agrees
    <3> QED
      BY <3>1, <3>2
  <2>5. Fits'
    <3> SUFFICES ASSUME NEW f \in EngineThreads, NEW k \in FrameKinds, FrameOf(f, k)'
                 PROVE  IF threads'[f].at = "growing"
                          THEN /\ arrays'[k].is # "there"
                               /\ threads'[f].frame.size <= arrays'[k].length
                          ELSE arrays'[k].is = "there" =>
                                 threads'[f].frame.size <= arrays'[k].room
      BY DEF Fits
    <3>1. FrameOf(f, k)
      BY <2>2
    <3>2. CASE k = kind
      <4>1. f = e
        BY <1>2, <1>13, <2>1, <3>1, <3>2 DEF ArrayInv, Alone
      <4> QED
        BY <1>5, <1>7, <1>12, <2>1, <3>2, <4>1
    <3>3. CASE k # kind
      <4>1. f # e
        BY <3>1, <3>3 DEF FrameOf, kind
      <4>2. threads'[f] = threads[f] /\ arrays'[k] = arrays[k]
        BY <1>7, <1>12, <3>3, <4>1
      <4> QED
        BY <1>13, <3>1, <4>2 DEF ArrayInv, Fits
    <3> QED
      BY <3>2, <3>3
  <2>6. Counted'
    <3>1. Spare' = Kept
      BY <1>10, <2>1, KeptIsNat DEF Held
    <3> QED
      BY <3>1 DEF Counted
  <2> QED
    BY <1>6, <1>13, <2>1, <2>3, <2>4, <2>5, <2>6 DEF ArrayInv, Dropped, LastFits
<1> QED
  BY <1>6, <1>10, <1>11, <1>13 DEF ArrayInv

(* A frame that is handed on is in an array that has room for it. *)
LEMMA ArrayFilled ==
  ASSUME ArrayInv, ThreadInv, NEW e \in EngineThreads, FillAndCall(e)
  PROVE  ArrayInv'
<1> DEFINE f == threads[e].frame
           a == arrays[f.kind]
<1>1. threads[e].at = "filling" /\ f \in Frame
  BY DEF FillAndCall, ThreadInv, HasFrame
<1>2. /\ UNCHANGED <<pc, engine, pointer, arrays, globals, raced>>
      /\ threads' = [threads EXCEPT ![e] = AfterCall(e)]
      /\ last' = IF a.is = "there" THEN [size |-> f.size, room |-> a.room] ELSE last
  BY DEF FillAndCall, sessionVars
<1>3. /\ AfterCall(e).at = "idle" /\ DOMAIN threads = EngineThreads
      /\ \A g \in EngineThreads \ {e} : threads'[g] = threads[g]
  BY <1>2 DEF AfterCall, Detached, ThreadInv
<1>4. ~ raced => LastFits'
  <2> SUFFICES ASSUME ~ raced PROVE LastFits'
    OBVIOUS
  <2>1. FrameOf(e, f.kind) /\ f.kind \in FrameKinds
    BY <1>1 DEF FrameOf, HasFrame, Frame
  <2>2. a.is = "there" => f.size <= a.room
    BY <1>1, <2>1 DEF ArrayInv, Fits
  <2>3. LastFits
    BY DEF ArrayInv
  <2> QED
    BY <1>2, <2>2, <2>3 DEF LastFits
<1>5. ArrayInv => CountInv' /\ globals' \in Int
  BY <1>2 DEF ArrayInv, CountInv, Spare
<1>6. /\ \A g \in EngineThreads, k \in FrameKinds :
           FrameOf(g, k)' => FrameOf(g, k) /\ threads'[g] = threads[g]
      /\ \A g \in EngineThreads, k \in FrameKinds : Grows(g, k) => Grows(g, k)'
      /\ \A g \in EngineThreads : HasFrame(g)' => HasFrame(g)
  BY <1>1, <1>2, <1>3 DEF FrameOf, Grows, HasFrame
<1> HIDE DEF f, a
<1>7. ~ raced => Alone' /\ Agrees' /\ Fits' /\ Dropped' /\ Counted'
  <2> SUFFICES ASSUME ~ raced PROVE Alone' /\ Agrees' /\ Fits' /\ Dropped' /\ Counted'
    OBVIOUS
  <2>1. Alone /\ Agrees /\ Fits /\ Dropped /\ Counted
    BY DEF ArrayInv
  <2>2. Alone'
    BY <1>6, <2>1 DEF Alone
  <2>3. Agrees'
    BY <1>2, <1>6, <2>1 DEF Agrees
  <2>4. Fits'
    BY <1>2, <1>6, <2>1 DEF Fits
  <2>5. Dropped'
    BY <1>2, <1>6, <2>1 DEF Dropped
  <2>6. Counted'
    BY <1>2, <1>6, <2>1 DEF Counted, Spare
  <2> QED
    BY <2>2, <2>3, <2>4, <2>5, <2>6
<1> QED
  BY <1>2, <1>4, <1>5, <1>7 DEF ArrayInv

LEMMA ArrayCallback ==
  ASSUME ArrayInv, ThreadInv, NEW e \in EngineThreads, Callback(e)
  PROVE  ArrayInv'
<1>1. DOMAIN threads = EngineThreads /\ AfterCall(e).at = "idle" /\ Detached.at = "idle"
  BY DEF ThreadInv, AfterCall, Detached
<1>2. ASSUME NEW th, threads' = [threads EXCEPT ![e] = th], th.at \in {"idle", "errorTold"},
             threads[e].at \in {"idle", "errorTold"},
             UNCHANGED <<arrays, globals, raced, last, pc, pointer>>,
             engine' = engine \/ (pointer /\ engine' = "left")
      PROVE  ArrayInv'
  <2>1. \A f \in EngineThreads : f # e => threads'[f] = threads[f]
    BY <1>1, <1>2
  <2>2. threads'[e] = th
    BY <1>1, <1>2
  <2>3. NoFrames
    BY <1>2, <2>1, <2>2 DEF NoFrames
  <2> QED
    BY <2>3, ArrayQuiet
<1>3. CASE Tell(e)
  BY <1>1, <1>2, <1>3 DEF Tell, CanReport, sessionVars
<1>4. CASE onLeaveChannel(e)
  BY <1>1, <1>2, <1>4 DEF onLeaveChannel, sessionVars
<1>5. CASE onError(e)
  <2> DEFINE th == [threads[e] EXCEPT !.attached = TRUE, !.at = "errorTold"]
  <2>1. threads' = [threads EXCEPT ![e] = th] /\ threads[e].at = "idle"
          /\ UNCHANGED <<arrays, globals, raced, last, pc, pointer, engine>>
    BY <1>5 DEF onError, CanReport, sessionVars
  <2>2. th.at = "errorTold"
    BY DEF ThreadInv, Thread
  <2> HIDE DEF th
  <2> QED
    BY <1>2, <2>1, <2>2
<1>6. CASE LeaveOnError(e)
  <2>1. /\ threads' = [threads EXCEPT ![e] = Detached] /\ threads[e].at = "errorTold"
        /\ UNCHANGED <<arrays, globals, raced, last, pc, pointer>>
        /\ engine' = engine \/ (pointer /\ engine' = "left")
    BY <1>6 DEF LeaveOnError, leaveChannel
  <2> QED
    BY <1>1, <1>2, <2>1
<1>7. CASE onErrorImpl(e)
  <2>1. /\ UNCHANGED <<arrays, globals, threads, raced, last, pc, pointer>>
        /\ engine' = engine \/ (pointer /\ engine' = "left")
    BY <1>7 DEF onErrorImpl, leaveChannel, bridgeVars
  <2>2. NoFrames
    BY <2>1 DEF NoFrames
  <2> QED
    BY <2>2, ArrayQuiet
<1> QED
  BY <1>3, <1>4, <1>5, <1>6, <1>7, ArrayFrame, ArrayGrown, ArrayFilled, CallbackCases

THEOREM ArrayInvariant == Spec => []ArrayInv
<1>1. ArrayInv /\ ThreadInv /\ [Next]_vars => ArrayInv'
  <2> SUFFICES ASSUME ArrayInv, ThreadInv, [Next]_vars PROVE ArrayInv'
    OBVIOUS
  <2>1. CASE Session
    BY <2>1, ArraySession
  <2>2. CASE Java
    BY <2>2, ArrayJava
  <2>3. CASE \E e \in EngineThreads : Callback(e)
    BY <2>3, ArrayCallback
  <2>4. CASE UNCHANGED vars
    <3>1. UNCHANGED <<arrays, globals, threads, raced, last, pc, pointer, engine>>
      BY <2>4 DEF vars, sessionVars, bridgeVars, historyVars
    <3>2. NoFrames
      BY <3>1 DEF NoFrames
    <3> QED
      BY <3>2, ArrayQuiet
  <2> QED
    BY <2>1, <2>2, <2>3, <2>4 DEF Next
<1> QED
  BY ArrayInit, <1>1, ThreadInvariant, PTL DEF Spec

(* As long as no two threads had a frame of one kind in hand together, a    *)
(* frame given to Java fits its array, and what createChannel keeps of      *)
(* global references is what it made.                                       *)
THEOREM FramesFit == Spec => []ArraysHoldFrames
<1>1. ArrayInv => ArraysHoldFrames
  <2> SUFFICES ASSUME ArrayInv, ~ raced
               PROVE  /\ last # None => last.size <= last.room
                      /\ globals \in {0, Kept + Held(arrays["audio"]) + Held(arrays["video"])}
                      /\ pc = "returned" => globals \in {0, Kept}
    BY DEF ArraysHoldFrames
  <2>1. last # None => last.size <= last.room
    BY DEF ArrayInv, LastFits
  <2>2. globals \in Int /\ Kept \in Nat /\ (globals = 0 \/ Spare = Kept)
    BY KeptIsNat DEF ArrayInv, Counted
  <2>3. pc = "returned" => Held(arrays["audio"]) = 0 /\ Held(arrays["video"]) = 0
    BY DEF ArrayInv, Dropped, FrameKinds, Held
  <2>4. Spare = globals - Held(arrays["audio"]) - Held(arrays["video"])
    BY DEF Spare
  <2>5. Held(arrays["audio"]) \in {0, 1} /\ Held(arrays["video"]) \in {0, 1}
    BY DEF Held
  <2> QED
    BY <2>1, <2>2, <2>3, <2>4, <2>5
<1> QED
  BY <1>1, ArrayInvariant, PTL

-----------------------------------------------------------------------------
(* What the engine is given *)

(* Every call Java is in is one it may have made. *)
AskedInv ==
    /\ DOMAIN calls = Callers
    /\ \A t \in Callers :
         /\ calls[t].at = "setVideoMixingLayout" => calls[t].asked \in Layouts
         /\ calls[t].at = "updateWatermarkConfigs" => calls[t].asked \in Watermarks
         /\ calls[t].at = "setLogLevel" => calls[t].asked \in LogLevels

LEMMA AskedStep ==
  ASSUME AskedInv, [Next]_vars
  PROVE  AskedInv'
<1>1. ASSUME NEW t \in Callers, NEW c, calls' = [calls EXCEPT ![t] = c],
             c.at \in {"idle", "reading", "clearing", "leaving"} \/ c \in Requests
      PROVE  AskedInv'
  <2>1. /\ c.at = "setVideoMixingLayout" => c.asked \in Layouts
        /\ c.at = "updateWatermarkConfigs" => c.asked \in Watermarks
        /\ c.at = "setLogLevel" => c.asked \in LogLevels
    BY <1>1 DEF Requests
  <2> QED
    BY <1>1, <2>1 DEF AskedInv
<1>2. CASE Java
  <2> PICK t \in Callers :
        \/ EnterLeave(t) \/ ReadHandle(t) \/ ClearHandle(t) \/ NativeLeave(t)
        \/ Call(t)
        \/ setVideoMixingLayout(t) \/ updateWatermarkConfigs(t) \/ setLogLevel(t)
        \/ updateSubscribeUids(t) \/ getProperties(t) \/ forward(t)
    BY <1>2, JavaCases
  <2>1. CASE EnterLeave(t)
    BY <1>1, <2>1 DEF EnterLeave
  <2>2. CASE ReadHandle(t)
    BY <1>1, <2>2 DEF ReadHandle
  <2>3. CASE ClearHandle(t)
    BY <1>1, <2>3 DEF ClearHandle
  <2>4. CASE NativeLeave(t) \/ CallReturns(t)
    BY <1>1, <2>4 DEF NativeLeave, CallReturns, Idle
  <2>5. CASE Call(t)
    <3>1. PICK r \in Requests : calls' = [calls EXCEPT ![t] = r]
      BY <2>5 DEF Call
    <3> QED
      BY <1>1, <3>1
  <2> QED
    BY <2>1, <2>2, <2>3, <2>4, <2>5, NativeReturns
<1>3. ASSUME calls' = calls PROVE AskedInv'
  BY <1>3 DEF AskedInv
<1>4. CASE Session
  BY <1>3, <1>4 DEF Session, CheckArguments, initialize, Configure, CreateEngine, Join,
       nativeObjectRef, setJavaRecordingPath, TestStopped, stopJavaProc, Leave,
       release, DestroyBridge, Destroy, javaVars
<1>5. CASE \E e \in EngineThreads : Callback(e)
  BY <1>3, <1>5, CallbackCases DEF Tell, FrameReceived, NewArray, FillAndCall,
       onLeaveChannel, onError, onErrorImpl, LeaveOnError, javaVars
<1>6. CASE UNCHANGED vars
  BY <1>3, <1>6 DEF vars, javaVars
<1> QED
  BY <1>2, <1>4, <1>5, <1>6 DEF Next

THEOREM AskedInvariant == Spec => []AskedInv
<1>1. Init => AskedInv
  BY DEF Init, AskedInv, Idle
<1> QED
  BY <1>1, AskedStep, PTL DEF Spec

(* The list of watermarks is as long as the three arrays together. *)
IsArray(a) == Len(a) \in Nat /\ DOMAIN a = 1 .. Len(a)
AreMarks(w) == IsArray(w.literals) /\ IsArray(w.timestamps) /\ IsArray(w.images)

LEMMA ThreeLengths ==
  ASSUME NEW S, NEW a \in Seq(S), NEW b \in Seq(S), NEW c \in Seq(S)
  PROVE  Len(a \o b \o c) = Len(a) + Len(b) + Len(c)
  OBVIOUS

LEMMA MarksCounted ==
  ASSUME NEW w, AreMarks(w)
  PROVE  Len(MarksOf(w)) = NumberOfMarks(w)
<1> DEFINE mark(type, marks, i) == [type |-> type, mark |-> marks[i]]
           T(type, marks) == [i \in DOMAIN marks |-> mark(type, marks, i)]
           S == {mark("litera", w.literals, i) : i \in DOMAIN w.literals}
                \union {mark("timestamp", w.timestamps, i) : i \in DOMAIN w.timestamps}
                \union {mark("image", w.images, i) : i \in DOMAIN w.images}
<1>1. /\ T("litera", w.literals) \in Seq(S)
      /\ Len(T("litera", w.literals)) = Len(w.literals)
  BY DEF AreMarks, IsArray
<1>2. /\ T("timestamp", w.timestamps) \in Seq(S)
      /\ Len(T("timestamp", w.timestamps)) = Len(w.timestamps)
  BY DEF AreMarks, IsArray
<1>3. /\ T("image", w.images) \in Seq(S)
      /\ Len(T("image", w.images)) = Len(w.images)
  BY DEF AreMarks, IsArray
<1>4. MarksOf(w) = T("litera", w.literals) \o T("timestamp", w.timestamps)
                     \o T("image", w.images)
  BY DEF MarksOf
<1> HIDE DEF T, S
<1>5. Len(MarksOf(w)) = Len(T("litera", w.literals)) + Len(T("timestamp", w.timestamps))
                          + Len(T("image", w.images))
  BY <1>1, <1>2, <1>3, <1>4, ThreeLengths
<1> QED
  BY <1>1, <1>2, <1>3, <1>5, Zenon DEF NumberOfMarks

LEMMA LayoutsAreTyped ==
  ASSUME NEW j \in Layouts
  PROVE  /\ j.regionCount \in Int
         /\ j.regions # None => IsArray(j.regions)
         /\ AreMarks(j.watermarks)
  BY LayoutsAssumption DEF AreMarks, IsArray

(* Regions with their count, as a layout that can count wants them.         *)
RegionsAs(count, regions, j) ==
    /\ count = Len(regions)
    /\ count = IF j.regions = None THEN 0 ELSE Len(j.regions)
    /\ \A i \in DOMAIN regions : j.regions[i] # None =>
         /\ j.regions[i].uid \in 0 .. 2 ^ UidBits - 1 =>
              regions[i].uid = j.regions[i].uid
         /\ regions[i].x = j.regions[i].x

(* A number below the modulus is its own remainder. *)
LEMMA SmallRemainder ==
  ASSUME NEW m \in Nat, NEW u \in 0 .. m - 1
  PROVE  u % m = u
  OBVIOUS

LEMMA RegionsKept ==
  ASSUME NEW j \in Layouts,
         j.regionCount = IF j.regions = None THEN 0 ELSE Len(j.regions)
  PROVE  Accepted(j) /\ RegionsAs(Laid(j).count, Laid(j).regions, j)
<1> DEFINE regions == IF j.regionCount > 0 THEN RegionsOf(j.regions) ELSE <<>>
<1>1. Laid(j).count = j.regionCount /\ Laid(j).regions = regions
  BY DEF Laid
<1>2. CASE j.regionCount > 0
  <2> DEFINE n == Len(j.regions)
             R == RegionsOf(j.regions)
  <2>1. /\ j.regions # None /\ n \in Nat /\ DOMAIN j.regions = 1 .. n
        /\ n = j.regionCount
    BY <1>2, LayoutsAreTyped DEF IsArray
  <2>2. /\ R = [i \in 1 .. n |-> R[i]]
        /\ \A i \in 1 .. n : j.regions[i] # None =>
             /\ R[i].uid = j.regions[i].uid % 2 ^ UidBits
             /\ R[i].x = j.regions[i].x
    BY <2>1 DEF RegionsOf
  <2>3. R \in Seq({R[i] : i \in 1 .. n}) /\ Len(R) = n /\ DOMAIN R = 1 .. n
    BY <2>1, <2>2
  <2>4. \A i \in 1 .. n :
          j.regions[i].uid \in 0 .. 2 ^ UidBits - 1 =>
            j.regions[i].uid % 2 ^ UidBits = j.regions[i].uid
    <3> DEFINE m == 2 ^ UidBits
    <3>1. m \in Nat
      BY LayoutsAssumption
    <3> HIDE DEF m
    <3>2. \A i \in 1 .. n : j.regions[i].uid \in 0 .. m - 1 =>
            j.regions[i].uid % m = j.regions[i].uid
      BY <3>1, SmallRemainder
    <3> QED
      BY <3>2 DEF m
  <2>5. RegionsAs(n, R, j)
    BY <2>1, <2>2, <2>3, <2>4 DEF RegionsAs
  <2> QED
    BY <1>1, <1>2, <2>1, <2>5 DEF Accepted
<1>3. CASE ~ (j.regionCount > 0)
  <2>1. j.regionCount = 0 /\ regions = <<>>
    BY <1>3, LayoutsAreTyped DEF IsArray
  <2>2. RegionsAs(0, <<>>, j)
    BY <2>1 DEF RegionsAs
  <2> QED
    BY <1>1, <1>3, <2>1, <2>2 DEF Accepted
<1> QED
  BY <1>2, <1>3

(* What Java wants is what the engine has, and both are records. *)
GivenInv ==
    /\ {"count", "regions", "marks"} \subseteq DOMAIN given
    /\ {"layout", "marks"} \subseteq DOMAIN wanted
    /\ wanted.layout # None => RegionsAs(given.count, given.regions, wanted.layout)
    /\ (wanted.marks # None /\ NumberOfMarks(wanted.marks) > 0) =>
         Len(given.marks) = NumberOfMarks(wanted.marks)

LEMMA GivenInit == Init => GivenInv
<1> SUFFICES ASSUME Init PROVE GivenInv
  OBVIOUS
<1>1. /\ given = [canvas |-> None, count |-> 0, regions |-> <<>>, marks |-> <<>>]
      /\ wanted = [layout |-> None, marks |-> NoMarks]
  BY DEF Init, Nothing
<1>2. NumberOfMarks(NoMarks) = 0
  BY DEF NumberOfMarks, NoMarks
<1> QED
  BY <1>1, <1>2 DEF GivenInv

LEMMA GivenLayout ==
  ASSUME GivenInv, AskedInv, NEW t \in Callers, setVideoMixingLayout(t)
  PROVE  GivenInv'
<1> DEFINE j == calls[t].asked
<1>1. j \in Layouts
  BY DEF setVideoMixingLayout, InCall, AskedInv
<1>2. \/ UNCHANGED <<given, wanted>>
      \/ /\ given' = IF Accepted(j) THEN Laid(j) ELSE given
         /\ wanted' = WantedBy(j)
  BY DEF setVideoMixingLayout, OnObject
<1> HIDE DEF j
<1>3. CASE UNCHANGED <<given, wanted>>
  BY <1>3 DEF GivenInv
<1>4. CASE /\ given' = IF Accepted(j) THEN Laid(j) ELSE given
           /\ wanted' = WantedBy(j)
  <2>1. CASE j.regionCount = IF j.regions = None THEN 0 ELSE Len(j.regions)
    <3>1. Accepted(j) /\ RegionsAs(Laid(j).count, Laid(j).regions, j)
      BY <1>1, <2>1, RegionsKept
    <3>2. given' = Laid(j) /\ wanted' = [layout |-> j, marks |-> j.watermarks]
      BY <1>4, <2>1, <3>1 DEF WantedBy
    <3>3. Laid(j).marks = MarksOf(j.watermarks)
            /\ {"count", "regions", "marks"} \subseteq DOMAIN Laid(j)
      BY DEF Laid
    <3>4. Len(MarksOf(j.watermarks)) = NumberOfMarks(j.watermarks)
      BY <1>1, LayoutsAreTyped, MarksCounted
    <3> QED
      BY <3>1, <3>2, <3>3, <3>4 DEF GivenInv
  <2>2. CASE j.regionCount # IF j.regions = None THEN 0 ELSE Len(j.regions)
    <3>1. wanted' = [layout |-> None, marks |-> None]
      BY <1>4, <2>2 DEF WantedBy
    <3>2. {"count", "regions", "marks"} \subseteq DOMAIN Laid(j)
      BY DEF Laid
    <3>3. {"count", "regions", "marks"} \subseteq DOMAIN given'
      BY <1>4, <3>2 DEF GivenInv
    <3> QED
      BY <3>1, <3>3 DEF GivenInv
  <2> QED
    BY <2>1, <2>2
<1> QED
  BY <1>2, <1>3, <1>4

LEMMA GivenMarks ==
  ASSUME GivenInv, AskedInv, NEW t \in Callers, updateWatermarkConfigs(t)
  PROVE  GivenInv'
<1> DEFINE w == calls[t].asked
           m == MarksOf(w)
<1>1. AreMarks(w)
  BY LayoutsAssumption DEF updateWatermarkConfigs, InCall, AskedInv, AreMarks, IsArray
<1>2. \/ UNCHANGED <<given, wanted>>
      \/ /\ given' = IF m # <<>> THEN [given EXCEPT !.marks = m] ELSE given
         /\ wanted' = [wanted EXCEPT !.marks = w]
  BY DEF updateWatermarkConfigs, OnObject
<1>3. Len(m) = NumberOfMarks(w)
  BY <1>1, MarksCounted
<1> HIDE DEF w, m
<1>4. m = <<>> => NumberOfMarks(w) = 0
  BY <1>3
<1>5. CASE UNCHANGED <<given, wanted>>
  BY <1>5 DEF GivenInv
<1>6. CASE /\ given' = IF m # <<>> THEN [given EXCEPT !.marks = m] ELSE given
           /\ wanted' = [wanted EXCEPT !.marks = w]
  <2>1. /\ DOMAIN wanted' = DOMAIN wanted /\ wanted'.layout = wanted.layout
        /\ wanted'.marks = w
    BY <1>6 DEF GivenInv
  <2>2. /\ DOMAIN given' = DOMAIN given /\ given'.count = given.count
        /\ given'.regions = given.regions
        /\ m # <<>> => given'.marks = m
    BY <1>6 DEF GivenInv
  <2>3. wanted'.layout # None =>
          RegionsAs(given'.count, given'.regions, wanted'.layout)
    BY <2>1, <2>2 DEF GivenInv
  <2>4. NumberOfMarks(wanted'.marks) > 0 => Len(given'.marks) = NumberOfMarks(wanted'.marks)
    BY <1>3, <1>4, <2>1, <2>2
  <2> QED
    BY <2>1, <2>2, <2>3, <2>4 DEF GivenInv
<1> QED
  BY <1>2, <1>5, <1>6

(* No other step hands anything on, or lets Java want something else. *)
LEMMA GivenElsewhere ==
  ASSUME [Next]_vars,
         ~ \E t \in Callers : setVideoMixingLayout(t) \/ updateWatermarkConfigs(t)
  PROVE  UNCHANGED <<given, wanted>>
<1>1. CASE Java
  <2> PICK t \in Callers :
        \/ EnterLeave(t) \/ ReadHandle(t) \/ ClearHandle(t) \/ NativeLeave(t)
        \/ Call(t)
        \/ setVideoMixingLayout(t) \/ updateWatermarkConfigs(t) \/ setLogLevel(t)
        \/ updateSubscribeUids(t) \/ getProperties(t) \/ forward(t)
    BY <1>1, JavaCases
  <2>1. CASE \/ EnterLeave(t) \/ ReadHandle(t) \/ ClearHandle(t) \/ NativeLeave(t)
             \/ Call(t)
    BY <2>1 DEF EnterLeave, ReadHandle, ClearHandle, NativeLeave, Call, historyVars
  <2>2. CASE setLogLevel(t) \/ updateSubscribeUids(t) \/ getProperties(t) \/ forward(t)
    BY <2>2 DEF setLogLevel, updateSubscribeUids, getProperties, forward, OnObject
  <2> QED
    BY <2>1, <2>2
<1>2. CASE Session
  BY <1>2 DEF Session, CheckArguments, initialize, Configure, CreateEngine, Join,
       nativeObjectRef, setJavaRecordingPath, TestStopped, stopJavaProc, Leave,
       release, DestroyBridge, Destroy, javaVars, historyVars
<1>3. CASE \E e \in EngineThreads : Callback(e)
  BY <1>3, CallbackCases DEF Tell, FrameReceived, NewArray, FillAndCall,
       onLeaveChannel, onError, onErrorImpl, LeaveOnError, javaVars, historyVars
<1>4. CASE UNCHANGED vars
  BY <1>4 DEF vars, javaVars, historyVars
<1> QED
  BY <1>1, <1>2, <1>3, <1>4 DEF Next

(* What the engine has is what Java wants, whichever regions of an array    *)
(* are null: also the updates that are dropped count.                       *)
THEOREM HandedOnAsAsked == Spec => []HandedAsAsked
<1>1. GivenInv /\ AskedInv /\ [Next]_vars => GivenInv'
  <2> SUFFICES ASSUME GivenInv, AskedInv, [Next]_vars PROVE GivenInv'
    OBVIOUS
  <2>1. CASE \E t \in Callers : setVideoMixingLayout(t) \/ updateWatermarkConfigs(t)
    BY <2>1, GivenLayout, GivenMarks
  <2>2. CASE ~ \E t \in Callers : setVideoMixingLayout(t) \/ updateWatermarkConfigs(t)
    BY <2>2, GivenElsewhere DEF GivenInv
  <2> QED
    BY <2>1, <2>2
<1>2. GivenInv => HandedAsAsked
  BY DEF GivenInv, RegionsAs, HandedAsAsked
<1> QED
  BY GivenInit, <1>1, <1>2, AskedInvariant, PTL DEF Spec

-----------------------------------------------------------------------------
(* Types *)

(* The part of TypeOK that is neither in ThreadInv nor in ArrayInv. *)
SessionType ==
    /\ args \in Arguments
    /\ pc \in {"check", "initialize", "configure", "create", "joining", "handOver",
               "path", "loop", "stopProc", "leave", "release", "destroy",
               "destroyBase", "returned"}
    /\ logLevel \in 2 .. 7 \union LogLevels
    /\ object \in {"alive", "gone"} /\ engine \in {"none", "live", "left", "released"}
    /\ pointer \in BOOLEAN /\ stopped \in BOOLEAN /\ handle \in BOOLEAN
    /\ monitor \in Callers \union {None}

LEMMA TypeInit == Init => SessionType
<1> SUFFICES ASSUME Init PROVE SessionType
  OBVIOUS
<1>1. /\ logLevel = 5 /\ handle = FALSE /\ pointer = FALSE /\ stopped = FALSE
      /\ pc = "check" /\ object = "alive" /\ engine = "none" /\ monitor = None
      /\ args \in Arguments
  BY DEF Init
<1>2. pointer \in BOOLEAN /\ stopped \in BOOLEAN /\ handle \in BOOLEAN
  BY <1>1, Zenon
<1>3. logLevel \in 2 .. 7 /\ monitor \in Callers \union {None}
  BY <1>1
<1> QED
  BY <1>1, <1>2, <1>3, Zenon DEF SessionType

LEMMA TypeSession ==
  ASSUME SessionType, Session
  PROVE  SessionType'
<1> USE DEF SessionType, At, Goto, javaVars
<1>1. CASE CheckArguments \/ initialize
  BY <1>1 DEF CheckArguments, initialize
<1>2. CASE Configure
  <2>1. Clamped(args.level) \in 2 .. 7
    BY LevelsAssumption DEF Clamped
  <2> QED
    BY <1>2, <2>1 DEF Configure
<1>3. CASE CreateEngine \/ Join
  BY <1>3 DEF CreateEngine, Join
<1>4. CASE nativeObjectRef \/ setJavaRecordingPath \/ TestStopped \/ stopJavaProc
  BY <1>4 DEF nativeObjectRef, setJavaRecordingPath, TestStopped, stopJavaProc
<1>5. CASE Leave
  BY <1>5 DEF Leave, leaveChannel
<1>6. CASE release \/ DestroyBridge \/ Destroy
  BY <1>6 DEF release, DestroyBridge, Destroy
<1> QED
  BY <1>1, <1>2, <1>3, <1>4, <1>5, <1>6 DEF Session

LEMMA TypeJava ==
  ASSUME SessionType, AskedInv, Java
  PROVE  SessionType'
<1> USE DEF SessionType
<1> PICK t \in Callers :
      \/ EnterLeave(t) \/ ReadHandle(t) \/ ClearHandle(t) \/ NativeLeave(t)
      \/ Call(t)
      \/ setVideoMixingLayout(t) \/ updateWatermarkConfigs(t) \/ setLogLevel(t)
      \/ updateSubscribeUids(t) \/ getProperties(t) \/ forward(t)
  BY JavaCases
<1>1. CASE EnterLeave(t) \/ ReadHandle(t) \/ ClearHandle(t)
  BY <1>1 DEF EnterLeave, ReadHandle, ClearHandle, sessionVars
<1>2. CASE NativeLeave(t)
  BY <1>2 DEF NativeLeave, leaveChannel
<1>3. CASE Call(t)
  BY <1>3 DEF Call, sessionVars
<1>4. CASE setVideoMixingLayout(t) \/ updateWatermarkConfigs(t) \/ setLogLevel(t)
           \/ updateSubscribeUids(t) \/ getProperties(t) \/ forward(t)
  <2>1. logLevel' = logLevel \/ logLevel' \in LogLevels
    BY <1>4 DEF setVideoMixingLayout, updateWatermarkConfigs, setLogLevel,
         updateSubscribeUids, getProperties, forward, OnObject, InCall, AskedInv
  <2>2. CallReturns(t)
    BY <1>4, NativeReturns
  <2> QED
    BY <2>1, <2>2 DEF CallReturns
<1> QED
  BY <1>1, <1>2, <1>3, <1>4

LEMMA TypeCallback ==
  ASSUME SessionType, NEW e \in EngineThreads, Callback(e)
  PROVE  SessionType'
<1> USE DEF SessionType, sessionVars, javaVars
<1>1. CASE Tell(e)
  BY <1>1 DEF Tell
<1>2. CASE \E kind \in FrameKinds, size \in FrameSizes : FrameReceived(e, kind, size)
  BY <1>2 DEF FrameReceived
<1>3. CASE NewArray(e) \/ FillAndCall(e)
  <2>1. UNCHANGED <<args, pc, logLevel, object, engine, pointer, stopped, handle, monitor>>
    BY <1>3, Zenon DEF NewArray, FillAndCall
  <2> QED
    BY <2>1
<1>4. CASE onLeaveChannel(e)
  BY <1>4 DEF onLeaveChannel
<1>5. CASE onError(e)
  <2>1. handle' \in BOOLEAN
    <3>1. PICK statOk \in BOOLEAN : handle' = (handle /\ statOk)
      BY <1>5 DEF onError
    <3>2. (handle /\ statOk) \in BOOLEAN
      BY Zenon
    <3> QED
      BY <3>1, <3>2, Zenon
  <2>2. UNCHANGED <<args, pc, logLevel, object, engine, pointer, stopped, monitor>>
    BY <1>5 DEF onError
  <2> QED
    BY <2>1, <2>2
<1>6. CASE onErrorImpl(e) \/ LeaveOnError(e)
  BY <1>6 DEF onErrorImpl, LeaveOnError, leaveChannel
<1> QED
  BY <1>1, <1>2, <1>3, <1>4, <1>5, <1>6, CallbackCases

(* The session, the handle, the arrays and the threads of the engine keep   *)
(* their types: the level of the log is one of 2 to 7, where createChannel  *)
(* puts it, or one that Java has set since.                                 *)
THEOREM TypeCorrect == Spec => []TypeOK
<1>1. SessionType /\ AskedInv /\ [Next]_vars => SessionType'
  <2> SUFFICES ASSUME SessionType, AskedInv, [Next]_vars PROVE SessionType'
    OBVIOUS
  <2>1. CASE Session
    BY <2>1, TypeSession
  <2>2. CASE Java
    BY <2>2, TypeJava
  <2>3. CASE \E e \in EngineThreads : Callback(e)
    BY <2>3, TypeCallback
  <2>4. CASE UNCHANGED vars
    BY <2>4 DEF SessionType, vars, sessionVars, javaVars
  <2> QED
    BY <2>1, <2>2, <2>3, <2>4 DEF Next
<1>2. Spec => []SessionType
  BY TypeInit, <1>1, AskedInvariant, PTL DEF Spec
<1>3. SessionType /\ ThreadInv /\ ArrayInv => TypeOK
  <2> SUFFICES ASSUME SessionType, ThreadInv, ArrayInv PROVE TypeOK
    OBVIOUS
  <2>1. globals \in Nat /\ arrays \in [FrameKinds -> Array]
    BY GlobalsAreNat DEF ArrayInv, CountInv
  <2>2. threads \in [EngineThreads -> Thread] /\ mode \in {"default", "raw"}
    BY DEF ThreadInv
  <2> QED
    BY <2>1, <2>2 DEF SessionType, TypeOK, Array, Thread, Frame
<1> QED
  BY <1>2, <1>3, ThreadInvariant, ArrayInvariant, PTL
=============================================================================
