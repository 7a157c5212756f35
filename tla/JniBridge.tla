------------------------------ MODULE JniBridge ------------------------------
(***************************************************************************)
(* The Java recorder of the SDK: RecordingSDK.java, which keeps a pointer   *)
(* to a native object in nativeHandle, and RecordingJni.cpp below it.       *)
(*                                                                          *)
(* The thread that calls createChannel stays in it for the whole session:   *)
(* the native object is a local variable there.  Other Java threads call    *)
(* through the handle; only leaveChannel and stopCallBack hold the monitor  *)
(* of the RecordingSDK.  The engine calls back on threads of its own, which *)
(* are attached to the Java machine for the call (default mode) or once and *)
(* for all (raw data), and share the arrays for frames without a lock.      *)
(*                                                                          *)
(* Attaching a thread and finding a class, a field or a method are assumed  *)
(* to succeed, and the local references to the kinds of audio frames, which *)
(* belong to the thread in createChannel, to be good on every thread while  *)
(* it is there.                                                             *)
(***************************************************************************)
EXTENDS Integers, Sequences, FiniteSets

CONSTANTS
    Callers,        \* Java threads that call the RecordingSDK
    EngineThreads,  \* threads the engine calls back on
    Arguments,      \* what createChannel may be called with
    Layouts,        \* layouts Java may ask for
    Watermarks,     \* watermarks Java may ask for
    LogLevels,      \* levels Java may pass to setLogLevel
    FrameSizes,     \* sizes of frames, in bytes
    FirstAudio, FirstVideo,     \* INIT_AUDIO_ARRAY_LEN, INIT_VIDEO_ARRAY_LEN
    AudioSlack, VideoSlack,     \* what a new array has to spare
    UidBits,        \* width of uint32_t
    None,           \* null
    MaxSteps        \* bound: calls of Java and reports of the engine

ASSUME SizesAssumption ==
    /\ FrameSizes \subseteq Nat
    /\ {FirstAudio, FirstVideo, AudioSlack, VideoSlack} \subseteq Nat \ {0}
ASSUME NoneAssumption == None \notin Callers
ASSUME LevelsAssumption ==
    LogLevels \subseteq Int /\ \A a \in Arguments : a.level \in Int
(* What the Java types say of a layout and of the watermarks: a count is an *)
(* int, a uid a long, whatever their values; an array is a sequence.        *)
ASSUME LayoutsAssumption ==
    LET IsArray(a) == Len(a) \in Nat /\ DOMAIN a = 1 .. Len(a)
        AreMarks(w) == /\ IsArray(w.literals) /\ IsArray(w.timestamps)
                       /\ IsArray(w.images)
    IN  /\ 2 ^ UidBits \in Nat
        /\ \A w \in Watermarks : w # None /\ AreMarks(w)
        /\ \A j \in Layouts :
             /\ j # None /\ j.regionCount \in Int
             /\ j.watermarks # None /\ AreMarks(j.watermarks)
             /\ j.regions # None =>
                  /\ IsArray(j.regions)
                  /\ \A i \in 1 .. Len(j.regions) :
                       j.regions[i] # None => j.regions[i].uid \in Int

VARIABLES
    pc,             \* where createChannel is
    args,           \* its arguments
    config,         \* the RecordingConfig it hands to the engine
    logLevel,       \* m_level
    mode,           \* mRecordingMode
    object,         \* jniRecorder: "none", "alive" or "gone"
    engine,         \* the engine: "none", "live", "left" or "released"
    pointer,        \* m_engine # NULL
    stopped         \* m_stopped
sessionVars == <<pc, args, config, logLevel, mode, object, engine, pointer, stopped>>

VARIABLES
    handle,         \* nativeHandle # 0
    monitor,        \* the thread in a synchronized method, or None
    calls,          \* what each Java thread is doing in native code
    given,          \* the layout and the watermarks the engine has
    crashed         \* the process died in native code
javaVars == <<handle, monitor, calls, given, crashed>>

VARIABLES
    arrays,         \* audioArray_ and videoArray_, with the length noted
    globals,        \* global references held
    threads         \* the engine's threads: attached, place, frame in hand
bridgeVars == <<arrays, globals, threads>>

VARIABLES
    last,           \* history: the last frame given to Java
    raced,          \* history: two threads were at one array
    wanted,         \* history: the layout and the watermarks Java wants
    reported,       \* history: engine threads since their last farewell
    answered,       \* history: Java's leaveChannel was answered with true
    failed,         \* history: the engine reported an error
    steps           \* counter of the bound
historyVars == <<last, raced, wanted, reported, answered, failed, steps>>
vars == <<sessionVars, javaVars, bridgeVars, historyVars>>

-----------------------------------------------------------------------------
(* Byte arrays *)

FrameKinds == {"audio", "video"}
Slack(kind) == IF kind = "audio" THEN AudioSlack ELSE VideoSlack

(* checkAudioArraySize and checkVideoArraySize: a request the length is too *)
(* short for notes the new length and gives the array back, without         *)
(* forgetting the pointer ...                                               *)
NoArray == [length |-> 0, room |-> 0, is |-> "null"]
TooShort(a, size) == size > a.length
(* Mutant: the array is not given back. *)
NotGivenBack(a, size, slack) == [a EXCEPT !.length = size + slack]
GivenBack(a, size, slack) ==
    [length |-> size + slack, room |-> 0,
     is |-> IF a.is = "null" THEN "null" ELSE "deleted"]
(* ... and makes a new one of the length noted by now.  Java may have no    *)
(* memory for it, or none for a global reference to it: then the length     *)
(* stays without an array.                                                  *)
NewArrays(a) ==
    {NoArray, [a EXCEPT !.room = 0, !.is = "null"],
     [a EXCEPT !.room = a.length, !.is = "there"]}

Held(a) == IF a.is = "there" THEN 1 ELSE 0

(* What initJavaObjects keeps with a global reference: classes, and objects *)
(* the callbacks fill again and again.                                      *)
JavaObjects ==
    {"AudioStats", "VideoStats", "RecordingStats", "VideoFrame", "VideoYuvFrame",
     "VideoJpgFrame", "VideoH264Frame", "VideoH265Frame", "VIDEO_FRAME_TYPE",
     "AudioFrame", "AudioPcmFrame", "AudioAacFrame"} \X {"class", "object"}
    \union {<<"AudioVolumeInfo", "class">>}
(* These, and the class and the object of the RecordingSDK. *)
Kept == Cardinality(JavaObjects) + 2
-----------------------------------------------------------------------------
(* createChannel *)

Idle == [at |-> "idle"]
(* A thread of the engine outside callbacks, not attached to Java. *)
Detached == [attached |-> FALSE, at |-> "idle", frame |-> None]
(* Nothing yet of what the engine is given. *)
NoMarks == [literals |-> <<>>, timestamps |-> <<>>, images |-> <<>>]
Nothing == [canvas |-> None, count |-> 0, regions |-> <<>>, marks |-> <<>>]
Init ==
    /\ pc = "check" /\ args \in Arguments
    /\ config = None /\ logLevel = 5 /\ mode = "default"
    /\ object = "alive" /\ engine = "none" /\ pointer = FALSE /\ stopped = FALSE
    /\ handle = FALSE /\ monitor = None /\ calls = [t \in Callers |-> Idle]
    /\ given = Nothing /\ crashed = FALSE
    /\ arrays = [kind \in FrameKinds |-> NoArray] /\ globals = 0
    /\ threads = [e \in EngineThreads |-> Detached]
    /\ last = None /\ raced = FALSE /\ wanted = [layout |-> None, marks |-> NoMarks]
    /\ reported = {} /\ answered = FALSE /\ failed = FALSE
    /\ steps = 0

At(label)   == pc = label /\ ~ crashed
Goto(label) == pc' = label

(* An account is the length of its text; None stands for createChannel      *)
(* without one.                                                             *)
CheckArguments ==
    /\ At("check")
    /\ LET WellNamed == args.account = None \/ args.account \in 1 .. 256
       IN  Goto(IF args.appId # "" /\ args.name # "" /\ WellNamed
                  THEN "initialize" ELSE "destroy")
    /\ UNCHANGED <<args, config, logLevel, mode, object, engine, pointer, stopped>>
    /\ UNCHANGED <<javaVars, bridgeVars, historyVars>>

(* The object learns its Java counterpart, makes its arrays and finds the   *)
(* classes, fields and methods.                                             *)
initialize ==
    /\ At("initialize") /\ Goto("configure")
    /\ \E a \in NewArrays(GivenBack(NoArray, FirstAudio, AudioSlack)),
          v \in NewArrays(GivenBack(NoArray, FirstVideo, VideoSlack)) :
         /\ arrays' = [kind \in FrameKinds |-> IF kind = "audio" THEN a ELSE v]
         /\ globals' = Kept + Held(a) + Held(v)
    /\ UNCHANGED <<args, config, logLevel, mode, object, engine, pointer, stopped>>
    /\ UNCHANGED <<javaVars, threads, historyVars>>

(* The fields of the Java configuration, as read: an empty text is none.    *)
Given(text) == IF text = "" THEN None ELSE text
ConfigOf(java) ==
    [java EXCEPT !.mixResolution = IF java.isMixingEnabled /\ ~ java.isAudioOnly
                                     THEN java.mixResolution ELSE None,
                 !.secret = Given(java.secret),
                 !.subscribeVideoUids = Given(java.subscribeVideoUids)]
(* Mutant: a level is taken as it comes. *)
AnyLevel(level) == level
Clamped(level) == IF level < 2 THEN 2 ELSE IF level > 7 THEN 7 ELSE level

(* Mutant: raw data only if both kinds of frames are asked for. *)
RawIfBoth(c) == c.decodeAudio # 0 /\ c.decodeVideo # 0
RawData(c) == c.decodeAudio # 0 \/ c.decodeVideo # 0

Configure ==
    /\ At("configure") /\ Goto("create")
    /\ config' = ConfigOf(args.config)
    /\ logLevel' = Clamped(args.level)
    /\ mode' = IF RawData(config') THEN "raw" ELSE mode
    /\ UNCHANGED <<args, object, engine, pointer, stopped>>
    /\ UNCHANGED <<javaVars, bridgeVars, historyVars>>

(* AgoraSdk::createChannel: no engine, an engine that does not join, or one *)
(* that does.  It may report from the call of join on.                      *)
CreateEngine ==
    /\ At("create")
    /\ \/ Goto("destroy") /\ UNCHANGED <<engine, pointer>>
       \/ Goto("joining") /\ engine' = "live" /\ pointer' = TRUE
    /\ UNCHANGED <<args, config, logLevel, mode, object, stopped>>
    /\ UNCHANGED <<javaVars, bridgeVars, historyVars>>
Join ==
    /\ At("joining")
    /\ Goto("destroy") \/ Goto("handOver")
    /\ UNCHANGED <<args, config, logLevel, mode, object, engine, pointer, stopped>>
    /\ UNCHANGED <<javaVars, bridgeVars, historyVars>>

(* Java is told the address of the local variable; not under the monitor.   *)
nativeObjectRef ==
    /\ At("handOver") /\ Goto("path")
    /\ handle' = TRUE
    /\ UNCHANGED <<args, config, logLevel, mode, object, engine, pointer, stopped>>
    /\ UNCHANGED <<monitor, calls, given, crashed, bridgeVars, historyVars>>

(* The directory of the recording is read through m_engine. *)
setJavaRecordingPath ==
    /\ At("path") /\ Goto("loop")
    /\ UNCHANGED <<args, config, logLevel, mode, object, engine, pointer, stopped>>
    /\ UNCHANGED <<javaVars, bridgeVars, historyVars>>

(* The loop looks once a second. *)
TestStopped ==
    /\ At("loop") /\ stopped /\ Goto("stopProc")
    /\ UNCHANGED <<args, config, logLevel, mode, object, engine, pointer, stopped>>
    /\ UNCHANGED <<javaVars, bridgeVars, historyVars>>

(* Mutant: stopCallBack is not synchronized. *)
StopUnlocked ==
    /\ At("stopProc") /\ Goto("leave")
    /\ handle' = FALSE
    /\ UNCHANGED <<args, config, logLevel, mode, object, engine, pointer, stopped>>
    /\ UNCHANGED <<monitor, calls, given, crashed, bridgeVars, historyVars>>
(* Mutant: Java is not told. *)
StopSilently ==
    /\ At("stopProc") /\ monitor = None /\ Goto("leave")
    /\ UNCHANGED <<args, config, logLevel, mode, object, engine, pointer, stopped>>
    /\ UNCHANGED <<javaVars, bridgeVars, historyVars>>
(* stopCallBack, a synchronized method, forgets the handle. *)
stopJavaProc ==
    /\ At("stopProc") /\ monitor = None /\ Goto("leave")
    /\ handle' = FALSE
    /\ UNCHANGED <<args, config, logLevel, mode, object, engine, pointer, stopped>>
    /\ UNCHANGED <<monitor, calls, given, crashed, bridgeVars, historyVars>>

(* Mutant: the loop is not told that the channel was left. *)
LeaveUnnoticed ==
    /\ engine' = IF pointer THEN "left" ELSE engine
    /\ UNCHANGED stopped
(* AgoraSdk::leaveChannel, whoever calls it. *)
leaveChannel ==
    IF pointer THEN engine' = "left" /\ stopped' = TRUE
               ELSE UNCHANGED <<engine, stopped>>

Leave ==
    /\ At("leave") /\ Goto("release")
    /\ leaveChannel
    /\ UNCHANGED <<args, config, logLevel, mode, object, pointer>>
    /\ UNCHANGED <<javaVars, bridgeVars, historyVars>>

(* The engine is released once the callbacks under way have returned. *)
Quiet == \A e \in EngineThreads : threads[e].at = "idle"
release ==
    /\ At("release") /\ Quiet /\ Goto("destroy")
    /\ engine' = IF pointer THEN "released" ELSE engine
    /\ pointer' = FALSE
    /\ UNCHANGED <<args, config, logLevel, mode, object, stopped>>
    /\ UNCHANGED <<javaVars, bridgeVars, historyVars>>

(* createChannel returns: the destructor of the bridge gives the arrays     *)
(* back, nothing else that has a global reference, whatever a frame in hand *)
(* needs ...                                                                *)
HasFrame(e) == threads[e].at \in {"growing", "filling"}
GiveBackTwice(a) == IF a.is = "deleted" THEN BOOLEAN ELSE {FALSE}
DestroyBridge ==
    /\ At("destroy") /\ Goto("destroyBase")
    /\ arrays' = [kind \in FrameKinds |-> [arrays[kind] EXCEPT !.is = "null"]]
    /\ globals' = globals - Held(arrays["audio"]) - Held(arrays["video"])
    /\ \E kind \in FrameKinds : crashed' \in GiveBackTwice(arrays[kind])
    /\ raced' = (raced \/ \E e \in EngineThreads : HasFrame(e))
    /\ UNCHANGED <<args, config, logLevel, mode, object, engine, pointer, stopped>>
    /\ UNCHANGED <<handle, monitor, calls, given, threads>>
    /\ UNCHANGED <<last, wanted, reported, answered, failed, steps>>
(* ... and that of AgoraSdk releases an engine that is still there. *)
Destroy ==
    /\ At("destroyBase") /\ (pointer => Quiet) /\ Goto("returned")
    /\ engine' = IF pointer THEN "released" ELSE engine
    /\ object' = "gone"
    /\ UNCHANGED <<args, config, logLevel, mode, pointer, stopped>>
    /\ UNCHANGED <<javaVars, bridgeVars, historyVars>>

Session ==
    \/ CheckArguments \/ initialize \/ Configure \/ CreateEngine \/ Join
    \/ nativeObjectRef \/ setJavaRecordingPath \/ TestStopped \/ stopJavaProc
    \/ Leave \/ release \/ DestroyBridge \/ Destroy
-----------------------------------------------------------------------------
(* Calls of Java *)

(* RecordingSDK.leaveChannel holds the monitor from the test of the handle  *)
(* until the native call returns.  Without a handle it answers false and    *)
(* does nothing.  onError and nativeObjectRef write the handle without the  *)
(* monitor, so that it is read anew behind the test ...                     *)
EnterLeave(t) ==
    /\ ~ crashed /\ calls[t] = Idle /\ monitor = None /\ handle
    /\ monitor' = t /\ calls' = [calls EXCEPT ![t] = [at |-> "reading"]]
    /\ UNCHANGED <<sessionVars, handle, given, crashed, bridgeVars, historyVars>>
ReadHandle(t) ==
    /\ ~ crashed /\ calls[t].at = "reading"
    /\ calls' = [calls EXCEPT ![t] = [at |-> "clearing", temp |-> handle]]
    /\ UNCHANGED <<sessionVars, handle, monitor, given, crashed, bridgeVars, historyVars>>
ClearHandle(t) ==
    /\ ~ crashed /\ calls[t].at = "clearing"
    /\ handle' = FALSE
    /\ calls' = [calls EXCEPT ![t] = [at |-> "leaving", temp |-> calls[t].temp]]
    /\ UNCHANGED <<sessionVars, monitor, given, crashed, bridgeVars, historyVars>>
(* ... and may be null by now, which the native method answers with false.  *)
NativeLeave(t) ==
    /\ ~ crashed /\ calls[t].at = "leaving"
    /\ IF calls[t].temp THEN leaveChannel /\ answered' = TRUE
                        ELSE UNCHANGED <<engine, stopped, answered>>
    /\ monitor' = None /\ calls' = [calls EXCEPT ![t] = Idle]
    /\ UNCHANGED <<pc, args, config, logLevel, mode, object, pointer>>
    /\ UNCHANGED <<handle, given, crashed, bridgeVars>>
    /\ UNCHANGED <<last, raced, wanted, reported, failed, steps>>
LeaveGoesOn(t) == ReadHandle(t) \/ ClearHandle(t) \/ NativeLeave(t)

(* Every other method passes nativeHandle on without the monitor, and most  *)
(* return at once if there is none.  setUserBackground calls itself and     *)
(* never reaches the native method.                                         *)
Requests ==
    [at : {"setVideoMixingLayout"}, asked : Layouts]
    \union [at : {"updateWatermarkConfigs"}, asked : Watermarks]
    \union [at : {"setLogLevel"}, asked : LogLevels]
    \union [at : {"updateSubscribeUids", "getProperties", "forward"}]
Call(t) ==
    /\ ~ crashed /\ calls[t] = Idle /\ steps < MaxSteps
    /\ steps' = steps + 1
    /\ \E r \in Requests : /\ handle \/ r.at = "updateSubscribeUids"
                          /\ calls' = [calls EXCEPT ![t] = r]
    /\ UNCHANGED <<sessionVars, handle, monitor, given, crashed, bridgeVars>>
    /\ UNCHANGED <<last, raced, wanted, reported, answered, failed>>

(* A native method through the handle read before: on an object that is     *)
(* gone anything may happen.                                                *)
InCall(t, name) == ~ crashed /\ calls[t].at = name
CallReturns(t) ==
    /\ calls' = [calls EXCEPT ![t] = Idle]
    /\ UNCHANGED <<pc, args, config, mode, object, engine, pointer, stopped>>
    /\ UNCHANGED <<handle, monitor, bridgeVars>>
    /\ UNCHANGED <<last, raced, reported, answered, failed, steps>>
OnObject(Effect) ==
    \/ object = "alive" /\ Effect /\ UNCHANGED crashed
    \/ object = "gone" /\ UNCHANGED <<given, wanted, logLevel>> /\ crashed' \in BOOLEAN

(* Mutant: a null region is left out and those behind it move up. *)
WithoutNull(regions) ==
    LET there == SelectSeq(regions, LAMBDA r : r # None)
    IN  [i \in DOMAIN there |-> [uid |-> there[i].uid, x |-> there[i].x, alpha |-> i]]
(* A null region leaves a default one in its place; the uid is cut to 32    *)
(* bits, and alpha is the rank of the region whatever Java says.            *)
RegionsOf(regions) ==
    [i \in DOMAIN regions |->
        IF regions[i] = None
          THEN [uid |-> 0, x |-> 0, alpha |-> 1]
          ELSE [uid |-> regions[i].uid % 2 ^ UidBits, x |-> regions[i].x, alpha |-> i]]

(* The literals, the timestamps and the images, in one list; one that is    *)
(* null is left blank.                                                      *)
MarksOf(w) ==
    LET Typed(type, marks) ==
            [i \in DOMAIN marks |-> [type |-> type, mark |-> marks[i]]]
    IN  Typed("litera", w.literals) \o Typed("timestamp", w.timestamps)
        \o Typed("image", w.images)

(* A layout whose count is not that of its regions is refused, but for one  *)
(* that is not positive, which goes on as it is.  Both sides of the canvas  *)
(* are read from canvasWidth.                                               *)
Accepted(j) == j.regionCount > 0 =>
                 j.regions # None /\ Len(j.regions) = j.regionCount
Laid(j) == [canvas  |-> <<j.canvasWidth, j.canvasWidth>>,
            count   |-> j.regionCount,
            regions |-> IF j.regionCount > 0 THEN RegionsOf(j.regions) ELSE <<>>,
            marks   |-> MarksOf(j.watermarks)]
(* What Java wants by such a call: nothing certain if it cannot count.      *)
WantedBy(j) ==
    IF j.regionCount = (IF j.regions = None THEN 0 ELSE Len(j.regions))
      THEN [layout |-> j, marks |-> j.watermarks]
      ELSE [layout |-> None, marks |-> None]
setVideoMixingLayout(t) ==
    /\ InCall(t, "setVideoMixingLayout")
    /\ LET j == calls[t].asked
       IN OnObject(/\ given' = IF pointer /\ Accepted(j) THEN Laid(j) ELSE given
                   /\ wanted' = IF pointer THEN WantedBy(j) ELSE wanted
                   /\ UNCHANGED logLevel)
    /\ CallReturns(t)

(* Mutant: only an update with texts is handed on. *)
updateTexts(t) ==
    /\ InCall(t, "updateWatermarkConfigs")
    /\ LET w == calls[t].asked
       IN OnObject(/\ given' = IF pointer /\ w.literals # <<>>
                                 THEN [given EXCEPT !.marks = MarksOf(w)] ELSE given
                   /\ wanted' = IF pointer THEN [wanted EXCEPT !.marks = w] ELSE wanted
                   /\ UNCHANGED logLevel)
    /\ CallReturns(t)
(* No watermark at all is not handed on. *)
updateWatermarkConfigs(t) ==
    /\ InCall(t, "updateWatermarkConfigs")
    /\ LET w == calls[t].asked
       IN OnObject(/\ given' = IF pointer /\ MarksOf(w) # <<>>
                                 THEN [given EXCEPT !.marks = MarksOf(w)] ELSE given
                   /\ wanted' = IF pointer THEN [wanted EXCEPT !.marks = w] ELSE wanted
                   /\ UNCHANGED logLevel)
    /\ CallReturns(t)

(* A level that comes this way is taken as it is. *)
setLogLevel(t) ==
    /\ InCall(t, "setLogLevel")
    /\ OnObject(logLevel' = calls[t].asked /\ UNCHANGED <<given, wanted>>)
    /\ CallReturns(t)

(* updateSubscribeVideoUids and -AudioUids ask the engine, if there is an   *)
(* object, and end without the return they declare, with or without one.    *)
updateSubscribeUids(t) ==
    /\ InCall(t, "updateSubscribeUids")
    /\ crashed' \in BOOLEAN
    /\ UNCHANGED <<given, wanted, logLevel>>
    /\ CallReturns(t)

(* The properties are read through m_engine, which release has cleared. *)
getProperties(t) ==
    /\ InCall(t, "getProperties")
    /\ \/ object = "alive" /\ crashed' = ~ pointer
       \/ object = "gone" /\ crashed' \in BOOLEAN
    /\ UNCHANGED <<given, wanted, logLevel>>
    /\ CallReturns(t)

(* startService, stopService and the look-ups of users: the engine is asked *)
(* if there is one.                                                         *)
forward(t) ==
    /\ InCall(t, "forward")
    /\ OnObject(UNCHANGED <<given, wanted, logLevel>>)
    /\ CallReturns(t)

Java == \E t \in Callers :
    \/ EnterLeave(t) \/ LeaveGoesOn(t) \/ Call(t)
    \/ setVideoMixingLayout(t) \/ updateWatermarkConfigs(t) \/ setLogLevel(t)
    \/ updateSubscribeUids(t) \/ getProperties(t) \/ forward(t)
-----------------------------------------------------------------------------
(* Callbacks of the engine *)

(* AttachThreadScoped: a thread that was not attached is detached behind    *)
(* the callback in default mode.                                            *)
AfterCall(e) ==
    IF mode = "default" /\ ~ threads[e].attached
      THEN Detached ELSE [Detached EXCEPT !.attached = TRUE]

CanReport(e) ==
    /\ ~ crashed /\ engine = "live" /\ threads[e].at = "idle" /\ steps < MaxSteps
    /\ steps' = steps + 1

(* A callback that calls Java.  Behind the destructor of the bridge there   *)
(* is only an AgoraSdk, and the callbacks are its own.                      *)
Tell(e) ==
    /\ CanReport(e) /\ pc # "destroyBase"
    /\ threads' = [threads EXCEPT ![e] = AfterCall(e)]
    /\ reported' = reported \union {e}
    /\ UNCHANGED <<sessionVars, javaVars, arrays, globals>>
    /\ UNCHANGED <<last, raced, wanted, answered, failed>>
(* Of those an error leaves the channel, and nothing else is seen here. *)
onErrorImpl(e) ==
    /\ CanReport(e) /\ pc = "destroyBase"
    /\ leaveChannel /\ failed' = TRUE
    /\ UNCHANGED <<pc, args, config, logLevel, mode, object, pointer>>
    /\ UNCHANGED <<javaVars, bridgeVars, last, raced, wanted, reported, answered>>

onReceivingStreamStatusChanged(e) == Tell(e)
onConnectionInterrupted(e)        == Tell(e)
onConnectionLost(e)               == Tell(e)
onRemoteAudioStats(e)             == Tell(e)
onRemoteVideoStats(e)             == Tell(e)
onRecordingStats(e)               == Tell(e)
onActiveSpeaker(e)                == Tell(e)
onUserOffline(e)                  == Tell(e)
onWarning(e)                      == Tell(e)
onFirstRemoteVideoDecoded(e)      == Tell(e)
onFirstRemoteAudioFrame(e)        == Tell(e)
onConnectionStateChanged(e)       == Tell(e)
onRemoteStreamStateChanged(e)     == Tell(e)
onUserJoined(e)                   == Tell(e)
onJoinChannelSuccess(e)           == Tell(e)
onRejoinChannelSuccess(e)         == Tell(e)
onLocalUserRegistered(e)          == Tell(e)
onUserInfoUpdated(e)              == Tell(e)
(* Not without speakers. *)
onAudioVolumeIndication(e)        == Tell(e)

(* A frame goes to Java in the array of its kind, which any thread with a   *)
(* frame of the kind may be about to replace.  First the length is looked   *)
(* at ...                                                                   *)
FrameReceived(e, kind, size) ==
    /\ CanReport(e) /\ pc # "destroyBase"
    /\ LET a == arrays[kind]
           b == GivenBack(a, size, Slack(kind))
           short == TooShort(a, size)
       IN  /\ arrays' = IF short THEN [arrays EXCEPT ![kind] = b] ELSE arrays
           /\ globals' = IF short THEN globals - Held(a) + Held(b) ELSE globals
           /\ crashed' \in IF short THEN GiveBackTwice(a) ELSE {FALSE}
           /\ threads' = [threads EXCEPT ![e] = [@ EXCEPT
                            !.at = IF short THEN "growing" ELSE "filling",
                            !.frame = [kind |-> kind, size |-> size]]]
    /\ raced' = (raced \/ \E f \in EngineThreads :
                            HasFrame(f) /\ threads[f].frame.kind = kind)
    /\ UNCHANGED <<sessionVars, handle, monitor, calls, given>>
    /\ UNCHANGED <<last, wanted, reported, answered, failed>>
audioFrameReceived(e, size) == FrameReceived(e, "audio", size)
videoFrameReceived(e, size) == FrameReceived(e, "video", size)

(* ... if it is too short, a new array is made and takes the place of what  *)
(* is there by now ...                                                      *)
NewArray(e) ==
    /\ ~ crashed /\ threads[e].at = "growing"
    /\ LET kind == threads[e].frame.kind
       IN \E a \in NewArrays(arrays[kind]) :
            /\ arrays' = [arrays EXCEPT ![kind] = a]
            /\ globals' = globals + Held(a)
    /\ threads' = [threads EXCEPT ![e].at = "filling"]
    /\ UNCHANGED <<sessionVars, javaVars, historyVars>>

(* ... and the frame is copied and handed on.  An audio frame without an    *)
(* array is dropped; with a video frame the process dies, and with an array *)
(* that was given back it may.                                              *)
FillAndCall(e) ==
    /\ ~ crashed /\ threads[e].at = "filling"
    /\ LET f == threads[e].frame
           a == arrays[f.kind]
       IN  /\ last' = IF a.is = "there" THEN [size |-> f.size, room |-> a.room] ELSE last
           /\ crashed' \in CASE a.is = "there"   -> {FALSE}
                            [] a.is = "null"    -> {f.kind = "video"}
                            [] a.is = "deleted" -> BOOLEAN
    /\ threads' = [threads EXCEPT ![e] = AfterCall(e)]
    /\ reported' = reported \union {e}
    /\ UNCHANGED <<sessionVars, handle, monitor, calls, given, arrays, globals>>
    /\ UNCHANGED <<raced, wanted, answered, failed, steps>>

(* The last callback of a thread detaches it in every mode.  The engine     *)
(* makes it when it has left.                                               *)
onLeaveChannel(e) ==
    /\ ~ crashed /\ engine = "left" /\ threads[e].at = "idle" /\ pc # "destroyBase"
    /\ threads' = [threads EXCEPT ![e] = Detached]
    /\ reported' = reported \ {e}
    /\ UNCHANGED <<sessionVars, javaVars, arrays, globals>>
    /\ UNCHANGED <<last, raced, wanted, answered, failed, steps>>

(* An error: Java's onError forgets the handle, without the monitor, unless *)
(* the state code is STAT_OK ...                                            *)
onError(e) ==
    /\ CanReport(e) /\ pc # "destroyBase"
    /\ \E statOk \in BOOLEAN : handle' = (handle /\ statOk)
    /\ threads' = [threads EXCEPT ![e] = [@ EXCEPT !.attached = TRUE,
                                                   !.at = "errorTold"]]
    /\ failed' = TRUE
    /\ UNCHANGED <<sessionVars, monitor, calls, given, crashed, arrays, globals>>
    /\ UNCHANGED <<last, raced, wanted, reported, answered>>
(* ... and the channel is left from the engine's own thread, which is then  *)
(* detached.                                                                *)
LeaveOnError(e) ==
    /\ ~ crashed /\ threads[e].at = "errorTold"
    /\ leaveChannel
    /\ threads' = [threads EXCEPT ![e] = Detached]
    /\ reported' = reported \ {e}
    /\ UNCHANGED <<pc, args, config, logLevel, mode, object, pointer>>
    /\ UNCHANGED <<javaVars, arrays, globals>>
    /\ UNCHANGED <<last, raced, wanted, answered, failed, steps>>
CallbackGoesOn(e) == NewArray(e) \/ FillAndCall(e) \/ LeaveOnError(e)

Callback(e) ==
    \/ onReceivingStreamStatusChanged(e) \/ onConnectionInterrupted(e)
    \/ onConnectionLost(e) \/ onRemoteAudioStats(e) \/ onRemoteVideoStats(e)
    \/ onRecordingStats(e) \/ onActiveSpeaker(e) \/ onUserOffline(e)
    \/ onWarning(e) \/ onFirstRemoteVideoDecoded(e) \/ onFirstRemoteAudioFrame(e)
    \/ onConnectionStateChanged(e) \/ onRemoteStreamStateChanged(e)
    \/ onUserJoined(e) \/ onJoinChannelSuccess(e) \/ onRejoinChannelSuccess(e)
    \/ onLocalUserRegistered(e) \/ onUserInfoUpdated(e)
    \/ onAudioVolumeIndication(e)
    \/ onLeaveChannel(e) \/ onError(e) \/ onErrorImpl(e) \/ CallbackGoesOn(e)
    \/ \E size \in FrameSizes : audioFrameReceived(e, size) \/ videoFrameReceived(e, size)

Next == Session \/ Java \/ \E e \in EngineThreads : Callback(e)

(* The thread in createChannel is not suspended; a leaveChannel of Java and *)
(* a callback end once begun.  Nobody has to call, and the engine has       *)
(* nothing to report.                                                       *)
Spec ==
    /\ Init /\ [][Next]_vars
    /\ WF_vars(Session)
    /\ \A t \in Callers : WF_vars(LeaveGoesOn(t))
    /\ \A e \in EngineThreads : WF_vars(CallbackGoesOn(e))
-----------------------------------------------------------------------------
TypeOK ==
    /\ pc \in {"check", "initialize", "configure", "create", "joining", "handOver",
               "path", "loop", "stopProc", "leave", "release", "destroy",
               "destroyBase", "returned"}
    /\ logLevel \in 2 .. 7 \union LogLevels /\ mode \in {"default", "raw"}
    /\ object \in {"alive", "gone"} /\ engine \in {"none", "live", "left", "released"}
    /\ pointer \in BOOLEAN /\ stopped \in BOOLEAN /\ handle \in BOOLEAN
    /\ monitor \in Callers \union {None}
    /\ globals \in Nat
    /\ arrays \in [FrameKinds -> [length : Nat, room : Nat,
                                 is : {"null", "there", "deleted"}]]
    /\ threads \in [EngineThreads ->
                       [attached : BOOLEAN, at : {"idle", "growing", "filling", "errorTold"},
                        frame : {None} \union [kind : FrameKinds, size : FrameSizes]]]

(* A native leaveChannel that Java's passes a handle to finds the native    *)
(* object alive and its engine not released, however an error, which takes  *)
(* the handle away between its test and its use, the end of the loop and    *)
(* the return of createChannel interleave with it.  [RecordingSDK.java      *)
(* 179-186, 397-398 and 585-587 against RecordingJni.cpp 2098-2107]         *)
LeaveFindsTheObject ==
    \A t \in Callers : (calls[t].at = "leaving" /\ calls[t].temp) =>
                           object = "alive" /\ pointer

(* Java never holds a handle to a native object whose engine is released:   *)
(* not when an error comes before the handle was handed over, which then    *)
(* arrives after Java has forgotten it.  [nativeObjectRef, onError,         *)
(* stopCallBack]                                                            *)
HandleIsOfLiveEngine == handle => object = "alive" /\ pointer

(* Between callbacks an engine thread is as the configuration asks: in      *)
(* default mode it is not attached; with raw data it stays attached from    *)
(* its first report to its farewell, so that a frame does not pay for it.   *)
ThreadsAttachedAsAsked ==
    \A e \in EngineThreads :
        (threads[e].at = "idle" /\ config # None /\ ~ crashed) =>
            IF config.decodeAudio = 0 /\ config.decodeVideo = 0
              THEN ~ threads[e].attached
              ELSE threads[e].attached <=> e \in reported

(* A frame given to Java fits the array it is in, across all the growing of *)
(* the arrays and the times there was no memory, also while a frame of the  *)
(* other kind is in hand; of each kind at most one array is kept, and none  *)
(* when createChannel has returned.  Nothing is promised once two threads   *)
(* have had a frame of one kind in hand together, or one a frame in the     *)
(* destructor: there is no lock.                                            *)
ArraysHoldFrames ==
    ~ raced =>
        /\ last # None => last.size <= last.room
        /\ globals \in {0, Kept + Held(arrays["audio"]) + Held(arrays["video"])}
        /\ pc = "returned" => globals \in {0, Kept}

(* What the engine has is what Java wants by its last call that found one:  *)
(* the regions of a layout with the right count, every region that is there *)
(* under its own rank, with its place and with its user, if that is a       *)
(* number of 32 bits, though others of the array are null; and as many      *)
(* watermarks as the three arrays have, if they have one.  Not the canvas,  *)
(* whose height is its width.  [the loops of setVideoMixingLayout and       *)
(* updateWatermarkConfigs]                                                  *)
NumberOfMarks(w) == Len(w.literals) + Len(w.timestamps) + Len(w.images)
HandedAsAsked ==
    /\ wanted.layout # None =>
         LET asked == wanted.layout.regions
         IN  /\ given.count = Len(given.regions)
             /\ given.count = IF asked = None THEN 0 ELSE Len(asked)
             /\ \A i \in DOMAIN given.regions : asked[i] # None =>
                  /\ asked[i].uid \in 0 .. 2 ^ UidBits - 1 =>
                       given.regions[i].uid = asked[i].uid
                  /\ given.regions[i].x = asked[i].x
    /\ (wanted.marks # None /\ NumberOfMarks(wanted.marks) > 0) =>
         Len(given.marks) = NumberOfMarks(wanted.marks)

(* "If you pass null as parameters in the `updateWatermarkConfigs` method,  *)
(* you delete watermarks that have been added."  [RecordingSDK.java:214;    *)
(* violated: RecordingJni.cpp:1183 hands an empty update on to nobody]      *)
WatermarksAreDeleted ==
    (wanted.marks # None /\ NumberOfMarks(wanted.marks) = 0) => given.marks = <<>>

(* A leave that was answered with true, and an error of the engine, whenever *)
(* it comes, end the session: createChannel returns.  A crash excepted.      *)
SessionEnds == (answered \/ failed) ~> (pc = "returned" \/ crashed)
=============================================================================
