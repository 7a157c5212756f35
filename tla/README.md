# Verification of the Agora recording service

TLA+ models of the recording service of this repository: a Node.js process that
starts recorders on request (`src/app.js`, `src/recordManager.js`), drives a
native addon (`src/record/src/agora_node_ext`) and lays out the pictures of the
users of a channel in one mixed video. The repository also holds the SDK the
addon is built from, with two more recorders on the same engine: one in C++
(`samples/cpp`, `samples/agorasdk`) and one in Java above a JNI bridge
(`samples/java`); both are modelled too. The modules are checked with TLC on
small instances; what matters most is proved with TLAPS for every instance.

## 1. Inventory

### How a recording runs

    client --HTTP--> app.js --> RecordManager --> AgoraRecordSdk --> NodeRecordingSdk --> engine
                                     ^                  ^                  |               (its own
                                     |   setImmediate   |  async_queue     |                threads)
                                     +------ emit ------+<---- uv_async ---+<-- callbacks ----+

A start request draws a sid and creates a directory, an `AgoraRecordSdk` and its
native object; sets an empty layout; subscribes to events; asks for access to
the directory, writes `cfg.json` and calls the native `joinChannel`. The engine
reports on its own threads. Every report becomes a task in one process-wide
queue, which wakes the JavaScript thread; the wrapper fires it again with
`setImmediate`; listeners of `RecordManager` change the layout, once-listeners
settle the promise that answers the request.

The C++ sample parses its command line, creates an engine and loops once a second
over flags that signal handlers set; the engine's callbacks keep the list of
users and lay out the canvas. In the Java sample one thread stays in the native
`createChannel` for the whole session, with the native object on its stack;
other threads call through `nativeHandle`, a pointer to that object, and the
engine calls back into Java on threads attached to the virtual machine.

| Component | State | Operations | Correct when |
|---|---|---|---|
| REST interface, `RecordManager` | `recorders`, pending requests | start, stop, error, userjoin, userleave | answers are true of the engine, every start is answered, a stop stops, one recorder does not disturb another |
| `AgoraRecordSdk` | immediates, once-listeners, the promise of `joinChannel` | joinChannel and its storage callbacks, re-firing | no event passes a listener that is not there yet, the promise settles once |
| `async_queue`, `node_async_call` | `q_`, `closed_`, `capacity_`, the uv handle | async_call, on_event, close, set_capacity, clear | each task runs once, in order, in the end; no wake-up is lost |
| Native object | `m_engine`, `m_layout`, `m_peers`, `m_callbacks` | joinChannel, setMixLayout, onEvent, engine callbacks, leaveChannel, release | the layout the engine shows is the one JavaScript wants, whichever thread sets it |
| Recording engine (closed library) | in the channel or not, its users | join, report, recover, leave when idle | external: what it may do is an assumption |
| Video lookup (`utils/file.js`) | none | GET /videos/:sid | the link names the recorded file |
| C++ sample | signal flags, `m_stopped`, `m_engine`, `m_peers`, `m_subscribedVideoUids`, regions, files of frames | main, signal handlers, engine callbacks, layouts | a signal is obeyed, the canvas shows the wanted users and nobody leaves it, the engine is released once |
| Java recorder, JNI bridge | `nativeHandle`, the monitor, the native object, byte arrays, attached threads | createChannel, leaveChannel, native calls, callbacks | a leave finds the object, a frame fits its array, a failed session ends |
| Java sample (`RecordingSample`) | tables of channel files | frames, clean timer | no write to a closed file |
| Tools | files | crash_restore, video_convert | clips keep their rotation and their place in time |
| Option parser | tables of options | parse_opts | every documented option is recognised |

### What is hard here

* Two kinds of threads change the same layout, without a lock.
* An event passes four stages (queue, native dispatch, immediate, listener) and a
  promise three reactions before the request is answered; Node 8.9.1, which the
  Dockerfile installs, and Node 11 interleave immediates and reactions differently.
* Recorders share the queue and the loop, and an exception in one storage
  callback ends the process.
* Failures: no engine, an engine that refuses to join, an error before and after
  the join, a core service that is recovered and reports its users again.
* In the samples: signals at any instruction of main; errors before, during and
  after the join; a native object that dies with a stack frame while other
  threads hold its address; memory that runs out under a frame; layouts whose
  arithmetic changes with every number of users.

The hazards, each at its line, are in `PROJECT.json`.

## 2. Modules

| Module | Models | Extends |
|---|---|---|
| `EventChannel` | what the queue promises: accepted tasks run once, in order, in the end; what a limit and a clear may withdraw | |
| `AsyncQueue` | `node_async_queue.h`, one step per atomic section of its code | instance of `EventChannel` |
| `RecorderApi` | what the REST interface promises its clients | |
| `RecorderService` | app.js, RecordManager, the wrapper, native joinChannel and the engine callbacks, for several recorders | instance of `RecorderApi` |
| `Sifting` | a list with the elements that fail a test taken out, the order kept (`RemovePeer`, the loops that erase a user) | |
| `MixLayout` | the regions: RecordManager's handlers, native setMixLayout, m_peers and what the engine shows; each action is one of `RecorderService` with its effect on the layout | `RecorderService`, `Sifting` |
| `VideoLayouts` | the default, best-fit and vertical layouts of the C++ sample, as operators on a list of users | |
| `LayoutShapes` | one call of `setVideoMixLayout` for every mode, number of users, large user and canvas | `VideoLayouts` |
| `OptParser` | `parse_opts` of the C++ sample: what becomes of a command line | |
| `SampleRecorder` | the C++ sample: main, its signals, `AgoraSdk`'s callbacks, the canvas, the files of frames | `OptParser`, `VideoLayouts`, `Sifting` |
| `JniBridge` | `RecordingSDK.java` and `RecordingJni.cpp`: a session, the handle, the callbacks | |
| `DataInduction` | lemmas on lists: induction over their length, what sifting and removing duplicates keep | `Sifting` |
| `AsyncQueueProofs`, `RecorderServiceProofs`, `RecorderApiProofs`, `MixLayoutProofs`, `LayoutShapesProofs`, `JniBridgeProofs`, `SampleRecorderProofs` | theorems | the module of that name (`RecorderService` for `RecorderApiProofs`) and what they use of the others |
| `MCAsyncQueue`, `MCRecorderService`, `MCMixLayout`, `MCLayoutShapes`, `MCSampleRecorder`, `MCJniBridge` | sets of model values for TLC | the module of that name |

**AsyncQueue.** A call of `async_call` is three steps: the test of `closed_`
(outside the lock), the push with its overflow pop (under the lock) and
`uv_async_send` (after it). The consumer is `on_event`: libuv clears its mark and
calls back (`Wake`), then test and pop (one critical section), the task (lock
released), until the queue is empty (`Finish`). `closed`, `capacity` and
`signal` are `closed_`, `capacity_` and the pending mark of the uv handle;
`delivered` is a history. Nothing in the repository calls close, set_capacity or
clear, so they are steps of `ControlNext` only: `Spec` is the program,
`ControlSpec` the class. Both implement `EventChannel`: `ControlSpec` all of it,
where an overflow withdraws the oldest task that has not begun (`Displace`) and
clear all of them (`Clear`), `Spec` its part without these (`LosslessSafe`).

**RecorderService.** One sid per start request. `step` is how far the chain of
storage callbacks got, `answer` the response, `registry` the keys of
`recorders`, `promise` the promise of `joinChannel`, `events` the queue (whose
order and completeness `AsyncQueue` establishes), `fired` and `batch` the
immediates that wait and those of the running check phase, `micro` the
promise reactions. `Polling` says when the loop takes outside work.
`MicrotasksPerCallback` distinguishes Node 11 and later, where reactions run
after every callback, from Node 8, where they run after the whole batch.
`WriteFileDone` and `ListenOnce` are the two halves of one callback: no other
JavaScript runs between them, but the engine's threads do. The errors of mkdir
and access throw (`StorageFails`); the error of writeFile is ignored. An engine
is `refused` when the native `joinChannel` returned an error, which the code does
not look at; it may or may not report that error as well.
`onCleanup`, which a stop and an error call, has no effect, as in the code: its
body is commented out. `RecorderApi` does not make a promise of that defect: it
leaves open what a stop answers once the engine has failed (`Break`,
`BestAnswers`), and `StartAnswerTruthful` asks for the registration only until a
stop or an error. What the documentation does promise of both is `CleanupEnds`,
which the code violates.

**MixLayout.** `layout`, `mixed` and `shown` are the regions in JavaScript, in
`m_layout` and as last given to the engine; pixel positions become per cent of
the canvas as `setMixLayout` does. The engine's thread reads `m_layout` in one
step (`ReadLayout`) and hands the copy to the engine in a later one
(`NativeUserJoined`, `NativeUserOffline`), so that JavaScript may set another
layout in between. `EngineShowsLayout` says what the code still keeps:
an older layout that such a callback hands over stays only while a user event is
on its way, the callback's own among them, whose handler sets the layout again.
One copy is read in one step: the finer race on the fields
of `m_layout` is planned. The alpha, z-order and colour are left out.

**VideoLayouts, LayoutShapes.** A region is a record of a uid and a rectangle in
a unit fine enough for every fraction the three layouts use, so that no rounding
is involved. Each operator has the name of its function (`adjustVideo5Layout`
and so on). `LayoutShapes` asks every question once: its only step is one call.
`InsideTheCanvas` excepts what the code does not keep on the canvas (too many
rows in default mode; a large user among eight or nine, whose width is 9/5 of
it) and asks nothing of it: a corrected layout would keep the property.
`RegionsAreFractions` is the claim of the SDK's header without exceptions,
which the code violates.

**OptParser, SampleRecorder.** A word of the command line is a record of the
option it names and the text it carries; texts are tagged by what a conversion
can tell of them: empty, a number, a number with something behind it, a list, a
word. A list may have empty parts, which `stringToUint` makes 0, as `strtol`
makes 12 of a 12 with something behind it. `pc` says where main is: a step per
call into the engine and per test or reset of a flag, so that a signal or a
callback may come between any two. `flags` are the atomic booleans the handlers
set, `peers`, `subs` and `subAccounts` the lists of `AgoraSdk`, `shown` the last
layout handed over, `formats` and `files` the table of audio formats and what
each media file holds. A callback is one step: the engine makes one at a time.
`settled`, `heard` and `asked` are histories that say when a property may be
asked.

**JniBridge.** `pc` is the thread in `createChannel`: check of the arguments,
`initialize`, configuration, creation, join, hand-over of the handle, loop,
`stopCallBack`, leave, release, and the two destructors when it returns, after
which `object` is gone. `handle` is `nativeHandle # 0`, `monitor` the lock of the
two synchronized methods. `leaveChannel` tests, reads, clears and uses the handle
in four steps (`EnterLeave`, `ReadHandle`, `ClearHandle`, `NativeLeave`), because
an error and the hand-over write it without the monitor. Every other call of Java
reads the handle in one step (`Call`) and works on the object in a later one; on
an object that is gone it crashes the process or does nothing. `setLogLevel`
takes the level as it comes, while `createChannel` cuts it to 2 to 7. `threads`
says of each engine thread whether it is attached to the virtual machine, where
it is in a callback and which frame it has in hand. `arrays` are the byte arrays
for frames: the length noted, the bytes there are, and whether the pointer is
null, good or to an array that was given back. A frame takes three steps, the
look at the length (`FrameReceived`), the new array (`NewArray`), which Java may
have no memory for, and the copy (`FillAndCall`); no lock keeps two threads
apart, and `raced` notes that two have had a frame of one kind in hand together.
An error is two steps, the call of Java and the leave behind it. `wanted` is what
Java asked for last, whether or not it was handed on to the engine (`given`).

## 3. Runs

| Run | Instance | Shows |
|---|---|---|
| `AsyncQueue_control` | 2 producers, 3 calls each, capacities 0, 1, 2, close, clear | `TypeOK`, `NoLostWakeup`, `InCallOrder`, `QueueDrains`; the queue implements `EventChannel`, liveness included |
| `MixLayout_node8` | 2 sessions, 1 user each with 1 report, Node 8 | of the service `TypeOK`, `StartAnswerTruthful`, `ListenersBeforeEvents`, `JoiningIsAnswered` and that it implements `RecorderApi`; `NoStrangers` |
| `MixLayout_node11` | 1 session, 4 users, 5 reports, 1 recovery, Node 11 | `LayoutTypeOK`, `LayoutFollowsPeers`, `RegionsPerUser`, `EngineShowsLayout`, `FirstFourApart` |
| `LayoutShapes_all` | 1 to 18 users, 3 canvases, every large user | `InsideTheCanvas`, `NobodyIsCovered`, `EveryoneIsShown`, `LargeUserIsLarge` |
| `SampleRecorder_control` | 2 users, 4 reports, 3 signals, int of 4 bits; 7 scenarios and every line of up to 3 words from 10 | `TypeOK`, `OptionsAsWritten`, `CanvasShowsTheWanted`, `EngineReleasedOnce`, `OneFormatPerFile`, `ToldToStopEnds`, `LastRequestObeyed` |
| `JniBridge_handle` | 2 Java threads, 2 engine threads, 2 calls and reports beside leaves, frames of 2 sizes | `TypeOK`, `LeaveFindsTheObject`, `HandleIsOfLiveEngine`, `ThreadsAttachedAsAsked`, `ArraysHoldFrames`, `HandedAsAsked`, `SessionEnds` |
| `RecorderService_cleanup` | 1 session | violates `CleanupEnds`: neither a stop nor an error clears the recorder |
| `RecorderService_answer` | 1 session | violates `StartIsAnswered`: no answer when there is no engine |
| `MixLayout_arrival` | 1 session, 2 users, Node 8 | violates `EveryUserHasRegion`: an early user gets no region |
| `MixLayout_departure` | 1 session, 2 users | violates `NoRegionOfTheLeft`: the last user stays on the picture |
| `LayoutShapes_canvas` | as `LayoutShapes_all` | violates `RegionsAreFractions`: a region 9/5 of the canvas wide |
| `JniBridge_watermarks` | as `JniBridge_handle` | violates `WatermarksAreDeleted`: an empty update deletes none |

Bounds. `MaxCalls` (calls per producer): three calls put one task in each of the
places a task can be (queued, running, delivered) and let a queue of capacity 2
overflow. `MaxReports` (onUserJoined per session): five let all four users join
and one come back, and fill every corner; on Node 8, where two sessions share
the loop, one lets the user come, and leave again. `MaxPending` (events on their
way when a user event is added): two suffice for a join and a leave of the same
user to be on their way at once, and for joinchannel and a userjoin to share a
batch, which is what the Node 8 order turns on. `MaxRecoveries`: one gives every
user two regions. Two sessions are enough for their events to interleave on the
shared queue; no state refers to a third. `MaxUsers`: eighteen is one more than
any layout has places for, so every branch on the number of users is taken, and
the way each hands over to the next. `SampleRecorder`'s `MaxReports` lets two
users join, one come back after a leave or a recovery, and a file of sound be
rotated and change its format; `MaxSignals` lets a request overtake one that
waits, and be repeated; `IntBits` and `LongBits` make numbers that are cut and
that stop at the end of a long; a line of three words has an option in every
position another may swallow. `JniBridge`'s `MaxSteps` counts calls of Java but
leaves, and reports of the engine: two frames meet in the array of their kind,
or one comes behind an array that could not be made; an error, a leave and a
call with a stale handle come at once; an update of watermarks comes behind a
layout. The frame sizes lie on both sides of the arrays' first lengths plus
their slack, which stand for the program's 256 + 10 and 524288 + 100 bytes. The
proofs have none of these bounds on their constants.

Deadlock is not checked: each system stops when its bounds are used up or the
process has crashed, and the real one rests when there are no requests.

Symmetry is used only in the runs of invariants of `MixLayout`, on sessions and
users, which no definition tells apart.

### Fairness

`AsyncQueue`: the loop polls and tasks end (weak fairness of the consumer), a
thread inside `async_call` finishes it. Nobody has to call.
`RecorderService`: the loop takes wake-ups, immediates and reactions while there
are any, file system calls complete, and an engine that is joining reports
success or an error. Without the last no request could be promised an answer;
it is the contract of `joinChannel` in `IAgoraRecordingEngine.h`. No fairness is
assumed of clients, users, errors, recoveries, the idle timeout, or of an engine
that refused. `RecorderService_cleanup` and `RecorderService_answer` are violated
under this fairness, so the counterexamples are not mere inaction.
`SampleRecorder`: main is not suspended, `sleep` and `joinChannel` return; nobody
sends a signal and the engine reports nothing unless it likes.
`JniBridge`: the thread in `createChannel` is not suspended, a native
`leaveChannel` returns and so does a callback that has begun; nobody calls and
nothing is reported unless it happens. Both assume what the engine's release
promises, that callbacks under way have returned before it does.
`SessionEnds` excepts the crash that a stale handle may cause.

## 4. Proofs

All theorems are for every set of producers, sessions and users, every bound and
both Node.js versions, except where a line below names a hypothesis. They assume
only the named assumptions of the modules, which TLC evaluates in the runs:
bounds and capacities are naturals, the version flag is Boolean, `Nobody` is no
user and `None` no thread; sizes of frames and arrays are naturals and the first
lengths and slacks of the arrays positive; levels are integers; an int has twice
the values of its positive half, and the widths are positive; a user of the C++
sample has a number that is not zero and an account that is not empty; a command
line is a list of words whose numbers are integers.

* `AsyncQueueProofs`: `TypeCorrect`, `WakeupNeverLost`, `CallOrderKept` and
  `QueueIsChannel` for `ControlSpec`; `QueueIsLossless` and `ServiceQueueSafe`
  for `Spec`. `NoLostWakeup` needs only that the mark is cleared before the
  queue is tested. `InCallOrder` is not inductive: the
  invariant adds that no task in line is numbered above the calls its producer
  has made, and strictly below while the producer has not pushed yet.
  `QueueIsChannel` maps the accepted tasks to `delivered \o running \o queue` and
  the completed to `delivered`, so that an overflow and a clear cannot reach the
  task that runs.
* `RecorderServiceProofs`: `TypeCorrect`, `NoEventBeforeListeners` and
  `AnswersAreTruthful`, from `ServiceInv`. Its heart is `OvertakingInv`: as long
  as the promise of a session whose engine joined is pending, its joinchannel
  event is in the pipe (`batch \o fired \o events`) and no error of that session
  is before it. With `EventInv` (an event on its way is evidence of what the engine
  did) an error can then reject a pending promise only if the engine never
  joined; `PromiseInv`, `MicroInv` and `AnswerInv` carry that through the
  reactions to the answer. The pipe is a line that grows at one end and loses
  entries anywhere (`Shorter`): `DispatchEvent` drops a leavechannel from the
  middle.
* `RecorderApiProofs`: `ServiceKeepsApi`. Beyond `ServiceInv` it needs that the
  waiting reactions belong to different sessions whose requests are unanswered
  (`Waiting`), that a registered session is answered or about to be
  (`Registered`), so that between check phases stop and the answers agree, and
  how far a request got (`Progress`).
* `MixLayoutProofs`: the six invariants its runs check. `LayoutInv` is
  `ServiceInv` and one conjunct or more per property.
  - `RegionsAreWellFormed` (`LayoutTypeOK`), from `LayoutTypes`.
  - `EngineKeepsUp` (`EngineShowsLayout`): `mixed` is the layout of JavaScript
    region by region (`MixedInv`); the engine shows it, or the copy a callback
    read before the change and handed over behind it, and then the user event of
    that callback or a later one is in the pipe (`ShowInv`, `StaleInv`): the
    callback queues its event behind the hand-over, and the handler of the event
    sets the layout again.
  - `NobodyIsLeftBehind` (`NoStrangers`) and `RegionsAreBounded`
    (`RegionsPerUser`): `Outlook` is what the regions become as the events in the
    pipe are handled one by one. No user occurs in it more often at any point
    than one and the recoveries, nor at its end more often than in the peers
    (`OutlookInv`); the peers have a user at most once for each recovery and once
    while present (`PeersInv`). `UserEventInv` ties an event on its way to
    an engine that joined.
  - `FirstFourDoNotOverlap` (`FirstFourApart`): as long as there are as many
    peers as reports no userleave is in the pipe, and every region is in the
    corner of its position (`OrderInv`).
  - `RegionsFollowThePeers` (`LayoutFollowsPeers`) is the hardest: the events in
    the pipe, applied in order to the regions, give the list of peers
    (`FollowInv`). A userjoin that passes before the recorder is registered
    would be lost, so the joinchannel must be ahead of it (`JoinAheadInv`) and the
    reaction that registers must run in between (`RegisterInv`). That holds
    where reactions run after every callback, so the theorem has the hypothesis
    `MicrotasksPerCallback` (Node 11 and later); `MixLayout_arrival` shows the
    region that is lost on Node 8, so it cannot be dropped.
* `DataInduction`: the induction the proofs about lists need. A set of
  numbers that has 0 and the successor of each number it has is all of `Nat`;
  stated of sets instead of predicates this needs no operator as a parameter.
  It follows from the well-foundedness of finite sets, and gives: a recursive
  function exists and is unique (`RecursionExists`, `SameRecursion`), what
  `Sift` keeps and in which order, and that a list stays free of duplicates.
* `JniBridgeProofs`: `TypeCorrect`, `LeaveFindsIt`, `HandleIsLive`,
  `ThreadsAsAsked`, `FramesFit`, `HandedOnAsAsked`. The handle exists only between
  the hand-over and `stopCallBack`, and a thread that read it holds the monitor, so
  that `stopCallBack` waits for it; therefore the object is alive and its engine
  not released (`HandleInv`). An error may take the handle away between test and
  read, and then nothing is passed on; an error before the hand-over does not
  break this either, because Java forgets a handle it does not have yet.
  `ThreadInv`: the mode is set before there is an engine, so no thread has
  reported under the other mode. `ArrayInv`: as long as no two threads have had
  frames of one kind in hand together, the array of a frame in hand is as its own
  thread left it: good and long enough, or not there.
  `HandedOnAsAsked` (`HandedAsAsked`): every call under way is one Java may make
  (`AskedInv`), and what the engine has is what the loops make of the last one
  that found an engine (`GivenInv`), also when a layout was refused or an update
  dropped. It needs `LayoutsAssumption`, which says only what the Java types say:
  arrays, a count that is any int, a uid that is any long.
* `SampleRecorderProofs`:
  - `TypeCorrect`, in four parts (`MainType`, `SdkType`, `MediaType`, `RestType`):
    what a conversion makes of any text is of the option's type (`ConvertTyped`),
    and `IsOf` of each option carries this from the line to the subscriptions;
  - `ReleasedOnce`, from where main may be and whether the pointer is still set;
  - `FilesHaveOneFormat`, which needs that no file of a user has an index above
    the last one, and that the last one has the format the user has now
    (`OfSound`);
  - `OptionsAreAsWritten` (`OptionsAsWritten`), by induction over the words of
    the command line: after each word the table holds, of every option, what the
    last word for it said (`States`, `OneWord`, `Understood`); main goes on to an
    engine exactly when parse_opts and its own tests refuse nothing (`Accepted` in
    `ParsedInv`), and a released engine shows that it did (`ReleaseInv`);
  - `CanvasIsOfTheWanted` (`CanvasShowsTheWanted`): the peers are those who
    joined and have not left, once each (`PeersInv`); the lists of
    subscriptions are those of the configuration (`ConfigInv`); what is shown
    was laid out of both (`CanvasInv`), and each layout keeps the users it is
    given (`LayoutKeepsUsers`). Two hypotheses, which `MCSampleRecorder` checks
    of its instance: at most sixteen users (`FewUsers`), as best fit shows nobody
    beyond seventeen and vertical mode drops the seventeenth; and no text of the
    list of wanted users is turned into the uid of another user
    (`UidsAreNames`), as `stringToUint` cuts numbers to 32 bits.

* `LayoutShapesProofs`: the four properties of `LayoutShapes`, from the invariant
  `Laid` (the regions are the layout of the request). Each layout is first
  described by constants (`VerticalHasShape`, `DefaultShape`): which place a
  user has in the list of those who are not large, and which of the columns he
  is handed on to. What the properties ask is then arithmetic on multiples of
  one step (`Grows`, `Steps`): `GoodVertical`, `GoodGrid` and `GoodRows` say it
  of the three modes. `RegionsInside` holds of any number of users. The canvas is
  any whose height divides the sizes of the small windows
  (`CanvasesAssumption`), so that the positions of default mode are exact; the
  code rounds to floating point, which is not modelled.

Only model-checked: liveness (`QueueDrains`, `JoiningIsAnswered`, the fairness
part of `ImplementsChannel`, `ToldToStopEnds`, `LastRequestObeyed`,
`SessionEnds`), which the prover does not do. Every other property of the
passing runs is a theorem.

## 5. Not modelled, and the plan

Left out for good: conversion of V8 values, logging, the statistics events no
listener uses, jpg snapshots, the list of audio subscriptions, option types no
caller registers, failures of class and field lookup and of attaching a thread in
the JNI bridge, its local references (those of the kinds of audio frames, made
in `createChannel` and used on other threads, are taken to be good while it
runs), `setUserBackground`, which calls itself in Java and never reaches its
native method, build files, the closed engine beyond its callbacks.

What the models contain but no property forbids, because nothing in the
repository promises otherwise: the crash of main when the engine cannot be
created, the canvas height that the bridge reads from the width, what a stale
handle does, and two engine threads with a frame of one kind in hand, which may
leave a frame in an array that was given back.

Next, in this order:

1. `NativeLayout`: the fields of `m_layout` written and copied by two threads,
   the arrays nobody frees, setMixLayout with a malformed region, and
   leaveChannel, release and onErrorImpl on `m_engine`.
2. `MediaChannels`: the table of channel files of `RecordingSample.java`, shared
   by `checkUser`, the frame callback and the clean timer.
3. `VideoConvert`, `CrashRestore`: the filters and the clip timeline, and the
   restore script, as operators over bounded inputs; the video lookup with them.
