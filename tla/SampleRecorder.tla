---------------------------- MODULE SampleRecorder ----------------------------
(***************************************************************************)
(* The C++ recorder of the SDK: main.cpp with its signal handlers and its   *)
(* loop, and AgoraSdk (samples/agorasdk), whose callbacks the engine runs   *)
(* on its own threads.  The options come from OptParser, the regions from   *)
(* VideoLayouts.                                                            *)
(*                                                                          *)
(* main takes one step per call into the engine and per test or reset of a  *)
(* flag, since a signal or a callback may come between any two.  A callback *)
(* is one step.  The engine is a library: what it may report is assumed.    *)
(***************************************************************************)
EXTENDS OptParser, VideoLayouts, Sifting, FiniteSets, SequencesExt

CONSTANTS
    Users,          \* the uids of the users of the channel
    AccountOf,      \* the account of each user, a text
    CommandLines,   \* the command lines main may be started with
    KeepMedia,      \* whether KEEPMEDIATIME asks for media files to be rotated
    MaxReports,     \* bound: user and frame reports, recoveries
    MaxSignals      \* bound: SIGUSR1 and SIGUSR2

VARIABLES
    pc,             \* where main is
    line,           \* its command line
    opts,           \* its local variables, filled by parse_opts
    flags,          \* g_bSignalStop, g_bSignalStartService, g_bSignalStopService
    engine,         \* the engine: "none", "live", "left" or "released"
    pointer,        \* m_engine # NULL
    releases,       \* how often the engine was released
    service,        \* the last of startService and stopService main called
    stopped         \* m_stopped
mainVars == <<pc, line, opts, flags, engine, pointer, releases, service, stopped>>

VARIABLES
    peers,          \* m_peers
    subAccounts,    \* m_subscribeVideoUserAccount
    subs,           \* m_subscribedVideoUids
    auto,           \* m_config.autoSubscribe
    accountMode,    \* m_userAccount is not empty
    shown           \* the regions last given to setVideoMixingLayout
layoutVars == <<peers, subAccounts, subs, auto, accountMode, shown>>

VARIABLES
    formats,        \* m_audioFrameMap: channels and index of a user's file
    files           \* what the media files hold
mediaVars == <<formats, files>>

VARIABLES
    reported,       \* the engine's users: reported here and not yet gone
    known,          \* users whose account the engine knows
    reports, signals    \* counters of the bounds
engineVars == <<reported, known, reports, signals>>

VARIABLES
    settled,        \* history: a layout was made since the last upset
    heard,          \* history: users whose account came once it was asked for
    asked           \* history: the last request of a SIGUSR signal
historyVars == <<settled, heard, asked>>
vars == <<mainVars, layoutVars, mediaVars, engineVars, historyVars>>

-----------------------------------------------------------------------------
(* Options *)

(* The options that matter here; the others are passed to the engine as     *)
(* they are.                                                                *)
Options == [appId |-> "string", channel |-> "string", uid |-> "uint32",
            userAccount |-> "string", channelKey |-> "string",
            isMixingEnabled |-> "bool", isAudioOnly |-> "bool",
            mixResolution |-> "string", triggerMode |-> "int32",
            layoutMode |-> "int32", maxResolutionUid |-> "int32",
            maxResolutionUserAccount |-> "string", autoSubscribe |-> "bool",
            subscribeVideoUids |-> "string",
            getAudioFrame |-> "uint32", getVideoFrame |-> "uint32"]

Defaults == [appId |-> EmptyText, channel |-> EmptyText, uid |-> 0,
             userAccount |-> EmptyText, channelKey |-> EmptyText,
             isMixingEnabled |-> FALSE, isAudioOnly |-> FALSE,
             mixResolution |-> List(<<Number(9), Number(16), Number(15), Number(500)>>),
             triggerMode |-> 0,
             layoutMode |-> 0, maxResolutionUid |-> -1,
             maxResolutionUserAccount |-> EmptyText, autoSubscribe |-> TRUE,
             subscribeVideoUids |-> EmptyText,
             getAudioFrame |-> 0, getVideoFrame |-> 0]

Mixing(o) == o.isMixingEnabled /\ ~ o.isAudioOnly
ByAccount(o) == o.userAccount # EmptyText

(* What main refuses after parsing.  A resolution is four numbers; what is  *)
(* behind the last is not looked at.                                        *)
Begins(part) == part.kind \in {"number", "trailing"}
Usable(o) ==
    /\ o.appId # EmptyText /\ o.channel # EmptyText
    /\ ~ /\ ByAccount(o) /\ o.layoutMode = 2
         /\ o.maxResolutionUserAccount = EmptyText /\ o.maxResolutionUid # 0
    /\ ~ /\ ~ ByAccount(o) /\ o.layoutMode = 2
         /\ o.maxResolutionUserAccount # EmptyText
    /\ Mixing(o) => /\ o.mixResolution.kind = "list"
                    /\ Len(o.mixResolution.value) >= 4
                    /\ \A i \in 1 .. 3 : o.mixResolution.value[i].kind = "number"
                    /\ Begins(o.mixResolution.value[4])

(* The parts of a list between commas, in no order.  A comma that leads or  *)
(* follows another leaves an empty part, one at the end leaves none.        *)
SplitString(text) ==
    CASE text.kind = "empty" -> {}
      [] text.kind = "list"  -> ToSet(text.value)
      [] OTHER               -> {text}
(* Mutant of stringToUint: the number is not cut to 32 bits. *)
stringToNumber(part) == IF Begins(part) THEN part.value ELSE 0
(* strtol reads the number a part begins with, and 0 if there is none.      *)
stringToUint(part) == IF Begins(part) THEN Cut(ToLong(part.value)) ELSE 0

(* A uid has the width of uint32_t and is not 0, which stands for nobody; a *)
(* user with an account has one that is not empty; a command line is an     *)
(* array of texts, and a number in them is one.                             *)
ASSUME UsersAssumption ==
    /\ Users \subseteq 1 .. 2 ^ IntBits - 1
    /\ \A u \in Users : AccountOf[u] # EmptyText
ASSUME CommandLinesAssumption ==
    \A l \in CommandLines :
        /\ Len(l) \in Nat /\ DOMAIN l = 1 .. Len(l)
        /\ \A i \in DOMAIN l : l[i].text # None =>
             \A part \in SplitString(l[i].text) :
                 part.kind \in Kinds /\ (Begins(part) => part.value \in Int)
-----------------------------------------------------------------------------
(* The layout *)

layoutMode == CASE opts.layoutMode = 1 -> "bestFit"
                [] opts.layoutMode = 2 -> "vertical"
                [] OTHER               -> "default"
Canvas == [width  |-> opts.mixResolution.value[1].value,
           height |-> opts.mixResolution.value[2].value]

(* The engine maps an account it does not know to uid 0. *)
getUidByUserAccount(account, k) ==
    IF \E u \in k : AccountOf[u] = account
      THEN CHOOSE u \in k : AccountOf[u] = account ELSE 0
getUserAccountByUid(u, k) == IF u \in k THEN AccountOf[u] ELSE EmptyText

maxResolutionUid(k) == IF accountMode
                         THEN getUidByUserAccount(opts.maxResolutionUserAccount, k)
                         ELSE Cut(opts.maxResolutionUid)

(* The peers that get a region.  p, s and k are the peers, the subscribed   *)
(* uids and the known accounts after the callback's own changes.            *)
SubscribedOf(p, s, k) ==
    LET IsShown(u) ==
            /\ auto \/ u \in s
            /\ accountMode /\ layoutMode = "vertical" =>
                 \/ getUserAccountByUid(u, k) # EmptyText
                 \/ maxResolutionUid(k) # 0
    IN  Sift(p, {u \in ToSet(p) : ~ IsShown(u)})

(* main has left createChannel and not yet the channel. *)
Configured == pc \in {"test", "testStart", "startCalled", "testStopService",
                      "stopCalled", "asleep", "leave"}

(* Without mixing there is no canvas.  An empty layout is handed over too. *)
setVideoMixLayout(p, s, k) ==
    /\ shown' = IF Mixing(opts) /\ pointer
                  THEN LayoutOf(layoutMode, SubscribedOf(p, s, k),
                                maxResolutionUid(k), Canvas)
                  ELSE shown
    /\ settled' = Configured
-----------------------------------------------------------------------------
(* main *)

Init ==
    /\ pc = "start" /\ line \in CommandLines /\ opts = Defaults
    /\ flags = [stop |-> FALSE, startService |-> FALSE, stopService |-> FALSE]
    /\ engine = "none" /\ pointer = FALSE /\ releases = 0 /\ stopped = FALSE
    /\ service = "nothing"
    /\ peers = <<>> /\ subAccounts = {} /\ subs = {} /\ auto = TRUE
    /\ accountMode = FALSE /\ shown = <<>>
    /\ formats = [u \in {} |-> 0] /\ files = {}
    /\ reported = {} /\ known = {} /\ reports = 0 /\ signals = 0
    /\ settled = FALSE /\ heard = {} /\ asked = "nothing"

Others == <<layoutVars, mediaVars, engineVars, historyVars>>

(* parse_opts, then what main refuses itself.  A refusal prints the usage   *)
(* or a hint and ends the program, before there is an engine.               *)
ParseArguments ==
    /\ pc = "start"
    /\ \E parsed \in {parse_opts(Options, Defaults, line)} :
           /\ opts' = parsed.values
           /\ pc' = IF parsed.ok /\ Usable(parsed.values) THEN "create" ELSE "exited"
    /\ UNCHANGED <<line, flags, engine, pointer, releases, service, stopped>>
    /\ UNCHANGED Others

(* createChannel and createChannelWithUserAccount up to the call of join:   *)
(* from here on the engine may report.                                      *)
CreateEngine ==
    /\ pc = "create" /\ ~ pointer
    /\ engine' = "live" /\ pointer' = TRUE /\ pc' = "joining"
    /\ UNCHANGED <<line, opts, flags, releases, service, stopped>>
    /\ UNCHANGED Others

(* Without an engine main prints the directory of the recording all the     *)
(* same, through the null pointer.                                          *)
NoEngine ==
    /\ pc = "create" /\ ~ pointer
    /\ pc' = "crashed"
    /\ UNCHANGED <<line, opts, flags, engine, pointer, releases, service, stopped>>
    /\ UNCHANGED Others

(* The engine refuses to join: main returns without leaving, and the        *)
(* destructor of the recorder releases the engine.                          *)
JoinFails ==
    /\ pc = "joining" /\ pc' = "return"
    /\ UNCHANGED <<line, opts, flags, engine, pointer, releases, service, stopped>>
    /\ UNCHANGED Others

(* joinChannel returned: the list of uids becomes the set of subscribed     *)
(* uids.                                                                    *)
SubscribeUids ==
    /\ pc = "joining" /\ ~ ByAccount(opts)
    /\ subs' = IF opts.autoSubscribe THEN subs
               ELSE subs \union {stringToUint(t) : t \in SplitString(opts.subscribeVideoUids)}
    /\ pc' = "keep"
    /\ UNCHANGED <<line, opts, flags, engine, pointer, releases, service, stopped>>
    /\ UNCHANGED <<peers, subAccounts, auto, accountMode, shown>>
    /\ UNCHANGED <<mediaVars, engineVars, historyVars>>

(* joinChannelWithUserAccount returned: the list is kept as accounts; their *)
(* uids come with onUserInfoUpdated.                                        *)
SubscribeAccounts ==
    /\ pc = "joining" /\ ByAccount(opts)
    /\ subAccounts' = IF opts.autoSubscribe THEN subAccounts
                      ELSE subAccounts \union SplitString(opts.subscribeVideoUids)
    /\ pc' = "keep"
    /\ UNCHANGED <<line, opts, flags, engine, pointer, releases, service, stopped>>
    /\ UNCHANGED <<peers, subs, auto, accountMode, shown>>
    /\ UNCHANGED <<mediaVars, engineVars, historyVars>>

(* Only now m_config and m_userAccount tell the callbacks what to show. *)
KeepConfig ==
    /\ pc = "keep"
    /\ auto' = opts.autoSubscribe /\ accountMode' = ByAccount(opts)
    /\ pc' = "test"
    /\ UNCHANGED <<line, opts, flags, engine, pointer, releases, service, stopped>>
    /\ UNCHANGED <<peers, subAccounts, subs, shown>>
    /\ UNCHANGED <<mediaVars, engineVars, historyVars>>

(* Mutant: the loop looks at the signal only. *)
TestSignal ==
    /\ pc = "test"
    /\ pc' = IF flags.stop THEN "leave" ELSE "testStart"
    /\ UNCHANGED <<line, opts, flags, engine, pointer, releases, service, stopped>>
    /\ UNCHANGED Others

(* The head of the loop, and the test of the start flag behind it. *)
TestStop ==
    /\ pc = "test"
    /\ pc' = IF stopped \/ flags.stop THEN "leave" ELSE "testStart"
    /\ UNCHANGED <<line, opts, flags, engine, pointer, releases, service, stopped>>
    /\ UNCHANGED Others

CallStartService ==
    /\ pc = "testStart"
    /\ IF flags.startService
         THEN service' = "startService" /\ pc' = "startCalled"
         ELSE pc' = "testStopService" /\ UNCHANGED service
    /\ UNCHANGED <<line, opts, flags, engine, pointer, releases, stopped>>
    /\ UNCHANGED Others

ResetStart ==
    /\ pc = "startCalled" /\ pc' = "testStopService"
    /\ flags' = [flags EXCEPT !.startService = FALSE]
    /\ UNCHANGED <<line, opts, engine, pointer, releases, service, stopped>>
    /\ UNCHANGED Others

CallStopService ==
    /\ pc = "testStopService"
    /\ IF flags.stopService
         THEN service' = "stopService" /\ pc' = "stopCalled"
         ELSE pc' = "asleep" /\ UNCHANGED service
    /\ UNCHANGED <<line, opts, flags, engine, pointer, releases, stopped>>
    /\ UNCHANGED Others

(* Mutant: a reset of both flags. *)
ResetBoth ==
    /\ pc = "stopCalled" /\ pc' = "asleep"
    /\ flags' = [flags EXCEPT !.stopService = FALSE, !.startService = FALSE]
    /\ UNCHANGED <<line, opts, engine, pointer, releases, service, stopped>>
    /\ UNCHANGED Others

ResetStop ==
    /\ pc = "stopCalled" /\ pc' = "asleep"
    /\ flags' = [flags EXCEPT !.stopService = FALSE]
    /\ UNCHANGED <<line, opts, engine, pointer, releases, service, stopped>>
    /\ UNCHANGED Others

Wake ==
    /\ pc = "asleep" /\ pc' = "test"
    /\ UNCHANGED <<line, opts, flags, engine, pointer, releases, service, stopped>>
    /\ UNCHANGED Others

leaveChannel ==
    /\ pc = "leave" /\ pc' = "release"
    /\ IF pointer THEN engine' = "left" /\ stopped' = TRUE
                  ELSE UNCHANGED <<engine, stopped>>
    /\ UNCHANGED <<line, opts, flags, pointer, releases, service>>
    /\ UNCHANGED Others

(* Mutant: the pointer is not cleared. *)
ReleaseKeepingPointer ==
    /\ pc = "release" /\ pc' = "return"
    /\ IF pointer THEN engine' = "released" /\ releases' = releases + 1
                  ELSE UNCHANGED <<engine, releases>>
    /\ UNCHANGED <<line, opts, flags, pointer, service, stopped>>
    /\ UNCHANGED Others

release ==
    /\ pc = "release" /\ pc' = "return"
    /\ IF pointer THEN engine' = "released" /\ releases' = releases + 1
                  ELSE UNCHANGED <<engine, releases>>
    /\ pointer' = FALSE
    /\ UNCHANGED <<line, opts, flags, service, stopped>>
    /\ UNCHANGED Others

(* main returns and the destructor of the recorder runs. *)
Destroy ==
    /\ pc = "return" /\ pc' = "exited"
    /\ IF pointer THEN engine' = "released" /\ releases' = releases + 1
                  ELSE UNCHANGED <<engine, releases>>
    /\ UNCHANGED <<line, opts, flags, pointer, service, stopped>>
    /\ UNCHANGED Others

Loop == \/ TestStop \/ CallStartService \/ ResetStart \/ CallStopService
        \/ ResetStop \/ Wake
Main == \/ ParseArguments \/ CreateEngine \/ NoEngine \/ JoinFails
        \/ SubscribeUids \/ SubscribeAccounts \/ KeepConfig
        \/ Loop \/ leaveChannel \/ release \/ Destroy
-----------------------------------------------------------------------------
(* Signals *)

Over == pc \in {"exited", "crashed", "killed"}

(* SIGINT, SIGQUIT and SIGABRT. *)
signal_handler ==
    /\ ~ Over /\ ~ flags.stop
    /\ flags' = [flags EXCEPT !.stop = TRUE]
    /\ UNCHANGED <<pc, line, opts, engine, pointer, releases, service, stopped>>
    /\ UNCHANGED Others

(* Whether main is going to serve an earlier request after this one: a stop *)
(* that waits is served after a start, and a start that waits is served     *)
(* after a stop once main has passed the test of its flag.                  *)
Overtakes(request) ==
    IF request = "startService"
      THEN flags.stopService /\ pc \notin {"testStopService", "stopCalled"}
      ELSE flags.startService /\ pc \in {"testStopService", "stopCalled"}

(* SIGUSR1 and SIGUSR2.  Their handlers start_service and stop_service are  *)
(* installed in manual mode only; otherwise the signal ends the process.    *)
ServiceSignal(request) ==
    /\ ~ Over /\ signals < MaxSignals
    /\ signals' = signals + 1
    /\ IF opts.triggerMode = 1
         THEN /\ flags' = [flags EXCEPT ![request] = TRUE]
              /\ asked' = IF Overtakes(request) THEN "unclear" ELSE request
              /\ UNCHANGED pc
         ELSE pc' = "killed" /\ UNCHANGED <<flags, asked>>
    /\ UNCHANGED <<line, opts, engine, pointer, releases, service, stopped>>
    /\ UNCHANGED <<layoutVars, mediaVars, reported, known, reports, settled, heard>>

Signals == signal_handler \/ \E r \in {"startService", "stopService"} : ServiceSignal(r)
-----------------------------------------------------------------------------
(* Callbacks of the engine, from the call of join to leaveChannel *)

Reporting == engine = "live"
Report    == Reporting /\ reports < MaxReports /\ reports' = reports + 1

(* Mutant: a user who is reported again is added again. *)
JoinTwice(u) ==
    /\ Report
    /\ reported' = reported \union {u}
    /\ peers' = Append(peers, u)
    /\ IF accountMode => \/ layoutMode # "vertical"
                         \/ maxResolutionUid(known) # 0
         THEN setVideoMixLayout(peers', subs, known)
         ELSE UNCHANGED shown /\ settled' = FALSE
    /\ UNCHANGED <<mainVars, mediaVars, subAccounts, subs, auto, accountMode>>
    /\ UNCHANGED <<known, signals, heard, asked>>

(* With accounts and a large user to wait for, the layout is not changed    *)
(* before the engine knows who that is.                                     *)
onUserJoinedImpl(u) ==
    /\ Report
    /\ reported' = reported \union {u}
    /\ IF u \in ToSet(peers)
         THEN UNCHANGED <<peers, shown, settled>>
         ELSE /\ peers' = Append(peers, u)
              /\ IF accountMode => \/ layoutMode # "vertical"
                                   \/ maxResolutionUid(known) # 0
                   THEN setVideoMixLayout(peers', subs, known)
                   ELSE UNCHANGED shown /\ settled' = FALSE
    /\ UNCHANGED <<mainVars, mediaVars, subAccounts, subs, auto, accountMode>>
    /\ UNCHANGED <<known, signals, heard, asked>>

onUserOfflineImpl(u) ==
    /\ Reporting /\ u \in reported
    /\ reported' = reported \ {u}
    /\ peers' = Sift(peers, {u})
    /\ setVideoMixLayout(peers', subs, known)
    /\ UNCHANGED <<mainVars, mediaVars, subAccounts, subs, auto, accountMode>>
    /\ UNCHANGED <<known, reports, signals, heard, asked>>

(* The core service failed and is restarted: the peers are forgotten, the   *)
(* engine will report them again, and the canvas is left as it was.         *)
onWarningImpl ==
    /\ Report
    /\ reported' = {} /\ peers' = <<>> /\ settled' = FALSE
    /\ UNCHANGED <<mainVars, mediaVars, subAccounts, subs, auto, accountMode, shown>>
    /\ UNCHANGED <<known, signals, heard, asked>>

(* The engine learned the account of a user. *)
onUserInfoUpdated(u) ==
    /\ Reporting /\ ByAccount(opts)
    /\ known' = known \union {u}
    /\ subs' = IF AccountOf[u] \in subAccounts THEN subs \union {u} ELSE subs
    /\ heard' = IF pc \in {"create", "joining"} THEN heard ELSE heard \union {u}
    /\ IF accountMode THEN setVideoMixLayout(peers, subs', known')
                      ELSE UNCHANGED <<shown, settled>>
    /\ UNCHANGED <<mainVars, mediaVars, peers, subAccounts, auto, accountMode>>
    /\ UNCHANGED <<reported, reports, signals, asked>>

(* The error is reported once more to the engine, which stops reporting     *)
(* errors, and main finds m_stopped at the head of its loop.                *)
onErrorImpl ==
    /\ Reporting /\ ~ stopped
    /\ stopped' = IF pointer THEN TRUE ELSE stopped
    /\ UNCHANGED <<pc, line, opts, flags, engine, pointer, releases, service>>
    /\ UNCHANGED Others

(* A file is what was written to it: a set of its name, whether it has been *)
(* rotated, and the formats of its frames.  Rotation renames the file, over *)
(* the one rotated before; without a file to rename it does nothing.        *)
Rotate(name) ==
    LET current == {f \in files : f.name = name /\ ~ f.rotated}
    IN  IF current = {} THEN files
        ELSE {f \in files : f.name # name}
               \union {[name |-> name, rotated |-> TRUE, format |-> f.format] : f \in current}

(* The file is opened after the rotation; a frame is lost when that fails. *)
WriteFrame(name, format) ==
    \E due, opened \in BOOLEAN :
        LET rotated == IF due THEN Rotate(name) ELSE files
        IN  /\ due => KeepMedia
            /\ files' = IF opened
                 THEN rotated \union {[name |-> name, rotated |-> FALSE,
                                       format |-> format]}
                 ELSE rotated

(* Mutant: a frame with other channels goes to the file of the user. *)
OneFilePerUser(u, channels) ==
    /\ Report /\ u \in reported /\ opts.getAudioFrame # 0
    /\ formats' = [v \in DOMAIN formats \union {u} |->
                     IF v = u THEN [channels |-> channels, index |-> 1] ELSE formats[v]]
    /\ WriteFrame(<<u, opts.getAudioFrame, 1>>, channels)
    /\ UNCHANGED <<mainVars, layoutVars, historyVars, reported, known, signals>>

(* When the number of channels of a user changes, his sound goes on in a    *)
(* file with the next index.                                                *)
audioFrameReceivedImpl(u, channels) ==
    /\ Report /\ u \in reported /\ opts.getAudioFrame # 0
    /\ LET last  == formats[u]
           index == IF u \notin DOMAIN formats THEN 1
                    ELSE IF last.channels = channels THEN last.index
                    ELSE last.index + 1
       IN  /\ formats' = [v \in DOMAIN formats \union {u} |->
                IF v = u THEN [channels |-> channels, index |-> index] ELSE formats[v]]
           /\ WriteFrame(<<u, opts.getAudioFrame, index>>, channels)
    /\ UNCHANGED <<mainVars, layoutVars, historyVars, reported, known, signals>>

(* The suffix of the file is the type of the frame.  Pictures (jpg) go to a *)
(* file each and are left out; frames of unknown type are dropped.          *)
videoFrameReceivedImpl(u, type) ==
    /\ Report /\ u \in reported
    /\ type \in CASE opts.getVideoFrame = 1 -> {"h264", "h265"}
                  [] opts.getVideoFrame = 2 -> {"yuv"}
                  [] OTHER                  -> {}
    /\ WriteFrame(<<u, type>>, type)
    /\ UNCHANGED <<mainVars, layoutVars, formats, historyVars, reported, known, signals>>

Callbacks ==
    \/ onWarningImpl \/ onErrorImpl
    \/ \E u \in Users :
         \/ onUserJoinedImpl(u) \/ onUserOfflineImpl(u) \/ onUserInfoUpdated(u)
         \/ \E channels \in 1 .. 2 : audioFrameReceivedImpl(u, channels)
         \/ \E type \in {"yuv", "h264", "h265"} : videoFrameReceivedImpl(u, type)

Next == Main \/ Signals \/ Callbacks

(* main is not suspended, sleep returns, and joinChannel returns.  Nobody   *)
(* has to send a signal and the engine has nothing to report.               *)
Spec == Init /\ [][Next]_vars /\ WF_vars(Main)
-----------------------------------------------------------------------------
TypeOK ==
    /\ pc \in {"start", "create", "joining", "keep", "test", "testStart",
               "startCalled", "testStopService", "stopCalled", "asleep", "leave",
               "release", "return", "exited", "crashed", "killed"}
    /\ line \in CommandLines /\ DOMAIN opts = DOMAIN Options
    /\ \A o \in DOMAIN Options : IsOf(Options[o], opts[o])
    /\ flags \in [{"stop", "startService", "stopService"} -> BOOLEAN]
    /\ engine \in {"none", "live", "left", "released"}
    /\ pointer \in BOOLEAN /\ stopped \in BOOLEAN /\ releases \in Nat
    /\ service \in {"nothing", "startService", "stopService"}
    /\ asked \in {"nothing", "startService", "stopService", "unclear"}
    /\ peers \in Seq(Users) /\ subs \subseteq 0 .. 2 ^ IntBits - 1
    /\ \A a \in subAccounts : a.kind \in Kinds
    /\ \A i \in DOMAIN shown : shown[i].uid \in Users \union {0}
    /\ known \subseteq Users /\ reported \subseteq Users /\ heard \subseteq Users
    /\ auto \in BOOLEAN /\ accountMode \in BOOLEAN /\ settled \in BOOLEAN
    /\ DOMAIN formats \subseteq Users
    /\ \A u \in DOMAIN formats :
         formats[u].channels \in 1 .. 2 /\ formats[u].index \in Nat
    /\ \A f \in files :
         /\ f.rotated \in BOOLEAN
         /\ f.format \in IF Len(f.name) = 3 THEN 1 .. 2 ELSE {"yuv", "h264", "h265"}

(* A command line that is written as the usage says, each option with a     *)
(* text of its own, is understood: main makes an engine, or tries to,       *)
(* exactly when every option is known, every text fits its type and main    *)
(* itself has nothing against the values; and each variable of main then    *)
(* has the last text written for its option, or its default.  [fill_arg,    *)
(* the loop of parse_opts with its two ways to give a text, and the checks  *)
(* of main]                                                                 *)
WellWritten ==
    \A i \in DOMAIN line :
        LET wants(j) == line[j].name # None /\ line[j].text = None
        IN  /\ wants(i) => i < Len(line) /\ line[i + 1].name = None
            /\ line[i].name = None => i > 1 /\ wants(i - 1)
Written(i) == IF line[i].text # None THEN line[i].text ELSE line[i + 1].text
OptionsAsWritten ==
    (pc \in {"create", "exited"} /\ WellWritten) =>
        LET named == {i \in DOMAIN line : line[i].name # None}
            fits  == \A i \in named : /\ line[i].name \in DOMAIN Options
                                      /\ Accepts(Options[line[i].name], Written(i))
            Of(o) == {i \in named : line[i].name = o}
            LastOf(o) == CHOOSE i \in Of(o) : \A j \in Of(o) : j <= i
        IN  /\ (pc = "create" \/ engine # "none") <=> (fits /\ Usable(opts))
            /\ fits => \A o \in DOMAIN Options :
                 opts[o] = IF Of(o) = {} THEN Defaults[o]
                           ELSE Convert(Options[o], Written(LastOf(o)))

(* Who is on the canvas is who should be: the users the engine reported and *)
(* has not reported gone that the options subscribe to, each once.  Not     *)
(* before main has told AgoraSdk its options, not between a recovery and    *)
(* the next report, and not while the account of the large user is unknown. *)
(* A user whose account was reported before the list of accounts was kept   *)
(* is not among them: nothing subscribes to him later.                      *)
Wanted(u) ==
    /\ \/ opts.autoSubscribe
       \/ ~ ByAccount(opts) /\ Number(u) \in SplitString(opts.subscribeVideoUids)
       \/ ByAccount(opts) /\ u \in heard
                          /\ AccountOf[u] \in SplitString(opts.subscribeVideoUids)
    /\ ByAccount(opts) /\ opts.layoutMode = 2 =>
         \/ u \in known
         \/ \E v \in known : AccountOf[v] = opts.maxResolutionUserAccount
(* Proved of up to sixteen users, since some layouts leave the seventeenth   *)
(* out, and of lists in which no number is cut to the uid of a user.        *)
FewUsers == IsFiniteSet(Users) /\ Cardinality(Users) <= 16
UidsAreNames ==
    \A l \in CommandLines, u \in Users :
        \A t \in SplitString(parse_opts(Options, Defaults, l).values.subscribeVideoUids) :
            stringToUint(t) = u <=> t = Number(u)
CanvasShowsTheWanted ==
    (settled /\ Mixing(opts)) =>
        /\ {shown[i].uid : i \in DOMAIN shown} = {u \in reported : Wanted(u)}
        /\ Len(shown) = Cardinality({u \in reported : Wanted(u)})

(* However main ends, but by a signal that kills it, an engine it created   *)
(* is released, and only once: release, the destructor and the early        *)
(* returns do not add up to two.                                            *)
EngineReleasedOnce ==
    /\ releases <= 1
    /\ pc = "exited" => (releases = 1 <=> engine # "none")

(* A media file holds frames of one format, rotated or not. *)
OneFormatPerFile ==
    \A f, g \in files :
        (f.name = g.name /\ f.rotated = g.rotated) => f.format = g.format

(* A stop signal and an error of the engine end the program, whenever they  *)
(* come: while main joins, between two tests, or while it sleeps.           *)
ToldToStopEnds == (flags.stop \/ stopped) ~> Over

(* The last request of SIGUSR1 or SIGUSR2 is what main has told the engine  *)
(* in the end, unless it came while a request for the other was waiting     *)
(* that main was to serve after it.                                         *)
LastRequestObeyed ==
    \A r \in {"startService", "stopService"} :
        (asked = r) ~> (service = r \/ asked # r \/ Over \/ flags.stop \/ stopped)
=============================================================================
