------------------------ MODULE SampleRecorderProofs ------------------------
(***************************************************************************)
(* Proofs about SampleRecorder: the release of the engine, the media files, *)
(* the types, the options and the canvas, for any users, command lines,     *)
(* widths and bounds.                                                       *)
(***************************************************************************)
EXTENDS SampleRecorder, DataInduction

-----------------------------------------------------------------------------
(* The release of the engine *)

(* Before the engine, with the engine, and when main is done.  The pointer  *)
(* says whether the engine is still to be released until the destructor has *)
(* run, which leaves it as it is; a signal may kill main anywhere.          *)
Before  == engine = "none" /\ ~ pointer /\ releases = 0
Held   == engine # "none" /\ pointer /\ releases = 0
Freed  == engine # "none" /\ ~ pointer /\ releases = 1
ReleaseInv ==
    /\ pc \in {"start", "create"} => Before
    /\ pc \in {"joining", "keep", "test", "testStart", "startCalled",
               "testStopService", "stopCalled", "asleep", "leave", "release"} => Held
    /\ pc = "return" => Held \/ Freed
    /\ pc = "exited" => Before \/ (engine # "none" /\ releases = 1)
    /\ pc \in {"crashed", "killed"} => releases \in 0 .. 1
    /\ pc \in {"start", "create", "joining", "keep", "test", "testStart",
               "startCalled", "testStopService", "stopCalled", "asleep", "leave",
               "release", "return", "exited", "crashed", "killed"}

LEMMA ReleaseInit == Init => ReleaseInv
  BY DEF Init, ReleaseInv, Before

LEMMA ReleaseMain ==
  ASSUME ReleaseInv, Main
  PROVE  ReleaseInv'
<1> USE DEF ReleaseInv, Before, Held, Freed
<1>1. CASE ParseArguments
  <2>1. pc = "start" /\ UNCHANGED <<engine, pointer, releases>>
    BY <1>1 DEF ParseArguments
  <2>2. PICK parsed : pc' = IF parsed.ok /\ Usable(parsed.values)
                              THEN "create" ELSE "exited"
    BY <1>1, Zenon DEF ParseArguments
  <2>3. pc' = "create" \/ pc' = "exited"
    BY <2>2, Zenon
  <2> QED
    BY <2>1, <2>3
<1>2. CASE CreateEngine
  BY <1>2 DEF CreateEngine
<1>3. CASE NoEngine
  BY <1>3 DEF NoEngine
<1>4. CASE JoinFails
  BY <1>4 DEF JoinFails
<1>5. CASE SubscribeUids \/ SubscribeAccounts
  BY <1>5 DEF SubscribeUids, SubscribeAccounts
<1>6. CASE KeepConfig
  BY <1>6 DEF KeepConfig
<1>7. CASE Loop
  <2>1. /\ pc \in {"test", "testStart", "startCalled", "testStopService",
                   "stopCalled", "asleep"}
        /\ pc' \in {"test", "testStart", "startCalled", "testStopService",
                    "stopCalled", "asleep", "leave"}
        /\ UNCHANGED <<engine, pointer, releases>>
    <3>1. CASE TestStop
      BY <3>1 DEF TestStop
    <3>2. CASE CallStartService \/ ResetStart
      BY <3>2 DEF CallStartService, ResetStart
    <3>3. CASE CallStopService \/ ResetStop
      BY <3>3 DEF CallStopService, ResetStop
    <3>4. CASE Wake
      BY <3>4 DEF Wake
    <3> QED
      BY <1>7, <3>1, <3>2, <3>3, <3>4 DEF Loop
  <2> QED
    BY <2>1
<1>8. CASE leaveChannel
  BY <1>8 DEF leaveChannel
<1>9. CASE release
  BY <1>9 DEF release
<1>10. CASE Destroy
  BY <1>10 DEF Destroy
<1> QED
  BY <1>1, <1>2, <1>3, <1>4, <1>5, <1>6, <1>7, <1>8, <1>9, <1>10 DEF Main

LEMMA ReleaseSignals ==
  ASSUME ReleaseInv, Signals
  PROVE  ReleaseInv'
<1>1. /\ ~ Over /\ pc' \in {pc, "killed"}
      /\ UNCHANGED <<engine, pointer, releases>>
  BY DEF Signals, signal_handler, ServiceSignal
<1> QED
  BY <1>1 DEF ReleaseInv, Before, Held, Freed, Over

LEMMA ReleaseCallbacks ==
  ASSUME ReleaseInv, Callbacks
  PROVE  ReleaseInv'
<1>1. UNCHANGED <<pc, engine, pointer, releases>>
  <2>1. CASE onWarningImpl \/ onErrorImpl
    BY <2>1 DEF onWarningImpl, onErrorImpl, mainVars
  <2>2. ASSUME NEW u \in Users,
               onUserJoinedImpl(u) \/ onUserOfflineImpl(u) \/ onUserInfoUpdated(u)
        PROVE  UNCHANGED mainVars
    BY <2>2 DEF onUserJoinedImpl, onUserOfflineImpl, onUserInfoUpdated
  <2>3. ASSUME NEW u \in Users, NEW channels \in 1 .. 2,
               audioFrameReceivedImpl(u, channels)
        PROVE  UNCHANGED mainVars
    BY <2>3 DEF audioFrameReceivedImpl
  <2>4. ASSUME NEW u \in Users, NEW type \in {"yuv", "h264", "h265"},
               videoFrameReceivedImpl(u, type)
        PROVE  UNCHANGED mainVars
    BY <2>4 DEF videoFrameReceivedImpl
  <2> QED
    BY <2>1, <2>2, <2>3, <2>4 DEF Callbacks, mainVars
<1> QED
  BY <1>1 DEF ReleaseInv, Before, Held, Freed

LEMMA ReleaseStep ==
  ASSUME ReleaseInv, [Next]_vars
  PROVE  ReleaseInv'
<1>1. CASE UNCHANGED vars
  BY <1>1 DEF vars, mainVars, ReleaseInv, Before, Held, Freed
<1> QED
  BY <1>1, ReleaseMain, ReleaseSignals, ReleaseCallbacks DEF Next

(* However main ends, but by a signal that kills it, an engine it created   *)
(* is released, and only once.                                              *)
THEOREM ReleasedOnce == Spec => []EngineReleasedOnce
<1>1. ReleaseInv => EngineReleasedOnce
  BY DEF ReleaseInv, Before, Held, Freed, EngineReleasedOnce
<1> QED
  BY ReleaseInit, ReleaseStep, <1>1, PTL DEF Spec

-----------------------------------------------------------------------------
(* The media files *)

(* A file of sound has an index its user has reached; the last one has the  *)
(* format the user has now.  The name of a file of pictures is its format.  *)
OfSound(f) ==
    \E u \in Users : \E a :
        \E i \in Nat :
            /\ f.name = <<u, a, i>> /\ u \in DOMAIN formats
            /\ i <= formats[u].index
            /\ i = formats[u].index => f.format = formats[u].channels
OfPictures(f) == \E u : \E t : f.name = <<u, t>> /\ f.format = t

FileInv ==
    /\ DOMAIN formats \subseteq Users
    /\ \A u \in DOMAIN formats : formats[u].index \in Nat
    /\ \A f \in files : OfSound(f) \/ OfPictures(f)
    /\ \A f, g \in files : f.name = g.name => f.format = g.format

LEMMA FileInit == Init => FileInv
  BY DEF Init, FileInv

(* A frame adds its own file, and otherwise only renames.                   *)
LEMMA WriteFrameFiles ==
  ASSUME FileInv, NEW name, NEW format, WriteFrame(name, format)
  PROVE  \A f \in files' :
           \/ f.name = name /\ f.format = format
           \/ \E g \in files : g.name = f.name /\ g.format = f.format
<1> DEFINE Same(f) == \E g \in files : g.name = f.name /\ g.format = f.format
<1>1. \A f \in files : Same(f)
  OBVIOUS
<1>2. \A f \in Rotate(name) : Same(f)
  <2>1. \A g \in files : g.name = name =>
          Same([name |-> name, rotated |-> TRUE, format |-> g.format])
    OBVIOUS
  <2> HIDE DEF Same
  <2> QED
    BY <1>1, <2>1 DEF Rotate
<1>3. PICK rotated \in {files, Rotate(name)} :
        files' \subseteq rotated \union {[name |-> name, rotated |-> FALSE, format |-> format]}
  BY DEF WriteFrame
<1> QED
  BY <1>1, <1>2, <1>3

LEMMA FileCallbacks ==
  ASSUME FileInv, NEW u \in Users
  PROVE  /\ \A channels \in 1 .. 2 : audioFrameReceivedImpl(u, channels) => FileInv'
         /\ \A type \in {"yuv", "h264", "h265"} :
              videoFrameReceivedImpl(u, type) => FileInv'
<1>1. ASSUME NEW channels \in 1 .. 2, audioFrameReceivedImpl(u, channels)
      PROVE  FileInv'
  <2> DEFINE index == IF u \notin DOMAIN formats THEN 1
                      ELSE IF formats[u].channels = channels THEN formats[u].index
                      ELSE formats[u].index + 1
             name == <<u, opts.getAudioFrame, index>>
  <2>1. /\ formats' = [v \in DOMAIN formats \union {u} |->
               IF v = u THEN [channels |-> channels, index |-> index] ELSE formats[v]]
        /\ WriteFrame(name, channels)
    BY <1>1 DEF audioFrameReceivedImpl
  <2>2. /\ index \in Nat
        /\ u \in DOMAIN formats =>
             /\ formats[u].index <= index
             /\ formats[u].index = index => formats[u].channels = channels
    <3>1. CASE u \notin DOMAIN formats
      BY <3>1
    <3>2. CASE u \in DOMAIN formats /\ formats[u].channels = channels
      BY <3>2 DEF FileInv
    <3>3. CASE u \in DOMAIN formats /\ formats[u].channels # channels
      <4>1. index = formats[u].index + 1
        BY <3>3
      <4>2. formats[u].index \in Nat
        BY <3>3 DEF FileInv
      <4> QED
        BY <4>1, <4>2, <3>3
    <3> QED
      BY <3>1, <3>2, <3>3
  <2>3. /\ DOMAIN formats' \subseteq Users
        /\ \A v \in DOMAIN formats' : formats'[v].index \in Nat
    BY <2>1, <2>2 DEF FileInv
  <2>4. \A f \in files' :
           \/ f.name = name /\ f.format = channels
           \/ \E g \in files : g.name = f.name /\ g.format = f.format
    BY <2>1, WriteFrameFiles
  <2>5. \A f : f.name = name /\ f.format = channels => OfSound(f)'
    <3> SUFFICES ASSUME NEW f, f.name = name, f.format = channels PROVE OfSound(f)'
      OBVIOUS
    <3>1. f.name = <<u, opts.getAudioFrame, index>>
      OBVIOUS
    <3> HIDE DEF index, name
    <3>2. /\ u \in DOMAIN formats' /\ index <= formats'[u].index
          /\ f.format = formats'[u].channels
      <4>1. formats'[u] = [channels |-> channels, index |-> index]
        BY <2>1
      <4> QED
        BY <2>1, <2>2, <4>1
    <3> QED
      BY <2>2, <3>1, <3>2 DEF OfSound
  <2>6. \A f, g : OfSound(g) /\ g.name = f.name /\ g.format = f.format => OfSound(f)'
    <3> SUFFICES ASSUME NEW f, NEW g, OfSound(g), g.name = f.name, g.format = f.format
                 PROVE  OfSound(f)'
      OBVIOUS
    <3>1. PICK v, a, i :
            /\ v \in Users /\ i \in Nat
            /\ f.name = <<v, a, i>> /\ v \in DOMAIN formats /\ i <= formats[v].index
            /\ i = formats[v].index => f.format = formats[v].channels
      BY DEF OfSound
    <3> HIDE DEF index
    <3>2. /\ v \in DOMAIN formats'
          /\ i <= formats'[v].index
          /\ i = formats'[v].index => f.format = formats'[v].channels
      <4>1. CASE v = u
        <5>1. formats'[v] = [channels |-> channels, index |-> index]
          BY <2>1, <4>1
        <5>2. formats[v].index \in Nat
          BY <3>1 DEF FileInv
        <5> QED
          BY <2>1, <2>2, <3>1, <4>1, <5>1, <5>2
      <4>2. CASE v # u
        <5>1. v \in DOMAIN formats' /\ formats'[v] = formats[v]
          BY <2>1, <3>1, <4>2
        <5> QED
          BY <3>1, <5>1
      <4> QED
        BY <4>1, <4>2
    <3> QED
      BY <3>1, <3>2 DEF OfSound
  <2>7. \A f, g : OfPictures(g) /\ g.name = f.name /\ g.format = f.format => OfPictures(f)'
    BY DEF OfPictures
  <2>8. \A g \in files : g.name = name => g.format = channels
    BY <2>2 DEF FileInv, OfSound, OfPictures
  <2> HIDE DEF index, name
  <2>9. \A f \in files' : (OfSound(f) \/ OfPictures(f))'
    BY <2>4, <2>5, <2>6, <2>7 DEF FileInv
  <2>10. \A f, g \in files' : f.name = g.name => f.format = g.format
    BY <2>4, <2>8 DEF FileInv
  <2> QED
    BY <2>3, <2>4, <2>9, <2>10 DEF FileInv
<1>2. ASSUME NEW type \in {"yuv", "h264", "h265"}, videoFrameReceivedImpl(u, type)
      PROVE  FileInv'
  <2> DEFINE name == <<u, type>>
  <2>1. UNCHANGED formats /\ WriteFrame(name, type)
    BY <1>2 DEF videoFrameReceivedImpl
  <2>2. \A f \in files' :
           \/ f.name = name /\ f.format = type
           \/ \E g \in files : g.name = f.name /\ g.format = f.format
    BY <2>1, WriteFrameFiles
  <2>3. \A f : f.name = name /\ f.format = type => OfPictures(f)'
    BY DEF OfPictures
  <2>4. \A f, g : OfSound(g) /\ g.name = f.name /\ g.format = f.format => OfSound(f)'
    BY <2>1 DEF OfSound
  <2>5. \A f, g : OfPictures(g) /\ g.name = f.name /\ g.format = f.format => OfPictures(f)'
    BY DEF OfPictures
  <2>6. \A g \in files : g.name = name => g.format = type
    BY DEF FileInv, OfSound, OfPictures
  <2> HIDE DEF name
  <2>7. \A f \in files' : (OfSound(f) \/ OfPictures(f))'
    BY <2>2, <2>3, <2>4, <2>5 DEF FileInv
  <2>8. \A f, g \in files' : f.name = g.name => f.format = g.format
    BY <2>2, <2>6 DEF FileInv
  <2> QED
    BY <2>1, <2>2, <2>7, <2>8 DEF FileInv
<1> QED
  BY <1>1, <1>2

(* Only a frame touches the media files.                                    *)
LEMMA MediaKept ==
  ASSUME [Next]_vars,
         ~ \E u \in Users :
             \/ \E channels \in 1 .. 2 : audioFrameReceivedImpl(u, channels)
             \/ \E type \in {"yuv", "h264", "h265"} : videoFrameReceivedImpl(u, type)
  PROVE  UNCHANGED mediaVars
<1>1. UNCHANGED vars => UNCHANGED mediaVars
  BY DEF vars
<1>2. Main => UNCHANGED mediaVars
  BY DEF Main, ParseArguments, CreateEngine, NoEngine, JoinFails, SubscribeUids,
         SubscribeAccounts, KeepConfig, Loop, TestStop, CallStartService, ResetStart,
         CallStopService, ResetStop, Wake, leaveChannel, release, Destroy, Others
<1>3. Signals => UNCHANGED mediaVars
  BY DEF Signals, signal_handler, ServiceSignal, Others
<1>4. onWarningImpl \/ onErrorImpl => UNCHANGED mediaVars
  BY DEF onWarningImpl, onErrorImpl, Others
<1>5. ASSUME NEW u \in Users
      PROVE  onUserJoinedImpl(u) \/ onUserOfflineImpl(u) \/ onUserInfoUpdated(u)
               => UNCHANGED mediaVars
  BY DEF onUserJoinedImpl, onUserOfflineImpl, onUserInfoUpdated
<1>6. Callbacks => UNCHANGED mediaVars
  BY <1>4, <1>5, Zenon DEF Callbacks
<1> QED
  BY <1>1, <1>2, <1>3, <1>6 DEF Next

(* A media file holds frames of one format, rotated or not. *)
THEOREM FilesHaveOneFormat == Spec => []OneFormatPerFile
<1>1. FileInv /\ [Next]_vars => FileInv'
  <2> SUFFICES ASSUME FileInv, [Next]_vars PROVE FileInv'
    OBVIOUS
  <2>1. UNCHANGED mediaVars => FileInv'
    BY DEF mediaVars, FileInv, OfSound, OfPictures
  <2> QED
    BY <2>1, MediaKept, FileCallbacks, Zenon
<1>2. FileInv => OneFormatPerFile
  BY DEF FileInv, OneFormatPerFile
<1> QED
  BY FileInit, <1>1, <1>2, PTL DEF Spec

-----------------------------------------------------------------------------
(* The loop of parse_opts *)

(* What is added up in parse_opts: the state of its loop after each word. *)
Fresh == [values |-> Defaults, pending |-> None, left |-> FALSE, refused |-> FALSE]
Fed(words) ==
    LET after[i \in 0 .. Len(words)] ==
          IF i = 0 THEN Fresh ELSE Take(Options, after[i - 1], words[i])
    IN  after

LEMMA ParseIsFed ==
  ASSUME NEW words
  PROVE  /\ parse_opts(Options, Defaults, words).values = Fed(words)[Len(words)].values
         /\ parse_opts(Options, Defaults, words).ok <=>
              /\ ~ Fed(words)[Len(words)].refused
              /\ ~ Fed(words)[Len(words)].left
              /\ Fed(words)[Len(words)].pending = None
  BY DEF parse_opts, Fed, Fresh

(* The states the loop may be in: values that some option makes of some     *)
(* text of the line, or that it has by default.                             *)
TextsOf(word) == {AsText(word), word.text}
Names == DOMAIN Options
Values(words) ==
    {Defaults[o] : o \in Names}
      \union UNION {UNION {{Convert(Options[o], t) : t \in TextsOf(words[i])}
                             : o \in Names} : i \in 1 .. Len(words)}
States(words) ==
    [values : [Names -> Values(words)], pending : Names \union {None},
     left : BOOLEAN, refused : BOOLEAN]

LEMMA DefaultsForAll == Defaults \in [Names -> {Defaults[o] : o \in Names}]
  BY DEF Defaults, Names, Options

LEMMA FreshIsState ==
  ASSUME NEW words
  PROVE  Fresh \in States(words)
<1>1. Defaults \in [Names -> Values(words)]
  BY DefaultsForAll DEF Values
<1>2. FALSE \in BOOLEAN
  OBVIOUS
<1> HIDE DEF Defaults, Names
<1> QED
  BY <1>1, <1>2 DEF Fresh, States

(* What one word may do. *)
Stored(s, o, t) == [s EXCEPT !.values[o] = Convert(Options[o], t), !.pending = None]

LEMMA FillCases ==
  ASSUME NEW s, NEW o, NEW t
  PROVE  \/ Accepts(Options[o], t) /\ Fill(Options, s, o, t) = Stored(s, o, t)
         \/ ~ Accepts(Options[o], t) /\ Fill(Options, s, o, t) = [s EXCEPT !.refused = TRUE]
  BY DEF Fill, Stored

Stores(s, after, word) ==
    \E o \in Names : \E t \in TextsOf(word) :
        Accepts(Options[o], t) /\ after = Stored(s, o, t)
OneWord(s, after, word) ==
    \/ after = s
    \/ after = [s EXCEPT !.left = TRUE]
    \/ after = [s EXCEPT !.refused = TRUE]
    \/ \E o \in Names : after = [s EXCEPT !.pending = o]
    \/ Stores(s, after, word)

LEMMA TakeCases ==
  ASSUME NEW words, NEW s \in States(words), NEW word
  PROVE  OneWord(s, Take(Options, s, word), word)
<1> USE DEF Names, OneWord, Stores
<1>1. CASE s.refused
  BY <1>1 DEF Take
<1>2. CASE ~ s.refused /\ s.pending # None
  <2>1. s.pending \in Names
    BY <1>2 DEF States
  <2>2. Take(Options, s, word) = Fill(Options, s, s.pending, AsText(word))
    BY <1>2 DEF Take
  <2> QED
    BY <2>1, <2>2, FillCases DEF TextsOf
<1>3. CASE ~ s.refused /\ s.pending = None /\ word.name = None
  BY <1>3 DEF Take
<1>4. CASE ~ s.refused /\ s.pending = None /\ word.name # None
           /\ word.name \notin DOMAIN Options
  BY <1>4 DEF Take
<1>5. CASE ~ s.refused /\ s.pending = None /\ word.name # None
           /\ word.name \in DOMAIN Options /\ word.text # None
  <2>1. Take(Options, s, word) = Fill(Options, s, word.name, word.text)
    BY <1>5 DEF Take
  <2> QED
    BY <1>5, <2>1, FillCases DEF TextsOf
<1>6. CASE ~ s.refused /\ s.pending = None /\ word.name # None
           /\ word.name \in DOMAIN Options /\ word.text = None
  BY <1>6 DEF Take
<1> QED
  BY <1>1, <1>2, <1>3, <1>4, <1>5, <1>6

LEMMA StoredIsState ==
  ASSUME NEW words, NEW s \in States(words), NEW o \in Names,
         NEW i \in 1 .. Len(words), NEW t \in TextsOf(words[i])
  PROVE  /\ Stored(s, o, t) \in States(words)
         /\ Stored(s, o, t).values = [s.values EXCEPT ![o] = Convert(Options[o], t)]
         /\ Stored(s, o, t).pending = None
         /\ Stored(s, o, t).refused = s.refused
         /\ Stored(s, o, t).left = s.left
<1> DEFINE v == Convert(Options[o], t)
<1>1. v \in Values(words)
  BY DEF Values
<1> HIDE DEF v
<1>2. [s.values EXCEPT ![o] = v] \in [Names -> Values(words)]
  BY <1>1 DEF States
<1> QED
  BY <1>2 DEF Stored, States, v

LEMMA OneWordStays ==
  ASSUME NEW words, NEW s \in States(words), NEW i \in 1 .. Len(words),
         NEW after, OneWord(s, after, words[i])
  PROVE  after \in States(words)
<1>1. CASE after = s \/ after = [s EXCEPT !.left = TRUE]
           \/ after = [s EXCEPT !.refused = TRUE]
  BY <1>1 DEF States
<1>2. CASE \E o \in Names : after = [s EXCEPT !.pending = o]
  BY <1>2 DEF States
<1>3. CASE Stores(s, after, words[i])
  <2>1. PICK o \in Names, t \in TextsOf(words[i]) : after = Stored(s, o, t)
    BY <1>3, Zenon DEF Stores
  <2>2. Stored(s, o, t) \in States(words)
    BY StoredIsState
  <2> QED
    BY <2>1, <2>2, Zenon
<1> QED
  BY <1>1, <1>2, <1>3, Zenon DEF OneWord

LEMMA TakeStays ==
  ASSUME NEW words, NEW s \in States(words), NEW i \in 1 .. Len(words)
  PROVE  Take(Options, s, words[i]) \in States(words)
  BY TakeCases, OneWordStays

LEMMA FedRuns ==
  ASSUME NEW words, Len(words) \in Nat
  PROVE  /\ Fed(words) \in [0 .. Len(words) -> States(words)]
         /\ Fed(words)[0] = Fresh
         /\ \A n \in 1 .. Len(words) :
              Fed(words)[n] = Take(Options, Fed(words)[n - 1], words[n])
<1> DEFINE N == Len(words)
           S == States(words)
           Go(k, n) == Take(Options, k, words[n])
           Is(f) == f = [i \in 0 .. N |-> IF i = 0 THEN Fresh ELSE Go(f[i - 1], i)]
           next == [n \in 1 .. N |-> [k \in S |-> Go(k, n)]]
           fed == Fed(words)
<1>1. N \in Nat /\ Fresh \in S
  BY FreshIsState
<1>2. \A k \in S, n \in 1 .. N : Go(k, n) \in S
  BY TakeStays
<1>3. fed = CHOOSE g : Is(g)
  BY DEF Fed
<1> HIDE DEF N, S, Go, fed
<1>5. next \in [1 .. N -> [S -> S]]
  BY <1>2
<1>6. \A k \in S, n \in 1 .. N : next[n][k] = Go(k, n)
  OBVIOUS
<1> HIDE DEF next
<1>7. \E f \in [0 .. N -> S] : Recursion(f, N, Fresh, next)
  BY <1>1, <1>5, RecursionExists
<1>8. PICK f \in [0 .. N -> S] : /\ f[0] = Fresh
                                 /\ \A n \in 1 .. N : f[n] = next[n][f[n - 1]]
  BY <1>7 DEF Recursion
<1>9. \A n \in 1 .. N : n - 1 \in 0 .. N /\ f[n - 1] \in S /\ f[n] = Go(f[n - 1], n)
  BY <1>1, <1>6, <1>8
<1>10. Is(f)
  BY <1>1, <1>8, <1>9
<1>11. Is(fed)
  <2> HIDE DEF Is
  <2> QED
    BY <1>3, <1>10
<1>12. fed[0] = Fresh /\ \A n \in 1 .. N : fed[n] = Go(fed[n - 1], n)
  BY <1>1, <1>11
<1>13. \A n \in 0 .. N : fed[n] = f[n]
  <2>1. GoAlike(fed, f, N)
    BY <1>8, <1>9, <1>12 DEF GoAlike
  <2> QED
    BY <1>1, <2>1, SameRecursion
<1>14. fed = f
  BY <1>1, <1>8, <1>11, <1>13
<1> QED
  BY <1>8, <1>12, <1>14 DEF fed, N, S, Go

-----------------------------------------------------------------------------
(* Types *)

(* The values of the options are of their types, and the list of uids is    *)
(* one in which what looks like a number is one.                            *)
Legible(text) ==
    \A part \in SplitString(text) :
        part.kind \in Kinds /\ (Begins(part) => part.value \in Int)
Readable(v) ==
    /\ DOMAIN v = Names /\ \A o \in Names : IsOf(Options[o], v[o])
    /\ Legible(v["subscribeVideoUids"])
Types == {"bool", "int32", "uint32", "string"}

LEMMA OptionTypes ==
    /\ {"autoSubscribe", "subscribeVideoUids"} \subseteq Names
    /\ Options["autoSubscribe"] = "bool"
    /\ Options["subscribeVideoUids"] = "string"
    /\ \A o \in Names : Options[o] \in Types
  BY DEF Names, Options, Types

LEMMA IsOfCases ==
  ASSUME NEW v
  PROVE  /\ IsOf("bool", v) <=> v \in BOOLEAN
         /\ IsOf("int32", v) <=> v \in -(2 ^ (IntBits - 1)) .. 2 ^ (IntBits - 1) - 1
         /\ IsOf("uint32", v) <=> v \in 0 .. 2 ^ IntBits - 1
         /\ IsOf("string", v) <=> v.kind \in Kinds
  BY DEF IsOf

LEMMA DefaultsReadable == Readable(Defaults)
<1> DEFINE h == 2 ^ (IntBits - 1)
           m == 2 ^ IntBits
<1>1. h \in Nat \ {0} /\ m \in Nat \ {0}
  BY WidthsAssumption
<1>2. \A o \in Names : Options[o] = "string" => Defaults[o].kind \in Kinds
  BY DEF Names, Options, Defaults, Kinds, EmptyText, List
<1>3. \A o \in Names : Options[o] = "bool" => Defaults[o] = TRUE \/ Defaults[o] = FALSE
  BY DEF Names, Options, Defaults
<1>4. \A o \in Names : Options[o] = "uint32" => Defaults[o] = 0
  BY DEF Names, Options, Defaults
<1>5. \A o \in Names : Options[o] = "int32" => Defaults[o] = 0 \/ Defaults[o] = -1
  BY DEF Names, Options, Defaults
<1>6. DOMAIN Defaults = Names
  BY DefaultsForAll
<1>7. Legible(Defaults["subscribeVideoUids"])
  <2>1. Defaults["subscribeVideoUids"] = EmptyText
    BY DEF Defaults
  <2>2. Legible(EmptyText)
    BY DEF Legible, EmptyText, SplitString
  <2> QED
    BY <2>1, <2>2, Zenon
<1>8. 0 \in 0 .. m - 1 /\ {0, -1} \subseteq -h .. h - 1
  <2> HIDE DEF h, m
  <2> QED
    BY <1>1
<1>9. \A v : /\ IsOf("string", v) <=> v.kind \in Kinds
             /\ IsOf("bool", v) <=> v \in BOOLEAN
             /\ IsOf("uint32", v) <=> v \in 0 .. m - 1
             /\ IsOf("int32", v) <=> v \in -h .. h - 1
  BY IsOfCases, Zenon DEF h, m
<1> HIDE DEF h, m
<1>10. TRUE \in BOOLEAN /\ FALSE \in BOOLEAN
  OBVIOUS
<1>11. ASSUME NEW o \in Names PROVE IsOf(Options[o], Defaults[o])
  <2>1. CASE Options[o] = "string"
    BY <1>2, <1>9, <2>1, Zenon
  <2>2. CASE Options[o] = "bool"
    BY <1>3, <1>9, <1>10, <2>2, Zenon
  <2>3. CASE Options[o] = "uint32"
    BY <1>4, <1>8, <1>9, <2>3, Zenon
  <2>4. CASE Options[o] = "int32"
    <3>1. Defaults[o] \in {0, -1}
      BY <1>5, <2>4
    <3>2. Defaults[o] \in -h .. h - 1
      BY <1>8, <3>1, Zenon
    <3> QED
      BY <1>9, <2>4, <3>2, Zenon
  <2> QED
    BY <2>1, <2>2, <2>3, <2>4, OptionTypes DEF Types
<1> QED
  BY <1>6, <1>7, <1>11 DEF Readable

LEMMA TextsLegible ==
  ASSUME NEW words \in CommandLines, NEW i \in 1 .. Len(words),
         NEW t \in TextsOf(words[i]), t # None
  PROVE  Legible(t)
<1>1. words[i].text # None => Legible(words[i].text)
  BY CommandLinesAssumption DEF Legible
<1>2. \A w : Legible(Word(w))
  BY DEF Legible, Word, SplitString, Kinds, Begins
<1>3. t = words[i].text \/ \E w : t = Word(w)
  BY DEF TextsOf, AsText
<1> QED
  BY <1>1, <1>2, <1>3

(* A text that is accepted becomes a value of its type.                     *)
LEMMA LongIsInt ==
  ASSUME NEW n \in Int
  PROVE  ToLong(n) \in Int /\ ToULong(n) \in Int
<1> DEFINE b == 2 ^ (LongBits - 1)
           l == 2 ^ LongBits
<1>1. b \in Nat \ {0} /\ l \in Nat \ {0}
  BY WidthsAssumption
<1> HIDE DEF b, l
<1>2. (IF n >= b THEN b - 1 ELSE IF n < -b THEN -b ELSE n) \in Int
  BY <1>1
<1>3. n % l \in Int
  BY <1>1
<1>4. (IF n >= l \/ n <= -l THEN l - 1 ELSE n % l) \in Int
  BY <1>1, <1>3
<1> QED
  BY <1>2, <1>4 DEF ToLong, ToULong, b, l

LEMMA CutToWidth ==
  ASSUME NEW n \in Int
  PROVE  /\ Cut(n) \in 0 .. 2 ^ IntBits - 1
         /\ Signed(n) \in -(2 ^ (IntBits - 1)) .. 2 ^ (IntBits - 1) - 1
<1> DEFINE h == 2 ^ (IntBits - 1)
           m == 2 ^ IntBits
           c == n % m
<1>1. h \in Nat \ {0} /\ m = 2 * h /\ m \in Nat \ {0}
  BY WidthsAssumption
<1>2. c \in 0 .. m - 1
  <2> HIDE DEF m
  <2> QED
    BY <1>1
<1>3. (IF c >= h THEN c - m ELSE c) \in -h .. h - 1
  <2> HIDE DEF c, h, m
  <2> QED
    BY <1>1, <1>2
<1>4. Cut(n) = c
  BY DEF Cut
<1>5. Signed(n) = IF c >= h THEN c - m ELSE c
  BY <1>4, Zenon DEF Signed, h, m
<1> QED
  BY <1>2, <1>3, <1>4, <1>5

LEMMA ConvertTyped ==
  ASSUME NEW type \in Types, NEW t, Accepts(type, t), Legible(t)
  PROVE  IsOf(type, Convert(type, t))
<1>1. CASE type = "string"
  <2>1. Convert(type, t) = t
    BY <1>1 DEF Convert
  <2>2. t.kind \in Kinds
    BY DEF Legible, SplitString, Kinds
  <2> QED
    BY <1>1, <2>1, <2>2, IsOfCases, Zenon
<1>2. CASE type # "string"
  <2> DEFINE n == ValueOf(t)
  <2>1. n \in Int
    <3>1. t.kind \in {"number", "empty"}
      BY <1>2 DEF Accepts, IsNumber
    <3>2. CASE t.kind = "empty"
      BY <3>2 DEF ValueOf
    <3>3. CASE t.kind = "number"
      <4>1. SplitString(t) = {t} /\ Begins(t)
        BY <3>3 DEF SplitString, Begins
      <4> QED
        BY <3>3, <4>1 DEF Legible, ValueOf
    <3> QED
      BY <3>1, <3>2, <3>3
  <2>2. ToLong(n) \in Int /\ ToULong(n) \in Int
    BY <2>1, LongIsInt
  <2>3. CASE type = "bool"
    <3>1. Convert(type, t) = (ToULong(n) # 0)
      BY <2>3 DEF Convert
    <3>2. (ToULong(n) # 0) \in BOOLEAN
      BY Zenon
    <3> QED
      BY <2>3, <3>1, <3>2, IsOfCases, Zenon
  <2>4. CASE type = "int32"
    <3>1. Convert(type, t) = Signed(ToLong(n))
      BY <2>4 DEF Convert
    <3>2. Signed(ToLong(n)) \in -(2 ^ (IntBits - 1)) .. 2 ^ (IntBits - 1) - 1
      <4> HIDE DEF n
      <4> QED
        BY <2>2, CutToWidth, Zenon
    <3> QED
      BY <2>4, <3>1, <3>2, IsOfCases, Zenon
  <2>5. CASE type = "uint32"
    <3>1. Convert(type, t) = Cut(ToULong(n))
      BY <2>5 DEF Convert
    <3>2. Cut(ToULong(n)) \in 0 .. 2 ^ IntBits - 1
      <4> HIDE DEF n
      <4> QED
        BY <2>2, CutToWidth, Zenon
    <3> QED
      BY <2>5, <3>1, <3>2, IsOfCases, Zenon
  <2> QED
    BY <1>2, <2>3, <2>4, <2>5 DEF Types
<1> QED
  BY <1>1, <1>2

LEMMA StoredReadable ==
  ASSUME NEW words \in CommandLines, NEW s \in States(words), Readable(s.values),
         NEW o \in Names, NEW i \in 1 .. Len(words), NEW t \in TextsOf(words[i]),
         Accepts(Options[o], t)
  PROVE  Readable(Stored(s, o, t).values)
<1> DEFINE v == Convert(Options[o], t)
<1>1. /\ Stored(s, o, t).values = [s.values EXCEPT ![o] = v]
      /\ DOMAIN s.values = Names
  BY StoredIsState DEF States
<1>2. Legible(t)
  <2>1. t # None
    BY DEF Accepts
  <2> QED
    BY <2>1, TextsLegible
<1>3. IsOf(Options[o], v)
  BY <1>2, OptionTypes, ConvertTyped
<1>4. o = "subscribeVideoUids" => Legible(v)
  <2>1. o = "subscribeVideoUids" => v = t
    BY OptionTypes DEF Convert
  <2> QED
    BY <1>2, <2>1, Zenon
<1> HIDE DEF v
<1> DEFINE w == [s.values EXCEPT ![o] = v]
<1>5. /\ DOMAIN w = Names
      /\ \A q \in Names : w[q] = IF q = o THEN v ELSE s.values[q]
  BY <1>1
<1> HIDE DEF w
<1>6. \A q \in Names : IsOf(Options[q], w[q])
  BY <1>3, <1>5, Zenon DEF Readable
<1>7. Legible(w["subscribeVideoUids"])
  BY <1>4, <1>5, OptionTypes, Zenon DEF Readable
<1>8. Readable(w)
  BY <1>5, <1>6, <1>7, Zenon DEF Readable
<1> QED
  BY <1>1, <1>8 DEF w

LEMMA OneWordReadable ==
  ASSUME NEW words \in CommandLines, NEW s \in States(words), Readable(s.values),
         NEW i \in 1 .. Len(words), NEW after, OneWord(s, after, words[i])
  PROVE  Readable(after.values)
<1>1. CASE Stores(s, after, words[i])
  <2>1. PICK o \in Names, t \in TextsOf(words[i]) :
          Accepts(Options[o], t) /\ after = Stored(s, o, t)
    BY <1>1, Zenon DEF Stores
  <2> QED
    BY <2>1, StoredReadable
<1>2. CASE ~ Stores(s, after, words[i])
  <2>1. after.values = s.values
    BY <1>2 DEF OneWord, States
  <2> QED
    BY <2>1, Zenon
<1> QED
  BY <1>1, <1>2

LEMMA ParsedReadable ==
  ASSUME NEW words \in CommandLines
  PROVE  Readable(parse_opts(Options, Defaults, words).values)
<1> DEFINE N == Len(words)
           F == Fed(words)
           T == {n \in 0 .. N : Readable(F[n].values)}
<1>1. N \in Nat
  BY CommandLinesAssumption
<1>2. /\ F \in [0 .. N -> States(words)] /\ F[0] = Fresh
      /\ \A n \in 1 .. N : F[n] = Take(Options, F[n - 1], words[n])
  BY <1>1, FedRuns
<1> HIDE DEF F
<1>3. 0 \in T
  BY <1>1, <1>2, DefaultsReadable DEF Fresh
<1>4. ASSUME NEW n \in 1 .. N, n - 1 \in T PROVE n \in T
  <2>1. F[n - 1] \in States(words) /\ Readable(F[n - 1].values)
    BY <1>1, <1>2, <1>4
  <2>2. OneWord(F[n - 1], F[n], words[n])
    BY <1>2, <2>1, TakeCases
  <2>3. Readable(F[n].values)
    BY <2>1, <2>2, OneWordReadable
  <2> QED
    BY <1>1, <2>3
<1>5. N \in T
  <2> HIDE DEF T, N
  <2> QED
    BY <1>1, <1>3, <1>4, InductionUpTo
<1>6. Readable(Fed(words)[Len(words)].values)
  BY <1>5 DEF F
<1>7. parse_opts(Options, Defaults, words).values = Fed(words)[Len(words)].values
  BY ParseIsFed
<1> QED
  BY <1>6, <1>7, Zenon

(* A uid cut to its width is one. *)
LEMMA CutInRange ==
  ASSUME NEW part, Begins(part) => part.value \in Int
  PROVE  stringToUint(part) \in 0 .. 2 ^ IntBits - 1
<1>1. CASE Begins(part)
  <2>1. ToLong(part.value) \in Int
    BY <1>1, LongIsInt
  <2>2. stringToUint(part) = Cut(ToLong(part.value))
    BY <1>1 DEF stringToUint
  <2> QED
    BY <2>1, <2>2, CutToWidth, Zenon
<1>2. CASE ~ Begins(part)
  <2> DEFINE m == 2 ^ IntBits
  <2>1. m \in Nat \ {0}
    BY WidthsAssumption
  <2> HIDE DEF m
  <2>2. 0 \in 0 .. m - 1
    BY <2>1
  <2>3. stringToUint(part) = 0
    BY <1>2 DEF stringToUint
  <2> QED
    BY <2>2, <2>3 DEF m
<1> QED
  BY <1>1, <1>2

(* TypeOK in four parts: the variables of main, those of AgoraSdk with the  *)
(* options they come from, what is asked of the service and shown on the    *)
(* canvas, and the media files.                                             *)
Flags == {"stop", "startService", "stopService"}
MainType ==
    /\ pc \in {"start", "create", "joining", "keep", "test", "testStart",
               "startCalled", "testStopService", "stopCalled", "asleep", "leave",
               "release", "return", "exited", "crashed", "killed"}
    /\ flags \in [Flags -> BOOLEAN]
    /\ engine \in {"none", "live", "left", "released"}
    /\ pointer \in BOOLEAN /\ stopped \in BOOLEAN /\ releases \in Nat
Words    == 0 .. 2 ^ IntBits - 1
Switches == auto \in BOOLEAN /\ accountMode \in BOOLEAN /\ settled \in BOOLEAN
SdkType ==
    /\ peers \in Seq(Users) /\ subs \subseteq Words
    /\ known \subseteq Users /\ reported \subseteq Users
    /\ Switches
    /\ line \in CommandLines /\ Readable(opts)

LEMMA TypeInit == Init => MainType /\ SdkType
<1> SUFFICES ASSUME Init PROVE MainType /\ SdkType
  OBVIOUS
<1>1. TRUE \in BOOLEAN /\ FALSE \in BOOLEAN
  OBVIOUS
<1>2. flags \in [Flags -> BOOLEAN]
  <2>1. flags = [stop |-> FALSE, startService |-> FALSE, stopService |-> FALSE]
    BY DEF Init
  <2>2. DOMAIN flags = Flags
    BY <2>1 DEF Flags
  <2>3. \A f \in Flags : flags[f] = FALSE
    BY <2>1 DEF Flags
  <2>4. flags = [f \in DOMAIN flags |-> flags[f]]
    BY <2>1, Zenon
  <2>5. flags = [f \in Flags |-> flags[f]]
    BY <2>2, <2>4, Zenon
  <2> QED
    BY <1>1, <2>3, <2>5, Zenon
<1>3. MainType
  BY <1>1, <1>2 DEF Init, MainType
<1>4. Readable(opts)
  BY DefaultsReadable DEF Init
<1>5. Switches
  BY <1>1, Zenon DEF Init, Switches
<1>6. SdkType
  BY <1>4, <1>5 DEF Init, SdkType
<1> QED
  BY <1>3, <1>6

LEMMA MainTypeStep ==
  ASSUME MainType, Next
  PROVE  MainType'
<1> USE DEF MainType
<1>1. CASE ParseArguments
  <2>1. pc' \in {"create", "exited"}
    BY <1>1, Zenon DEF ParseArguments
  <2>2. UNCHANGED <<flags, engine, pointer, stopped, releases>>
    BY <1>1 DEF ParseArguments
  <2> QED
    BY <2>1, <2>2
<1>2. CASE CreateEngine \/ NoEngine \/ JoinFails \/ SubscribeUids \/ SubscribeAccounts
           \/ KeepConfig
  <2>1. /\ pc' \in {"joining", "crashed", "return", "keep", "test"}
        /\ UNCHANGED <<flags, stopped, releases>>
        /\ engine' \in {engine, "live"} /\ pointer' \in {pointer, TRUE}
    BY <1>2 DEF CreateEngine, NoEngine, JoinFails, SubscribeUids, SubscribeAccounts,
         KeepConfig
  <2>2. pointer' \in BOOLEAN
    BY <2>1, Zenon
  <2> QED
    BY <2>1, <2>2
<1>3. CASE TestStop \/ CallStartService \/ CallStopService \/ Wake
  BY <1>3 DEF TestStop, CallStartService, CallStopService, Wake
<1>4. CASE ResetStart \/ ResetStop
  <2>1. flags' \in [Flags -> BOOLEAN]
    BY <1>4 DEF ResetStart, ResetStop, Flags
  <2> QED
    BY <1>4, <2>1 DEF ResetStart, ResetStop
<1>5. CASE leaveChannel
  <2>1. stopped' \in {stopped, TRUE} /\ engine' \in {engine, "left"} /\ pc' = "release"
        /\ UNCHANGED <<flags, pointer, releases>>
    BY <1>5 DEF leaveChannel
  <2>2. stopped' \in BOOLEAN
    BY <2>1, Zenon
  <2> QED
    BY <2>1, <2>2
<1>6. CASE release \/ Destroy
  <2>1. /\ pointer' \in {pointer, FALSE} /\ engine' \in {engine, "released"}
        /\ pc' \in {"return", "exited"} /\ UNCHANGED <<flags, stopped>>
        /\ releases' \in {releases, releases + 1}
    BY <1>6 DEF release, Destroy
  <2>2. pointer' \in BOOLEAN
    BY <2>1, Zenon
  <2> QED
    BY <2>1, <2>2
<1>7. CASE Signals
  <2>1. /\ pc' \in {pc, "killed"} /\ UNCHANGED <<engine, pointer, stopped, releases>>
        /\ flags' = flags \/ \E f \in Flags : flags' = [flags EXCEPT ![f] = TRUE]
    BY <1>7 DEF Signals, signal_handler, ServiceSignal, Flags
  <2>2. flags' \in [Flags -> BOOLEAN]
    BY <2>1
  <2> QED
    BY <2>1, <2>2
<1>8. CASE Callbacks
  <2>1. UNCHANGED <<pc, flags, engine, pointer, releases>> /\ stopped' \in {stopped, TRUE}
    <3>1. CASE onWarningImpl \/ onErrorImpl
      BY <3>1 DEF onWarningImpl, onErrorImpl, mainVars
    <3>2. ASSUME NEW u \in Users,
                 \/ onUserJoinedImpl(u) \/ onUserOfflineImpl(u) \/ onUserInfoUpdated(u)
                 \/ \E channels \in 1 .. 2 : audioFrameReceivedImpl(u, channels)
                 \/ \E type \in {"yuv", "h264", "h265"} : videoFrameReceivedImpl(u, type)
          PROVE  UNCHANGED mainVars
      BY <3>2 DEF onUserJoinedImpl, onUserOfflineImpl, onUserInfoUpdated,
           audioFrameReceivedImpl, videoFrameReceivedImpl
    <3>3. UNCHANGED mainVars =>
            UNCHANGED <<pc, flags, engine, pointer, releases, stopped>>
      BY DEF mainVars
    <3> QED
      BY <1>8, <3>1, <3>2, <3>3 DEF Callbacks
  <2>2. stopped' \in BOOLEAN
    BY <2>1, Zenon
  <2> QED
    BY <2>1, <2>2
<1> QED
  BY <1>1, <1>2, <1>3, <1>4, <1>5, <1>6, <1>7, <1>8 DEF Next, Main, Loop

(* main changes what AgoraSdk keeps in three places. *)
LEMMA SdkTypeMain ==
  ASSUME SdkType, Main
  PROVE  SdkType'
<1>1. CASE ParseArguments
  <2>1. /\ opts' = parse_opts(Options, Defaults, line).values
        /\ UNCHANGED <<line, peers, subs, known, reported, auto, accountMode, settled>>
    BY <1>1 DEF ParseArguments, Others, layoutVars, engineVars, historyVars
  <2>2. Readable(opts')
    BY <2>1, ParsedReadable DEF SdkType
  <2> QED
    BY <2>1, <2>2 DEF SdkType, Switches
<1>2. CASE SubscribeUids
  <2>1. UNCHANGED <<line, opts, peers, known, reported, auto, accountMode, settled>>
    BY <1>2 DEF SubscribeUids, engineVars, historyVars
  <2>2. subs' = subs \/ subs' = subs \union
                          {stringToUint(t) : t \in SplitString(opts.subscribeVideoUids)}
    BY <1>2 DEF SubscribeUids
  <2>3. \A t \in SplitString(opts.subscribeVideoUids) : stringToUint(t) \in Words
    BY CutInRange DEF SdkType, Readable, Legible, Words
  <2>4. subs' \subseteq Words
    BY <2>2, <2>3 DEF SdkType
  <2> QED
    BY <2>1, <2>4 DEF SdkType, Switches
<1>3. CASE KeepConfig
  <2>1. /\ UNCHANGED <<line, opts, peers, subs, known, reported, settled>>
        /\ auto' = opts.autoSubscribe /\ accountMode' = ByAccount(opts)
    BY <1>3 DEF KeepConfig, engineVars, historyVars
  <2>2. auto' \in BOOLEAN
    <3>1. IsOf("bool", opts["autoSubscribe"])
      BY OptionTypes DEF SdkType, Readable
    <3>2. opts["autoSubscribe"] \in BOOLEAN
      BY <3>1, IsOfCases, Zenon
    <3> QED
      BY <2>1, <3>2, Zenon
  <2>3. accountMode' \in BOOLEAN
    BY <2>1, Zenon DEF ByAccount
  <2>4. Switches'
    BY <2>1, <2>2, <2>3 DEF SdkType, Switches
  <2> QED
    BY <2>1, <2>4 DEF SdkType
<1>4. CASE \/ CreateEngine \/ NoEngine \/ JoinFails \/ SubscribeAccounts \/ Loop
           \/ leaveChannel \/ release \/ Destroy
  <2>1. UNCHANGED <<line, opts, peers, subs, known, reported, auto, accountMode, settled>>
    BY <1>4 DEF CreateEngine, NoEngine, JoinFails, SubscribeAccounts, Loop, TestStop,
         CallStartService, ResetStart, CallStopService, ResetStop, Wake, leaveChannel,
         release, Destroy, Others, layoutVars, engineVars, historyVars
  <2> QED
    BY <2>1 DEF SdkType, Switches
<1> QED
  BY <1>1, <1>2, <1>3, <1>4 DEF Main

LEMMA SdkTypeCallbacks ==
  ASSUME SdkType, Callbacks
  PROVE  SdkType'
<1>1. CASE onWarningImpl
  <2>1. /\ UNCHANGED <<line, opts, subs, known, auto, accountMode>>
        /\ reported' = {} /\ peers' = <<>> /\ settled' = FALSE
    BY <1>1 DEF onWarningImpl, mainVars
  <2>2. Switches'
    BY <2>1, Zenon DEF SdkType, Switches
  <2> QED
    BY <2>1, <2>2 DEF SdkType
<1>2. CASE onErrorImpl
  BY <1>2 DEF onErrorImpl, Others, layoutVars, engineVars, historyVars, SdkType,
       Switches
<1>3. ASSUME NEW u \in Users, onUserJoinedImpl(u)
      PROVE  SdkType'
  <2>1. /\ UNCHANGED <<line, opts, subs, known, auto, accountMode>>
        /\ reported' = reported \union {u}
        /\ peers' = peers \/ peers' = Append(peers, u)
    BY <1>3 DEF onUserJoinedImpl, mainVars
  <2>2. peers' \in Seq(Users)
    BY <1>3, <2>1 DEF SdkType
  <2>3. settled' = settled \/ settled' = FALSE \/ settled' = Configured
    BY <1>3, Zenon DEF onUserJoinedImpl, setVideoMixLayout
  <2>4. Configured \in BOOLEAN
    BY DEF Configured
  <2>5. settled' \in BOOLEAN
    BY <2>3, <2>4, Zenon DEF SdkType, Switches
  <2>6. auto' \in BOOLEAN /\ accountMode' \in BOOLEAN
    BY <2>1, Zenon DEF SdkType, Switches
  <2>7. Switches'
    BY <2>5, <2>6, Zenon DEF Switches
  <2> QED
    BY <2>1, <2>2, <2>7 DEF SdkType
<1>4. ASSUME NEW u \in Users, onUserOfflineImpl(u)
      PROVE  SdkType'
  <2>1. /\ UNCHANGED <<line, opts, subs, known, auto, accountMode>>
        /\ reported' = reported \ {u} /\ peers' = Sift(peers, {u})
    BY <1>4 DEF onUserOfflineImpl, mainVars
  <2>2. settled' = settled \/ settled' = FALSE \/ settled' = Configured
    BY <1>4, Zenon DEF onUserOfflineImpl, setVideoMixLayout
  <2>3. Configured \in BOOLEAN
    BY DEF Configured
  <2>4. settled' \in BOOLEAN
    BY <2>2, <2>3, Zenon DEF SdkType, Switches
  <2>5. auto' \in BOOLEAN /\ accountMode' \in BOOLEAN
    BY <2>1, Zenon DEF SdkType, Switches
  <2>6. Switches'
    BY <2>4, <2>5, Zenon DEF Switches
  <2>7. peers' \in Seq(Users)
    BY <2>1, SiftType DEF SdkType
  <2> QED
    BY <2>1, <2>6, <2>7 DEF SdkType
<1>5. ASSUME NEW u \in Users, onUserInfoUpdated(u)
      PROVE  SdkType'
  <2>1. /\ UNCHANGED <<line, opts, peers, reported, auto, accountMode>>
        /\ known' = known \union {u} /\ subs' \in {subs, subs \union {u}}
    BY <1>5 DEF onUserInfoUpdated, mainVars
  <2>2. settled' = settled \/ settled' = FALSE \/ settled' = Configured
    BY <1>5, Zenon DEF onUserInfoUpdated, setVideoMixLayout
  <2>3. Configured \in BOOLEAN
    BY DEF Configured
  <2>4. settled' \in BOOLEAN
    BY <2>2, <2>3, Zenon DEF SdkType, Switches
  <2>5. auto' \in BOOLEAN /\ accountMode' \in BOOLEAN
    BY <2>1, Zenon DEF SdkType, Switches
  <2>6. Switches'
    BY <2>4, <2>5, Zenon DEF Switches
  <2>7. u \in Words
    <3> DEFINE m == 2 ^ IntBits
    <3>1. m \in Nat /\ u \in 1 .. m - 1
      BY UsersAssumption, WidthsAssumption
    <3> HIDE DEF m
    <3>2. u \in 0 .. m - 1
      BY <3>1
    <3> QED
      BY <3>2 DEF m, Words
  <2>8. subs' \subseteq Words
    BY <2>1, <2>7 DEF SdkType
  <2> QED
    BY <2>1, <2>6, <2>8 DEF SdkType
<1>6. ASSUME NEW u \in Users,
             \/ \E channels \in 1 .. 2 : audioFrameReceivedImpl(u, channels)
             \/ \E type \in {"yuv", "h264", "h265"} : videoFrameReceivedImpl(u, type)
      PROVE  SdkType'
  <2>1. UNCHANGED <<mainVars, layoutVars, historyVars, reported, known>>
    BY <1>6 DEF audioFrameReceivedImpl, videoFrameReceivedImpl
  <2> QED
    BY <2>1 DEF mainVars, layoutVars, historyVars, SdkType, Switches
<1> QED
  BY <1>1, <1>2, <1>3, <1>4, <1>5, <1>6 DEF Callbacks

LEMMA SdkTypeSignals ==
  ASSUME SdkType, Signals
  PROVE  SdkType'
<1>1. UNCHANGED <<line, opts, peers, subs, known, reported, auto, accountMode, settled>>
  BY DEF Signals, signal_handler, ServiceSignal, Others, layoutVars, engineVars, historyVars
<1> QED
  BY <1>1 DEF SdkType, Switches

LEMMA TypeStep ==
  ASSUME MainType, SdkType, [Next]_vars
  PROVE  MainType' /\ SdkType'
<1>1. CASE Next
  BY <1>1, MainTypeStep, SdkTypeMain, SdkTypeCallbacks, SdkTypeSignals DEF Next
<1>2. CASE UNCHANGED vars
  <2>1. UNCHANGED <<mainVars, layoutVars, engineVars, historyVars>>
    BY <1>2 DEF vars
  <2>2. MainType'
    BY <2>1 DEF mainVars, MainType
  <2>3. SdkType'
    BY <2>1 DEF mainVars, layoutVars, engineVars, historyVars, SdkType, Switches
  <2> QED
    BY <2>2, <2>3
<1> QED
  BY <1>1, <1>2

(* Every layout, of any number of users, has regions of those users and     *)
(* empty ones.                                                              *)
Of(X, f) == \A i \in DOMAIN f : f[i].uid \in X \union {0}

LEMMA LayoutHasUsers ==
  ASSUME NEW X, NEW users \in Seq(X), NEW mode, NEW max, NEW canvas
  PROVE  Of(X, LayoutOf(mode, users, max, canvas))
<1>1. \A i \in DOMAIN users : users[i] \in X
  BY ElementOfSeq, LenProperties
<1>2. \A x, width, rows, large : Of(X, Column(users, max, x, width, rows, large))
  BY <1>1 DEF Of, Column, setMaxResolutionUid, Region
<1>3. Of(X, adjustVideo17Layout(users, max))
  BY <1>1 DEF Of, adjustVideo17Layout, setMaxResolutionUid, Region, EmptyRegion
<1>4. Of(X, adjustVideo9Layout(users, max))
  BY <1>2, <1>3 DEF adjustVideo9Layout
<1>5. Of(X, adjustVideo7Layout(users, max))
  BY <1>2, <1>4 DEF adjustVideo7Layout
<1>6. Of(X, adjustVideo5Layout(users, max))
  BY <1>2, <1>5 DEF adjustVideo5Layout
<1>7. Of(X, adjustVerticalPresentationLayout(users, max))
  BY <1>3, <1>4, <1>5, <1>6 DEF adjustVerticalPresentationLayout
<1>8. Of(X, adjustDefaultVideoLayout(users, canvas))
  BY <1>1 DEF Of, adjustDefaultVideoLayout, Region
<1>9. Of(X, adjustBestFitVideoLayout(users))
  <2>1. /\ Of(X, adjustBestFitLayout_2(users))
        /\ \A k : Of(X, adjustBestFitLayout_Square(users, k))
        /\ Of(X, adjustBestFitLayout_17(users))
        /\ Of(X, [i \in DOMAIN users |-> EmptyRegion])
    BY <1>1 DEF Of, adjustBestFitLayout_2, adjustBestFitLayout_Square,
         adjustBestFitLayout_17, Region, EmptyRegion
  <2> QED
    BY <2>1 DEF adjustBestFitVideoLayout
<1>10. Of(X, <<>>)
  BY DEF Of
<1> QED
  BY <1>7, <1>8, <1>9, <1>10 DEF LayoutOf

(* What is asked of the service, who was heard of, what is to be shown.     *)
RestType ==
    /\ service \in {"nothing", "startService", "stopService"}
    /\ asked \in {"nothing", "startService", "stopService", "unclear"}
    /\ \A a \in subAccounts : a.kind \in Kinds
    /\ heard \subseteq Users
    /\ Of(Users, shown)

LEMMA LaidOfUsers ==
  ASSUME NEW p \in Seq(Users), NEW s, NEW k, Of(Users, shown), setVideoMixLayout(p, s, k)
  PROVE  Of(Users, shown')
<1>1. SubscribedOf(p, s, k) \in Seq(Users)
  BY SiftType DEF SubscribedOf
<1>2. shown' = shown \/
        shown' = LayoutOf(layoutMode, SubscribedOf(p, s, k), maxResolutionUid(k), Canvas)
  BY DEF setVideoMixLayout
<1> QED
  BY <1>1, <1>2, LayoutHasUsers

LEMMA RestTypeStep ==
  ASSUME SdkType, SdkType', RestType, [Next]_vars
  PROVE  RestType'
<1> USE DEF RestType
<1>1. CASE UNCHANGED <<service, asked, subAccounts, heard, shown>>
  BY <1>1
<1>2. CASE CallStartService \/ CallStopService
  BY <1>2 DEF CallStartService, CallStopService, Others, layoutVars, historyVars
<1>3. CASE SubscribeAccounts
  <2>1. /\ UNCHANGED <<service, asked, heard, shown>>
        /\ subAccounts' \subseteq subAccounts \union SplitString(opts.subscribeVideoUids)
    BY <1>3 DEF SubscribeAccounts, historyVars
  <2>2. \A a \in SplitString(opts.subscribeVideoUids) : a.kind \in Kinds
    BY DEF SdkType, Readable, Legible
  <2> QED
    BY <2>1, <2>2
<1>4. CASE \/ ParseArguments \/ CreateEngine \/ NoEngine \/ JoinFails \/ SubscribeUids
           \/ KeepConfig \/ TestStop \/ ResetStart \/ ResetStop \/ Wake \/ leaveChannel
           \/ release \/ Destroy
  <2>1. UNCHANGED <<service, asked, subAccounts, heard, shown>>
    BY <1>4 DEF ParseArguments, CreateEngine, NoEngine, JoinFails, SubscribeUids,
         KeepConfig, TestStop, ResetStart, ResetStop, Wake, leaveChannel, release, Destroy,
         Others, layoutVars, historyVars
  <2> QED
    BY <1>1, <2>1
<1>5. CASE Signals
  <2>1. /\ UNCHANGED <<service, subAccounts, heard, shown>>
        /\ asked' \in {asked, "unclear", "startService", "stopService"}
    BY <1>5 DEF Signals, signal_handler, ServiceSignal, Others, layoutVars, historyVars
  <2> QED
    BY <2>1
<1>6. CASE onWarningImpl \/ onErrorImpl
  <2>1. UNCHANGED <<service, asked, subAccounts, heard, shown>>
    BY <1>6 DEF onWarningImpl, onErrorImpl, Others, mainVars, layoutVars, historyVars
  <2> QED
    BY <1>1, <2>1
<1>7. ASSUME NEW u \in Users, onUserJoinedImpl(u) PROVE RestType'
  <2>1. UNCHANGED <<service, asked, subAccounts, heard>>
    BY <1>7 DEF onUserJoinedImpl, mainVars
  <2>2. shown' = shown \/ setVideoMixLayout(peers', subs, known)
    BY <1>7, Zenon DEF onUserJoinedImpl
  <2>3. Of(Users, shown')
    BY <2>2, LaidOfUsers DEF SdkType
  <2> QED
    BY <2>1, <2>3
<1>8. ASSUME NEW u \in Users, onUserOfflineImpl(u) PROVE RestType'
  <2>1. /\ UNCHANGED <<service, asked, subAccounts, heard>>
        /\ setVideoMixLayout(peers', subs, known)
    BY <1>8 DEF onUserOfflineImpl, mainVars
  <2>2. Of(Users, shown')
    BY <2>1, LaidOfUsers DEF SdkType
  <2> QED
    BY <2>1, <2>2
<1>9. ASSUME NEW u \in Users, onUserInfoUpdated(u) PROVE RestType'
  <2>1. UNCHANGED <<service, asked, subAccounts>> /\ heard' \subseteq heard \union {u}
    BY <1>9 DEF onUserInfoUpdated, mainVars
  <2>2. shown' = shown \/ setVideoMixLayout(peers, subs', known')
    BY <1>9, Zenon DEF onUserInfoUpdated
  <2>3. Of(Users, shown')
    BY <2>2, LaidOfUsers DEF SdkType
  <2> QED
    BY <2>1, <2>3
<1>10. ASSUME NEW u \in Users,
              \/ \E channels \in 1 .. 2 : audioFrameReceivedImpl(u, channels)
              \/ \E type \in {"yuv", "h264", "h265"} : videoFrameReceivedImpl(u, type)
       PROVE  RestType'
  <2>1. UNCHANGED <<mainVars, layoutVars, historyVars>>
    BY <1>10 DEF audioFrameReceivedImpl, videoFrameReceivedImpl
  <2>2. UNCHANGED <<service, asked, subAccounts, heard, shown>>
    BY <2>1 DEF mainVars, layoutVars, historyVars
  <2> QED
    BY <1>1, <2>2
<1>11. CASE UNCHANGED vars
  <2>1. UNCHANGED <<service, asked, subAccounts, heard, shown>>
    BY <1>11 DEF vars, mainVars, layoutVars, historyVars
  <2> QED
    BY <1>1, <2>1
<1>12. Callbacks => RestType'
  BY <1>6, <1>7, <1>8, <1>9, <1>10 DEF Callbacks
<1> QED
  BY <1>2, <1>3, <1>4, <1>5, <1>11, <1>12 DEF Next, Main, Loop

(* A media file is whole or rotated, and what it holds is told by its name. *)
FileType(f) ==
    /\ f.rotated \in BOOLEAN
    /\ f.format \in IF Len(f.name) = 3 THEN 1 .. 2 ELSE {"yuv", "h264", "h265"}
MediaType ==
    /\ DOMAIN formats \subseteq Users
    /\ \A u \in DOMAIN formats :
         formats[u].channels \in 1 .. 2 /\ formats[u].index \in Nat
    /\ \A f \in files : FileType(f)

LEMMA WriteFrameTypes ==
  ASSUME MediaType, NEW name, NEW format, WriteFrame(name, format),
         format \in IF Len(name) = 3 THEN 1 .. 2 ELSE {"yuv", "h264", "h265"}
  PROVE  \A f \in files' : FileType(f)
<1>1. TRUE \in BOOLEAN /\ FALSE \in BOOLEAN
  OBVIOUS
<1>2. FileType([name |-> name, rotated |-> FALSE, format |-> format])
  BY <1>1 DEF FileType
<1>3. \A g \in files : g.name = name =>
        FileType([name |-> name, rotated |-> TRUE, format |-> g.format])
  BY <1>1 DEF FileType, MediaType
<1>4. \A f \in Rotate(name) : FileType(f)
  BY <1>3 DEF Rotate, MediaType
<1>5. PICK rotated \in {files, Rotate(name)} :
        files' \subseteq rotated \union {[name |-> name, rotated |-> FALSE, format |-> format]}
  BY DEF WriteFrame
<1> QED
  BY <1>2, <1>4, <1>5 DEF MediaType

LEMMA MediaTypeStep ==
  ASSUME MediaType, [Next]_vars
  PROVE  MediaType'
<1>1. CASE UNCHANGED mediaVars
  BY <1>1 DEF mediaVars, MediaType, FileType
<1>2. ASSUME NEW u \in Users, NEW channels \in 1 .. 2, audioFrameReceivedImpl(u, channels)
      PROVE  MediaType'
  <2> DEFINE index == IF u \notin DOMAIN formats THEN 1
                      ELSE IF formats[u].channels = channels THEN formats[u].index
                      ELSE formats[u].index + 1
             name == <<u, opts.getAudioFrame, index>>
  <2>1. /\ formats' = [v \in DOMAIN formats \union {u} |->
               IF v = u THEN [channels |-> channels, index |-> index] ELSE formats[v]]
        /\ WriteFrame(name, channels)
    BY <1>2 DEF audioFrameReceivedImpl
  <2>2. index \in Nat
    <3>1. u \in DOMAIN formats => formats[u].index \in Nat
      BY DEF MediaType
    <3> QED
      BY <3>1
  <2>3. Len(name) = 3
    OBVIOUS
  <2> HIDE DEF name, index
  <2>4. \A f \in files' : FileType(f)
    BY <2>1, <2>3, WriteFrameTypes
  <2>5. \A v \in DOMAIN formats' :
          v \in Users /\ formats'[v].channels \in 1 .. 2 /\ formats'[v].index \in Nat
    BY <2>1, <2>2 DEF MediaType
  <2> QED
    BY <2>4, <2>5 DEF MediaType, FileType
<1>3. ASSUME NEW u \in Users, NEW type \in {"yuv", "h264", "h265"},
             videoFrameReceivedImpl(u, type)
      PROVE  MediaType'
  <2> DEFINE name == <<u, type>>
  <2>1. UNCHANGED formats /\ WriteFrame(name, type)
    BY <1>3 DEF videoFrameReceivedImpl
  <2>2. Len(name) # 3
    OBVIOUS
  <2> HIDE DEF name
  <2>3. \A f \in files' : FileType(f)
    BY <2>1, <2>2, WriteFrameTypes
  <2> QED
    BY <2>1, <2>3 DEF MediaType, FileType
<1>4. CASE ~ \E u \in Users :
               \/ \E channels \in 1 .. 2 : audioFrameReceivedImpl(u, channels)
               \/ \E type \in {"yuv", "h264", "h265"} : videoFrameReceivedImpl(u, type)
  <2>1. UNCHANGED mediaVars
    BY <1>4, MediaKept
  <2> QED
    BY <1>1, <2>1
<1> QED
  BY <1>2, <1>3, <1>4

(* Every variable of the sample keeps its type, and every option of main    *)
(* the one parse_opts was given for it: no uid in the list of subscribed    *)
(* ones passes 32 bits, whatever the command line says, and no region is of *)
(* somebody who is no user of the channel.                                  *)
THEOREM TypeCorrect == Spec => []TypeOK
<1>1. Init => MainType /\ SdkType /\ RestType /\ MediaType
  <2>1. Init => RestType
    BY DEF Init, RestType, Of
  <2>2. Init => MediaType
    BY DEF Init, MediaType
  <2> QED
    BY <2>1, <2>2, TypeInit
<1>2. MainType /\ SdkType /\ RestType /\ MediaType /\ [Next]_vars
        => MainType' /\ SdkType' /\ RestType' /\ MediaType'
  BY TypeStep, RestTypeStep, MediaTypeStep
<1>3. MainType /\ SdkType /\ RestType /\ MediaType => TypeOK
  BY DEF MainType, SdkType, RestType, MediaType, FileType, Switches, Words, Flags, Of,
       Readable, Names, TypeOK
<1> QED
  BY <1>1, <1>2, <1>3, PTL DEF Spec

-----------------------------------------------------------------------------
(* Options *)

(* What the loop knows of a well-written line after n words: the options    *)
(* whose text it has read, and the one that waits for its text.             *)
Waits(n) == n > 0 /\ line[n].name # None /\ line[n].text = None
Given(n) == {i \in 1 .. n : line[i].name # None /\ (line[i].text # None \/ i < n)}
Fits(i)  == /\ line[i].name \in DOMAIN Options
            /\ Accepts(Options[line[i].name], Written(i))
IsLast(i, o, n) == /\ i \in Given(n) /\ line[i].name = o
                   /\ \A j \in Given(n) : line[j].name = o => j <= i
Latest(v, o, n) ==
    \/ v[o] = Defaults[o] /\ \A i \in Given(n) : line[i].name # o
    \/ \E i \in Given(n) : IsLast(i, o, n) /\ v[o] = Convert(Options[o], Written(i))
Understood(s, n) ==
    IF s.refused
      THEN \E i \in 1 .. Len(line) : line[i].name # None /\ ~ Fits(i)
      ELSE /\ ~ s.left
           /\ \A i \in Given(n) : Fits(i)
           /\ s.pending = IF Waits(n) THEN line[n].name ELSE None
           /\ Waits(n) => line[n].name \in Names
           /\ \A o \in Names : Latest(s.values, o, n)

LEMMA GivenNext ==
  ASSUME NEW n \in 1 .. Len(line), Len(line) \in Nat
  PROVE  Given(n) = Given(n - 1)
                      \union (IF Waits(n - 1) THEN {n - 1} ELSE {})
                      \union (IF line[n].name # None /\ line[n].text # None
                                THEN {n} ELSE {})
  BY DEF Given, Waits

(* One more text was read, behind all the others. *)
LEMMA LatestStored ==
  ASSUME Len(line) \in Nat, NEW n \in 1 .. Len(line), NEW i \in 1 .. n,
         line[i].name \in Names, i \notin Given(n - 1),
         \A j \in Given(n - 1) : j < i,
         Given(n) = Given(n - 1) \union {i},
         NEW v, DOMAIN v = Names,
         \A o \in Names : Latest(v, o, n - 1),
         NEW after,
         after = [v EXCEPT ![line[i].name] = Convert(Options[line[i].name], Written(i))]
  PROVE  \A o \in Names : Latest(after, o, n)
<1> SUFFICES ASSUME NEW o \in Names PROVE Latest(after, o, n)
  OBVIOUS
<1>1. CASE o = line[i].name
  <2>1. after[o] = Convert(Options[o], Written(i))
    BY <1>1
  <2>2. IsLast(i, o, n)
    <3>1. \A j \in Given(n) : j \in Int /\ j <= i
      BY DEF Given
    <3> QED
      BY <1>1, <3>1 DEF IsLast
  <2>3. i \in Given(n)
    OBVIOUS
  <2> QED
    BY <2>1, <2>2, <2>3 DEF Latest
<1>2. CASE o # line[i].name
  <2>1. after[o] = v[o]
    BY <1>2
  <2>2. Latest(v, o, n - 1)
    OBVIOUS
  <2>3. CASE v[o] = Defaults[o] /\ \A k \in Given(n - 1) : line[k].name # o
    BY <1>2, <2>1, <2>3 DEF Latest
  <2>4. CASE \E k \in Given(n - 1) :
               IsLast(k, o, n - 1) /\ v[o] = Convert(Options[o], Written(k))
    <3>1. PICK k \in Given(n - 1) :
            IsLast(k, o, n - 1) /\ v[o] = Convert(Options[o], Written(k))
      BY <2>4
    <3>2. IsLast(k, o, n)
      BY <1>2, <3>1 DEF IsLast
    <3> QED
      BY <2>1, <3>1, <3>2 DEF Latest
  <2> QED
    BY <2>2, <2>3, <2>4 DEF Latest
<1> QED
  BY <1>1, <1>2

LEMMA UnderstoodNext ==
  ASSUME line \in CommandLines, WellWritten, NEW n \in 1 .. Len(line),
         NEW s \in States(line), Understood(s, n - 1)
  PROVE  Understood(Take(Options, s, line[n]), n)
<1> DEFINE N == Len(line)
           w == line[n]
           after == Take(Options, s, w)
<1>1. N \in Nat /\ DOMAIN line = 1 .. N
  BY CommandLinesAssumption
<1>2. CASE s.refused
  <2>1. after = s
    BY <1>2 DEF Take
  <2> QED
    BY <1>2, <2>1 DEF Understood
<1>3. CASE ~ s.refused /\ Waits(n - 1)
  <2> DEFINE o == line[n - 1].name
  <2>1. n - 1 \in 1 .. N /\ (n - 1) + 1 = n /\ o # None /\ line[n - 1].text = None
    BY <1>1, <1>3 DEF Waits
  <2>2. w.name = None
    BY <1>1, <2>1 DEF WellWritten
  <2>3. o \in Names /\ s.pending = o
    BY <1>3 DEF Understood
  <2>4. Written(n - 1) = w.text /\ AsText(w) = w.text
    BY <2>1, <2>2 DEF Written, AsText
  <2>5. after = Fill(Options, s, o, w.text)
    BY <1>3, <2>1, <2>3, <2>4 DEF Take
  <2>6. CASE ~ Accepts(Options[o], w.text)
    <3>1. after = [s EXCEPT !.refused = TRUE]
      BY <2>5, <2>6, FillCases
    <3>2. after.refused
      BY <3>1 DEF States
    <3>3. ~ Fits(n - 1)
      BY <2>4, <2>6 DEF Fits
    <3> QED
      BY <2>1, <3>2, <3>3 DEF Understood
  <2>7. CASE Accepts(Options[o], w.text)
    <3>1. after = Stored(s, o, w.text)
      BY <2>5, <2>7, FillCases
    <3>2. /\ after.values = [s.values EXCEPT ![o] = Convert(Options[o], w.text)]
          /\ after.pending = None /\ ~ after.refused /\ ~ after.left
      <4>1. w.text \in TextsOf(w)
        BY DEF TextsOf
      <4>2. ~ s.refused /\ ~ s.left
        BY <1>3 DEF Understood
      <4> QED
        BY <2>3, <3>1, <4>1, <4>2, StoredIsState
    <3>3. Given(n) = Given(n - 1) \union {n - 1}
      BY <1>1, <1>3, <2>2, GivenNext
    <3>4. ~ Waits(n)
      BY <2>2 DEF Waits
    <3>5. Fits(n - 1)
      BY <2>3, <2>4, <2>7 DEF Fits, Names
    <3>6. n - 1 \notin Given(n - 1) /\ \A j \in Given(n - 1) : j < n - 1
      BY <1>1, <2>1 DEF Given
    <3>7. \A q \in Names : Latest(after.values, q, n)
      <4>1. DOMAIN s.values = Names /\ \A q \in Names : Latest(s.values, q, n - 1)
        BY <1>3 DEF Understood, States
      <4>2. after.values = [s.values EXCEPT ![o] = Convert(Options[o], Written(n - 1))]
        BY <2>4, <3>2
      <4>3. n - 1 \in 1 .. n
        BY <1>1, <2>1
      <4> HIDE DEF after
      <4> QED
        BY <1>1, <2>3, <3>3, <3>6, <4>1, <4>2, <4>3, LatestStored
    <3>8. \A i \in Given(n) : Fits(i)
      BY <1>3, <3>3, <3>5 DEF Understood
    <3> QED
      BY <3>2, <3>4, <3>7, <3>8 DEF Understood
  <2> QED
    BY <2>6, <2>7
<1>4. CASE ~ s.refused /\ ~ Waits(n - 1)
  <2>1. s.pending = None /\ ~ s.left
    BY <1>4 DEF Understood
  <2>2. w.name # None
    <3>1. w.name = None => n > 1 /\ line[n - 1].name # None /\ line[n - 1].text = None
      BY <1>1 DEF WellWritten
    <3> QED
      BY <1>1, <1>4, <3>1 DEF Waits
  <2>3. CASE w.name \notin Names
    <3>1. after = [s EXCEPT !.refused = TRUE]
      BY <1>4, <2>1, <2>2, <2>3 DEF Take, Names
    <3>2. after.refused
      BY <3>1 DEF States
    <3>3. ~ Fits(n)
      BY <2>3 DEF Fits, Names
    <3> QED
      BY <2>2, <3>2, <3>3 DEF Understood
  <2>4. CASE w.name \in Names /\ w.text = None
    <3>1. after = [s EXCEPT !.pending = w.name]
      BY <1>4, <2>1, <2>2, <2>4 DEF Take, Names
    <3>2. /\ after.values = s.values /\ after.pending = w.name
          /\ ~ after.refused /\ ~ after.left
      BY <1>4, <2>1, <3>1 DEF States
    <3>3. Given(n) = Given(n - 1)
      BY <1>1, <1>4, <2>4, GivenNext
    <3>4. Waits(n)
      BY <1>1, <2>2, <2>4 DEF Waits
    <3>5. \A o \in Names : Latest(after.values, o, n)
      BY <1>4, <3>2, <3>3 DEF Understood, Latest, IsLast
    <3> QED
      BY <1>4, <2>4, <3>2, <3>3, <3>4, <3>5 DEF Understood
  <2>5. CASE w.name \in Names /\ w.text # None
    <3>1. after = Fill(Options, s, w.name, w.text)
      BY <1>4, <2>1, <2>2, <2>5 DEF Take, Names
    <3>2. Written(n) = w.text
      BY <2>5 DEF Written
    <3>3. CASE ~ Accepts(Options[w.name], w.text)
      <4>1. after = [s EXCEPT !.refused = TRUE]
        BY <3>1, <3>3, FillCases
      <4>2. after.refused
        BY <4>1 DEF States
      <4>3. ~ Fits(n)
        BY <3>2, <3>3 DEF Fits
      <4> QED
        BY <2>2, <4>2, <4>3 DEF Understood
    <3>4. CASE Accepts(Options[w.name], w.text)
      <4>1. after = Stored(s, w.name, w.text)
        BY <3>1, <3>4, FillCases
      <4>2. /\ after.values = [s.values EXCEPT ![w.name] =
                                 Convert(Options[w.name], w.text)]
            /\ after.pending = None /\ ~ after.refused /\ ~ after.left
        <5>1. w.text \in TextsOf(w)
          BY DEF TextsOf
        <5> QED
          BY <1>4, <2>1, <2>5, <4>1, <5>1, StoredIsState
      <4>3. Given(n) = Given(n - 1) \union {n}
        BY <1>1, <1>4, <2>2, <2>5, GivenNext
      <4>4. ~ Waits(n)
        BY <2>5 DEF Waits
      <4>5. Fits(n)
        BY <2>5, <3>2, <3>4 DEF Fits, Names
      <4>6. n \notin Given(n - 1) /\ \A j \in Given(n - 1) : j < n
        BY <1>1 DEF Given
      <4>7. \A q \in Names : Latest(after.values, q, n)
        <5>1. DOMAIN s.values = Names /\ \A q \in Names : Latest(s.values, q, n - 1)
          BY <1>4 DEF Understood, States
        <5>2. after.values = [s.values EXCEPT ![line[n].name] =
                                Convert(Options[line[n].name], Written(n))]
          BY <3>2, <4>2
        <5>3. n \in 1 .. n
          BY <1>1
        <5> HIDE DEF after
        <5> QED
          BY <1>1, <2>5, <4>3, <4>6, <5>1, <5>2, <5>3, LatestStored
      <4>8. \A i \in Given(n) : Fits(i)
        BY <1>4, <4>3, <4>5 DEF Understood
      <4> QED
        BY <4>2, <4>4, <4>7, <4>8 DEF Understood
    <3> QED
      BY <3>3, <3>4
  <2> QED
    BY <2>3, <2>4, <2>5
<1> QED
  BY <1>2, <1>3, <1>4

LEMMA ParsedAsWritten ==
  ASSUME line \in CommandLines, WellWritten
  PROVE  Understood(Fed(line)[Len(line)], Len(line))
<1> DEFINE N == Len(line)
           F == Fed(line)
           T == {n \in 0 .. N : Understood(F[n], n)}
<1>1. N \in Nat
  BY CommandLinesAssumption
<1>2. /\ F \in [0 .. N -> States(line)] /\ F[0] = Fresh
      /\ \A n \in 1 .. N : F[n] = Take(Options, F[n - 1], line[n])
  BY <1>1, FedRuns
<1> HIDE DEF F
<1>3. 0 \in T
  <2>1. /\ ~ F[0].refused /\ ~ F[0].left /\ F[0].pending = None
        /\ F[0].values = Defaults
    BY <1>2 DEF Fresh
  <2>2. Given(0) = {} /\ ~ Waits(0)
    BY DEF Given, Waits
  <2>3. \A o \in Names : Latest(Defaults, o, 0)
    BY <2>2 DEF Latest
  <2> QED
    BY <1>1, <2>1, <2>2, <2>3 DEF Understood
<1>4. ASSUME NEW n \in 1 .. N, n - 1 \in T PROVE n \in T
  <2>1. F[n - 1] \in States(line) /\ Understood(F[n - 1], n - 1)
    BY <1>1, <1>2, <1>4
  <2>2. Understood(Take(Options, F[n - 1], line[n]), n)
    BY <2>1, UnderstoodNext
  <2> QED
    BY <1>1, <1>2, <2>2
<1>5. N \in T
  <2> HIDE DEF T, N
  <2> QED
    BY <1>1, <1>3, <1>4, InductionUpTo
<1> QED
  BY <1>5 DEF F

(* Once main has parsed its line, its options are what parse_opts made of   *)
(* it, and it goes on to an engine exactly if neither refused it.           *)
Parsed    == parse_opts(Options, Defaults, line)
Accepted  == Parsed.ok /\ Usable(Parsed.values)
ParsedInv ==
    /\ pc \notin {"start", "killed"} => opts = Parsed.values
    /\ pc = "create" \/ engine # "none" => Accepted
    /\ pc = "exited" /\ engine = "none" => ~ Accepted

LEMMA ParsedInit == Init => ParsedInv
  BY DEF Init, ParsedInv

LEMMA ParsedStep ==
  ASSUME ParsedInv, ReleaseInv, [Next]_vars
  PROVE  ParsedInv'
<1>1. CASE ParseArguments
  <2>1. /\ opts' = Parsed.values /\ pc' = IF Accepted THEN "create" ELSE "exited"
        /\ line' = line /\ engine' = engine /\ pc = "start"
    BY <1>1, Zenon DEF ParseArguments, Parsed, Accepted
  <2>2. Accepted' = Accepted /\ Parsed' = Parsed
    BY <2>1 DEF Accepted, Parsed
  <2>3. engine' = "none"
    BY <2>1 DEF ReleaseInv, Before
  <2>4. Accepted \in BOOLEAN
    BY DEF Accepted
  <2> QED
    BY <2>1, <2>2, <2>3, <2>4 DEF ParsedInv
<1>2. CASE /\ line' = line /\ opts' = opts
           /\ pc' = pc \/ pc' = "killed" \/ pc \notin {"start", "killed"}
           /\ pc' = "create" => pc = "create"
           /\ engine' # "none" => engine # "none" \/ pc = "create"
           /\ pc' = "exited" => engine' # "none" \/ (pc = "exited" /\ engine' = engine)
  <2>1. (Accepted' <=> Accepted) /\ Parsed' = Parsed
    BY <1>2 DEF Accepted, Parsed
  <2> QED
    BY <1>2, <2>1 DEF ParsedInv
<1>3. CASE \/ CreateEngine \/ NoEngine \/ JoinFails \/ SubscribeUids \/ SubscribeAccounts
           \/ KeepConfig \/ Loop
  <2>1. /\ line' = line /\ opts' = opts /\ pc \notin {"start", "killed"}
        /\ pc' \notin {"create", "exited"}
        /\ engine' # engine => pc = "create"
    BY <1>3 DEF CreateEngine, NoEngine, JoinFails, SubscribeUids, SubscribeAccounts,
         KeepConfig, Loop, TestStop, CallStartService, ResetStart, CallStopService,
         ResetStop, Wake
  <2> QED
    BY <1>2, <2>1
<1>4. CASE leaveChannel \/ release \/ Destroy
  <2>1. /\ line' = line /\ opts' = opts /\ pc \in {"leave", "release", "return"}
        /\ pc' # "create" /\ engine' \in {engine, "left", "released"}
    BY <1>4 DEF leaveChannel, release, Destroy
  <2>2. engine # "none" /\ engine' # "none"
    BY <2>1 DEF ReleaseInv, Held, Freed
  <2> QED
    BY <1>2, <2>1, <2>2
<1>5. CASE Signals
  <2>1. line' = line /\ opts' = opts /\ engine' = engine /\ (pc' = pc \/ pc' = "killed")
    BY <1>5 DEF Signals, signal_handler, ServiceSignal
  <2> QED
    BY <1>2, <2>1
<1>6. CASE Callbacks
  <2>1. UNCHANGED <<line, opts, pc, engine>>
    <3>1. CASE onWarningImpl \/ onErrorImpl
      BY <3>1 DEF onWarningImpl, onErrorImpl, mainVars
    <3>2. ASSUME NEW u \in Users,
                 \/ onUserJoinedImpl(u) \/ onUserOfflineImpl(u) \/ onUserInfoUpdated(u)
                 \/ \E channels \in 1 .. 2 : audioFrameReceivedImpl(u, channels)
                 \/ \E type \in {"yuv", "h264", "h265"} : videoFrameReceivedImpl(u, type)
          PROVE  UNCHANGED mainVars
      BY <3>2 DEF onUserJoinedImpl, onUserOfflineImpl, onUserInfoUpdated,
           audioFrameReceivedImpl, videoFrameReceivedImpl
    <3>3. UNCHANGED mainVars => UNCHANGED <<line, opts, pc, engine>>
      BY DEF mainVars
    <3> QED
      BY <1>6, <3>1, <3>2, <3>3 DEF Callbacks
  <2> QED
    BY <1>2, <2>1
<1>7. CASE UNCHANGED vars
  <2>1. UNCHANGED <<line, opts, pc, engine>>
    BY <1>7 DEF vars, mainVars
  <2> QED
    BY <1>2, <2>1
<1> QED
  BY <1>1, <1>3, <1>4, <1>5, <1>6, <1>7 DEF Next, Main

(* The options main runs with are those its line asks for. *)
LEMMA OptionsFollow == ParsedInv /\ SdkType => OptionsAsWritten
<1> SUFFICES ASSUME ParsedInv, SdkType, pc \in {"create", "exited"}, WellWritten
             PROVE  LET named == {i \in DOMAIN line : line[i].name # None}
                        fits  == \A i \in named : Fits(i)
                        At(o) == {i \in named : line[i].name = o}
                        LastOf(o) == CHOOSE i \in At(o) : \A j \in At(o) : j <= i
                    IN  /\ (pc = "create" \/ engine # "none") <=> (fits /\ Usable(opts))
                        /\ fits => \A o \in DOMAIN Options :
                             opts[o] = IF At(o) = {} THEN Defaults[o]
                                       ELSE Convert(Options[o], Written(LastOf(o)))
  BY DEF OptionsAsWritten, Fits
<1> DEFINE N == Len(line)
           s == Fed(line)[N]
           named == {i \in DOMAIN line : line[i].name # None}
           At(o) == {i \in named : line[i].name = o}
           LastOf(o) == CHOOSE i \in At(o) : \A j \in At(o) : j <= i
<1>1. line \in CommandLines /\ N \in Nat /\ DOMAIN line = 1 .. N
  BY CommandLinesAssumption DEF SdkType
<1>2. Understood(s, N)
  BY <1>1, ParsedAsWritten
<1>3. /\ opts = s.values
      /\ Parsed.ok <=> ~ s.refused /\ ~ s.left /\ s.pending = None
  BY ParseIsFed DEF ParsedInv, Parsed
<1> HIDE DEF s
<1>4. ~ Waits(N)
  BY <1>1 DEF WellWritten, Waits
<1>5. Parsed.ok <=> ~ s.refused
  BY <1>2, <1>3, <1>4 DEF Understood
<1>6. (pc = "create" \/ engine # "none") <=> ~ s.refused /\ Usable(opts)
  <2>1. opts = Parsed.values
    BY DEF ParsedInv
  <2>2. (pc = "create" \/ engine # "none") <=> Accepted
    BY DEF ParsedInv
  <2> QED
    BY <1>5, <2>1, <2>2, Zenon DEF Accepted
<1>7. Given(N) = named
  BY <1>1, <1>4 DEF Given, Waits
<1>8. s.refused => \E i \in named : ~ Fits(i)
  BY <1>1, <1>2 DEF Understood
<1>9. ~ s.refused => \A i \in named : Fits(i)
  BY <1>2, <1>7 DEF Understood
<1>10. ASSUME ~ s.refused, NEW o \in DOMAIN Options
      PROVE  opts[o] = IF At(o) = {} THEN Defaults[o]
                       ELSE Convert(Options[o], Written(LastOf(o)))
  <2>1. Latest(s.values, o, N)
    BY <1>2, <1>10 DEF Understood, Names
  <2>2. CASE s.values[o] = Defaults[o] /\ \A i \in Given(N) : line[i].name # o
    BY <1>3, <1>7, <2>2
  <2>3. CASE \E i \in Given(N) :
               IsLast(i, o, N) /\ s.values[o] = Convert(Options[o], Written(i))
    <3>1. PICK i \in Given(N) :
            IsLast(i, o, N) /\ s.values[o] = Convert(Options[o], Written(i))
      BY <2>3
    <3>2. i \in At(o) /\ \A j \in At(o) : j <= i
      BY <1>7, <3>1 DEF IsLast
    <3>3. LastOf(o) \in At(o) /\ \A j \in At(o) : j <= LastOf(o)
      BY <3>2
    <3>4. LastOf(o) = i
      <4>1. At(o) \subseteq Int
        BY <1>1
      <4> HIDE DEF LastOf, At
      <4> QED
        BY <3>2, <3>3, <4>1
    <3> HIDE DEF LastOf
    <3> QED
      BY <1>3, <3>1, <3>2, <3>4
  <2> QED
    BY <2>1, <2>2, <2>3 DEF Latest
<1>11. CASE s.refused
  <2>1. ~ \A i \in named : Fits(i)
    BY <1>8, <1>11
  <2>2. ~ (pc = "create" \/ engine # "none")
    BY <1>11, <1>6
  <2> QED
    BY <2>1, <2>2
<1>12. CASE ~ s.refused
  BY <1>9, <1>10, <1>12, <1>6, Zenon
<1> QED
  BY <1>11, <1>12

(* A line that is written as the usage says is accepted exactly when every  *)
(* option is known, every text fits and main has nothing against the values *)
(* - it is then that main makes an engine or tries to - and each option of  *)
(* main is what was written last for it: for lines of any length.  [the     *)
(* loop of parse_opts with fill_arg, and the checks of main]                *)
THEOREM OptionsAreAsWritten == Spec => []OptionsAsWritten
<1>1. Init => MainType /\ SdkType /\ ReleaseInv /\ ParsedInv
  BY TypeInit, ReleaseInit, ParsedInit
<1>2. MainType /\ SdkType /\ ReleaseInv /\ ParsedInv /\ [Next]_vars
        => MainType' /\ SdkType' /\ ReleaseInv' /\ ParsedInv'
  BY TypeStep, ReleaseStep, ParsedStep
<1> QED
  BY <1>1, <1>2, OptionsFollow, PTL DEF Spec

-----------------------------------------------------------------------------
(* The canvas *)

(* Every layout gives each of up to sixteen users the region at his place.  *)
LEMMA LayoutKeepsUsers ==
  ASSUME NEW X, NEW users \in Seq(X), Len(users) <= 16, NEW mode, NEW max, NEW canvas
  PROVE  /\ DOMAIN LayoutOf(mode, users, max, canvas) = 1 .. Len(users)
         /\ \A i \in 1 .. Len(users) :
              LayoutOf(mode, users, max, canvas)[i].uid = users[i]
         /\ Len(LayoutOf(mode, users, max, canvas)) = Len(users)
<1> DEFINE n == Len(users)
           layout == LayoutOf(mode, users, max, canvas)
           Fits16(f) == /\ f = [i \in 1 .. n |-> f[i]] /\ DOMAIN f = 1 .. n
                        /\ \A i \in 1 .. n : f[i].uid = users[i]
<1>1. n \in 0 .. 16 /\ DOMAIN users = 1 .. n
  <2>1. n \in Nat /\ DOMAIN users = 1 .. n
    BY LenProperties
  <2>2. n <= 16
    OBVIOUS
  <2> HIDE DEF n
  <2> QED
    BY <2>1, <2>2
<1>2. \A x, width, rows, large : Fits16(Column(users, max, x, width, rows, large))
  BY <1>1 DEF Column, setMaxResolutionUid, Region
<1>3. Fits16(adjustVideo17Layout(users, max))
  <2>1. \A i \in 1 .. n : ~ (i > 16)
    BY <1>1
  <2> QED
    BY <1>1, <2>1 DEF adjustVideo17Layout, setMaxResolutionUid, Region
<1>4. Fits16(adjustVideo9Layout(users, max))
  BY <1>2, <1>3 DEF adjustVideo9Layout
<1>5. Fits16(adjustVideo7Layout(users, max))
  BY <1>2, <1>4 DEF adjustVideo7Layout
<1>6. Fits16(adjustVideo5Layout(users, max))
  BY <1>2, <1>5 DEF adjustVideo5Layout
<1>7. Fits16(adjustVerticalPresentationLayout(users, max))
  <2>1. n <= 5 \/ n \in 6 .. 7 \/ n \in 8 .. 9 \/ n > 9
    <3> HIDE DEF n
    <3> QED
      BY <1>1
  <2> HIDE DEF Fits16
  <2> QED
    BY <1>1, <1>3, <1>4, <1>5, <1>6 DEF adjustVerticalPresentationLayout
<1>8. Fits16(adjustDefaultVideoLayout(users, canvas))
  BY <1>1 DEF adjustDefaultVideoLayout, Region
<1>9. n # 0 => Fits16(adjustBestFitVideoLayout(users))
  <2>1. /\ Fits16(adjustBestFitLayout_2(users))
        /\ \A k : Fits16(adjustBestFitLayout_Square(users, k))
    BY <1>1 DEF adjustBestFitLayout_2, adjustBestFitLayout_Square, Region
  <2>2. /\ n = 1 => adjustBestFitVideoLayout(users) = adjustBestFitLayout_Square(users, 1)
        /\ n = 2 => adjustBestFitVideoLayout(users) = adjustBestFitLayout_2(users)
        /\ n \in 3 .. 4 =>
             adjustBestFitVideoLayout(users) = adjustBestFitLayout_Square(users, 2)
        /\ n \in 5 .. 9 =>
             adjustBestFitVideoLayout(users) = adjustBestFitLayout_Square(users, 3)
        /\ n \in 10 .. 16 =>
             adjustBestFitVideoLayout(users) = adjustBestFitLayout_Square(users, 4)
    <3>1. adjustBestFitVideoLayout(users) =
            CASE n = 1 -> adjustBestFitLayout_Square(users, 1)
              [] n = 2 -> adjustBestFitLayout_2(users)
              [] n \in 3 .. 4 -> adjustBestFitLayout_Square(users, 2)
              [] n \in 5 .. 9 -> adjustBestFitLayout_Square(users, 3)
              [] n \in 10 .. 16 -> adjustBestFitLayout_Square(users, 4)
              [] n = 17 -> adjustBestFitLayout_17(users)
              [] OTHER -> [i \in DOMAIN users |-> EmptyRegion]
      BY Zenon DEF adjustBestFitVideoLayout
    <3> HIDE DEF n
    <3> QED
      BY <1>1, <3>1
  <2>3. n # 0 => n = 1 \/ n = 2 \/ n \in 3 .. 4 \/ n \in 5 .. 9 \/ n \in 10 .. 16
    <3> HIDE DEF n
    <3> QED
      BY <1>1
  <2> HIDE DEF Fits16, n
  <2> QED
    BY <2>1, <2>2, <2>3
<1>10. Fits16(layout)
  <2>1. CASE users = <<>>
    BY <1>1, <2>1 DEF LayoutOf
  <2>2. CASE users # <<>>
    <3>1. n # 0
      BY <2>2, EmptySeq
    <3> HIDE DEF Fits16
    <3> QED
      BY <2>2, <3>1, <1>7, <1>8, <1>9 DEF LayoutOf
  <2> QED
    BY <2>1, <2>2
<1> HIDE DEF layout
<1>11. Len(layout) = n
  <2> DEFINE Y == {layout[i] : i \in 1 .. n}
  <2>1. layout = [i \in 1 .. n |-> layout[i]]
    BY <1>10
  <2>2. layout \in Seq(Y)
    BY <1>1, <2>1
  <2> QED
    BY <1>1, <1>10, <2>2, LenProperties
<1> QED
  BY <1>10, <1>11 DEF layout

(* The peers are the reported, each once, and between the join and the      *)
(* leave there is an engine to show them to.                                *)
PeersInv ==
    /\ Distinct(peers) /\ ToSet(peers) = reported
    /\ engine = "live" => pointer
    /\ pc \in {"start", "create"} => engine = "none"

(* What main has told AgoraSdk is what its options say, from the moment on  *)
(* that a layout counts; before, nobody is subscribed to.                   *)
SubscribedBy(s, h) ==
    opts.autoSubscribe \/
      \A u \in Users :
        u \in s <=> IF ByAccount(opts)
                      THEN u \in h /\ AccountOf[u] \in SplitString(opts.subscribeVideoUids)
                      ELSE Number(u) \in SplitString(opts.subscribeVideoUids)
AccountsKept ==
    ByAccount(opts) /\ ~ opts.autoSubscribe =>
        subAccounts = SplitString(opts.subscribeVideoUids)
ConfigInv ==
    /\ settled \/ Configured =>
         /\ auto <=> opts.autoSubscribe
         /\ accountMode <=> ByAccount(opts)
    /\ settled \/ Configured \/ pc = "keep" => SubscribedBy(subs, heard) /\ AccountsKept
    /\ pc \in {"start", "create", "joining", "keep"} => ~ settled
    /\ pc \in {"start", "create", "joining"} => subs = {} /\ subAccounts = {} /\ heard = {}

CanvasInv == PeersInv /\ ConfigInv /\ CanvasShowsTheWanted

LEMMA CanvasInit == Init => CanvasInv
<1> SUFFICES ASSUME Init PROVE CanvasInv
  OBVIOUS
<1>1. Distinct(<<>>) /\ ToSet(<<>>) = {}
  BY DEF Distinct, ToSet
<1>2. PeersInv
  BY <1>1 DEF Init, PeersInv
<1>3. ConfigInv
  BY DEF Init, ConfigInv, Configured
<1>4. CanvasShowsTheWanted
  BY DEF Init, CanvasShowsTheWanted
<1> QED
  BY <1>2, <1>3, <1>4 DEF CanvasInv

(* Nothing the invariant speaks of changes, but where main is. *)
LEMMA CanvasStays ==
  ASSUME CanvasInv,
         UNCHANGED <<opts, peers, reported, subs, subAccounts, auto, accountMode, shown,
                     known, heard, settled>>,
         engine' = "live" => pointer',
         pc' \in {"start", "create"} => engine' = "none",
         Configured' => Configured \/ settled,
         pc' = "keep" => pc = "keep",
         pc' \in {"start", "create", "joining"} => pc \in {"start", "create", "joining"}
  PROVE  CanvasInv'
<1>1. PeersInv'
  BY DEF CanvasInv, PeersInv
<1>2. /\ SubscribedBy(subs, heard)' <=> SubscribedBy(subs, heard)
      /\ AccountsKept' <=> AccountsKept
  BY DEF SubscribedBy, AccountsKept
<1>3. ConfigInv'
  BY <1>2 DEF CanvasInv, ConfigInv
<1>4. CanvasShowsTheWanted'
  BY DEF CanvasInv, CanvasShowsTheWanted, Wanted
<1> QED
  BY <1>1, <1>3, <1>4 DEF CanvasInv

LEMMA CanvasMain ==
  ASSUME UidsAreNames, CanvasInv, SdkType, ParsedInv, Main
  PROVE  CanvasInv'
<1>1. CASE ParseArguments
  <2>1. /\ UNCHANGED <<engine, pointer, peers, reported, subs, subAccounts, heard, settled>>
        /\ pc = "start" /\ pc' \in {"create", "exited"}
    BY <1>1 DEF ParseArguments, Others, layoutVars, engineVars, historyVars
  <2>2. ~ settled' /\ ~ Configured' /\ pc' # "keep"
    BY <2>1 DEF CanvasInv, ConfigInv, Configured
  <2>3. PeersInv'
    BY <2>1 DEF CanvasInv, PeersInv
  <2>4. ConfigInv'
    BY <2>1, <2>2 DEF CanvasInv, ConfigInv
  <2> QED
    BY <2>2, <2>3, <2>4 DEF CanvasInv, CanvasShowsTheWanted
<1>2. CASE SubscribeUids \/ SubscribeAccounts
  <2>1. /\ UNCHANGED <<line, opts, engine, pointer, peers, reported, heard, settled>>
        /\ pc = "joining" /\ pc' = "keep"
    BY <1>2 DEF SubscribeUids, SubscribeAccounts, engineVars, historyVars
  <2>2. ~ settled' /\ ~ Configured' /\ subs = {} /\ heard = {}
    BY <2>1 DEF CanvasInv, ConfigInv, Configured
  <2>3. ASSUME opts.autoSubscribe PROVE SubscribedBy(subs, heard)' /\ AccountsKept'
    BY <2>1, <2>3 DEF SubscribedBy, AccountsKept
  <2>4. ASSUME ~ opts.autoSubscribe, SubscribeUids PROVE SubscribedBy(subs, heard)' /\ AccountsKept'
    <3>1. subs' = {stringToUint(t) : t \in SplitString(opts.subscribeVideoUids)}
      BY <2>2, <2>4 DEF SubscribeUids
    <3>2. \A u \in Users : \A t \in SplitString(opts.subscribeVideoUids) :
            stringToUint(t) = u <=> t = Number(u)
      BY <2>1 DEF UidsAreNames, SdkType, ParsedInv, Parsed
    <3>3. \A u \in Users : u \in subs' <=> Number(u) \in SplitString(opts.subscribeVideoUids)
      BY <3>1, <3>2
    <3>4. ~ ByAccount(opts)
      BY <2>4 DEF SubscribeUids
    <3> QED
      BY <2>1, <3>3, <3>4 DEF SubscribedBy, AccountsKept
  <2>5. ASSUME ~ opts.autoSubscribe, SubscribeAccounts
        PROVE  SubscribedBy(subs, heard)' /\ AccountsKept'
    <3>1. /\ subAccounts' = SplitString(opts.subscribeVideoUids) /\ subs' = {}
          /\ ByAccount(opts)
      BY <2>1, <2>2, <2>5 DEF SubscribeAccounts, CanvasInv, ConfigInv
    <3> QED
      BY <2>1, <2>2, <3>1 DEF SubscribedBy, AccountsKept
  <2>6. SubscribedBy(subs, heard)' /\ AccountsKept'
    BY <1>2, <2>3, <2>4, <2>5
  <2>7. PeersInv'
    BY <2>1 DEF CanvasInv, PeersInv
  <2>8. ConfigInv'
    BY <2>1, <2>2, <2>6 DEF ConfigInv
  <2> QED
    BY <2>2, <2>7, <2>8 DEF CanvasInv, CanvasShowsTheWanted
<1>3. CASE KeepConfig
  <2>1. /\ UNCHANGED <<opts, engine, pointer, peers, reported, subs, subAccounts, heard,
                       settled>>
        /\ pc = "keep" /\ pc' = "test"
        /\ auto' = opts.autoSubscribe /\ accountMode' = ByAccount(opts)
    BY <1>3 DEF KeepConfig, engineVars, historyVars
  <2>2. ~ settled'
    BY <2>1 DEF CanvasInv, ConfigInv
  <2>3. (auto' <=> opts'.autoSubscribe) /\ (accountMode' <=> ByAccount(opts'))
    BY <2>1, Zenon
  <2>4. SubscribedBy(subs, heard)' /\ AccountsKept'
    BY <2>1 DEF CanvasInv, ConfigInv, SubscribedBy, AccountsKept
  <2>5. PeersInv'
    BY <2>1 DEF CanvasInv, PeersInv
  <2>6. ConfigInv'
    BY <2>1, <2>2, <2>3, <2>4 DEF ConfigInv
  <2> QED
    BY <2>2, <2>5, <2>6 DEF CanvasInv, CanvasShowsTheWanted
<1>4. CASE \/ CreateEngine \/ NoEngine \/ JoinFails \/ Loop \/ leaveChannel \/ release
           \/ Destroy
  <2>1. UNCHANGED <<opts, peers, reported, subs, subAccounts, auto, accountMode, shown,
                    known, heard, settled>>
    BY <1>4 DEF CreateEngine, NoEngine, JoinFails, Loop, TestStop, CallStartService,
         ResetStart, CallStopService, ResetStop, Wake, leaveChannel, release, Destroy,
         Others, layoutVars, engineVars, historyVars
  <2>2. /\ engine' = "live" => pointer'
        /\ pc' \notin {"start", "create", "keep"}
        /\ Configured' => Configured
        /\ pc' = "joining" => pc = "create"
    <3>1. CASE CreateEngine \/ NoEngine \/ JoinFails \/ leaveChannel \/ release \/ Destroy
      BY <3>1 DEF CreateEngine, NoEngine, JoinFails, leaveChannel, release, Destroy,
           Configured, CanvasInv, PeersInv
    <3>2. CASE Loop
      BY <3>2 DEF Loop, TestStop, CallStartService, ResetStart, CallStopService,
           ResetStop, Wake, Configured, CanvasInv, PeersInv
    <3> QED
      BY <1>4, <3>1, <3>2
  <2> QED
    BY <2>1, <2>2, CanvasStays
<1> QED
  BY <1>1, <1>2, <1>3, <1>4 DEF Main

(* Whom a layout shows, and whom it should. *)
IsShown(u, s, k) ==
    /\ auto \/ u \in s
    /\ accountMode /\ layoutMode = "vertical" =>
         \/ getUserAccountByUid(u, k) # EmptyText
         \/ maxResolutionUid(k) # 0
WantedBy(u, h, k) ==
    /\ \/ opts.autoSubscribe
       \/ ~ ByAccount(opts) /\ Number(u) \in SplitString(opts.subscribeVideoUids)
       \/ ByAccount(opts) /\ u \in h
                          /\ AccountOf[u] \in SplitString(opts.subscribeVideoUids)
    /\ ByAccount(opts) /\ opts.layoutMode = 2 =>
         \/ u \in k
         \/ \E v \in k : AccountOf[v] = opts.maxResolutionUserAccount

LEMMA ShownIsWanted ==
  ASSUME auto <=> opts.autoSubscribe, accountMode <=> ByAccount(opts),
         NEW s, NEW h, NEW k \in SUBSET Users, SubscribedBy(s, h),
         NEW u \in Users
  PROVE  IsShown(u, s, k) <=> WantedBy(u, h, k)
<1>1. (auto \/ u \in s) <=>
        \/ opts.autoSubscribe
        \/ ~ ByAccount(opts) /\ Number(u) \in SplitString(opts.subscribeVideoUids)
        \/ ByAccount(opts) /\ u \in h
                           /\ AccountOf[u] \in SplitString(opts.subscribeVideoUids)
  BY DEF SubscribedBy
<1>2. layoutMode = "vertical" <=> opts.layoutMode = 2
  BY DEF layoutMode
<1>3. getUserAccountByUid(u, k) # EmptyText <=> u \in k
  BY UsersAssumption DEF getUserAccountByUid
<1>4. ASSUME accountMode
      PROVE  maxResolutionUid(k) # 0 <=>
               \E v \in k : AccountOf[v] = opts.maxResolutionUserAccount
  <2> DEFINE m == opts.maxResolutionUserAccount
             large == CHOOSE v \in k : AccountOf[v] = m
  <2>1. maxResolutionUid(k) = getUidByUserAccount(m, k)
    BY <1>4 DEF maxResolutionUid
  <2>2. CASE \E v \in k : AccountOf[v] = m
    <3>1. large \in k
      BY <2>2
    <3>2. getUidByUserAccount(m, k) = large
      BY <2>2 DEF getUidByUserAccount
    <3> HIDE DEF large
    <3>3. large # 0
      <4> DEFINE b == 2 ^ IntBits - 1
      <4>1. large \in 1 .. b
        BY <3>1, UsersAssumption
      <4> HIDE DEF b
      <4> QED
        BY <4>1
    <3> QED
      BY <2>1, <2>2, <3>2, <3>3
  <2>3. CASE ~ \E v \in k : AccountOf[v] = m
    BY <2>1, <2>3 DEF getUidByUserAccount
  <2> QED
    BY <2>2, <2>3
<1> QED
  BY <1>1, <1>2, <1>3, <1>4 DEF IsShown, WantedBy

Drawn(p, s, k) ==
    LayoutOf(layoutMode, SubscribedOf(p, s, k), maxResolutionUid(k), Canvas)

LEMMA DrawnUsers ==
  ASSUME FewUsers, NEW p \in Seq(Users), Distinct(p), NEW s, NEW k
  PROVE  /\ {Drawn(p, s, k)[i].uid : i \in DOMAIN Drawn(p, s, k)}
              = {u \in ToSet(p) : IsShown(u, s, k)}
         /\ Len(Drawn(p, s, k)) = Cardinality({u \in ToSet(p) : IsShown(u, s, k)})
<1> DEFINE gone == {u \in ToSet(p) : ~ IsShown(u, s, k)}
           few  == Sift(p, gone)
<1>1. SubscribedOf(p, s, k) = few
  BY DEF SubscribedOf, IsShown
<1>2. few \in Seq(Users) /\ Distinct(few) /\ Len(few) <= Len(p)
  BY SiftType, SiftDistinct, SiftLength
<1>3. ToSet(few) = {u \in ToSet(p) : IsShown(u, s, k)}
  BY SiftRange
<1> HIDE DEF few, gone
<1>4. Len(few) = Cardinality(ToSet(few)) /\ Len(p) = Cardinality(ToSet(p))
  BY <1>2, DistinctLength
<1>5. Len(few) <= 16
  <2>1. ToSet(p) \subseteq Users
    BY LenProperties, ElementOfSeq DEF ToSet
  <2>2. Cardinality(ToSet(p)) <= Cardinality(Users) /\ Cardinality(Users) \in Nat
    BY <2>1, FS_Subset, FS_CardinalityType DEF FewUsers
  <2>3. Len(p) \in Nat /\ Len(few) \in Nat
    BY <1>2, LenProperties
  <2> QED
    BY <1>2, <1>4, <2>2, <2>3 DEF FewUsers
<1>6. /\ DOMAIN Drawn(p, s, k) = 1 .. Len(few)
      /\ \A i \in 1 .. Len(few) : Drawn(p, s, k)[i].uid = few[i]
      /\ Len(Drawn(p, s, k)) = Len(few)
  BY <1>1, <1>2, <1>5, LayoutKeepsUsers DEF Drawn
<1>7. DOMAIN few = 1 .. Len(few)
  BY <1>2, LenProperties
<1>8. {Drawn(p, s, k)[i].uid : i \in DOMAIN Drawn(p, s, k)} = ToSet(few)
  BY <1>6, <1>7 DEF ToSet
<1> QED
  BY <1>3, <1>4, <1>6, <1>8

(* A layout that counts shows the wanted. *)
LEMMA LaidOut ==
  ASSUME FewUsers, CanvasInv, SdkType', engine = "live",
         UNCHANGED <<opts, auto, accountMode>>,
         setVideoMixLayout(peers', subs', known'),
         Distinct(peers'), ToSet(peers') = reported',
         Configured => SubscribedBy(subs', heard')
  PROVE  CanvasShowsTheWanted'
<1> SUFFICES ASSUME settled', Mixing(opts)
             PROVE  /\ {shown'[i].uid : i \in DOMAIN shown'} = {u \in reported' : Wanted(u)'}
                    /\ Len(shown') = Cardinality({u \in reported' : Wanted(u)'})
  BY DEF CanvasShowsTheWanted
<1> DEFINE p == peers'
           s == subs'
           k == known'
           h == heard'
<1>1. Configured /\ pointer /\ SubscribedBy(s, h)
  BY DEF setVideoMixLayout, CanvasInv, PeersInv
<1>2. shown' = Drawn(p, s, k)
  BY <1>1 DEF setVideoMixLayout, Drawn
<1>3. p \in Seq(Users) /\ k \in SUBSET Users /\ reported' \subseteq Users
  BY DEF SdkType
<1>4. (auto <=> opts.autoSubscribe) /\ (accountMode <=> ByAccount(opts))
  BY <1>1 DEF CanvasInv, ConfigInv
<1>5. \A u \in Users : Wanted(u)' <=> WantedBy(u, h, k)
  BY DEF Wanted, WantedBy
<1> HIDE DEF p, s, k, h
<1>6. \A u \in Users : IsShown(u, s, k) <=> WantedBy(u, h, k)
  BY <1>1, <1>3, <1>4, ShownIsWanted
<1>7. {u \in ToSet(p) : IsShown(u, s, k)} = {u \in reported' : Wanted(u)'}
  <2>1. ToSet(p) = reported'
    BY DEF p
  <2> QED
    BY <1>3, <1>5, <1>6, <2>1
<1>8. /\ {Drawn(p, s, k)[i].uid : i \in DOMAIN Drawn(p, s, k)}
           = {u \in ToSet(p) : IsShown(u, s, k)}
      /\ Len(Drawn(p, s, k)) = Cardinality({u \in ToSet(p) : IsShown(u, s, k)})
  <2>1. Distinct(p)
    BY DEF p
  <2> QED
    BY <1>3, <2>1, DrawnUsers
<1> QED
  BY <1>2, <1>7, <1>8

LEMMA ConfigStays ==
  ASSUME CanvasInv, UNCHANGED <<pc, opts, auto, accountMode, subAccounts>>,
         settled' => settled \/ Configured,
         settled \/ Configured \/ pc = "keep" => SubscribedBy(subs', heard'),
         pc \in {"start", "create", "joining"} => subs' = {} /\ heard' = {}
  PROVE  ConfigInv'
<1>1. /\ SubscribedBy(subs, heard)' <=> SubscribedBy(subs', heard')
      /\ AccountsKept' <=> AccountsKept
      /\ Configured' <=> Configured
  BY DEF SubscribedBy, AccountsKept, Configured
<1>2. Configured => pc \notin {"start", "create", "joining", "keep"}
  BY DEF Configured
<1> QED
  BY <1>1, <1>2 DEF CanvasInv, ConfigInv

LEMMA CanvasCallbacks ==
  ASSUME FewUsers, CanvasInv, SdkType, SdkType', Callbacks
  PROVE  CanvasInv'
<1>1. CASE onErrorImpl
  <2>1. UNCHANGED <<opts, peers, reported, subs, subAccounts, auto, accountMode, shown,
                    known, heard, settled, pc, engine, pointer>>
    BY <1>1 DEF onErrorImpl, Others, layoutVars, engineVars, historyVars
  <2> QED
    BY <2>1, CanvasStays DEF Configured, CanvasInv, PeersInv
<1>2. CASE onWarningImpl
  <2>1. /\ UNCHANGED <<opts, subs, subAccounts, auto, accountMode, heard, pc, engine, pointer>>
        /\ reported' = {} /\ peers' = <<>> /\ ~ settled'
    BY <1>2 DEF onWarningImpl, mainVars
  <2>2. Distinct(<<>>) /\ ToSet(<<>>) = {}
    BY DEF Distinct, ToSet
  <2>3. PeersInv'
    BY <2>1, <2>2 DEF CanvasInv, PeersInv
  <2>4. ConfigInv'
    BY <2>1, ConfigStays DEF CanvasInv, ConfigInv
  <2> QED
    BY <2>1, <2>3, <2>4 DEF CanvasInv, CanvasShowsTheWanted
<1>3. ASSUME NEW u \in Users, onUserJoinedImpl(u)
      PROVE  CanvasInv'
  <2>1. /\ UNCHANGED <<opts, subs, subAccounts, auto, accountMode, heard, known, pc, engine,
                       pointer>>
        /\ engine = "live" /\ reported' = reported \union {u}
    BY <1>3 DEF onUserJoinedImpl, mainVars, Report, Reporting
  <2>2. ToSet(peers) = reported /\ Distinct(peers) /\ peers \in Seq(Users)
    BY DEF CanvasInv, PeersInv, SdkType
  <2>3. CASE u \in ToSet(peers)
    <3>1. UNCHANGED <<peers, shown, settled, reported>>
      BY <1>3, <2>1, <2>2, <2>3 DEF onUserJoinedImpl
    <3> QED
      BY <2>1, <3>1, CanvasStays DEF Configured, CanvasInv, PeersInv
  <2>4. CASE u \notin ToSet(peers)
    <3>1. /\ peers' = Append(peers, u)
          /\ setVideoMixLayout(peers', subs, known) \/ settled' = FALSE
      BY <1>3, <2>4, Zenon DEF onUserJoinedImpl
    <3>2. Distinct(peers') /\ ToSet(peers') = reported'
      BY <2>1, <2>2, <2>4, <3>1, AppendDistinct, AppendRange
    <3>3. PeersInv'
      BY <2>1, <3>2 DEF CanvasInv, PeersInv
    <3>4. settled' => Configured
      BY <3>1 DEF setVideoMixLayout
    <3>5. ConfigInv'
      BY <2>1, <3>4, ConfigStays DEF CanvasInv, ConfigInv
    <3>6. CanvasShowsTheWanted'
      <4>1. CASE setVideoMixLayout(peers', subs, known)
        <5>1. setVideoMixLayout(peers', subs', known')
          BY <2>1, <4>1 DEF setVideoMixLayout
        <5> QED
          BY <2>1, <3>2, <5>1, LaidOut DEF CanvasInv, ConfigInv
      <4>2. CASE settled' = FALSE
        BY <4>2 DEF CanvasShowsTheWanted
      <4> QED
        BY <3>1, <4>1, <4>2
    <3> QED
      BY <3>3, <3>5, <3>6 DEF CanvasInv
  <2> QED
    BY <2>3, <2>4
<1>4. ASSUME NEW u \in Users, onUserOfflineImpl(u)
      PROVE  CanvasInv'
  <2>1. /\ UNCHANGED <<opts, subs, subAccounts, auto, accountMode, heard, known, pc, engine,
                       pointer>>
        /\ engine = "live" /\ reported' = reported \ {u} /\ peers' = Sift(peers, {u})
    BY <1>4 DEF onUserOfflineImpl, mainVars, Reporting
  <2>2. ToSet(peers) = reported /\ Distinct(peers) /\ peers \in Seq(Users)
    BY DEF CanvasInv, PeersInv, SdkType
  <2>3. Distinct(peers') /\ ToSet(peers') = reported'
    BY <2>1, <2>2, SiftDistinct, SiftRange
  <2>4. PeersInv'
    BY <2>1, <2>3 DEF CanvasInv, PeersInv
  <2>5. setVideoMixLayout(peers', subs', known')
    BY <1>4, <2>1 DEF onUserOfflineImpl, setVideoMixLayout
  <2>6. ConfigInv'
    BY <2>1, <2>5, ConfigStays DEF setVideoMixLayout, CanvasInv, ConfigInv
  <2>7. CanvasShowsTheWanted'
    BY <2>1, <2>3, <2>5, LaidOut DEF CanvasInv, ConfigInv
  <2> QED
    BY <2>4, <2>6, <2>7 DEF CanvasInv
<1>5. ASSUME NEW u \in Users, onUserInfoUpdated(u)
      PROVE  CanvasInv'
  <2>1. /\ UNCHANGED <<opts, peers, reported, subAccounts, auto, accountMode, pc, engine,
                       pointer>>
        /\ engine = "live" /\ ByAccount(opts)
        /\ subs' = IF AccountOf[u] \in subAccounts THEN subs \union {u} ELSE subs
        /\ heard' = IF pc \in {"create", "joining"} THEN heard ELSE heard \union {u}
    BY <1>5 DEF onUserInfoUpdated, mainVars, Reporting
  <2>2. PeersInv'
    BY <2>1 DEF CanvasInv, PeersInv
  <2>3. pc \in {"start", "create", "joining"} => subs' = {} /\ heard' = {}
    BY <2>1 DEF CanvasInv, ConfigInv, PeersInv
  <2>4. ASSUME settled \/ Configured \/ pc = "keep"
        PROVE  SubscribedBy(subs', heard')
    <3>1. pc \notin {"create", "joining"}
      BY <2>4 DEF Configured, CanvasInv, ConfigInv
    <3>2. SubscribedBy(subs, heard) /\ AccountsKept
      BY <2>4 DEF CanvasInv, ConfigInv
    <3> QED
      BY <2>1, <3>1, <3>2 DEF SubscribedBy, AccountsKept
  <2>5. CASE accountMode
    <3>1. setVideoMixLayout(peers', subs', known')
      BY <1>5, <2>1, <2>5 DEF onUserInfoUpdated, setVideoMixLayout
    <3>2. ConfigInv'
      BY <2>1, <2>3, <2>4, <3>1, ConfigStays DEF setVideoMixLayout
    <3>3. CanvasShowsTheWanted'
      <4>1. Distinct(peers') /\ ToSet(peers') = reported'
        BY <2>2 DEF PeersInv
      <4> QED
        BY <2>1, <2>4, <3>1, <4>1, LaidOut
    <3> QED
      BY <2>2, <3>2, <3>3 DEF CanvasInv
  <2>6. CASE ~ accountMode
    <3>1. UNCHANGED settled
      BY <1>5, <2>6 DEF onUserInfoUpdated
    <3>2. ~ settled'
      BY <2>1, <2>6, <3>1 DEF CanvasInv, ConfigInv
    <3>3. ConfigInv'
      BY <2>1, <2>3, <2>4, <3>2, ConfigStays
    <3> QED
      BY <2>2, <3>2, <3>3 DEF CanvasInv, CanvasShowsTheWanted
  <2> QED
    BY <2>5, <2>6
<1>6. ASSUME NEW u \in Users,
             \/ \E channels \in 1 .. 2 : audioFrameReceivedImpl(u, channels)
             \/ \E type \in {"yuv", "h264", "h265"} : videoFrameReceivedImpl(u, type)
      PROVE  CanvasInv'
  <2>1. UNCHANGED <<mainVars, layoutVars, historyVars, reported, known>>
    BY <1>6 DEF audioFrameReceivedImpl, videoFrameReceivedImpl
  <2>2. UNCHANGED <<opts, peers, reported, subs, subAccounts, auto, accountMode, shown,
                    known, heard, settled, pc, engine, pointer>>
    BY <2>1 DEF mainVars, layoutVars, historyVars
  <2> QED
    BY <2>2, CanvasStays DEF Configured, CanvasInv, PeersInv
<1> QED
  BY <1>1, <1>2, <1>3, <1>4, <1>5, <1>6 DEF Callbacks

LEMMA CanvasStep ==
  ASSUME FewUsers, UidsAreNames, CanvasInv, SdkType, SdkType', ParsedInv, [Next]_vars
  PROVE  CanvasInv'
<1>1. CASE Signals
  <2>1. /\ UNCHANGED <<opts, peers, reported, subs, subAccounts, auto, accountMode, shown,
                       known, heard, settled, engine, pointer>>
        /\ pc' \in {pc, "killed"}
    BY <1>1 DEF Signals, signal_handler, ServiceSignal, Others, layoutVars, engineVars,
         historyVars
  <2> QED
    BY <2>1, CanvasStays DEF Configured, CanvasInv, PeersInv
<1>2. CASE UNCHANGED vars
  <2>1. UNCHANGED <<opts, peers, reported, subs, subAccounts, auto, accountMode, shown,
                    known, heard, settled, pc, engine, pointer>>
    BY <1>2 DEF vars, mainVars, layoutVars, engineVars, historyVars
  <2> QED
    BY <2>1, CanvasStays DEF Configured, CanvasInv, PeersInv
<1> QED
  BY <1>1, <1>2, CanvasMain, CanvasCallbacks DEF Next

(* For any users up to sixteen and any command lines whose numbers name     *)
(* the users they are: whenever a layout counts, who is on the canvas is    *)
(* who the engine reported and the options subscribe to, each once,         *)
(* however the callbacks come between the steps of main.  [onUserJoinedImpl *)
(* to onUserInfoUpdated, setVideoMixLayout and createChannel]               *)
THEOREM CanvasIsOfTheWanted ==
  ASSUME FewUsers, UidsAreNames
  PROVE  Spec => []CanvasShowsTheWanted
<1>1. Init => MainType /\ SdkType /\ ReleaseInv /\ ParsedInv /\ CanvasInv
  BY TypeInit, ReleaseInit, ParsedInit, CanvasInit
<1>2. MainType /\ SdkType /\ ReleaseInv /\ ParsedInv /\ CanvasInv /\ [Next]_vars
        => MainType' /\ SdkType' /\ ReleaseInv' /\ ParsedInv' /\ CanvasInv'
  BY TypeStep, ReleaseStep, ParsedStep, CanvasStep
<1>3. CanvasInv => CanvasShowsTheWanted
  BY DEF CanvasInv
<1> QED
  BY <1>1, <1>2, <1>3, PTL DEF Spec
==============================================================================
