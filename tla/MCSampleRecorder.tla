--------------------------- MODULE MCSampleRecorder ---------------------------
(* Two users with accounts; int is 4 bits wide and long 6.  Command lines *)
(* of two kinds: scenarios that start a recorder, one for each way it may   *)
(* run, and lines for the parser, every line of up to three words from a    *)
(* set that reaches each branch; with no channel these end in main's test.  *)
EXTENDS SampleRecorder

SomeUsers == 1 .. 2
SomeAccounts == [u \in SomeUsers |-> Word(<<"account", u>>)]

Option(o)  == [name |-> o, text |-> None]
Plain(t)   == [name |-> None, text |-> t]
With(o, t) == [name |-> o, text |-> t]

Start == <<Option("appId"), Plain(Word("a")), With("channel", Word("c"))>>
Mix   == Start \o <<With("isMixingEnabled", Number(1))>>
Ann   == <<With("userAccount", Word("recorder"))>>
Large(u) == <<With("layoutMode", Number(2)),
              With("maxResolutionUserAccount", SomeAccounts[u])>>

Scenarios == {
    Mix,
    Mix \o <<With("layoutMode", Number(1)), With("autoSubscribe", Number(0)),
             With("subscribeVideoUids", List(<<Number(1), EmptyText, Trailing(-7, "x")>>))>>,
    Mix \o <<With("layoutMode", Number(2)), With("maxResolutionUid", Number(2))>>,
    Mix \o Ann \o <<With("autoSubscribe", Number(0)),
                    With("subscribeVideoUids", SomeAccounts[1])>>,
    Mix \o Ann \o Large(2),
    Start \o <<With("triggerMode", Number(1))>>,
    Start \o <<With("getAudioFrame", Number(2)), With("getVideoFrame", Number(1))>> }

Words == {Option("uid"), Option("channelKey"), Option("noSuch"),
          With("uid", Number(3)), With("uid", Number(-2)), With("uid", Number(90)),
          With("maxResolutionUid", Number(12)), With("isAudioOnly", EmptyText),
          Plain(Number(5)), Plain(Word("key"))}
ParserLines == UNION {[1 .. n -> Words] : n \in 0 .. 3}

SomeLines == Scenarios \union ParserLines

(* The instance is one the theorem of the canvas is about.                  *)
ASSUME InstanceAssumption == FewUsers /\ UidsAreNames
=============================================================================
