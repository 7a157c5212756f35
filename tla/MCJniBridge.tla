----------------------------- MODULE MCJniBridge -----------------------------
(* Two Java threads and two of the engine; sessions with and without raw    *)
(* data, with arguments that are refused; layouts with a null region, a     *)
(* count that is wrong or negative, a uid that needs all 32 (here 3) bits   *)
(* and one that needs more.                                                 *)
EXTENDS JniBridge

Config(a, v) == [decodeAudio |-> a, decodeVideo |-> v, isMixingEnabled |-> TRUE,
                 isAudioOnly |-> v = 0, mixResolution |-> "360,640,15,500",
                 secret |-> "", subscribeVideoUids |-> ""]
Args(level, a, v) == [appId |-> "a", name |-> "c", account |-> None,
                      level |-> level, config |-> Config(a, v)]
SomeArguments == {Args(1, 0, 0), Args(8, 0, 1),
                  [Args(5, 0, 0) EXCEPT !.name = ""],
                  [Args(5, 2, 1) EXCEPT !.account = 257]}

Marks(l, t, i) == [literals |-> l, timestamps |-> t, images |-> i]
Region(u, x) == [uid |-> u, x |-> x]
Layout(n, r, w) == [canvasWidth |-> 640, regionCount |-> n, regions |-> r, watermarks |-> w]
SomeLayouts == {Layout(2, <<None, Region(7, 1)>>, NoMarks),
                Layout(2, <<Region(3, 0)>>, NoMarks),
                Layout(-1, None, NoMarks),
                Layout(1, <<Region(9, 0)>>, Marks(<<"text">>, <<>>, <<None>>))}
SomeWatermarks == {NoMarks, Marks(<<>>, <<"clock">>, <<>>)}
=============================================================================
