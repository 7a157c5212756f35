----------------------------- MODULE MixLayout -----------------------------
(***************************************************************************)
(* The layout of the mixed video: RecorderService with the regions that    *)
(* RecordManager keeps for each session, the copy in the native object and *)
(* what the engine was last told to show.  Every action is an action of    *)
(* RecorderService with its effect on the layouts.                         *)
(*                                                                         *)
(* Two threads call the native setVideoMixLayout, with no lock between     *)
(* them: the JavaScript thread when the regions change, and the engine's   *)
(* own thread when it reports a user.  The engine's thread reads m_layout  *)
(* in one step and hands what it read to the engine in a later one; that   *)
(* the reading itself may be torn by an assignment is not modelled here.   *)
(***************************************************************************)
EXTENDS RecorderService, SequencesExt, Sifting

VARIABLES
  layout,       \* layout.regions of the recorder, in JavaScript
  mixed,        \* m_layout.regions of the native object
  shown,        \* the regions last given to the engine
  peers,        \* m_peers: the users the native object knows of
  reporting,    \* sessions whose engine thread is in a user callback
  copy          \* m_layout.regions as that thread last read them

layoutVars == <<layout, mixed, shown, peers, reporting, copy>>
vars == <<serviceVars, layoutVars>>

-----------------------------------------------------------------------------
(* Regions *)

(* Mutants of Corner: a place off the grid; the fourth place forgotten. *)
CornerOffGrid(n) ==
  CASE n = 1 -> [x |-> 320, y |-> 0]
    [] n = 2 -> [x |-> 0, y |-> 320]
    [] n = 3 -> [x |-> 320, y |-> 240]
    [] OTHER -> [x |-> 0, y |-> 0]

CornerOfThree(n) ==
  CASE n = 1 -> [x |-> 320, y |-> 0]
    [] n = 2 -> [x |-> 0, y |-> 240]
    [] OTHER -> [x |-> 0, y |-> 0]

(* The top-left corner of the region added to n regions, in pixels. *)
Corner(n) ==
  CASE n = 1 -> [x |-> 320, y |-> 0]
    [] n = 2 -> [x |-> 0, y |-> 240]
    [] n = 3 -> [x |-> 320, y |-> 240]
    [] OTHER -> [x |-> 0, y |-> 0]

(* A new region has the size of the whole canvas. *)
AddRegion(regions, u) ==
  Append(regions, [uid |-> u, x |-> Corner(Len(regions)).x,
                   y |-> Corner(Len(regions)).y, width |-> 640, height |-> 480])

(* Mutant of Without: only the first region of the user goes. *)
WithoutFirst(regions, u) ==
  IF \E i \in DOMAIN regions : regions[i].uid = u
  THEN RemoveAt(regions, CHOOSE i \in DOMAIN regions :
                           /\ regions[i].uid = u
                           /\ \A j \in 1..(i - 1) : regions[j].uid # u)
  ELSE regions

Without(regions, u) == Sift(regions, {r \in ToSet(regions) : r.uid = u})

(* The native setMixLayout turns pixels into fractions of the canvas, here *)
(* in per cent.                                                            *)
Relative(r) ==
  [uid |-> r.uid,
   x |-> (100 * r.x) \div Canvas[1], y |-> (100 * r.y) \div Canvas[2],
   width |-> (100 * r.width) \div Canvas[1],
   height |-> (100 * r.height) \div Canvas[2]]

NativeRegions(regions) == [i \in DOMAIN regions |-> Relative(regions[i])]

Uids(regions) == [i \in DOMAIN regions |-> regions[i].uid]

(* setVideoMixLayout: an empty layout is not passed on, and without an     *)
(* engine nothing is.                                                      *)
Show(s, regions) ==
  shown' = IF regions = <<>> \/ engine[s] = "absent" THEN shown
           ELSE [shown EXCEPT ![s] = regions]

(* setMixLayout from JavaScript. *)
SetMixLayout(s, regions) ==
  /\ layout' = [layout EXCEPT ![s] = regions]
  /\ mixed' = [mixed EXCEPT ![s] = NativeRegions(regions)]
  /\ Show(s, NativeRegions(regions))

-----------------------------------------------------------------------------
LayoutInit ==
  /\ Init
  /\ layout = [s \in Sessions |-> <<>>]
  /\ mixed = [s \in Sessions |-> <<>>]
  /\ shown = [s \in Sessions |-> <<>>]
  /\ peers = [s \in Sessions |-> <<>>]
  /\ reporting = {}
  /\ copy = [s \in Sessions |-> <<>>]

(* start sets the empty layout before it subscribes and joins. *)
SetInitialLayout(s) ==
  /\ MkdirDone(s)
  /\ SetMixLayout(s, <<>>)
  /\ UNCHANGED <<peers, reporting, copy>>

(* The engine's thread enters onUserJoinedImpl or onUserOfflineImpl and    *)
(* reads the layout it is about to set again.                              *)
ReadLayout(s) ==
  /\ process = "running"
  /\ engine[s] = "inChannel"
  /\ s \notin reporting
  /\ present[s] # {} \/ reports[s] < MaxReports
  /\ Len(Pipe) < MaxPending
  /\ reporting' = reporting \cup {s}
  /\ copy' = [copy EXCEPT ![s] = mixed[s]]
  /\ UNCHANGED <<serviceVars, layout, mixed, shown, peers>>

(* The rest of the callback: the layout that was read goes to the engine,  *)
(* which may have been given a newer one meanwhile.                        *)
EndReport(s) ==
  /\ s \in reporting
  /\ reporting' = reporting \ {s}
  /\ Show(s, copy[s])
  /\ UNCHANGED <<layout, mixed, copy>>

(* onUserJoinedImpl adds the peer, whether known or not. *)
NativeUserJoined(s, u) ==
  /\ UserJoined(s, u)
  /\ peers' = [peers EXCEPT ![s] = Append(@, u)]
  /\ EndReport(s)

(* onUserOfflineImpl removes every occurrence of the peer. *)
NativeUserOffline(s, u) ==
  /\ UserOffline(s, u)
  /\ peers' = [peers EXCEPT ![s] = Sift(@, {u})]
  /\ EndReport(s)

(* Mutant of OnUserJoin: a user who has a region changes nothing. *)
OnUserJoinOnce(s, u) ==
  IF s \in registry /\ u \notin ToSet(Uids(layout[s]))
  THEN SetMixLayout(s, AddRegion(layout[s], u))
  ELSE UNCHANGED <<layout, mixed, shown>>

(* The handlers subscribeEvents installs: a session that is not registered *)
(* has no recorder to lay out, and the event is dropped.                   *)
OnUserJoin(s, u) ==
  IF s \in registry
  THEN SetMixLayout(s, AddRegion(layout[s], u))
  ELSE UNCHANGED <<layout, mixed, shown>>

(* Mutant of OnUserLeave: the layout is set again as it is. *)
OnUserLeaveKeeping(s, u) ==
  IF s \in registry
  THEN SetMixLayout(s, layout[s])
  ELSE UNCHANGED <<layout, mixed, shown>>

OnUserLeave(s, u) ==
  IF s \in registry
  THEN SetMixLayout(s, Without(layout[s], u))
  ELSE UNCHANGED <<layout, mixed, shown>>

EmitUserEvent ==
  /\ EmitUser
  /\ \/ /\ Head(batch).kind = "userjoin"
        /\ OnUserJoin(Head(batch).sid, Head(batch).uid)
     \/ /\ Head(batch).kind = "userleave"
        /\ OnUserLeave(Head(batch).sid, Head(batch).uid)
  /\ UNCHANGED <<peers, reporting, copy>>

(* The steps of the service that touch no layout.  An engine calls back    *)
(* from one thread at a time.                                              *)
OtherStep ==
  /\ \/ \E s \in Sessions :
          \/ StartRequest(s) \/ StartRejected(s) \/ StopRequest(s)
          \/ AccessDone(s) \/ StorageFails(s) \/ WriteFileDone(s) \/ ListenOnce(s)
          \/ JoinChannelSuccess(s)
          \/ s \notin reporting
             /\ (EngineError(s) \/ LeaveChannel(s) \/ RecoverCoreService(s))
     \/ DispatchEvent
     \/ CheckPhase
     \/ EmitJoinChannel
     \/ EmitError
     \/ RunReaction
  /\ UNCHANGED layoutVars

LayoutNext ==
  \/ \E s \in Sessions :
       \/ SetInitialLayout(s)
       \/ ReadLayout(s)
       \/ \E u \in Users : NativeUserJoined(s, u) \/ NativeUserOffline(s, u)
  \/ EmitUserEvent
  \/ OtherStep

LayoutSpec == LayoutInit /\ [][LayoutNext]_vars

(* With the fairness of the service, which the layouts do not weaken.      *)
FairLayoutSpec == LayoutSpec /\ Fairness

-----------------------------------------------------------------------------
(* Properties *)

Region == [uid : Users, x : {0, 320}, y : {0, 240}, width : {640},
           height : {480}]

RelativeRegion == [uid : Users, x : {0, 50}, y : {0, 50}, width : {100},
                   height : {100}]

LayoutTypeOK ==
  \A s \in Sessions :
    /\ layout[s] \in Seq(Region)
    /\ mixed[s] \in Seq(RelativeRegion)
    /\ shown[s] \in Seq(RelativeRegion)
    /\ copy[s] \in Seq(RelativeRegion)
    /\ peers[s] \in Seq(Users)
    /\ s \in reporting => engine[s] = "inChannel"

(* What the handlers make of the uids in the regions of s, on event e. *)
Handled(s, uids, e) ==
  IF e.sid # s THEN uids
  ELSE IF e.kind = "userjoin" THEN Append(uids, e.uid)
  ELSE IF e.kind = "userleave" THEN Sift(uids, {e.uid})
  ELSE uids

(* The uids in the regions of s after each of the events of line, if none  *)
(* is dropped.                                                             *)
Outlook(s, uids, line) ==
  LET after[n \in 0..Len(line)] ==
        IF n = 0 THEN uids ELSE Handled(s, after[n - 1], line[n])
  IN after

(* The users the regions will show when the user events of session s that  *)
(* are still on their way have been handled.                               *)
Foreseen(s) == Outlook(s, Uids(layout[s]), Pipe)[Len(Pipe)]

(* JavaScript catches up with the native view: the regions of a registered *)
(* session are, but for the events on their way, exactly m_peers, in the   *)
(* same order and with the same repetitions.  No event is lost, repeated   *)
(* or reordered between the engine thread and the handlers.                *)
LayoutFollowsPeers == \A s \in registry : Foreseen(s) = peers[s]

(* Even where user events are dropped, no region outlives its user: the    *)
(* users the regions will show are among the peers.                        *)
NoStrangers ==
  \A s \in registry : ToSet(Foreseen(s)) \subseteq ToSet(peers[s])

(* A user has one region, and at most one more for every recovery of the   *)
(* core service, after which the engine reports the users again and        *)
(* neither the native object nor RecordManager forgets them.               *)
RegionsPerUser ==
  \A s \in Sessions, u \in Users :
    Cardinality({i \in DOMAIN layout[s] : layout[s][i].uid = u})
      <= 1 + recoveries[s]

(* A user event of session s is on its way to the handlers. *)
UserEventPending(s) ==
  \E i \in DOMAIN Pipe :
    Pipe[i].sid = s /\ Pipe[i].kind \in {"userjoin", "userleave"}

(* Whenever there are regions and no user callback is under way, the       *)
(* engine shows them as fractions of the canvas.  A callback that overlaps *)
(* a change hands over the older regions behind it, but not for good: as   *)
(* long as those are shown, a user event is on its way whose handler will  *)
(* set the layout again, so that none is left shown once all are handled.  *)
EngineShowsLayout ==
  \A s \in Sessions \ reporting :
    layout[s] # <<>> =>
      \/ shown[s] = NativeRegions(layout[s])
      \/ shown[s] = copy[s] /\ UserEventPending(s)

(* Two users in the same place: both have the size of the canvas, so the   *)
(* one hides the other.                                                    *)
Overlap(regions) ==
  \E i, j \in DOMAIN regions :
    i # j /\ regions[i].x = regions[j].x /\ regions[i].y = regions[j].y

(* As long as no user has left, the first four users get four places.      *)
FirstFourApart ==
  \A s \in Sessions :
    Len(peers[s]) = reports[s] /\ Len(layout[s]) <= 4 => ~Overlap(layout[s])

(* Claims of the documentation that the code does not keep. *)

(* All the user events of session s have been handled. *)
Quiet(s) == \A i \in DOMAIN Pipe : Pipe[i].sid # s

(* README: the images are laid out again when a user arrives.  When        *)
(* nothing is on its way every user of a registered session has a region.  *)
EveryUserHasRegion ==
  \A s \in registry : Quiet(s) => ToSet(peers[s]) \subseteq ToSet(Uids(layout[s]))

(* README: and when a user leaves.  When nothing is on its way the engine  *)
(* shows no user who has left.                                             *)
NoRegionOfTheLeft ==
  \A s \in registry : Quiet(s) => ToSet(Uids(shown[s])) \subseteq ToSet(peers[s])
=============================================================================
