---------------------------- MODULE EventChannel ----------------------------
(***************************************************************************)
(* What async_queue promises to the code around it: a task handed over by  *)
(* an engine thread is run on the JavaScript thread, exactly once and in   *)
(* the order of hand-over, unless the owner of the queue gave it a limit,  *)
(* which a hand-over may exceed only at the cost of the oldest task, or    *)
(* cleared it.  Nothing of the mutex, of the libuv wake-up or of its       *)
(* coalescing is visible here; AsyncQueue implements this.                 *)
(***************************************************************************)
EXTENDS Naturals, Sequences

CONSTANT Tasks      \* what can be handed over

VARIABLES
  accepted,         \* the tasks handed over and not withdrawn, in order
  completed,        \* how many of them have been run
  limit,            \* tasks that may wait, 0 for any number
  cleared           \* whether the owner has ever cleared the channel

channelVars == <<accepted, completed, limit, cleared>>

Init ==
  /\ accepted = <<>>
  /\ completed = 0
  /\ limit = 0
  /\ cleared = "no"

Accept ==
  /\ \E t \in Tasks : accepted' = Append(accepted, t)
  /\ UNCHANGED <<completed, limit, cleared>>

Complete ==
  /\ completed < Len(accepted)
  /\ completed' = completed + 1
  /\ UNCHANGED <<accepted, limit, cleared>>

(* The tasks no withdrawal can reach: those run, and begun tasks more.  At *)
(* most one is begun and not complete.                                     *)
OutOfReach(begun) == SubSeq(accepted, 1, completed + begun)

(* A full channel withdraws the oldest task it has not begun. *)
Displace ==
  /\ limit > 0 /\ Len(accepted) - completed > limit
  /\ \E t \in Tasks, begun \in 0..1 :
       accepted' = OutOfReach(begun)
                   \o Append(SubSeq(accepted, completed + begun + 2, Len(accepted)), t)
  /\ UNCHANGED <<completed, limit, cleared>>

SetLimit == limit' \in Nat /\ UNCHANGED <<accepted, completed, cleared>>

Clear ==
  /\ \E begun \in 0..1 : accepted' = OutOfReach(begun)
  /\ cleared' = "yes"
  /\ UNCHANGED <<completed, limit>>

Lossless == Accept \/ Complete

Next == Lossless \/ Displace \/ SetLimit \/ Clear

(* The channel as the recording service uses it. *)
LosslessSafe == Init /\ [][Lossless]_channelVars

Safe == Init /\ [][Next]_channelVars

Spec == Safe /\ WF_channelVars(Complete)
=============================================================================
