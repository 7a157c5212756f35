---------------------------- MODULE RecorderApi ----------------------------
(***************************************************************************)
(* What the REST interface promises its clients, without event loop,       *)
(* promises or queues: a start request gets at most one answer; success    *)
(* only after the recording engine has joined the channel, failure only    *)
(* when it has not and never will.  A stop request succeeds for a session  *)
(* whose start was answered with success and which has neither been        *)
(* stopped nor lost its engine to an error; for one that has, the answer   *)
(* is left open; for any other session it is refused.                      *)
(***************************************************************************)
CONSTANT Sessions

VARIABLES
  process,      \* the service, running or crashed
  status,       \* a start request as its client sees it
  joined,       \* the sessions whose engine has joined its channel
  dead,         \* the sessions whose engine gave up before joining
  broken,       \* the sessions whose engine failed after it had joined
  stopStatus    \* the best answer to a stop request so far

apiVars == <<process, status, joined, dead, broken, stopStatus>>

Init ==
  /\ process = "running"
  /\ status = [s \in Sessions |-> "none"]
  /\ joined = {}
  /\ dead = {}
  /\ broken = {}
  /\ stopStatus = [s \in Sessions |-> "none"]

Change(s, from, to) ==
  /\ status[s] = from
  /\ status' = [status EXCEPT ![s] = to]
  /\ UNCHANGED <<process, joined, dead, broken, stopStatus>>

Begin(s) == Change(s, "none", "waiting")

Reject(s) == Change(s, "none", "invalid")

Confirm(s) == s \in joined /\ Change(s, "waiting", "ok")

Fail(s) == s \in dead /\ Change(s, "waiting", "error")

Join(s) ==
  /\ s \notin joined \cup dead
  /\ status[s] = "waiting"
  /\ joined' = joined \cup {s}
  /\ UNCHANGED <<process, status, dead, broken, stopStatus>>

GiveUp(s) ==
  /\ s \notin joined \cup dead
  /\ status[s] = "waiting"
  /\ dead' = dead \cup {s}
  /\ UNCHANGED <<process, status, joined, broken, stopStatus>>

Break(s) ==
  /\ s \in joined \ broken
  /\ broken' = broken \cup {s}
  /\ UNCHANGED <<process, status, joined, dead, stopStatus>>

(* What the best answer may be after one more stop request: a refusal      *)
(* takes back no success.                                                  *)
BestAnswers(s) ==
  IF stopStatus[s] = "ok" THEN {"ok"}
  ELSE IF status[s] # "ok" THEN {"refused"}
  ELSE IF s \in broken THEN {"ok", "refused"}
  ELSE {"ok"}

Stop(s) ==
  /\ \E a \in BestAnswers(s) : stopStatus' = [stopStatus EXCEPT ![s] = a]
  /\ UNCHANGED <<process, status, joined, dead, broken>>

Crash ==
  /\ process' = "crashed"
  /\ UNCHANGED <<status, joined, dead, broken, stopStatus>>

Step(s) ==
  \/ Begin(s) \/ Reject(s) \/ Confirm(s) \/ Fail(s)
  \/ Join(s) \/ GiveUp(s) \/ Break(s) \/ Stop(s)

Next == process = "running" /\ (Crash \/ \E s \in Sessions : Step(s))

Spec == Init /\ [][Next]_apiVars
=============================================================================
