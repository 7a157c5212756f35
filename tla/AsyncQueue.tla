----------------------------- MODULE AsyncQueue -----------------------------
(***************************************************************************)
(* async_queue of node_async_queue.h, and node_async_call, the one global  *)
(* instance of it that carries every engine callback of every recorder     *)
(* from the engine threads to the JavaScript thread.                       *)
(*                                                                         *)
(* async_call tests closed_ outside the lock, changes q_ under the lock    *)
(* and then calls uv_async_send outside of it: three steps.  uv_async_send *)
(* coalesces: any number of calls before the loop reacts cause one         *)
(* callback, so on_event has to empty the queue.                           *)
(***************************************************************************)
EXTENDS Naturals, Sequences

CONSTANTS
  Producers,        \* engine threads that call async_call
  MaxCalls,         \* bound: calls of async_call per producer
  Capacities        \* values given to set_capacity (none in this program)

ASSUME CallBound == MaxCalls \in Nat
ASSUME CapacitiesAreSizes == Capacities \subseteq Nat

VARIABLES
  caller,           \* where a producer is in async_call
  calls,            \* calls of async_call a producer has made
  queue,            \* q_
  capacity,         \* capacity_, 0 for unbounded
  closed,           \* closed_
  cleared,          \* history: clear has been called
  signal,           \* libuv: the async handle is pending
  consumer,         \* where the JavaScript thread is in on_event
  running,          \* the element popped and not yet run: <<>> or one task
  delivered         \* history: the tasks cb_ has run, in order

controlVars == <<capacity, closed, cleared>>
vars == <<caller, calls, queue, controlVars, signal, consumer, running,
          delivered>>

Task == [from : Producers, num : 1..MaxCalls]

(* Mutant of TaskOf: tasks are numbered from one too high. *)
TaskOfNext(p) == [from |-> p, num |-> calls[p] + 1]

(* The task producer p hands over with its current call. *)
TaskOf(p) == [from |-> p, num |-> calls[p]]

Init ==
  /\ caller = [p \in Producers |-> "idle"]
  /\ calls = [p \in Producers |-> 0]
  /\ queue = <<>>
  /\ capacity = 0
  /\ closed = "no"
  /\ cleared = "no"
  /\ signal = "clear"
  /\ consumer = "waiting"
  /\ running = <<>>
  /\ delivered = <<>>

-----------------------------------------------------------------------------
(* async_call, on an engine thread. *)

(* The test of closed_: a closed queue answers -1 and takes nothing. *)
CheckOpen(p) ==
  /\ caller[p] = "idle"
  /\ calls[p] < MaxCalls
  /\ calls' = [calls EXCEPT ![p] = @ + 1]
  /\ caller' = [caller EXCEPT ![p] = IF closed = "no" THEN "open" ELSE "idle"]
  /\ UNCHANGED <<queue, controlVars, signal, consumer, running, delivered>>

(* if (capacity_ && q_.size() > capacity_) q_.pop(); *)
MakeRoom(q) == IF capacity > 0 /\ Len(q) > capacity THEN Tail(q) ELSE q

Push(p) ==
  /\ caller[p] = "open"
  /\ queue' = Append(MakeRoom(queue), TaskOf(p))
  /\ caller' = [caller EXCEPT ![p] = "pushed"]
  /\ UNCHANGED <<calls, controlVars, signal, consumer, running, delivered>>

(* Mutant of Signal: only the push into an empty queue wakes the loop. *)
SignalFirst(p) ==
  /\ caller[p] = "pushed"
  /\ signal' = IF Len(queue) = 1 THEN "pending" ELSE signal
  /\ caller' = [caller EXCEPT ![p] = "idle"]
  /\ UNCHANGED <<calls, queue, controlVars, consumer, running, delivered>>

(* uv_async_send: one pending mark however often it is called. *)
Signal(p) ==
  /\ caller[p] = "pushed"
  /\ signal' = "pending"
  /\ caller' = [caller EXCEPT ![p] = "idle"]
  /\ UNCHANGED <<calls, queue, controlVars, consumer, running, delivered>>

-----------------------------------------------------------------------------
(* on_event, on the JavaScript thread.  The lock is held from the test of  *)
(* q_ to the pop, so the two are one step; a task runs without the lock.   *)

(* libuv clears the mark before it calls async_callback. *)
Wake ==
  /\ consumer = "waiting"
  /\ signal = "pending"
  /\ signal' = "clear"
  /\ consumer' = "testing"
  /\ UNCHANGED <<caller, calls, queue, controlVars, running,
                 delivered>>

(* Mutant of Pop: the newest task is taken. *)
PopNewest ==
  /\ consumer = "testing"
  /\ queue # <<>>
  /\ running' = <<queue[Len(queue)]>>
  /\ queue' = SubSeq(queue, 1, Len(queue) - 1)
  /\ consumer' = "running"
  /\ UNCHANGED <<caller, calls, controlVars, signal, delivered>>

Pop ==
  /\ consumer = "testing"
  /\ queue # <<>>
  /\ running' = <<Head(queue)>>
  /\ queue' = Tail(queue)
  /\ consumer' = "running"
  /\ UNCHANGED <<caller, calls, controlVars, signal, delivered>>

RunTask ==
  /\ consumer = "running"
  /\ delivered' = delivered \o running
  /\ running' = <<>>
  /\ consumer' = "testing"
  /\ UNCHANGED <<caller, calls, queue, controlVars, signal>>

(* Mutant of Finish: one callback of the loop may leave tasks behind. *)
FinishEarly ==
  /\ consumer = "testing"
  /\ consumer' = "waiting"
  /\ UNCHANGED <<caller, calls, queue, controlVars, signal, running,
                 delivered>>

(* The test that ends the loop. *)
Finish ==
  /\ consumer = "testing"
  /\ queue = <<>>
  /\ consumer' = "waiting"
  /\ UNCHANGED <<caller, calls, queue, controlVars, signal, running,
                 delivered>>

-----------------------------------------------------------------------------
(* The control operations of the class.  No code of the repository calls   *)
(* them: they are steps of ControlNext only.                               *)

Close ==
  /\ closed = "no"
  /\ closed' = "yes"
  /\ UNCHANGED <<caller, calls, queue, capacity, cleared, signal, consumer,
                 running, delivered>>

SetCapacity ==
  /\ \E c \in Capacities : capacity' = c
  /\ UNCHANGED <<caller, calls, queue, closed, cleared, signal, consumer,
                 running, delivered>>

(* clear takes the lock: it falls between two steps of on_event, also      *)
(* while a task runs.                                                      *)
Clear ==
  /\ queue # <<>>
  /\ queue' = <<>>
  /\ cleared' = "yes"
  /\ UNCHANGED <<caller, calls, capacity, closed, signal, consumer, running,
                 delivered>>

-----------------------------------------------------------------------------
AsyncCall(p) == CheckOpen(p) \/ Push(p) \/ Signal(p)

OnEvent == Wake \/ Pop \/ RunTask \/ Finish

Next == (\E p \in Producers : AsyncCall(p)) \/ OnEvent

ControlNext == Next \/ Close \/ SetCapacity \/ Clear

(* The loop polls and tasks end; a thread inside async_call finishes it.   *)
Fairness ==
  /\ WF_vars(OnEvent)
  /\ \A p \in Producers : WF_vars(Push(p) \/ Signal(p))

Spec == Init /\ [][Next]_vars /\ Fairness

ControlSpec == Init /\ [][ControlNext]_vars /\ Fairness

-----------------------------------------------------------------------------
(* Properties *)

TypeOK ==
  /\ caller \in [Producers -> {"idle", "open", "pushed"}]
  /\ calls \in [Producers -> 0..MaxCalls]
  /\ queue \in Seq(Task)
  /\ capacity \in Nat
  /\ closed \in {"no", "yes"}
  /\ cleared \in {"no", "yes"}
  /\ signal \in {"clear", "pending"}
  /\ consumer \in {"waiting", "testing", "running"}
  /\ running \in Seq(Task)
  /\ delivered \in Seq(Task)

(* No lost wake-up: while tasks are queued, either libuv still holds a     *)
(* mark, or the consumer is still in its loop, or some producer is between *)
(* its push and its uv_async_send.                                         *)
NoLostWakeup ==
  queue # <<>> =>
    \/ signal = "pending"
    \/ consumer # "waiting"
    \/ \E p \in Producers : caller[p] = "pushed"

(* Every task accepted, oldest first: run, being run, waiting. *)
Line == delivered \o running \o queue

(* Tasks of one producer keep their order and none is run twice, whatever  *)
(* the interleaving of the producers and the control operations.           *)
InCallOrder ==
  \A i, j \in DOMAIN Line :
    i < j /\ Line[i].from = Line[j].from => Line[i].num < Line[j].num

(* Neither close nor an overflow stops delivery: what is queued is taken    *)
(* out in the end, also when close comes between the test of closed_ and    *)
(* the push of a producer.                                                  *)
QueueDrains == (queue # <<>>) ~> (queue = <<>>)

(* What the queue promises.                                                *)
Channel == INSTANCE EventChannel
             WITH Tasks <- Task, accepted <- Line, completed <- Len(delivered),
                  limit <- capacity, cleared <- cleared

(* The queue implements the channel, its liveness included: every task is  *)
(* run once, in order and in the end, although wake-ups are coalesced and  *)
(* the lock is released while a task runs; an overflow and clear withdraw  *)
(* waiting tasks, never the one that runs, and nothing else does.          *)
ImplementsChannel == Channel!Spec
=============================================================================
