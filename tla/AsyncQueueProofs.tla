-------------------------- MODULE AsyncQueueProofs --------------------------
(***************************************************************************)
(* Proofs about AsyncQueue, for any set of producers, any number of calls  *)
(* and any capacities.                                                     *)
(***************************************************************************)
EXTENDS AsyncQueue, SequenceTheorems, TLAPS

USE DEF controlVars

(* One task is popped exactly while the consumer runs it. *)
OneRunning ==
  /\ consumer = "running" => Len(running) = 1
  /\ consumer # "running" => running = <<>>

(* What the safety of the queue rests on. *)
QInv == TypeOK /\ OneRunning

LEMMA TaskOfIsTask ==
  ASSUME TypeOK, NEW p \in Producers, caller[p] = "open", calls[p] # 0
  PROVE  TaskOf(p) \in Task
  BY CallBound DEF TypeOK, TaskOf, Task

(* A producer inside async_call has made a call: it is numbered from one. *)
Counted == \A p \in Producers : caller[p] # "idle" => calls[p] # 0

LEMMA CountedInit == Init => Counted
  BY DEF Init, Counted

LEMMA CountedStep == TypeOK /\ Counted /\ [ControlNext]_vars => Counted'
<1> SUFFICES ASSUME TypeOK, Counted, [ControlNext]_vars PROVE Counted'
  OBVIOUS
<1>1. CASE UNCHANGED <<caller, calls>>
  BY <1>1 DEF Counted
<1>2. ASSUME NEW p \in Producers, CheckOpen(p) PROVE Counted'
  BY <1>2, CallBound DEF CheckOpen, Counted, TypeOK
<1>3. ASSUME NEW p \in Producers, Push(p) PROVE Counted'
  BY <1>3 DEF Push, Counted, TypeOK
<1>4. ASSUME NEW p \in Producers, Signal(p) PROVE Counted'
  BY <1>4 DEF Signal, Counted, TypeOK
<1> QED
  BY <1>1, <1>2, <1>3, <1>4
  DEF ControlNext, Next, AsyncCall, OnEvent, Wake, Pop, RunTask, Finish, Close,
      SetCapacity, Clear, vars

LEMMA TypeInit == Init => QInv
  BY CallBound, EmptySeq DEF Init, QInv, TypeOK, OneRunning

LEMMA TypeStep == QInv /\ Counted /\ [ControlNext]_vars => QInv'
<1> SUFFICES ASSUME QInv, Counted, [ControlNext]_vars PROVE QInv'
  OBVIOUS
<1> USE DEF QInv
<1>1. CASE UNCHANGED vars
  BY <1>1 DEF vars, TypeOK, OneRunning
<1>2. ASSUME NEW p \in Producers, CheckOpen(p) PROVE QInv'
  BY <1>2, CallBound DEF CheckOpen, TypeOK, OneRunning
<1>3. ASSUME NEW p \in Producers, Push(p) PROVE QInv'
  <2>1. TaskOf(p) \in Task
    BY <1>3, TaskOfIsTask DEF Push, Counted
  <2>2. MakeRoom(queue) \in Seq(Task)
    BY HeadTailProperties DEF MakeRoom, TypeOK
  <2>3. queue' \in Seq(Task)
    BY <1>3, <2>1, <2>2, AppendProperties DEF Push
  <2> QED
    BY <1>3, <2>3 DEF Push, TypeOK, OneRunning
<1>4. ASSUME NEW p \in Producers, Signal(p) PROVE QInv'
  BY <1>4 DEF Signal, TypeOK, OneRunning
<1>5. CASE Wake
  BY <1>5 DEF Wake, TypeOK, OneRunning
<1>6. CASE Pop
  <2>1. Head(queue) \in Task /\ Tail(queue) \in Seq(Task)
    BY <1>6, HeadTailProperties DEF Pop, TypeOK
  <2>2. running' \in Seq(Task) /\ Len(running') = 1
    BY <1>6, <2>1 DEF Pop
  <2> QED
    BY <1>6, <2>1, <2>2 DEF Pop, TypeOK, OneRunning
<1>7. CASE RunTask
  <2>1. delivered' \in Seq(Task)
    BY <1>7, ConcatProperties DEF RunTask, TypeOK
  <2> QED
    BY <1>7, <2>1 DEF RunTask, TypeOK, OneRunning
<1>8. CASE Finish
  BY <1>8 DEF Finish, TypeOK, OneRunning
<1>9. CASE Close
  BY <1>9 DEF Close, TypeOK, OneRunning
<1>10. CASE SetCapacity
  BY <1>10, CapacitiesAreSizes DEF SetCapacity, TypeOK, OneRunning
<1>11. CASE Clear
  BY <1>11 DEF Clear, TypeOK, OneRunning
<1> QED
  BY <1>1, <1>2, <1>3, <1>4, <1>5, <1>6, <1>7, <1>8, <1>9, <1>10, <1>11
  DEF ControlNext, Next, AsyncCall, OnEvent

(* The variables of async_queue keep their types under every sequence of   *)
(* calls, control operations included (node_async_queue.h:46-109).         *)
THEOREM TypeCorrect == ControlSpec => []TypeOK
<1>1. Init => QInv /\ Counted
  BY TypeInit, CountedInit
<1>2. QInv /\ Counted /\ [ControlNext]_vars => (QInv /\ Counted)'
  BY TypeStep, CountedStep DEF QInv
<1>3. QInv => TypeOK
  BY DEF QInv
<1> QED
  BY <1>1, <1>2, <1>3, PTL DEF ControlSpec

LEMMA AlwaysQInv == ControlSpec => [](QInv /\ Counted)
<1>1. Init => QInv /\ Counted
  BY TypeInit, CountedInit
<1>2. QInv /\ Counted /\ [ControlNext]_vars => (QInv /\ Counted)'
  BY TypeStep, CountedStep DEF QInv
<1> QED
  BY <1>1, <1>2, PTL DEF ControlSpec

-----------------------------------------------------------------------------
LEMMA WakeupInit == Init => NoLostWakeup
  BY DEF Init, NoLostWakeup

LEMMA WakeupStep == QInv /\ NoLostWakeup /\ [ControlNext]_vars => NoLostWakeup'
<1> SUFFICES ASSUME TypeOK, NoLostWakeup, [ControlNext]_vars PROVE NoLostWakeup'
  BY DEF QInv
<1>1. CASE UNCHANGED <<queue, signal, consumer, caller>>
  BY <1>1 DEF NoLostWakeup
<1>2. ASSUME NEW p \in Producers, CheckOpen(p) PROVE NoLostWakeup'
  BY <1>2 DEF CheckOpen, NoLostWakeup, TypeOK
<1>3. ASSUME NEW p \in Producers, Push(p) PROVE NoLostWakeup'
  BY <1>3 DEF Push, NoLostWakeup, TypeOK
<1>4. ASSUME NEW p \in Producers, Signal(p) PROVE NoLostWakeup'
  BY <1>4 DEF Signal, NoLostWakeup
<1>5. CASE Wake \/ Pop \/ RunTask
  BY <1>5 DEF Wake, Pop, RunTask, NoLostWakeup
<1>6. CASE Finish
  BY <1>6 DEF Finish, NoLostWakeup
<1>7. CASE Clear
  BY <1>7 DEF Clear, NoLostWakeup
<1> QED
  BY <1>1, <1>2, <1>3, <1>4, <1>5, <1>6, <1>7
  DEF ControlNext, Next, AsyncCall, OnEvent, Close, SetCapacity, vars

(* Coalescing of uv_async_send never strands a task, whatever the threads  *)
(* and the control operations do (node_async_queue.h:51-66, 100-109).      *)
THEOREM WakeupNeverLost == ControlSpec => []NoLostWakeup
<1>1. ControlSpec => []QInv
  BY AlwaysQInv, PTL
<1> QED
  BY <1>1, WakeupInit, WakeupStep, PTL DEF ControlSpec

-----------------------------------------------------------------------------
(* The order of the tasks.  Line is a \o b \o c with c the queue: a step    *)
(* takes its first task out of c, empties c or appends to it.              *)

Ordered(line) ==
  \A i, j \in DOMAIN line :
    i < j /\ line[i].from = line[j].from => line[i].num < line[j].num

(* No task of the line comes from a call not made, and a producer that is  *)
(* about to push has not pushed yet in its current call.                   *)
Called(line) ==
  \A i \in DOMAIN line :
    /\ line[i].num <= calls[line[i].from]
    /\ caller[line[i].from] = "open" => line[i].num < calls[line[i].from]

OrderInv == Ordered(Line) /\ Called(Line)

LEMMA EntryIsTask ==
  ASSUME NEW line \in Seq(Task), NEW i \in DOMAIN line
  PROVE  line[i] \in Task /\ line[i].from \in Producers /\ line[i].num \in Nat
<1>1. line[i] \in Task
  BY LenProperties, ElementOfSeq
<1> QED
  BY <1>1, CallBound DEF Task

(* Dropping the first task of the second part keeps the others in order.   *)
LEMMA DropFirst ==
  ASSUME NEW a \in Seq(Task), NEW c \in Seq(Task), c # <<>>
  PROVE  /\ a \o Tail(c) \in Seq(Task)
         /\ \A i \in DOMAIN (a \o Tail(c)) :
              LET k == IF i <= Len(a) THEN i ELSE i + 1
              IN  k \in DOMAIN (a \o c) /\ (a \o Tail(c))[i] = (a \o c)[k]
<1>1. /\ Tail(c) \in Seq(Task)
      /\ Len(Tail(c)) = Len(c) - 1
      /\ \A i \in 1..Len(Tail(c)) : Tail(c)[i] = c[i + 1]
  BY HeadTailProperties
<1>2. Len(a) \in Nat /\ Len(c) \in Nat /\ Len(c) > 0
  BY EmptySeq, LenProperties
<1>3. /\ a \o Tail(c) \in Seq(Task)
      /\ Len(a \o Tail(c)) = Len(a) + Len(c) - 1
      /\ \A i \in 1..(Len(a) + Len(c) - 1) : (a \o Tail(c))[i] =
             IF i <= Len(a) THEN a[i] ELSE Tail(c)[i - Len(a)]
  BY <1>1, <1>2, ConcatProperties
<1>4. /\ a \o c \in Seq(Task)
      /\ Len(a \o c) = Len(a) + Len(c)
      /\ \A i \in 1..(Len(a) + Len(c)) : (a \o c)[i] =
             IF i <= Len(a) THEN a[i] ELSE c[i - Len(a)]
  BY ConcatProperties
<1>5. DOMAIN (a \o Tail(c)) = 1..(Len(a) + Len(c) - 1)
  BY <1>3, LenProperties
<1>6. DOMAIN (a \o c) = 1..(Len(a) + Len(c))
  BY <1>4, LenProperties
<1>7. ASSUME NEW i \in 1..(Len(a) + Len(c) - 1)
      PROVE  LET k == IF i <= Len(a) THEN i ELSE i + 1
             IN  k \in 1..(Len(a) + Len(c)) /\ (a \o Tail(c))[i] = (a \o c)[k]
  <2>1. CASE i <= Len(a)
    BY <2>1, <1>2, <1>3, <1>4
  <2>2. CASE i > Len(a)
    <3>1. i - Len(a) \in 1..Len(Tail(c))
      BY <2>2, <1>1, <1>2
    <3>2. Tail(c)[i - Len(a)] = c[(i + 1) - Len(a)]
      BY <3>1, <1>1, <1>2
    <3>3. (a \o Tail(c))[i] = Tail(c)[i - Len(a)]
      BY <2>2, <1>2, <1>3
    <3>4. i + 1 \in 1..(Len(a) + Len(c)) /\ ~(i + 1 <= Len(a))
      BY <2>2, <1>2
    <3>5. (a \o c)[i + 1] = c[(i + 1) - Len(a)]
      BY <3>4, <1>4
    <3> QED
      BY <2>2, <1>2, <3>2, <3>3, <3>4, <3>5
  <2> QED
    BY <2>1, <2>2, <1>2
<1> QED
  BY <1>3, <1>5, <1>6, <1>7

(* What is said of all the tasks of a line, or of two of them in their     *)
(* order, is then true of the shorter line.                                *)
LEMMA DropKeepsOrder ==
  ASSUME NEW a \in Seq(Task), NEW c \in Seq(Task), c # <<>>,
         Ordered(a \o c), Called(a \o c)
  PROVE  Ordered(a \o Tail(c)) /\ Called(a \o Tail(c))
<1> DEFINE k(i) == IF i <= Len(a) THEN i ELSE i + 1
<1>1. /\ a \o Tail(c) \in Seq(Task)
      /\ \A i \in DOMAIN (a \o Tail(c)) :
           k(i) \in DOMAIN (a \o c) /\ (a \o Tail(c))[i] = (a \o c)[k(i)]
  BY DropFirst
<1>2. Len(a) \in Nat /\ DOMAIN (a \o Tail(c)) \subseteq Nat
  BY <1>1, LenProperties
<1>3. \A i, j \in DOMAIN (a \o Tail(c)) : i < j => k(i) < k(j)
  BY <1>2
<1> HIDE DEF k
<1>4. Ordered(a \o Tail(c))
  BY <1>1, <1>3 DEF Ordered
<1>5. Called(a \o Tail(c))
  BY <1>1 DEF Called
<1> QED
  BY <1>4, <1>5

LEMMA CutKeepsOrder ==
  ASSUME NEW a \in Seq(Task), NEW c \in Seq(Task), Ordered(a \o c), Called(a \o c)
  PROVE  Ordered(a) /\ Called(a)
<1>1. /\ a \o c \in Seq(Task)
      /\ Len(a \o c) = Len(a) + Len(c)
      /\ \A i \in 1..(Len(a) + Len(c)) : (a \o c)[i] =
             IF i <= Len(a) THEN a[i] ELSE c[i - Len(a)]
  BY ConcatProperties
<1>2. /\ DOMAIN a = 1..Len(a) /\ DOMAIN (a \o c) = 1..(Len(a) + Len(c))
      /\ Len(a) \in Nat /\ Len(c) \in Nat
  BY <1>1, LenProperties
<1>3. \A i \in DOMAIN a : i \in DOMAIN (a \o c) /\ (a \o c)[i] = a[i]
  BY <1>1, <1>2
<1> QED
  BY <1>3 DEF Ordered, Called

LEMMA AppendKeepsOrder ==
  ASSUME NEW line \in Seq(Task), NEW t \in Task, Ordered(line),
         \A i \in DOMAIN line : line[i].from = t.from => line[i].num < t.num
  PROVE  Ordered(Append(line, t))
<1>1. /\ Append(line, t) \in Seq(Task)
      /\ Len(Append(line, t)) = Len(line) + 1
      /\ \A i \in 1..Len(line) : Append(line, t)[i] = line[i]
      /\ Append(line, t)[Len(line) + 1] = t
  BY AppendProperties
<1>2. DOMAIN line = 1..Len(line) /\ Len(line) \in Nat
      /\ DOMAIN Append(line, t) = 1..(Len(line) + 1)
  BY <1>1, LenProperties
<1>3. ASSUME NEW i \in DOMAIN Append(line, t), NEW j \in DOMAIN Append(line, t),
             i < j, Append(line, t)[i].from = Append(line, t)[j].from
      PROVE  Append(line, t)[i].num < Append(line, t)[j].num
  <2>1. i \in DOMAIN line /\ Append(line, t)[i] = line[i]
    BY <1>1, <1>2, <1>3
  <2>2. CASE j = Len(line) + 1
    BY <2>1, <2>2, <1>1, <1>3
  <2>3. CASE j # Len(line) + 1
    <3>1. j \in DOMAIN line /\ Append(line, t)[j] = line[j]
      BY <2>3, <1>1, <1>2
    <3> QED
      BY <2>1, <3>1, <1>3 DEF Ordered
  <2> QED
    BY <2>2, <2>3
<1> QED
  BY <1>3 DEF Ordered

(* How each step changes the line. *)
LEMMA LineOfPop == QInv /\ Pop => Line' = Line
<1> SUFFICES ASSUME QInv, Pop PROVE Line' = Line
  OBVIOUS
<1> USE DEF QInv, TypeOK
<1>1. queue \in Seq(Task) /\ queue # <<>> /\ running = <<>>
  BY DEF Pop, OneRunning
<1>2. /\ Head(queue) \in Task /\ Tail(queue) \in Seq(Task)
      /\ Len(Tail(queue)) = Len(queue) - 1
      /\ \A i \in 1..Len(Tail(queue)) : Tail(queue)[i] = queue[i + 1]
  BY <1>1, HeadTailProperties
<1>3. <<Head(queue)>> \in Seq(Task) /\ Len(<<Head(queue)>>) = 1
      /\ <<Head(queue)>>[1] = queue[1]
  BY <1>1, <1>2
<1>4. Len(queue) \in Nat /\ Len(queue) > 0
  BY <1>1, EmptySeq, LenProperties
<1>5. <<Head(queue)>> \o Tail(queue) = queue
  <2> DEFINE whole == <<Head(queue)>> \o Tail(queue)
  <2>1. /\ whole \in Seq(Task)
        /\ Len(whole) = Len(queue)
        /\ \A i \in 1..Len(queue) : whole[i] =
               IF i <= 1 THEN <<Head(queue)>>[i] ELSE Tail(queue)[i - 1]
    BY <1>2, <1>3, <1>4, ConcatProperties
  <2>2. \A i \in 1..Len(whole) : whole[i] = queue[i]
    BY <1>2, <1>3, <1>4, <2>1
  <2> QED
    BY <1>1, <2>1, <2>2, SeqEqual
<1>6. Line = delivered \o queue
  BY <1>1, ConcatEmptySeq DEF Line
<1>7. Line' = delivered \o (<<Head(queue)>> \o Tail(queue))
  <2>1. Line' = (delivered \o <<Head(queue)>>) \o Tail(queue)
    BY DEF Line, Pop
  <2>2. delivered \in Seq(Task)
    OBVIOUS
  <2>3. (delivered \o <<Head(queue)>>) \o Tail(queue)
        = delivered \o (<<Head(queue)>> \o Tail(queue))
    BY <1>2, <1>3, <2>2, ConcatAssociative
  <2> QED
    BY <2>1, <2>3
<1> QED
  BY <1>5, <1>6, <1>7

LEMMA LineOfRunTask == QInv /\ RunTask => Line' = Line
<1> SUFFICES ASSUME QInv, RunTask PROVE Line' = Line
  OBVIOUS
<1>1. delivered \o running \in Seq(Task)
  BY ConcatProperties DEF QInv, TypeOK
<1> QED
  BY <1>1, ConcatEmptySeq DEF Line, RunTask

LEMMA LineOfPush ==
  ASSUME QInv, Counted, NEW p \in Producers, Push(p)
  PROVE  /\ delivered \o running \in Seq(Task)
         /\ MakeRoom(queue) \in Seq(Task)
         /\ TaskOf(p) \in Task
         /\ Line' = Append((delivered \o running) \o MakeRoom(queue), TaskOf(p))
         /\ Line' = (delivered \o running) \o Append(MakeRoom(queue), TaskOf(p))
<1> DEFINE a == delivered \o running
           c == MakeRoom(queue)
           t == TaskOf(p)
<1>1. a \in Seq(Task)
  BY ConcatProperties DEF QInv, TypeOK
<1>2. c \in Seq(Task)
  BY HeadTailProperties DEF MakeRoom, QInv, TypeOK
<1>3. t \in Task
  BY TaskOfIsTask DEF Push, QInv, Counted
<1>4. Line' = a \o Append(c, t)
  BY DEF Line, Push
<1>5. <<t>> \in Seq(Task)
  BY <1>3
<1>6. a \o (c \o <<t>>) = (a \o c) \o <<t>>
  BY <1>1, <1>2, <1>5, ConcatAssociative
<1>7. Append(c, t) = c \o <<t>>
  BY <1>2, <1>3, AppendIsConcat
<1>8. a \o c \in Seq(Task)
  BY <1>1, <1>2, ConcatProperties
<1>9. Append(a \o c, t) = (a \o c) \o <<t>>
  BY <1>3, <1>8, AppendIsConcat
<1> QED
  BY <1>1, <1>2, <1>3, <1>4, <1>6, <1>7, <1>9

LEMMA LineIsSeq == QInv => Line \in Seq(Task) /\ delivered \o running \in Seq(Task)
  BY ConcatProperties DEF QInv, TypeOK, Line

LEMMA OrderInit == Init => OrderInv
<1> SUFFICES ASSUME Init PROVE OrderInv
  OBVIOUS
<1>1. Line = <<>>
  BY EmptySeq, ConcatEmptySeq DEF Init, Line
<1> QED
  BY <1>1 DEF OrderInv, Ordered, Called

LEMMA OrderPush ==
  ASSUME QInv, Counted, OrderInv, NEW p \in Producers, Push(p)
  PROVE  OrderInv'
<1> DEFINE line == (delivered \o running) \o MakeRoom(queue)
           t == TaskOf(p)
<1>1. /\ delivered \o running \in Seq(Task)
      /\ MakeRoom(queue) \in Seq(Task)
      /\ t \in Task
      /\ Line' = Append(line, t)
  BY LineOfPush
<1>2. line \in Seq(Task)
  BY <1>1, ConcatProperties
<1>3. Ordered(line) /\ Called(line)
  <2>1. CASE MakeRoom(queue) = queue
    BY <2>1 DEF OrderInv, Line
  <2>2. CASE MakeRoom(queue) # queue
    <3>1. queue \in Seq(Task) /\ queue # <<>> /\ MakeRoom(queue) = Tail(queue)
      BY <2>2 DEF MakeRoom, QInv, TypeOK
    <3>2. Ordered((delivered \o running) \o queue) /\ Called((delivered \o running) \o queue)
      BY DEF OrderInv, Line
    <3> QED
      BY <1>1, <3>1, <3>2, DropKeepsOrder
  <2> QED
    BY <2>1, <2>2
<1>4. caller[p] = "open" /\ calls' = calls /\ caller' = [caller EXCEPT ![p] = "pushed"]
  BY DEF Push
<1>5. t.from = p /\ t.num = calls[p]
  BY DEF TaskOf
<1> HIDE DEF line, t
<1>6. \A i \in DOMAIN line : line[i].from = t.from => line[i].num < t.num
  BY <1>3, <1>4, <1>5 DEF Called
<1>7. Ordered(Line')
  BY <1>1, <1>2, <1>3, <1>6, AppendKeepsOrder
<1>8. Called(Line)'
  <2>1. /\ Append(line, t) \in Seq(Task)
        /\ Len(Append(line, t)) = Len(line) + 1
        /\ \A i \in 1..Len(line) : Append(line, t)[i] = line[i]
        /\ Append(line, t)[Len(line) + 1] = t
    BY <1>1, <1>2, AppendProperties
  <2>2. DOMAIN line = 1..Len(line) /\ Len(line) \in Nat
        /\ DOMAIN Append(line, t) = 1..(Len(line) + 1)
    BY <1>2, <2>1, LenProperties
  <2>3. caller \in [Producers -> {"idle", "open", "pushed"}] /\ calls \in [Producers -> Nat]
    BY CallBound DEF QInv, TypeOK
  <2>4. ASSUME NEW i \in DOMAIN Append(line, t)
        PROVE  /\ Append(line, t)[i].num <= calls'[Append(line, t)[i].from]
               /\ caller'[Append(line, t)[i].from] = "open" =>
                    Append(line, t)[i].num < calls'[Append(line, t)[i].from]
    <3>1. CASE i = Len(line) + 1
      BY <3>1, <2>1, <2>3, <1>4, <1>5
    <3>2. CASE i # Len(line) + 1
      <4>1. i \in DOMAIN line /\ Append(line, t)[i] = line[i]
        BY <3>2, <2>1, <2>2
      <4>2. line[i].from \in Producers
        BY <4>1, <1>2, EntryIsTask
      <4> QED
        BY <4>1, <4>2, <1>3, <1>4, <2>3 DEF Called
    <3> QED
      BY <3>1, <3>2
  <2> QED
    BY <2>4, <1>1 DEF Called
<1> QED
  BY <1>7, <1>8 DEF OrderInv, Ordered

LEMMA OrderStep == QInv /\ Counted /\ OrderInv /\ [ControlNext]_vars => OrderInv'
<1> SUFFICES ASSUME QInv, Counted, OrderInv, [ControlNext]_vars PROVE OrderInv'
  OBVIOUS
<1>0. /\ caller \in [Producers -> {"idle", "open", "pushed"}]
      /\ calls \in [Producers -> Nat]
  BY CallBound DEF QInv, TypeOK
<1>1. CASE UNCHANGED <<caller, calls>> /\ Line' = Line
  BY <1>1 DEF OrderInv, Ordered, Called
<1>2. ASSUME NEW p \in Producers, CheckOpen(p) PROVE OrderInv'
  <2>1. Line' = Line
    BY <1>2 DEF CheckOpen, Line
  <2>2. ASSUME NEW i \in DOMAIN Line
        PROVE  /\ Line[i].num <= calls'[Line[i].from]
               /\ caller'[Line[i].from] = "open" => Line[i].num < calls'[Line[i].from]
    <3>2. Line[i].from \in Producers /\ Line[i].num \in Nat
      BY LineIsSeq, EntryIsTask
    <3>1. Line[i].num <= calls[Line[i].from]
          /\ (caller[Line[i].from] = "open" => Line[i].num < calls[Line[i].from])
      BY DEF OrderInv, Called
    <3> QED
      BY <1>0, <1>2, <3>1, <3>2 DEF CheckOpen
  <2> QED
    BY <2>1, <2>2 DEF OrderInv, Ordered, Called
<1>3. ASSUME NEW p \in Producers, Push(p) PROVE OrderInv'
  BY <1>3, OrderPush
<1>4. ASSUME NEW p \in Producers, Signal(p) PROVE OrderInv'
  <2>1. Line' = Line /\ calls' = calls /\ caller' = [caller EXCEPT ![p] = "idle"]
    BY <1>4 DEF Signal, Line
  <2>2. \A q \in Producers : caller'[q] = "open" => caller[q] = "open"
    BY <1>0, <2>1
  <2>3. \A i \in DOMAIN Line : Line[i].from \in Producers
    BY LineIsSeq, EntryIsTask
  <2> QED
    BY <2>1, <2>2, <2>3 DEF OrderInv, Ordered, Called
<1>5. CASE Pop
  BY <1>1, <1>5, LineOfPop DEF Pop
<1>6. CASE RunTask
  BY <1>1, <1>6, LineOfRunTask DEF RunTask
<1>7. CASE Clear
  <2>1. delivered \o running \in Seq(Task) /\ queue \in Seq(Task)
    BY LineIsSeq DEF QInv, TypeOK
  <2>2. Line' = delivered \o running
    BY <1>7, <2>1, ConcatEmptySeq DEF Clear, Line
  <2>3. Ordered(delivered \o running) /\ Called(delivered \o running)
    BY <2>1, CutKeepsOrder DEF OrderInv, Line
  <2> QED
    BY <1>7, <2>2, <2>3 DEF Clear, OrderInv, Ordered, Called
<1>8. CASE Wake \/ Finish \/ Close \/ SetCapacity \/ UNCHANGED vars
  BY <1>1, <1>8 DEF Wake, Finish, Close, SetCapacity, vars, Line
<1> QED
  BY <1>2, <1>3, <1>4, <1>5, <1>6, <1>7, <1>8
  DEF ControlNext, Next, AsyncCall, OnEvent

(* Tasks of one engine thread reach the JavaScript thread in the order of  *)
(* its calls, none twice, whatever the other threads, an overflow, close   *)
(* and clear do (node_async_queue.h:51-109).                               *)
THEOREM CallOrderKept == ControlSpec => []InCallOrder
<1>1. ControlSpec => [](QInv /\ Counted)
  BY AlwaysQInv
<1>2. OrderInv => InCallOrder
  BY DEF OrderInv, Ordered, InCallOrder
<1> QED
  BY <1>1, <1>2, OrderInit, OrderStep, PTL DEF ControlSpec

-----------------------------------------------------------------------------
(* What withdrawing the first task of the second part, or all of it, does  *)
(* to a line, in the words of the channel.                                 *)
LEMMA CutLine ==
  ASSUME NEW a \in Seq(Task), NEW c \in Seq(Task)
  PROVE  /\ SubSeq(a \o c, 1, Len(a)) = a
         /\ c # <<>> => SubSeq(a \o c, Len(a) + 2, Len(a \o c)) = Tail(c)
<1>1. /\ a \o c \in Seq(Task)
      /\ Len(a \o c) = Len(a) + Len(c)
      /\ \A i \in 1..(Len(a) + Len(c)) : (a \o c)[i] =
             IF i <= Len(a) THEN a[i] ELSE c[i - Len(a)]
  BY ConcatProperties
<1>2. Len(a) \in Nat /\ Len(c) \in Nat
  BY LenProperties
<1>3. SubSeq(a \o c, 1, Len(a)) = a
  <2> DEFINE cut == SubSeq(a \o c, 1, Len(a))
  <2>1. /\ cut \in Seq(Task)
        /\ Len(cut) = Len(a)
        /\ \A i \in 1..Len(a) : cut[i] = (a \o c)[1 + i - 1]
    <3>1. \A i \in 1..Len(a) : i \in 1..Len(a \o c)
      BY <1>1, <1>2
    <3>2. \A i \in 1..Len(a) : (a \o c)[i] \in Task
      BY <1>1, <3>1, ElementOfSeq
    <3> QED
      BY <1>2, <3>2, SubSeqProperties
  <2>2. \A i \in 1..Len(cut) : cut[i] = a[i]
    BY <1>1, <1>2, <2>1
  <2> HIDE DEF cut
  <2>3. cut = a
    BY <2>1, <2>2, SeqEqual
  <2> QED
    BY <2>3 DEF cut
<1>4. ASSUME c # <<>> PROVE SubSeq(a \o c, Len(a) + 2, Len(a \o c)) = Tail(c)
  <2> DEFINE rest == SubSeq(a \o c, Len(a) + 2, Len(a \o c))
  <2>1. Len(c) > 0
    BY <1>2, <1>4, EmptySeq
  <2>2. /\ Tail(c) \in Seq(Task)
        /\ Len(Tail(c)) = Len(c) - 1
        /\ \A i \in 1..Len(Tail(c)) : Tail(c)[i] = c[i + 1]
    BY <1>4, HeadTailProperties
  <2>3. /\ rest \in Seq(Task)
        /\ Len(rest) = Len(c) - 1
        /\ \A i \in 1..(Len(c) - 1) : rest[i] = (a \o c)[(Len(a) + 2) + i - 1]
    <3>1. \A i \in (Len(a) + 2)..Len(a \o c) : (a \o c)[i] \in Task
      <4> SUFFICES ASSUME NEW i \in (Len(a) + 2)..Len(a \o c)
                   PROVE  (a \o c)[i] \in Task
        OBVIOUS
      <4>1. i \in 1..Len(a \o c)
        BY <1>1, <1>2
      <4> QED
        BY <1>1, <4>1, ElementOfSeq
    <3>2. Len(a) + 2 \in Int /\ Len(a \o c) \in Int
      BY <1>1, <1>2
    <3>3. /\ rest \in Seq(Task)
          /\ Len(rest) = IF Len(a) + 2 <= Len(a \o c)
                         THEN Len(a \o c) - (Len(a) + 2) + 1 ELSE 0
          /\ \A i \in 1..(Len(a \o c) - (Len(a) + 2) + 1) :
               rest[i] = (a \o c)[(Len(a) + 2) + i - 1]
      BY <3>1, <3>2, SubSeqProperties
    <3> HIDE DEF rest
    <3>4. Len(a \o c) - (Len(a) + 2) + 1 = Len(c) - 1
      BY <1>1, <1>2
    <3>5. CASE Len(a) + 2 <= Len(a \o c)
      BY <3>3, <3>4, <3>5
    <3>6. CASE ~(Len(a) + 2 <= Len(a \o c))
      <4>1. Len(rest) = 0
        BY <3>3, <3>6
      <4>2. Len(a \o c) = Len(a) + Len(c)
        BY <1>1
      <4>3. ASSUME NEW k \in Nat, NEW l \in Nat, l > 0, ~(k + 2 <= k + l)
            PROVE  l - 1 = 0
        BY <4>3
      <4>4. ~(Len(a) + 2 <= Len(a) + Len(c))
        BY <3>6, <4>2
      <4>5. Len(c) - 1 = 0
        BY <1>2, <2>1, <4>3, <4>4
      <4> QED
        BY <3>3, <3>4, <4>1, <4>5
    <3> QED
      BY <3>5, <3>6
  <2>4. \A i \in 1..(Len(c) - 1) : (a \o c)[(Len(a) + 2) + i - 1] = c[i + 1]
    <3> SUFFICES ASSUME NEW i \in 1..(Len(c) - 1)
                 PROVE  (a \o c)[(Len(a) + 2) + i - 1] = c[i + 1]
      OBVIOUS
    <3> DEFINE j == (Len(a) + 2) + i - 1
    <3>1. j \in 1..(Len(a) + Len(c)) /\ ~(j <= Len(a)) /\ j - Len(a) = i + 1
      BY <1>2, <2>1
    <3> HIDE DEF j
    <3>2. (a \o c)[j] = c[j - Len(a)]
      BY <1>1, <3>1
    <3> QED
      BY <3>1, <3>2 DEF j
  <2> HIDE DEF rest
  <2>5. \A i \in 1..Len(rest) : rest[i] = Tail(c)[i]
    BY <2>2, <2>3, <2>4
  <2>6. rest = Tail(c)
    BY <2>2, <2>3, <2>5, SeqEqual
  <2> QED
    BY <2>6 DEF rest
<1> QED
  BY <1>3, <1>4

(* The tasks before the queue, counted as the channel counts them. *)
LEMMA Begun ==
  ASSUME QInv
  PROVE  /\ delivered \o running \in Seq(Task) /\ queue \in Seq(Task)
         /\ Len(running) \in 0..1
         /\ Len(delivered \o running) = Len(delivered) + Len(running)
         /\ Len(delivered) \in Nat /\ Len(queue) \in Nat
         /\ Len(Line) = Len(delivered) + Len(running) + Len(queue)
<1>1. delivered \in Seq(Task) /\ running \in Seq(Task) /\ queue \in Seq(Task)
  BY DEF QInv, TypeOK
<1>2. Len(running) = 0 \/ Len(running) = 1
  BY EmptySeq DEF QInv, OneRunning
<1>3. /\ delivered \o running \in Seq(Task)
      /\ Len(delivered \o running) = Len(delivered) + Len(running)
  BY <1>1, ConcatProperties
<1>4. Len(Line) = Len(delivered \o running) + Len(queue)
  BY <1>1, <1>3, ConcatProperties DEF Line
<1> QED
  BY <1>1, <1>2, <1>3, <1>4, LenProperties

LEMMA ChannelPush ==
  ASSUME QInv, Counted, NEW p \in Producers, Push(p)
  PROVE  Channel!Accept \/ Channel!Displace
<1> DEFINE a == delivered \o running
           t == TaskOf(p)
<1>1. /\ a \in Seq(Task) /\ t \in Task
      /\ Line' = Append(a \o MakeRoom(queue), t)
      /\ Line' = a \o Append(MakeRoom(queue), t)
  BY LineOfPush
<1>2. UNCHANGED <<delivered, capacity, cleared>>
  BY DEF Push
<1>3. CASE capacity > 0 /\ Len(queue) > capacity
  <2>1. capacity \in Nat
    BY DEF QInv, TypeOK
  <2>2. queue # <<>>
    BY <1>3, <2>1, Begun, EmptySeq
  <2>3. MakeRoom(queue) = Tail(queue)
    BY <1>3 DEF MakeRoom
  <2>4. /\ SubSeq(a \o queue, 1, Len(a)) = a
        /\ SubSeq(a \o queue, Len(a) + 2, Len(a \o queue)) = Tail(queue)
    BY <2>2, Begun, CutLine
  <2>5. /\ Len(a) = Len(delivered) + Len(running)
        /\ Len(running) \in 0..1
        /\ Len(Line) - Len(delivered) > capacity
    BY <1>3, <2>1, Begun
  <2>6. Line = a \o queue
    BY DEF Line
  <2>7. Line' = SubSeq(Line, 1, Len(delivered) + Len(running))
                \o Append(SubSeq(Line, Len(delivered) + Len(running) + 2, Len(Line)), t)
    BY <1>1, <2>3, <2>4, <2>5, <2>6
  <2> HIDE DEF a, t
  <2> QED
    BY <1>1, <1>2, <1>3, <2>5, <2>7 DEF Channel!Displace, Channel!OutOfReach
<1>4. CASE ~(capacity > 0 /\ Len(queue) > capacity)
  <2>1. MakeRoom(queue) = queue
    BY <1>4 DEF MakeRoom
  <2>2. Line' = Append(Line, t)
    BY <1>1, <2>1 DEF Line
  <2> HIDE DEF a, t
  <2> QED
    BY <1>1, <1>2, <2>2 DEF Channel!Accept
<1> QED
  BY <1>3, <1>4

LEMMA ChannelRun == ASSUME QInv, RunTask PROVE Channel!Complete
<1>1. Line' = Line /\ UNCHANGED <<capacity, cleared>>
  BY LineOfRunTask DEF RunTask
<1>2. Len(running) = 1
  BY DEF RunTask, QInv, OneRunning
<1>3. Len(delivered) < Len(Line) /\ Len(delivered \o running) = Len(delivered) + 1
  BY <1>2, Begun
<1>4. Len(delivered') = Len(delivered) + 1
  BY <1>3 DEF RunTask
<1> QED
  BY <1>1, <1>3, <1>4 DEF Channel!Complete

LEMMA ChannelClear == ASSUME QInv, Clear PROVE Channel!Clear
<1> DEFINE a == delivered \o running
<1>1. a \in Seq(Task) /\ Len(a) = Len(delivered) + Len(running)
      /\ Len(running) \in 0..1
  BY Begun
<1>2. SubSeq(Line, 1, Len(a)) = a
  BY Begun, CutLine DEF Line
<1>3. Line' = a
  BY <1>1, ConcatEmptySeq DEF Clear, Line
<1> HIDE DEF a
<1>4. Line' = SubSeq(Line, 1, Len(delivered) + Len(running))
  BY <1>1, <1>2, <1>3
<1> QED
  BY <1>1, <1>4 DEF Clear, Channel!Clear, Channel!OutOfReach

LEMMA ChannelStep ==
  QInv /\ Counted /\ [ControlNext]_vars => [Channel!Next]_(Channel!channelVars)
<1> SUFFICES ASSUME QInv, Counted, [ControlNext]_vars
             PROVE  [Channel!Next]_(Channel!channelVars)
  OBVIOUS
<1>1. CASE Line' = Line /\ UNCHANGED <<delivered, capacity, cleared>>
  BY <1>1 DEF Channel!channelVars
<1>2. ASSUME NEW p \in Producers, Push(p)
      PROVE  [Channel!Next]_(Channel!channelVars)
  BY <1>2, ChannelPush DEF Channel!Next, Channel!Lossless
<1>3. CASE Pop
  BY <1>1, <1>3, LineOfPop DEF Pop
<1>4. CASE RunTask
  BY <1>4, ChannelRun DEF Channel!Next, Channel!Lossless
<1>5. CASE Clear
  BY <1>5, ChannelClear DEF Channel!Next
<1>6. CASE SetCapacity
  <2>1. capacity' \in Nat /\ UNCHANGED <<delivered, running, queue, cleared>>
    BY <1>6, CapacitiesAreSizes DEF SetCapacity
  <2>2. Line' = Line
    BY <2>1 DEF Line
  <2> QED
    BY <2>1, <2>2 DEF Channel!Next, Channel!SetLimit
<1>7. CASE \/ \E p \in Producers : CheckOpen(p) \/ Signal(p)
           \/ Wake \/ Finish \/ Close \/ UNCHANGED vars
  BY <1>1, <1>7 DEF CheckOpen, Signal, Wake, Finish, Close, vars, Line
<1> QED
  BY <1>2, <1>3, <1>4, <1>5, <1>6, <1>7
  DEF ControlNext, Next, AsyncCall, OnEvent

LEMMA ChannelInit == Init => Channel!Init
  BY EmptySeq, ConcatEmptySeq DEF Init, Channel!Init, Line

(* The queue implements the safety of its channel, whatever capacity is    *)
(* set and whenever it is closed or cleared: a task is run at most once    *)
(* and in order, only an overflow or clear withdraws one, and never the    *)
(* one that runs (its liveness is checked by TLC).                         *)
THEOREM QueueIsChannel == ControlSpec => Channel!Safe
  BY AlwaysQInv, ChannelInit, ChannelStep, PTL DEF ControlSpec, Channel!Safe

-----------------------------------------------------------------------------
(* The queue as the program uses it: no capacity is ever set. *)
Unbounded == capacity = 0

LEMMA UnboundedStep == Unbounded /\ [Next]_vars => Unbounded'
  BY DEF Unbounded, Next, AsyncCall, CheckOpen, Push, Signal, OnEvent, Wake, Pop,
         RunTask, Finish, vars

LEMMA NextIsControl == [Next]_vars => [ControlNext]_vars
  BY DEF ControlNext

LEMMA LosslessStep ==
  QInv /\ Counted /\ Unbounded /\ [Next]_vars
    => [Channel!Lossless]_(Channel!channelVars)
<1> SUFFICES ASSUME QInv, Counted, Unbounded, [Next]_vars
             PROVE  [Channel!Lossless]_(Channel!channelVars)
  OBVIOUS
<1>1. CASE Line' = Line /\ UNCHANGED <<delivered, capacity, cleared>>
  BY <1>1 DEF Channel!channelVars
<1>2. ASSUME NEW p \in Producers, Push(p)
      PROVE  [Channel!Lossless]_(Channel!channelVars)
  <2>1. ~Channel!Displace
    BY DEF Channel!Displace, Unbounded
  <2> QED
    BY <1>2, <2>1, ChannelPush DEF Channel!Lossless
<1>3. CASE Pop
  BY <1>1, <1>3, LineOfPop DEF Pop
<1>4. CASE RunTask
  BY <1>4, ChannelRun DEF Channel!Lossless
<1>5. CASE (\E p \in Producers : CheckOpen(p) \/ Signal(p)) \/ Wake \/ Finish \/ UNCHANGED vars
  BY <1>1, <1>5 DEF CheckOpen, Signal, Wake, Finish, vars, Line
<1> QED
  BY <1>2, <1>3, <1>4, <1>5 DEF Next, AsyncCall, OnEvent

(* As the program uses it the queue loses nothing: every task handed over  *)
(* is run at most once and in order, and none is ever withdrawn.           *)
THEOREM QueueIsLossless == Spec => Channel!LosslessSafe
<1>1. Init => QInv /\ Counted /\ Unbounded
  BY TypeInit, CountedInit DEF Init, Unbounded
<1>2. QInv /\ Counted /\ Unbounded /\ [Next]_vars => (QInv /\ Counted /\ Unbounded)'
  BY TypeStep, CountedStep, UnboundedStep, NextIsControl DEF QInv
<1> QED
  BY <1>1, <1>2, ChannelInit, LosslessStep, PTL DEF Spec, Channel!LosslessSafe

(* The safety of the queue as the program uses it, without close, clear    *)
(* and set_capacity.                                                       *)
THEOREM ServiceQueueSafe == Spec => [](TypeOK /\ NoLostWakeup /\ InCallOrder)
<1> DEFINE Inv == QInv /\ Counted /\ NoLostWakeup /\ OrderInv
<1>1. Init => Inv
  BY TypeInit, CountedInit, WakeupInit, OrderInit
<1>2. Inv /\ [Next]_vars => Inv'
  BY TypeStep, CountedStep, WakeupStep, OrderStep, NextIsControl DEF QInv
<1>3. Inv => TypeOK /\ NoLostWakeup /\ InCallOrder
  BY DEF QInv, OrderInv, Ordered, InCallOrder
<1> HIDE DEF Inv
<1> QED
  BY <1>1, <1>2, <1>3, PTL DEF Spec
=============================================================================
