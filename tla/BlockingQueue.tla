--------------------------- MODULE BlockingQueue ---------------------------
(***************************************************************************)
(* BlockingQueue<T>: a queue under a mutex with a condition variable.       *)
(* Threads interleave at every lock, unlock, wait and wake-up, and inside a *)
(* critical section between reading the front and removing it.              *)
(* A thread that polls follows the loops of DTXConnection: it calls         *)
(* WaitToTake and, when that returns true, Take.                            *)
(***************************************************************************)
EXTENDS Integers, Sequences

CONSTANTS
  Threads, Nobody,
  NoValue,    \* what the local of Take holds when it holds no element
  RoleSets,   \* the programs considered: each gives every thread the operations it uses
  Values,     \* the elements
  MaxPushes   \* bound: number of elements pushed

AllOps == {"push", "take", "poll", "empty", "clear", "destroy"}

ASSUME ConstantsAssumption ==
  /\ Nobody \notin Threads
  /\ RoleSets \subseteq [Threads -> SUBSET AllOps]
  /\ NoValue \notin Values
  /\ MaxPushes \in Nat

VARIABLES
  roles,           \* which operations each thread uses; it never changes
  queue_, mutex_,  \* mutex_ is the thread that holds it, or Nobody
  pc, op,          \* the place of a thread in the operation it executes
  data,            \* the local of Take: the element it moved out
  timedOut,        \* wait_for has returned std::cv_status::timeout
  ready,           \* WaitToTake has returned true and Take has not returned
  pushes,          \* bound: pushes so far
  delivered        \* history: the elements Take has removed

vars == <<roles, queue_, mutex_, pc, op, data, timedOut, ready, pushes, delivered>>

Init ==
  /\ roles \in RoleSets
  /\ queue_ = <<>> /\ mutex_ = Nobody
  /\ pc = [t \in Threads |-> "idle"] /\ op = [t \in Threads |-> "empty"]
  /\ data = [t \in Threads |-> NoValue]
  /\ timedOut = [t \in Threads |-> FALSE] /\ ready = [t \in Threads |-> FALSE]
  /\ pushes = 0 /\ delivered = <<>>

Goto(t, label) == pc' = [pc EXCEPT ![t] = label]

\* The threads in the wait set of not_empty_.
Waiters == {t \in Threads : pc[t] = "wait"}

-----------------------------------------------------------------------------
(* Entering and leaving an operation *)

MayCall(t, o) ==
  IF ready[t] THEN o = "take" ELSE o \in roles[t]

Call(t, o) ==
  /\ pc[t] = "idle" /\ MayCall(t, o)
  /\ o = "push" => pushes < MaxPushes
  /\ pushes' = pushes + (IF o = "push" THEN 1 ELSE 0)
  /\ op' = [op EXCEPT ![t] = o] /\ Goto(t, "lock")
  /\ UNCHANGED <<roles, queue_, mutex_, data, timedOut, ready, delivered>>

MayEnter(t) == mutex_ = Nobody

Lock(t) ==
  /\ pc[t] = "lock" /\ MayEnter(t)
  /\ mutex_' = t /\ Goto(t, "in")
  /\ UNCHANGED <<roles, queue_, op, data, timedOut, ready, pushes, delivered>>

\* The destructor of unique_lock; the operation returns.
Unlock(t) ==
  /\ pc[t] = "out"
  /\ mutex_' = Nobody /\ Goto(t, "idle")
  /\ ready' = [ready EXCEPT ![t] = @ /\ op[t] # "take"]
  /\ UNCHANGED <<roles, queue_, op, data, timedOut, pushes, delivered>>

-----------------------------------------------------------------------------
(* The critical sections *)

NotifyNobody(t) == Goto(t, "out")  \* mutant: no notification
NotifyOne(t) ==                    \* mutant: notify_one
  IF Waiters = {} THEN Goto(t, "out")
  ELSE \E w \in Waiters : pc' = [pc EXCEPT ![t] = "out", ![w] = "relock"]

NotifyAll(t) ==
  pc' = [u \in Threads |->
           IF u = t THEN "out" ELSE IF u \in Waiters THEN "relock" ELSE pc[u]]

Push(t, v) ==
  /\ pc[t] = "in" /\ op[t] = "push"
  /\ queue_' = Append(queue_, v)
  /\ NotifyAll(t)
  /\ UNCHANGED <<roles, mutex_, op, data, timedOut, ready, pushes, delivered>>

\* while (queue_.empty()) not_empty_.wait(...): the mutex is released.
Wait(t) ==
  /\ pc[t] = "in" /\ op[t] \in {"take", "poll"} /\ queue_ = <<>>
  /\ mutex_' = Nobody /\ Goto(t, "wait")
  /\ UNCHANGED <<roles, queue_, op, data, timedOut, ready, pushes, delivered>>

Back(t) == queue_[Len(queue_)]  \* mutant: queue_.back()
Front(t) == Head(queue_)

TakeFront(t) ==
  /\ pc[t] = "in" /\ op[t] = "take" /\ queue_ # <<>>
  /\ data' = [data EXCEPT ![t] = Front(t)] /\ Goto(t, "pop")
  /\ UNCHANGED <<roles, queue_, mutex_, op, timedOut, ready, pushes, delivered>>

TakePop(t) ==
  /\ pc[t] = "pop"
  /\ queue_' = Tail(queue_) /\ delivered' = Append(delivered, data[t])
  /\ data' = [data EXCEPT ![t] = NoValue] /\ Goto(t, "out")
  /\ UNCHANGED <<roles, mutex_, op, timedOut, ready, pushes>>

PollReady(t) ==
  /\ pc[t] = "in" /\ op[t] = "poll" /\ queue_ # <<>>
  /\ ready' = [ready EXCEPT ![t] = TRUE] /\ Goto(t, "out")
  /\ UNCHANGED <<roles, queue_, mutex_, op, data, timedOut, pushes, delivered>>

Empty(t) ==
  /\ pc[t] = "in" /\ op[t] = "empty" /\ Goto(t, "out")
  /\ UNCHANGED <<roles, queue_, mutex_, op, data, timedOut, ready, pushes, delivered>>

\* Clear without a destructor: std::swap with an empty queue.
Clear(t) ==
  /\ pc[t] = "in" /\ op[t] = "clear"
  /\ queue_' = <<>> /\ Goto(t, "out")
  /\ UNCHANGED <<roles, mutex_, op, data, timedOut, ready, pushes, delivered>>

\* Clear with a destructor: one turn of its loop, and its end.
DestroyFront(t) ==
  /\ pc[t] = "in" /\ op[t] = "destroy" /\ queue_ # <<>>
  /\ queue_' = Tail(queue_)
  /\ UNCHANGED <<roles, mutex_, pc, op, data, timedOut, ready, pushes, delivered>>

DestroyEnd(t) ==
  /\ pc[t] = "in" /\ op[t] = "destroy" /\ queue_ = <<>> /\ Goto(t, "out")
  /\ UNCHANGED <<roles, queue_, mutex_, op, data, timedOut, ready, pushes, delivered>>

-----------------------------------------------------------------------------
(* Waking up without a notification *)

Spurious(t) ==
  /\ pc[t] = "wait" /\ Goto(t, "relock")
  /\ UNCHANGED <<roles, queue_, mutex_, op, data, timedOut, ready, pushes, delivered>>

Timeout(t) ==
  /\ pc[t] = "wait" /\ op[t] = "poll"
  /\ timedOut' = [timedOut EXCEPT ![t] = TRUE] /\ Goto(t, "relock")
  /\ UNCHANGED <<roles, queue_, mutex_, op, data, ready, pushes, delivered>>

\* wait and wait_for return with the mutex held.  After a timeout WaitToTake
\* returns false without another look at the queue.
TimeoutNotReady(t) == UNCHANGED ready

Relock(t) ==
  /\ pc[t] = "relock" /\ mutex_ = Nobody
  /\ mutex_' = t
  /\ Goto(t, IF timedOut[t] THEN "out" ELSE "in")
  /\ timedOut' = [timedOut EXCEPT ![t] = FALSE]
  /\ TimeoutNotReady(t)
  /\ UNCHANGED <<roles, queue_, op, data, pushes, delivered>>

-----------------------------------------------------------------------------
Work(t) ==
  \/ Lock(t) \/ Unlock(t) \/ Relock(t)
  \/ \E v \in Values : Push(t, v)
  \/ Wait(t) \/ TakeFront(t) \/ TakePop(t) \/ PollReady(t)
  \/ Empty(t) \/ Clear(t) \/ DestroyFront(t) \/ DestroyEnd(t)

Step(t) ==
  \/ \E o \in AllOps : Call(t, o)
  \/ Work(t)
  \/ Spurious(t) \/ Timeout(t)

Next == \E t \in Threads : Step(t)

Spec == Init /\ [][Next]_vars

\* A thread inside an operation goes on when it can.  The mutex is not fair, but
\* it does not keep one thread out for ever: a thread that asks for it again and
\* again gets it (strong fairness).  A polling thread loops: it calls WaitToTake
\* again, and Take when it was told that the queue is ready.  Nobody has to call
\* anything else, and no wait has to time out or to wake up by itself.
Fairness ==
  \A t \in Threads :
    /\ WF_vars(Work(t))
    /\ SF_vars(Lock(t)) /\ SF_vars(Relock(t))
    /\ WF_vars(Call(t, "poll")) /\ WF_vars(ready[t] /\ Call(t, "take"))

FairSpec == Spec /\ Fairness

-----------------------------------------------------------------------------
(* Properties *)

Inside == {"in", "pop", "out"}

Removes == {"take", "poll", "clear", "destroy"}
OneConsumer ==
  \E c \in Threads : \A t \in Threads : roles[t] \cap Removes # {} <=> t = c

\* Every variable has its type.
TypeOK ==
  /\ roles \in RoleSets
  /\ queue_ \in Seq(Values) /\ mutex_ \in Threads \cup {Nobody}
  /\ pc \in [Threads -> {"idle", "lock", "wait", "relock"} \cup Inside]
  /\ op \in [Threads -> AllOps] /\ data \in [Threads -> Values \cup {NoValue}]
  /\ timedOut \in [Threads -> BOOLEAN] /\ ready \in [Threads -> BOOLEAN]
  /\ pushes \in Nat /\ delivered \in Seq(Values)

\* No thread sleeps in not_empty_ while the queue has elements and nobody is in a
\* critical section: Push wakes every waiter and each looks again (Take, WaitToTake).
NoLostWakeup == mutex_ = Nobody /\ queue_ # <<>> => Waiters = {}

\* WaitToTake returned true ("the queue is not empty, and ready to take") and
\* Take finds it so, as long as no other thread removes elements.
ReadyToTake ==
  OneConsumer =>
    \A t \in Threads : pc[t] = "in" /\ op[t] = "take" /\ ready[t] => queue_ # <<>>

\* With the loop of DTXConnection as the only consumer, what is pushed is taken,
\* although every wait may end without a notification.
EverythingIsTaken ==
  (OneConsumer /\ \E t \in Threads : roles[t] = {"poll"}) => []<>(queue_ = <<>>)

\* The queue implements a first-in first-out queue: Take removes what it read
\* in the step before, although front() and pop() are two steps.
Fifo == INSTANCE FifoQueue WITH items <- queue_
ImplementsFifo == Fifo!Spec

=============================================================================
