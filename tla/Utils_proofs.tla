---------------------------- MODULE Utils_proofs ----------------------------
(***************************************************************************)
(* Theorems about the classes of include/idevice/utils that the rest of the *)
(* library is built on: BlockingQueue, for every set of threads, every      *)
(* assignment of operations to them, every set of elements and every number *)
(* of them; BufferMemory, for every alignment, every size of packets and    *)
(* streams of any length.  They share no variable.                          *)
(***************************************************************************)
EXTENDS BlockingQueue, BufferMemory, SequenceTheorems, TLAPS

-----------------------------------------------------------------------------
(* BlockingQueue *)

Labels == {"idle", "lock", "wait", "relock"} \cup Inside

\* Between front() and pop() the queue is as the thread read it.
FrontHeld ==
  \A t \in Threads :
    pc[t] = "pop" => op[t] = "take" /\ queue_ # <<>> /\ data[t] = Head(queue_)

\* The mutex excludes: who is inside a critical section holds it.
MutexHeld == \A t \in Threads : pc[t] \in Inside => mutex_ = t

Safe == TypeOK /\ MutexHeld /\ FrontHeld

\* Stronger than NoLostWakeup, and inductive: no thread sleeps while there are
\* elements, not even while another one is in a critical section.
NoSleeper == queue_ # <<>> => Waiters = {}

\* How a thread that was told "ready to take" goes on.
ReadyPath ==
  \A t \in Threads :
    /\ ready[t] => "poll" \in roles[t]
    /\ ready[t] => op[t] = "take" \/ (op[t] = "poll" /\ pc[t] \in {"out", "idle"})
    /\ pc[t] # "idle" => op[t] \in roles[t] \/ (ready[t] /\ op[t] = "take")

\* Until it has taken, the queue is not empty.
ReadyKept ==
  OneConsumer =>
    \A t \in Threads :
      ready[t] /\ ~(op[t] = "take" /\ pc[t] = "out") => queue_ # <<>>

-----------------------------------------------------------------------------
(* Types *)

\* Moving a thread to a place, alone or together with the waiters, keeps the
\* places of all threads in their type.
LEMMA PlaceTypes ==
  ASSUME TypeOK, NEW t \in Threads, NEW label \in Labels
  PROVE  /\ Goto(t, label) => pc' \in [Threads -> Labels]
         /\ NotifyAll(t) => pc' \in [Threads -> Labels]
<1>1. "out" \in Labels /\ "relock" \in Labels /\ pc \in [Threads -> Labels]
  BY DEF TypeOK, Labels, Inside
<1> QED BY <1>1 DEF Goto, NotifyAll

\* A step is one of the actions.
LEMMA Actions ==
  ASSUME NEW t \in Threads, Step(t)
  PROVE  \/ \E o \in AllOps : Call(t, o)
         \/ Lock(t) \/ Unlock(t) \/ Relock(t)
         \/ \E v \in Values : Push(t, v)
         \/ Wait(t) \/ TakeFront(t) \/ TakePop(t) \/ PollReady(t)
         \/ Empty(t) \/ Clear(t) \/ DestroyFront(t) \/ DestroyEnd(t)
         \/ Spurious(t) \/ Timeout(t)
BY DEF Step, Work

LEMMA TypeInit == Init => TypeOK
<1> SUFFICES ASSUME Init PROVE TypeOK
  OBVIOUS
<1>1. roles \in RoleSets /\ mutex_ \in Threads \cup {Nobody} /\ pushes \in Nat
  BY DEF Init
<1>2. queue_ \in Seq(Values) /\ delivered \in Seq(Values)
  BY EmptySeq DEF Init
<1>3. pc \in [Threads -> {"idle", "lock", "wait", "relock"} \cup Inside]
  BY DEF Init
<1>4. op \in [Threads -> AllOps] /\ data \in [Threads -> Values \cup {NoValue}]
  BY DEF Init, AllOps
<1>5. timedOut \in [Threads -> BOOLEAN]
  BY DEF Init
<1>6. ready \in [Threads -> BOOLEAN]
  BY DEF Init
<1> QED BY <1>1, <1>2, <1>3, <1>4, <1>5, <1>6 DEF TypeOK

LEMMA TypeStep == TypeOK /\ FrontHeld /\ [Next]_vars => TypeOK'
<1> SUFFICES ASSUME TypeOK, FrontHeld, [Next]_vars PROVE TypeOK'
  OBVIOUS
<1>l. \A label \in {"idle", "lock", "wait", "relock", "in", "pop", "out"} : label \in Labels
  BY DEF Labels, Inside
<1>t. pc' \in [Threads -> Labels] => pc' \in [Threads -> {"idle", "lock", "wait", "relock"} \cup Inside]
  BY DEF Labels
<1>1. ASSUME NEW t \in Threads, NEW o \in AllOps, Call(t, o) PROVE TypeOK'
  <2>1. pc' \in [Threads -> Labels]
    BY <1>1, <1>l, PlaceTypes DEF Call
  <2>2. op' \in [Threads -> AllOps] /\ pushes' \in Nat
    BY <1>1 DEF Call, TypeOK
  <2> QED BY <1>1, <1>t, <2>1, <2>2 DEF Call, TypeOK
<1>2. ASSUME NEW t \in Threads, Lock(t) PROVE TypeOK'
  <2>1. pc' \in [Threads -> Labels]
    BY <1>2, <1>l, PlaceTypes DEF Lock
  <2> QED BY <1>2, <1>t, <2>1 DEF Lock, TypeOK
<1>3. ASSUME NEW t \in Threads, Unlock(t) PROVE TypeOK'
  <2>1. pc' \in [Threads -> Labels]
    BY <1>3, <1>l, PlaceTypes DEF Unlock
  <2>2. ready' \in [Threads -> BOOLEAN]
    BY <1>3 DEF Unlock, TypeOK
  <2> QED BY <1>3, <1>t, <2>1, <2>2 DEF Unlock, TypeOK
<1>4. ASSUME NEW t \in Threads, Relock(t) PROVE TypeOK'
  <2>1. pc' \in [Threads -> Labels]
    BY <1>4, <1>l, PlaceTypes DEF Relock
  <2>2. timedOut' \in [Threads -> BOOLEAN]
    BY <1>4 DEF Relock, TypeOK
  <2>3. UNCHANGED ready
    BY <1>4 DEF Relock, TimeoutNotReady
  <2> QED BY <1>4, <1>t, <2>1, <2>2, <2>3 DEF Relock, TypeOK
<1>5. ASSUME NEW t \in Threads, NEW v \in Values, Push(t, v) PROVE TypeOK'
  <2>1. pc' \in [Threads -> Labels]
    BY <1>5, <1>l, PlaceTypes DEF Push
  <2>2. queue_' \in Seq(Values)
    BY <1>5, AppendProperties DEF Push, TypeOK
  <2> QED BY <1>5, <1>t, <2>1, <2>2 DEF Push, TypeOK
<1>6. ASSUME NEW t \in Threads, Wait(t) PROVE TypeOK'
  <2>1. pc' \in [Threads -> Labels]
    BY <1>6, <1>l, PlaceTypes DEF Wait
  <2> QED BY <1>6, <1>t, <2>1 DEF Wait, TypeOK
<1>7. ASSUME NEW t \in Threads, TakeFront(t) PROVE TypeOK'
  <2>1. pc' \in [Threads -> Labels]
    BY <1>7, <1>l, PlaceTypes DEF TakeFront
  <2>2. Head(queue_) \in Values
    BY <1>7, HeadTailProperties DEF TakeFront, TypeOK
  <2>3. data' \in [Threads -> Values \cup {NoValue}]
    BY <1>7, <2>2 DEF TakeFront, Front, TypeOK
  <2> QED BY <1>7, <1>t, <2>1, <2>2, <2>3 DEF TakeFront, TypeOK
<1>8. ASSUME NEW t \in Threads, TakePop(t) PROVE TypeOK'
  <2>1. pc' \in [Threads -> Labels]
    BY <1>8, <1>l, PlaceTypes DEF TakePop
  <2>2. queue_ # <<>> /\ data[t] = Head(queue_)
    BY <1>8 DEF TakePop, FrontHeld
  <2>3. Head(queue_) \in Values /\ Tail(queue_) \in Seq(Values)
    BY <2>2, HeadTailProperties DEF TypeOK
  <2>4. queue_' \in Seq(Values)
    BY <1>8, <2>3 DEF TakePop
  <2>5. delivered' \in Seq(Values)
    BY <1>8, <2>2, <2>3, AppendProperties DEF TakePop, TypeOK
  <2>6. data' \in [Threads -> Values \cup {NoValue}]
    BY <1>8 DEF TakePop, TypeOK
  <2> QED BY <1>8, <1>t, <2>1, <2>2, <2>3, <2>4, <2>5, <2>6 DEF TakePop, TypeOK
<1>9. ASSUME NEW t \in Threads, PollReady(t) PROVE TypeOK'
  <2>1. pc' \in [Threads -> Labels]
    BY <1>9, <1>l, PlaceTypes DEF PollReady
  <2>2. ready' \in [Threads -> BOOLEAN]
    BY <1>9 DEF PollReady, TypeOK
  <2> QED BY <1>9, <1>t, <2>1, <2>2 DEF PollReady, TypeOK
<1>10. ASSUME NEW t \in Threads, Empty(t) PROVE TypeOK'
  <2>1. pc' \in [Threads -> Labels]
    BY <1>10, <1>l, PlaceTypes DEF Empty
  <2> QED BY <1>10, <1>t, <2>1 DEF Empty, TypeOK
<1>11. ASSUME NEW t \in Threads, Clear(t) PROVE TypeOK'
  <2>1. pc' \in [Threads -> Labels]
    BY <1>11, <1>l, PlaceTypes DEF Clear
  <2>2. queue_' \in Seq(Values)
    BY <1>11, EmptySeq DEF Clear
  <2> QED BY <1>11, <1>t, <2>1, <2>2 DEF Clear, TypeOK
<1>12. ASSUME NEW t \in Threads, DestroyFront(t) PROVE TypeOK'
  <2>1. pc' = pc
    BY <1>12 DEF DestroyFront
  <2>2. queue_' \in Seq(Values)
    BY <1>12, HeadTailProperties DEF DestroyFront, TypeOK
  <2> QED BY <1>12, <2>1, <2>2 DEF DestroyFront, TypeOK
<1>13. ASSUME NEW t \in Threads, DestroyEnd(t) PROVE TypeOK'
  <2>1. pc' \in [Threads -> Labels]
    BY <1>13, <1>l, PlaceTypes DEF DestroyEnd
  <2> QED BY <1>13, <1>t, <2>1 DEF DestroyEnd, TypeOK
<1>14. ASSUME NEW t \in Threads, Spurious(t) PROVE TypeOK'
  <2>1. pc' \in [Threads -> Labels]
    BY <1>14, <1>l, PlaceTypes DEF Spurious
  <2> QED BY <1>14, <1>t, <2>1 DEF Spurious, TypeOK
<1>15. ASSUME NEW t \in Threads, Timeout(t) PROVE TypeOK'
  <2>1. pc' \in [Threads -> Labels]
    BY <1>15, <1>l, PlaceTypes DEF Timeout
  <2>2. timedOut' \in [Threads -> BOOLEAN]
    BY <1>15 DEF Timeout, TypeOK
  <2> QED BY <1>15, <1>t, <2>1, <2>2 DEF Timeout, TypeOK
<1>16. CASE UNCHANGED vars
  BY <1>16 DEF vars, TypeOK
<1> QED BY <1>1, <1>2, <1>3, <1>4, <1>5, <1>6, <1>7, <1>8, <1>9, <1>10, <1>11, <1>12, <1>13, <1>14, <1>15, <1>16, Actions DEF Next

\* The type invariant of the actions' pc, in the form the next lemmas use.
LEMMA Places ==
  ASSUME TypeOK
  PROVE  /\ pc \in [Threads -> Labels] /\ op \in [Threads -> AllOps]
         /\ data \in [Threads -> Values \cup {NoValue}]
         /\ queue_ \in Seq(Values)
BY DEF TypeOK, Labels

-----------------------------------------------------------------------------
(* Mutual exclusion, and what the holder of the mutex knows *)

LEMMA MutexStep == TypeOK /\ MutexHeld /\ [Next]_vars => MutexHeld'
<1> SUFFICES ASSUME TypeOK, MutexHeld, [Next]_vars PROVE MutexHeld'
  OBVIOUS
<1>n. Nobody \notin Threads
  BY ConstantsAssumption
<1>p. pc \in [Threads -> Labels]
  BY Places
<1>1. ASSUME NEW t \in Threads, NEW o \in AllOps, Call(t, o) PROVE MutexHeld'
  BY <1>1, <1>p DEF Call, Goto, MutexHeld, Inside
<1>2. ASSUME NEW t \in Threads, Lock(t) PROVE MutexHeld'
  BY <1>2, <1>p, <1>n DEF Lock, MayEnter, Goto, MutexHeld, Inside
<1>3. ASSUME NEW t \in Threads, Unlock(t) PROVE MutexHeld'
  BY <1>3, <1>p, <1>n DEF Unlock, Goto, MutexHeld, Inside
<1>4. ASSUME NEW t \in Threads, Relock(t) PROVE MutexHeld'
  BY <1>4, <1>p, <1>n DEF Relock, Goto, MutexHeld, Inside
<1>5. ASSUME NEW t \in Threads, NEW v \in Values, Push(t, v) PROVE MutexHeld'
  BY <1>5, <1>p DEF Push, NotifyAll, Waiters, MutexHeld, Inside
<1>6. ASSUME NEW t \in Threads, Wait(t) PROVE MutexHeld'
  BY <1>6, <1>p, <1>n DEF Wait, Goto, MutexHeld, Inside
<1>7. ASSUME NEW t \in Threads, TakeFront(t) PROVE MutexHeld'
  BY <1>7, <1>p DEF TakeFront, Goto, MutexHeld, Inside
<1>8. ASSUME NEW t \in Threads, TakePop(t) PROVE MutexHeld'
  BY <1>8, <1>p DEF TakePop, Goto, MutexHeld, Inside
<1>9. ASSUME NEW t \in Threads, PollReady(t) PROVE MutexHeld'
  BY <1>9, <1>p DEF PollReady, Goto, MutexHeld, Inside
<1>10. ASSUME NEW t \in Threads, Empty(t) PROVE MutexHeld'
  BY <1>10, <1>p DEF Empty, Goto, MutexHeld, Inside
<1>11. ASSUME NEW t \in Threads, Clear(t) PROVE MutexHeld'
  BY <1>11, <1>p DEF Clear, Goto, MutexHeld, Inside
<1>12. ASSUME NEW t \in Threads, DestroyFront(t) PROVE MutexHeld'
  BY <1>12 DEF DestroyFront, MutexHeld
<1>13. ASSUME NEW t \in Threads, DestroyEnd(t) PROVE MutexHeld'
  BY <1>13, <1>p DEF DestroyEnd, Goto, MutexHeld, Inside
<1>14. ASSUME NEW t \in Threads, Spurious(t) PROVE MutexHeld'
  BY <1>14, <1>p DEF Spurious, Goto, MutexHeld, Inside
<1>15. ASSUME NEW t \in Threads, Timeout(t) PROVE MutexHeld'
  BY <1>15, <1>p DEF Timeout, Goto, MutexHeld, Inside
<1>16. CASE UNCHANGED vars
  BY <1>16 DEF vars, MutexHeld
<1> QED BY <1>1, <1>2, <1>3, <1>4, <1>5, <1>6, <1>7, <1>8, <1>9, <1>10, <1>11, <1>12, <1>13, <1>14, <1>15, <1>16, Actions DEF Next

\* A step of a thread inside a critical section finds no other thread there.
LEMMA Alone ==
  ASSUME MutexHeld, NEW t \in Threads, pc[t] \in Inside,
         NEW u \in Threads, u # t
  PROVE  pc[u] # "pop"
BY DEF MutexHeld, Inside

LEMMA FrontStep == Safe /\ [Next]_vars => FrontHeld'
<1> SUFFICES ASSUME TypeOK, MutexHeld, FrontHeld, [Next]_vars,
                    NEW u \in Threads, pc'[u] = "pop"
             PROVE  op'[u] = "take" /\ queue_' # <<>> /\ data'[u] = Head(queue_')
  BY DEF Safe, FrontHeld
<1>p. pc \in [Threads -> Labels] /\ op \in [Threads -> AllOps]
      /\ data \in [Threads -> Values \cup {NoValue}] /\ queue_ \in Seq(Values)
  BY Places
<1> DEFINE Goal == op'[u] = "take" /\ queue_' # <<>> /\ data'[u] = Head(queue_')
<1>f. pc[u] = "pop" => op[u] = "take" /\ queue_ # <<>> /\ data[u] = Head(queue_)
  BY DEF FrontHeld
<1>1. ASSUME NEW t \in Threads, NEW o \in AllOps, Call(t, o) PROVE Goal
  BY <1>1, <1>p, <1>f DEF Call, Goto
<1>2. ASSUME NEW t \in Threads, Lock(t) PROVE Goal
  BY <1>2, <1>p, <1>f DEF Lock, Goto
<1>3. ASSUME NEW t \in Threads, Unlock(t) PROVE Goal
  BY <1>3, <1>p, <1>f DEF Unlock, Goto
<1>4. ASSUME NEW t \in Threads, Relock(t) PROVE Goal
  BY <1>4, <1>p, <1>f DEF Relock, Goto
<1>5. ASSUME NEW t \in Threads, NEW v \in Values, Push(t, v) PROVE Goal
  <2>1. pc[u] = "pop" /\ u # t
    BY <1>5, <1>p DEF Push, NotifyAll, Waiters
  <2> QED BY <1>5, <2>1, Alone DEF Push, Inside
<1>6. ASSUME NEW t \in Threads, Wait(t) PROVE Goal
  BY <1>6, <1>p, <1>f DEF Wait, Goto
<1>7. ASSUME NEW t \in Threads, TakeFront(t) PROVE Goal
  <2>1. CASE u = t
    BY <1>7, <1>p, <2>1 DEF TakeFront, Front
  <2>2. CASE u # t
    BY <1>7, <1>p, <1>f, <2>2 DEF TakeFront, Goto
  <2> QED BY <2>1, <2>2
<1>8. ASSUME NEW t \in Threads, TakePop(t) PROVE Goal
  <2>1. pc[u] = "pop" /\ u # t
    BY <1>8, <1>p DEF TakePop, Goto
  <2> QED BY <1>8, <2>1, Alone DEF TakePop, Inside
<1>9. ASSUME NEW t \in Threads, PollReady(t) PROVE Goal
  BY <1>9, <1>p, <1>f DEF PollReady, Goto
<1>10. ASSUME NEW t \in Threads, Empty(t) PROVE Goal
  BY <1>10, <1>p, <1>f DEF Empty, Goto
<1>11. ASSUME NEW t \in Threads, Clear(t) PROVE Goal
  <2>1. pc[u] = "pop" /\ u # t
    BY <1>11, <1>p DEF Clear, Goto
  <2> QED BY <1>11, <2>1, Alone DEF Clear, Inside
<1>12. ASSUME NEW t \in Threads, DestroyFront(t) PROVE Goal
  <2>1. pc[u] = "pop" /\ u # t
    BY <1>12 DEF DestroyFront
  <2> QED BY <1>12, <2>1, Alone DEF DestroyFront, Inside
<1>13. ASSUME NEW t \in Threads, DestroyEnd(t) PROVE Goal
  BY <1>13, <1>p, <1>f DEF DestroyEnd, Goto
<1>14. ASSUME NEW t \in Threads, Spurious(t) PROVE Goal
  BY <1>14, <1>p, <1>f DEF Spurious, Goto
<1>15. ASSUME NEW t \in Threads, Timeout(t) PROVE Goal
  BY <1>15, <1>p, <1>f DEF Timeout, Goto
<1>16. CASE UNCHANGED vars
  BY <1>16, <1>f DEF vars
<1> QED BY <1>1, <1>2, <1>3, <1>4, <1>5, <1>6, <1>7, <1>8, <1>9, <1>10, <1>11, <1>12, <1>13, <1>14, <1>15, <1>16, Actions DEF Next

LEMMA SafeInit == Init => Safe
<1>1. Init => MutexHeld /\ FrontHeld
  BY DEF Init, MutexHeld, FrontHeld, Inside
<1> QED BY <1>1, TypeInit DEF Safe

LEMMA SafeStep == Safe /\ [Next]_vars => Safe'
BY TypeStep, MutexStep, FrontStep DEF Safe

LEMMA SafeAlways == Spec => []Safe
BY SafeInit, SafeStep, PTL DEF Spec

\* Every variable of a queue has its type, whoever uses it and however: no
\* operation stores or hands out what no thread pushed (Push, Take, Clear).
THEOREM TypeCorrect == Spec => []TypeOK
<1>1. Safe => TypeOK
  BY DEF Safe
<1> QED BY <1>1, SafeAlways, PTL

-----------------------------------------------------------------------------
(* No lost wake-up *)

\* The queue grows in Push only, which wakes every waiter in the same step; a
\* thread falls asleep in Wait only, which saw the queue empty.
LEMMA SleeperStep == Safe /\ NoSleeper /\ [Next]_vars => NoSleeper'
<1> SUFFICES ASSUME Safe, TypeOK, NoSleeper, [Next]_vars PROVE NoSleeper'
  BY DEF Safe
<1>p. pc \in [Threads -> Labels] /\ queue_ \in Seq(Values)
  BY Places
<1>w. \/ queue_ = <<>>
      \/ \A u \in Threads : pc[u] # "wait"
  BY DEF NoSleeper, Waiters
<1>g. (queue_' = <<>> \/ \A u \in Threads : pc'[u] # "wait") => NoSleeper'
  BY DEF NoSleeper, Waiters
<1>1. ASSUME NEW t \in Threads, NEW o \in AllOps, Call(t, o) PROVE NoSleeper'
  BY <1>1, <1>p, <1>w, <1>g DEF Call, Goto
<1>2. ASSUME NEW t \in Threads, Lock(t) PROVE NoSleeper'
  BY <1>2, <1>p, <1>w, <1>g DEF Lock, Goto
<1>3. ASSUME NEW t \in Threads, Unlock(t) PROVE NoSleeper'
  BY <1>3, <1>p, <1>w, <1>g DEF Unlock, Goto
<1>4. ASSUME NEW t \in Threads, Relock(t) PROVE NoSleeper'
  BY <1>4, <1>p, <1>w, <1>g DEF Relock, Goto
<1>5. ASSUME NEW t \in Threads, NEW v \in Values, Push(t, v) PROVE NoSleeper'
  BY <1>5, <1>p, <1>g DEF Push, NotifyAll, Waiters
<1>6. ASSUME NEW t \in Threads, Wait(t) PROVE NoSleeper'
  BY <1>6, <1>p, <1>w, <1>g DEF Wait, Goto
<1>7. ASSUME NEW t \in Threads, TakeFront(t) PROVE NoSleeper'
  BY <1>7, <1>p, <1>w, <1>g DEF TakeFront, Goto
<1>8. ASSUME NEW t \in Threads, TakePop(t) PROVE NoSleeper'
  BY <1>8, <1>p, <1>w, <1>g DEF TakePop, Goto, Safe, FrontHeld
<1>9. ASSUME NEW t \in Threads, PollReady(t) PROVE NoSleeper'
  BY <1>9, <1>p, <1>w, <1>g DEF PollReady, Goto
<1>10. ASSUME NEW t \in Threads, Empty(t) PROVE NoSleeper'
  BY <1>10, <1>p, <1>w, <1>g DEF Empty, Goto
<1>11. ASSUME NEW t \in Threads, Clear(t) PROVE NoSleeper'
  BY <1>11, <1>p, <1>w, <1>g DEF Clear, Goto
<1>12. ASSUME NEW t \in Threads, DestroyFront(t) PROVE NoSleeper'
  BY <1>12, <1>w, <1>g DEF DestroyFront
<1>13. ASSUME NEW t \in Threads, DestroyEnd(t) PROVE NoSleeper'
  BY <1>13, <1>p, <1>w, <1>g DEF DestroyEnd, Goto
<1>14. ASSUME NEW t \in Threads, Spurious(t) PROVE NoSleeper'
  BY <1>14, <1>p, <1>w, <1>g DEF Spurious, Goto
<1>15. ASSUME NEW t \in Threads, Timeout(t) PROVE NoSleeper'
  BY <1>15, <1>p, <1>w, <1>g DEF Timeout, Goto
<1>16. CASE UNCHANGED vars
  BY <1>16 DEF vars, NoSleeper, Waiters
<1> QED BY <1>1, <1>2, <1>3, <1>4, <1>5, <1>6, <1>7, <1>8, <1>9, <1>10, <1>11, <1>12, <1>13, <1>14, <1>15, <1>16, Actions DEF Next

\* While the queue has elements nobody sleeps in not_empty_: Push notifies all,
\* and who waits has seen the queue empty under the mutex (Take, WaitToTake).
THEOREM WakeupsAreNotLost == Spec => []NoLostWakeup
<1>1. Init => NoSleeper
  BY DEF Init, NoSleeper
<1>2. NoSleeper => NoLostWakeup
  BY DEF NoSleeper, NoLostWakeup
<1> QED BY <1>1, <1>2, SafeAlways, SleeperStep, PTL DEF Spec

-----------------------------------------------------------------------------
(* The queue is first-in first-out *)

\* Every step puts, gets, drops, or changes nothing that FifoQueue sees.
LEMMA FifoStep ==
  Safe /\ [Next]_vars => [Fifo!Next]_<<queue_, delivered>>
<1> SUFFICES ASSUME Safe, [Next]_vars
             PROVE  Fifo!Next \/ UNCHANGED <<queue_, delivered>>
  OBVIOUS
<1> DEFINE Goal == Fifo!Next \/ UNCHANGED <<queue_, delivered>>
<1>1. ASSUME NEW t \in Threads, NEW o \in AllOps, Call(t, o) PROVE Goal
  BY <1>1 DEF Call
<1>2. ASSUME NEW t \in Threads, Lock(t) PROVE Goal
  BY <1>2 DEF Lock
<1>3. ASSUME NEW t \in Threads, Unlock(t) PROVE Goal
  BY <1>3 DEF Unlock
<1>4. ASSUME NEW t \in Threads, Relock(t) PROVE Goal
  BY <1>4 DEF Relock
<1>5. ASSUME NEW t \in Threads, NEW v \in Values, Push(t, v) PROVE Goal
  BY <1>5 DEF Push, Fifo!Next, Fifo!Put
<1>6. ASSUME NEW t \in Threads, Wait(t) PROVE Goal
  BY <1>6 DEF Wait
<1>7. ASSUME NEW t \in Threads, TakeFront(t) PROVE Goal
  BY <1>7 DEF TakeFront
<1>8. ASSUME NEW t \in Threads, TakePop(t) PROVE Goal
  <2>1. queue_ # <<>> /\ data[t] = Head(queue_)
    BY <1>8 DEF TakePop, Safe, FrontHeld
  <2>2. Fifo!Get
    BY <1>8, <2>1 DEF TakePop, Fifo!Get
  <2> QED BY <2>2 DEF Fifo!Next
<1>9. ASSUME NEW t \in Threads, PollReady(t) PROVE Goal
  BY <1>9 DEF PollReady
<1>10. ASSUME NEW t \in Threads, Empty(t) PROVE Goal
  BY <1>10 DEF Empty
<1>11. ASSUME NEW t \in Threads, Clear(t) PROVE Goal
  BY <1>11 DEF Clear, Fifo!Next, Fifo!DropAll
<1>12. ASSUME NEW t \in Threads, DestroyFront(t) PROVE Goal
  BY <1>12 DEF DestroyFront, Fifo!Next, Fifo!Drop
<1>13. ASSUME NEW t \in Threads, DestroyEnd(t) PROVE Goal
  BY <1>13 DEF DestroyEnd
<1>14. ASSUME NEW t \in Threads, Spurious(t) PROVE Goal
  BY <1>14 DEF Spurious
<1>15. ASSUME NEW t \in Threads, Timeout(t) PROVE Goal
  BY <1>15 DEF Timeout
<1>16. CASE UNCHANGED vars
  BY <1>16 DEF vars
<1> QED BY <1>1, <1>2, <1>3, <1>4, <1>5, <1>6, <1>7, <1>8, <1>9, <1>10, <1>11, <1>12, <1>13, <1>14, <1>15, <1>16, Actions DEF Next

\* A BlockingQueue implements a first-in first-out queue whatever the threads do:
\* what Take removes with pop() is what it read with front(), since both run
\* under one lock (Take).
THEOREM QueueIsFifo == Spec => ImplementsFifo
<1>1. Init => Fifo!Init
  BY DEF Init, Fifo!Init
<1> QED BY <1>1, FifoStep, SafeAlways, PTL DEF Spec, ImplementsFifo, Fifo!Spec

-----------------------------------------------------------------------------
(* Ready to take *)

\* A thread that has been told "ready" polls, so it is the only consumer.
LEMMA ReadyIsConsumer ==
  ASSUME TypeOK, ReadyPath, NEW c \in Threads,
         \A t \in Threads : roles[t] \cap Removes # {} <=> t = c,
         NEW t \in Threads
  PROVE  /\ ready[t] => t = c
         /\ pc[t] # "idle" /\ op[t] \in Removes => t = c
<1>1. "poll" \in Removes /\ "take" \in Removes
  BY DEF Removes
<1> QED BY <1>1 DEF ReadyPath

LEMMA PathStep == TypeOK /\ ReadyPath /\ FrontHeld /\ [Next]_vars => ReadyPath'
<1> SUFFICES ASSUME TypeOK, ReadyPath, FrontHeld, [Next]_vars,
                    NEW u \in Threads
             PROVE  /\ ready'[u] => "poll" \in roles'[u]
                    /\ ready'[u] => op'[u] = "take" \/ (op'[u] = "poll" /\ pc'[u] \in {"out", "idle"})
                    /\ pc'[u] # "idle" => op'[u] \in roles'[u] \/ (ready'[u] /\ op'[u] = "take")
  BY DEF ReadyPath
<1> DEFINE Goal == /\ ready'[u] => "poll" \in roles'[u]
                   /\ ready'[u] => op'[u] = "take" \/ (op'[u] = "poll" /\ pc'[u] \in {"out", "idle"})
                   /\ pc'[u] # "idle" => op'[u] \in roles'[u] \/ (ready'[u] /\ op'[u] = "take")
<1>p. pc \in [Threads -> Labels] /\ op \in [Threads -> AllOps]
  BY Places
<1>r. ready \in [Threads -> BOOLEAN]
  BY DEF TypeOK
<1>f. /\ ready[u] => "poll" \in roles[u]
      /\ ready[u] => op[u] = "take" \/ (op[u] = "poll" /\ pc[u] \in {"out", "idle"})
      /\ pc[u] # "idle" => op[u] \in roles[u] \/ (ready[u] /\ op[u] = "take")
  BY DEF ReadyPath
<1>1. ASSUME NEW t \in Threads, NEW o \in AllOps, Call(t, o) PROVE Goal
  BY <1>1, <1>p, <1>f DEF Call, MayCall, Goto
<1>2. ASSUME NEW t \in Threads, Lock(t) PROVE Goal
  BY <1>2, <1>p, <1>f DEF Lock, MayEnter, Goto
<1>3. ASSUME NEW t \in Threads, Unlock(t) PROVE Goal
  BY <1>3, <1>p, <1>r, <1>f DEF Unlock, Goto
<1>4. ASSUME NEW t \in Threads, Relock(t) PROVE Goal
  BY <1>4, <1>p, <1>f DEF Relock, TimeoutNotReady, Goto
<1>5. ASSUME NEW t \in Threads, NEW v \in Values, Push(t, v) PROVE Goal
  BY <1>5, <1>p, <1>f DEF Push, NotifyAll, Waiters
<1>6. ASSUME NEW t \in Threads, Wait(t) PROVE Goal
  BY <1>6, <1>p, <1>f DEF Wait, Goto
<1>7. ASSUME NEW t \in Threads, TakeFront(t) PROVE Goal
  BY <1>7, <1>p, <1>f DEF TakeFront, Goto
<1>8. ASSUME NEW t \in Threads, TakePop(t) PROVE Goal
  BY <1>8, <1>p, <1>f DEF TakePop, Goto
<1>9. ASSUME NEW t \in Threads, PollReady(t) PROVE Goal
  BY <1>9, <1>p, <1>r, <1>f DEF PollReady, Goto
<1>10. ASSUME NEW t \in Threads, Empty(t) PROVE Goal
  BY <1>10, <1>p, <1>f DEF Empty, Goto
<1>11. ASSUME NEW t \in Threads, Clear(t) PROVE Goal
  BY <1>11, <1>p, <1>f DEF Clear, Goto
<1>12. ASSUME NEW t \in Threads, DestroyFront(t) PROVE Goal
  BY <1>12, <1>f DEF DestroyFront
<1>13. ASSUME NEW t \in Threads, DestroyEnd(t) PROVE Goal
  BY <1>13, <1>p, <1>f DEF DestroyEnd, Goto
<1>14. ASSUME NEW t \in Threads, Spurious(t) PROVE Goal
  BY <1>14, <1>p, <1>f DEF Spurious, Goto
<1>15. ASSUME NEW t \in Threads, Timeout(t) PROVE Goal
  BY <1>15, <1>p, <1>f DEF Timeout, Goto
<1>16. CASE UNCHANGED vars
  BY <1>16, <1>f DEF vars
<1> QED BY <1>1, <1>2, <1>3, <1>4, <1>5, <1>6, <1>7, <1>8, <1>9, <1>10, <1>11, <1>12, <1>13, <1>14, <1>15, <1>16, Actions DEF Next

\* Only the consumer itself removes elements between WaitToTake and Take.
LEMMA KeptStep == Safe /\ ReadyPath /\ ReadyKept /\ [Next]_vars => ReadyKept'
<1>r. [Next]_vars => roles' = roles
  BY Actions DEF Next, vars, Call, Lock, Unlock, Relock, Push, Wait, TakeFront, TakePop, PollReady,
     Empty, Clear, DestroyFront, DestroyEnd, Spurious, Timeout
<1> SUFFICES ASSUME Safe, TypeOK, ReadyPath, ReadyKept, [Next]_vars, OneConsumer,
                    NEW u \in Threads, ready'[u], ~(op'[u] = "take" /\ pc'[u] = "out")
             PROVE  queue_' # <<>>
  BY <1>r DEF ReadyKept, OneConsumer, Safe
<1>p. pc \in [Threads -> Labels] /\ op \in [Threads -> AllOps] /\ queue_ \in Seq(Values)
  BY Places
<1>b. ready \in [Threads -> BOOLEAN]
  BY DEF TypeOK
<1>k. ready[u] /\ ~(op[u] = "take" /\ pc[u] = "out") => queue_ # <<>>
  BY DEF ReadyKept
<1>f. ready[u] => op[u] = "take" \/ (op[u] = "poll" /\ pc[u] \in {"out", "idle"})
  BY DEF ReadyPath
<1>c. \A t \in Threads : ready[u] /\ pc[t] # "idle" /\ op[t] \in Removes => t = u
  <2>1. PICK c \in Threads : \A t \in Threads : roles[t] \cap Removes # {} <=> t = c
    BY DEF OneConsumer
  <2> QED BY <2>1, ReadyIsConsumer
<1>1. ASSUME NEW t \in Threads, NEW o \in AllOps, Call(t, o) PROVE queue_' # <<>>
  BY <1>1, <1>p, <1>k, <1>f DEF Call, MayCall, Goto
<1>2. ASSUME NEW t \in Threads, Lock(t) PROVE queue_' # <<>>
  BY <1>2, <1>p, <1>k, <1>f DEF Lock, MayEnter, Goto
<1>3. ASSUME NEW t \in Threads, Unlock(t) PROVE queue_' # <<>>
  <2>1. ready[u] /\ ~(op[u] = "take" /\ pc[u] = "out")
    <3>1. CASE u = t
      BY <1>3, <1>b, <3>1 DEF Unlock
    <3>2. CASE u # t
      BY <1>3, <1>b, <1>p, <3>2 DEF Unlock, Goto
    <3> QED BY <3>1, <3>2
  <2> QED BY <1>3, <1>k, <2>1 DEF Unlock
<1>4. ASSUME NEW t \in Threads, Relock(t) PROVE queue_' # <<>>
  BY <1>4, <1>p, <1>k, <1>f DEF Relock, TimeoutNotReady, Goto
<1>5. ASSUME NEW t \in Threads, NEW v \in Values, Push(t, v) PROVE queue_' # <<>>
  BY <1>5, <1>p, AppendProperties DEF Push
<1>6. ASSUME NEW t \in Threads, Wait(t) PROVE queue_' # <<>>
  BY <1>6, <1>p, <1>k, <1>f DEF Wait, Goto
<1>7. ASSUME NEW t \in Threads, TakeFront(t) PROVE queue_' # <<>>
  BY <1>7, <1>p, <1>k, <1>f DEF TakeFront, Goto
<1>8. ASSUME NEW t \in Threads, TakePop(t) PROVE queue_' # <<>>
  <2>1. pc[t] = "pop" /\ op[t] = "take" /\ "take" \in Removes /\ UNCHANGED <<op, ready>>
    BY <1>8 DEF TakePop, Removes, Safe, FrontHeld
  <2>2. t = u
    BY <1>c, <2>1
  <2> QED BY <1>8, <1>p, <2>1, <2>2 DEF TakePop, Goto
<1>9. ASSUME NEW t \in Threads, PollReady(t) PROVE queue_' # <<>>
  BY <1>9 DEF PollReady
<1>10. ASSUME NEW t \in Threads, Empty(t) PROVE queue_' # <<>>
  BY <1>10, <1>p, <1>k, <1>f DEF Empty, Goto
<1>11. ASSUME NEW t \in Threads, Clear(t) PROVE queue_' # <<>>
  <2>1. pc[t] = "in" /\ op[t] = "clear" /\ "clear" \in Removes /\ UNCHANGED <<op, ready>>
    BY <1>11 DEF Clear, Removes, Safe, FrontHeld
  <2>2. t = u
    BY <1>c, <2>1
  <2> QED BY <1>f, <2>1, <2>2
<1>12. ASSUME NEW t \in Threads, DestroyFront(t) PROVE queue_' # <<>>
  <2>1. pc[t] = "in" /\ op[t] = "destroy" /\ "destroy" \in Removes /\ UNCHANGED <<op, ready>>
    BY <1>12 DEF DestroyFront, Removes, Safe, FrontHeld
  <2>2. t = u
    BY <1>c, <2>1
  <2> QED BY <1>f, <2>1, <2>2
<1>13. ASSUME NEW t \in Threads, DestroyEnd(t) PROVE queue_' # <<>>
  BY <1>13, <1>p, <1>k, <1>f DEF DestroyEnd, Goto
<1>14. ASSUME NEW t \in Threads, Spurious(t) PROVE queue_' # <<>>
  BY <1>14, <1>p, <1>k, <1>f DEF Spurious, Goto
<1>15. ASSUME NEW t \in Threads, Timeout(t) PROVE queue_' # <<>>
  BY <1>15, <1>p, <1>k, <1>f DEF Timeout, Goto
<1>16. CASE UNCHANGED vars
  BY <1>16, <1>k DEF vars
<1> QED BY <1>1, <1>2, <1>3, <1>4, <1>5, <1>6, <1>7, <1>8, <1>9, <1>10, <1>11, <1>12, <1>13, <1>14, <1>15, <1>16, Actions DEF Next

\* When WaitToTake has returned true the queue is ready to take, as its comment
\* says, provided that one thread only removes elements (WaitToTake, Take).
THEOREM ReadyMeansReady == Spec => []ReadyToTake
<1>1. Init => ReadyPath /\ ReadyKept
  BY DEF Init, ReadyPath, ReadyKept
<1>2. ReadyKept => ReadyToTake
  BY DEF ReadyKept, ReadyToTake
<1>3. Safe => TypeOK /\ FrontHeld
  BY DEF Safe
<1> QED BY <1>1, <1>2, <1>3, SafeAlways, PathStep, KeptStep, PTL DEF Spec

-----------------------------------------------------------------------------
(* BufferMemory *)

\* A pointer that Allocate has returned belongs to a packet that is still to be copied.
PtrOK ==
  /\ ptr \in [offset : Nat, room : Nat]
  /\ step = "copy" => received + ptr.room <= MaxStream

BufferTypeInv == BufferTypeOK /\ PtrOK

\* Until an allocation fails, capacity_ is the length of the block and size_ is within
\* it; before the copy, the bytes in front of ptr are the last of the stream, after it
\* those up to size_.
Filled == IF step = "copy" THEN ptr.offset ELSE size_
InPlace ==
  /\ size_ <= Len(buffer_) /\ capacity_ = Len(buffer_)
  /\ step = "copy" => size_ = ptr.offset + ptr.room
  /\ \A i \in 1..Filled : buffer_[i] = received - (Filled - i)

TailInv == BufferTypeInv /\ (failures = 0 => InPlace /\ ~wild)

\* IDEVICE_MEM_ALIGN rounds up.
LEMMA AlignRoundsUp ==
  ASSUME NEW v \in Nat, NEW a \in Nat \ {0}
  PROVE  MEM_ALIGN(v, a) \in Nat /\ MEM_ALIGN(v, a) >= v
<1> DEFINE q == (v + a - 1) \div a
<1>1. q \in Nat /\ v + a - 1 = a * q + ((v + a - 1) % a) /\ (v + a - 1) % a \in 0..(a - 1)
  OBVIOUS
<1> HIDE DEF q
<1>2. a * q = q * a /\ q * a \in Nat
  BY <1>1
<1> QED BY <1>1, <1>2 DEF MEM_ALIGN, q

\* A new capacity has room for what was asked.
LEMMA AlignedFits ==
  ASSUME NEW n \in Nat
  PROVE  Aligned(n) \in Nat /\ Aligned(n) >= n
BY AlignRoundsUp, BufferMemoryAssumption DEF Aligned

\* A block is a function on its positions, and the other way round.
LEMMA BlockHasCells ==
  ASSUME NEW S, NEW cells \in Seq(S)
  PROVE  /\ Len(cells) \in Nat /\ DOMAIN cells = 1..Len(cells)
         /\ \A i \in 1..Len(cells) : cells[i] \in S
OBVIOUS

LEMMA CellsAreBlock ==
  ASSUME NEW S, NEW n \in Nat, NEW cells \in [1..n -> S]
  PROVE  cells \in Seq(S) /\ Len(cells) = n
OBVIOUS

\* realloc keeps the cells that fit.
LEMMA ResizedKeeps ==
  ASSUME NEW S, NEW cells \in Seq(S), Stale \in S, NEW capacity \in Nat
  PROVE  /\ Resized(cells, capacity) \in Seq(S)
         /\ Len(Resized(cells, capacity)) = capacity
         /\ \A i \in 1..capacity :
              i <= Len(cells) => Resized(cells, capacity)[i] = cells[i]
<1>1. DOMAIN cells = 1..Len(cells) /\ \A i \in 1..Len(cells) : cells[i] \in S
  BY BlockHasCells
<1>2. Resized(cells, capacity) \in [1..capacity -> S]
  BY <1>1 DEF Resized
<1>3. Resized(cells, capacity) \in Seq(S) /\ Len(Resized(cells, capacity)) = capacity
  BY <1>2, CellsAreBlock
<1>4. \A i \in 1..capacity : i <= Len(cells) => Resized(cells, capacity)[i] = cells[i]
  BY <1>1, BlockHasCells DEF Resized
<1> QED BY <1>3, <1>4

\* Cells that are replaced by numbers of the stream leave a block a block.
LEMMA ReplacedCells ==
  ASSUME NEW S, NEW cells \in Seq(S), NEW replaced \in [DOMAIN cells -> S]
  PROVE  replaced \in Seq(S) /\ Len(replaced) = Len(cells)
<1>1. DOMAIN cells = 1..Len(cells) /\ Len(cells) \in Nat
  BY BlockHasCells
<1> QED BY <1>1, CellsAreBlock

LEMMA TailInit == BufferInit => TailInv
<1> SUFFICES ASSUME BufferInit PROVE TailInv
  OBVIOUS
<1>1. buffer_ \in Seq(0..MaxStream) /\ Len(buffer_) = 0
  BY DEF BufferInit, NULL
<1>2. 0 \in 0..MaxStream /\ 0 \in 0..MaxFailures
  BY BufferMemoryAssumption
<1>3. BufferTypeOK
  BY <1>1, <1>2 DEF BufferInit, BufferTypeOK
<1>4. PtrOK
  BY DEF BufferInit, PtrOK, NoRoom
<1>5. InPlace /\ ~wild
  BY <1>1 DEF BufferInit, InPlace, Filled
<1> QED BY <1>3, <1>4, <1>5 DEF TailInv, BufferTypeInv

LEMMA TailReserve ==
  ASSUME TailInv, NEW n \in 1..MaxPacket, received + n <= MaxStream, AllocateMore(n)
  PROVE  TailInv'
<1> USE DEF TailInv, BufferTypeInv
<1>1. CASE ReserveFails
  <2>1. buffer_' \in Seq(0..MaxStream) /\ failures' # 0 /\ failures' \in 0..MaxFailures
    BY <1>1, BufferMemoryAssumption DEF ReserveFails, NULL, BufferTypeOK
  <2> QED BY <1>1, <2>1 DEF ReserveFails, BufferTypeOK, PtrOK
<1>2. CASE ~ReserveFails
  <2> DEFINE capacity == Aligned(size_ + n)
  <2>1. size_ + n \in Nat /\ n \in Nat
    BY BufferMemoryAssumption DEF BufferTypeOK
  <2>2. capacity \in Nat /\ capacity >= size_ + n
    BY <2>1, AlignedFits
  <2> HIDE DEF capacity
  <2>3. /\ buffer_' = Resized(buffer_, capacity) /\ capacity_' = capacity
        /\ ptr' = [offset |-> size_, room |-> n] /\ size_' = size_ + n /\ step' = "copy"
        /\ UNCHANGED <<failures, received, wild>> /\ step = "receive"
    BY <1>2 DEF AllocateMore, capacity
  <2>4. /\ buffer_' \in Seq(0..MaxStream) /\ Len(buffer_') = capacity
        /\ \A i \in 1..capacity : i <= Len(buffer_) => buffer_'[i] = buffer_[i]
    <3>1. Stale \in 0..MaxStream
      BY BufferMemoryAssumption DEF Stale
    <3> QED BY <2>2, <2>3, <3>1, ResizedKeeps DEF BufferTypeOK
  <2>5. BufferTypeOK' /\ PtrOK'
    BY <2>1, <2>2, <2>3, <2>4 DEF BufferTypeOK, PtrOK
  <2>6. ASSUME failures = 0 PROVE InPlace'
    <3>1. size_ <= Len(buffer_) /\ \A i \in 1..size_ : buffer_[i] = received - (size_ - i)
      BY <2>3, <2>6 DEF InPlace, Filled
    <3>2. Filled' = size_ /\ received' = received
      BY <2>3 DEF Filled
    <3>3. \A i \in 1..size_ : buffer_'[i] = received - (size_ - i)
      BY <2>1, <2>2, <2>4, <3>1 DEF BufferTypeOK
    <3> QED BY <2>1, <2>2, <2>3, <2>4, <3>2, <3>3 DEF InPlace
  <2> QED BY <2>3, <2>5, <2>6
<1> QED BY <1>1, <1>2

LEMMA TailAllocate ==
  ASSUME TailInv, NEW n \in 1..MaxPacket, received + n <= MaxStream, AllocateHere(n)
  PROVE  TailInv'
<1> USE DEF TailInv, BufferTypeInv
<1>1. n \in Nat /\ size_ \in Nat /\ capacity_ \in Nat
  BY BufferMemoryAssumption DEF BufferTypeOK
<1>2. BufferTypeOK' /\ PtrOK'
  BY <1>1 DEF AllocateHere, BufferTypeOK, PtrOK
<1>3. ASSUME failures = 0 PROVE InPlace'
  <2>1. size_ + n <= capacity_ /\ size_ <= Len(buffer_) /\ capacity_ = Len(buffer_)
    BY <1>1, <1>3 DEF AllocateHere, Lacks, InPlace
  <2>2. \A i \in 1..size_ : buffer_[i] = received - (size_ - i)
    BY <1>3 DEF AllocateHere, InPlace, Filled
  <2>3. Filled' = size_
    BY DEF AllocateHere, Filled
  <2> QED BY <2>1, <2>2, <2>3 DEF AllocateHere, InPlace
<1> QED BY <1>2, <1>3 DEF AllocateHere

LEMMA TailCopy == TailInv /\ Copy => TailInv'
<1> SUFFICES ASSUME TailInv, Copy PROVE TailInv'
  OBVIOUS
<1> USE DEF TailInv, BufferTypeInv
<1> DEFINE F(i) == IF i > ptr.offset /\ i <= ptr.offset + ptr.room
                   THEN received + i - ptr.offset ELSE buffer_[i]
<1>1. ptr.offset \in Nat /\ ptr.room \in Nat /\ received \in Nat /\ received + ptr.room <= MaxStream
  BY BufferMemoryAssumption DEF Copy, PtrOK, BufferTypeOK
<1>2. buffer_ \in Seq(0..MaxStream) /\ buffer_' = [i \in DOMAIN buffer_ |-> F(i)]
  BY DEF Copy, BufferTypeOK
<1>3. DOMAIN buffer_ = 1..Len(buffer_) /\ \A i \in 1..Len(buffer_) : buffer_[i] \in 0..MaxStream
  BY <1>2, BlockHasCells
<1>4. buffer_' \in Seq(0..MaxStream) /\ Len(buffer_') = Len(buffer_)
  <2>1. \A i \in 1..Len(buffer_) : F(i) \in 0..MaxStream
    <3> SUFFICES ASSUME NEW i \in 1..Len(buffer_) PROVE F(i) \in 0..MaxStream
      OBVIOUS
    <3>1. CASE i > ptr.offset /\ i <= ptr.offset + ptr.room
      BY <1>1, <3>1, BufferMemoryAssumption
    <3>2. CASE ~(i > ptr.offset /\ i <= ptr.offset + ptr.room)
      BY <1>3, <3>2
    <3> QED BY <3>1, <3>2
  <2> HIDE DEF F
  <2>2. buffer_' \in [DOMAIN buffer_ -> 0..MaxStream]
    BY <1>2, <1>3, <2>1
  <2> QED BY <1>2, <2>2, ReplacedCells
<1>5. BufferTypeOK' /\ PtrOK'
  <2>1. received' \in 0..MaxStream /\ wild' \in BOOLEAN
    BY <1>1, BufferMemoryAssumption DEF Copy, BufferTypeOK
  <2>2. buffer_' = NULL \/ Len(buffer_') = capacity_'
    <3>1. CASE buffer_ = NULL
      BY <1>2, <3>1, DOMAIN <<>> = {} DEF NULL
    <3>2. CASE Len(buffer_) = capacity_
      BY <1>4, <3>2 DEF Copy
    <3> QED BY <3>1, <3>2 DEF BufferTypeOK
  <2> QED BY <1>4, <2>1, <2>2 DEF Copy, BufferTypeOK, PtrOK
<1>6. ASSUME failures = 0 PROVE InPlace' /\ ~wild'
  <2>1. /\ size_ <= Len(buffer_) /\ size_ = ptr.offset + ptr.room
        /\ \A i \in 1..ptr.offset : buffer_[i] = received - (ptr.offset - i)
    BY <1>6 DEF InPlace, Filled, Copy
  <2>2. ~wild'
    BY <1>1, <1>6, <2>1 DEF Copy
  <2>3. \A i \in 1..size_ : buffer_'[i] = F(i)
    BY <1>1, <1>2, <2>1
  <2>4. ASSUME NEW i \in 1..size_ PROVE F(i) = (received + ptr.room) - (size_ - i)
    <3>1. CASE i > ptr.offset
      BY <1>1, <2>1, <3>1
    <3>2. CASE i <= ptr.offset
      <4>1. i \in 1..ptr.offset /\ F(i) = buffer_[i]
        BY <1>1, <2>1, <3>2
      <4>2. buffer_[i] = received - (ptr.offset - i)
        BY <2>1, <4>1
      <4> QED BY <1>1, <2>1, <4>1, <4>2
    <3> QED BY <1>1, <2>1, <3>1, <3>2
  <2>5. Filled' = size_ /\ received' = received + ptr.room /\ size_' = size_ /\ capacity_' = capacity_
    BY DEF Copy, Filled
  <2>6. capacity_ = Len(buffer_) /\ step' # "copy"
    BY <1>6 DEF InPlace, Copy
  <2> HIDE DEF F
  <2>7. \A i \in 1..size_ : buffer_'[i] = received' - (size_ - i)
    <3> SUFFICES ASSUME NEW i \in 1..size_ PROVE buffer_'[i] = received' - (size_ - i)
      OBVIOUS
    <3>1. buffer_'[i] = F(i)
      BY <2>3
    <3>2. F(i) = (received + ptr.room) - (size_ - i)
      BY <2>4
    <3>3. received' = received + ptr.room
      BY <2>5
    <3>4. buffer_'[i] = (received + ptr.room) - (size_ - i)
      BY <3>1, <3>2
    <3> QED BY <3>3, <3>4
  <2> QED BY <1>4, <2>1, <2>2, <2>5, <2>6, <2>7 DEF InPlace
<1> QED BY <1>5, <1>6 DEF Copy

LEMMA TailShift ==
  ASSUME TailInv, NEW n \in 0..MaxStream, ShiftOut(n)
  PROVE  TailInv'
<1> USE DEF TailInv, BufferTypeInv
<1>1. n \in Nat /\ size_ \in Nat /\ buffer_ \in Seq(0..MaxStream) /\ n <= size_
  BY BufferMemoryAssumption DEF BufferTypeOK, ShiftOut
<1>2. PtrOK'
  BY DEF ShiftOut, PtrOK, NoRoom
<1>3. CASE ~Kept(n)
  <2>1. BufferTypeOK'
    BY <1>3 DEF ShiftOut, BufferTypeOK
  <2>2. ASSUME failures = 0 PROVE InPlace'
    <3>1. Filled = size_ /\ Filled' = size_
      BY <1>3 DEF ShiftOut, Filled
    <3> QED BY <1>3, <2>2, <3>1 DEF ShiftOut, InPlace
  <2> QED BY <1>2, <2>1, <2>2 DEF ShiftOut
<1>4. CASE Kept(n)
  <2> DEFINE F(i) == IF i + n <= size_ /\ i + n \in DOMAIN buffer_
                     THEN buffer_[i + n] ELSE buffer_[i]
  <2>1. buffer_' = [i \in DOMAIN buffer_ |-> F(i)] /\ size_' = size_ - n
    BY <1>4 DEF ShiftOut
  <2>2. DOMAIN buffer_ = 1..Len(buffer_) /\ \A i \in 1..Len(buffer_) : buffer_[i] \in 0..MaxStream
    BY <1>1, BlockHasCells
  <2>3. buffer_' \in Seq(0..MaxStream) /\ Len(buffer_') = Len(buffer_)
    <3>1. buffer_' \in [DOMAIN buffer_ -> 0..MaxStream]
      BY <2>1, <2>2
    <3> QED BY <1>1, <3>1, ReplacedCells
  <2>4. BufferTypeOK'
    BY <1>1, <1>4, <2>1, <2>3 DEF ShiftOut, BufferTypeOK, NULL, Kept
  <2>5. ASSUME failures = 0 PROVE InPlace'
    <3>1. size_ <= Len(buffer_) /\ \A i \in 1..size_ : buffer_[i] = received - (size_ - i)
      BY <2>5 DEF ShiftOut, InPlace, Filled
    <3>2. \A i \in 1..(size_ - n) : i \in DOMAIN buffer_ /\ i + n \in 1..size_ /\ i + n \in DOMAIN buffer_
      BY <1>1, <3>1
    <3>3. \A i \in 1..(size_ - n) : buffer_'[i] = buffer_[i + n]
      BY <1>1, <2>1, <3>2
    <3>4. \A i \in 1..(size_ - n) : buffer_'[i] = received - (size_ - n - i)
      BY <1>1, <3>1, <3>2, <3>3, BufferMemoryAssumption DEF BufferTypeOK
    <3>5. Filled' = size_ - n /\ received' = received /\ capacity_' = capacity_ /\ step' # "copy"
      BY <2>1 DEF ShiftOut, Filled
    <3>6. capacity_ = Len(buffer_)
      BY <2>5 DEF InPlace
    <3> QED BY <1>1, <2>1, <2>3, <3>1, <3>4, <3>5, <3>6 DEF InPlace
  <2> QED BY <1>2, <2>4, <2>5 DEF ShiftOut
<1> QED BY <1>3, <1>4

LEMMA TailStep == TailInv /\ [BufferNext]_buffer_vars => TailInv'
<1> SUFFICES ASSUME TailInv, [BufferNext]_buffer_vars PROVE TailInv'
  OBVIOUS
<1>1. CASE UNCHANGED buffer_vars
  BY <1>1 DEF buffer_vars, TailInv, BufferTypeInv, BufferTypeOK, PtrOK, InPlace, Filled
<1>2. ASSUME NEW n \in 1..MaxPacket, received + n <= MaxStream, AllocateMore(n) PROVE TailInv'
  BY <1>2, TailReserve
<1>3. ASSUME NEW n \in 1..MaxPacket, received + n <= MaxStream, AllocateHere(n) PROVE TailInv'
  BY <1>3, TailAllocate
<1>4. CASE Copy
  BY <1>4, TailCopy
<1>5. ASSUME NEW n \in 0..MaxStream, ShiftOut(n) PROVE TailInv'
  BY <1>5, TailShift
<1> QED BY <1>1, <1>2, <1>3, <1>4, <1>5 DEF BufferNext

LEMMA TailInvariant == BufferSpec => []TailInv
  BY TailInit, TailStep, PTL DEF BufferSpec

\* Every variable of the buffer keeps its type, for any sizes and failures.
THEOREM BufferTypeCorrect == BufferSpec => []BufferTypeOK
<1>1. TailInv => BufferTypeOK
  BY DEF TailInv, BufferTypeInv
<1> QED BY <1>1, TailInvariant, PTL

\* Whatever the parser receives and consumes, the buffer ends with the last bytes of the
\* stream, in their order, until an allocation fails (bytebuffer.h:33-44,
\* dtxmessageparser.cpp:96-106).
THEOREM TailIsKept == BufferSpec => []TailOfTheStream
<1>1. TailInv => TailOfTheStream
  BY DEF TailInv, InPlace, Filled, TailOfTheStream
<1> QED BY <1>1, TailInvariant, PTL

\* Until an allocation fails no byte is copied outside the block: the failed realloc is the
\* only way to a pointer into no block (bytebuffer.h:28-44).
THEOREM NothingGoesWild == BufferSpec => []OnlyFailuresGoWild
<1>1. TailInv => OnlyFailuresGoWild
  BY DEF TailInv, OnlyFailuresGoWild
<1> QED BY <1>1, TailInvariant, PTL

\* All that the parser relies on (bytebuffer.h:28-44, dtxmessageparser.cpp:96-106).
THEOREM BufferIsSound == BufferSpec => []BufferInv
  BY BufferTypeCorrect, TailIsKept, NothingGoesWild, PTL DEF BufferInv

=============================================================================
