------------------------ MODULE DTXLifecycle_proofs ------------------------
(***************************************************************************)
(* Theorems about DTXLifecycle: without an error of the send or the parsing *)
(* thread nothing goes wrong in Connect and Disconnect, and whatever fails, *)
(* no buffer is lost and no session sees a packet of another.  For any      *)
(* number of sessions and any length of the queues.                         *)
(***************************************************************************)
EXTENDS DTXLifecycle, SequenceTheorems, TLAPS

Workers == {"send", "parse"}

CallPlaces == {"idle", "start", "assign", "stop", "store", "join", "clear", "free", "close"}

\* Caller c is at a place about thread t.
Doing(c, place, t) == step[c] = place /\ subject[c] = t

\* Somebody joins thread t.
Joiner(t) == \E c \in Callers : Doing(c, "join", t)

\* Disconnect deals with the threads, and then with what they leave.
Halting == {"stop", "store", "join"}
Finishing == {"clear", "free", "close"}

\* Caller c has dealt with thread t: it found the flag clear, or cleared it.
Passed(c, t) ==
  \/ step[c] \in Finishing
  \/ step[c] \in Halting /\ t = "send" /\ subject[c] \in {"receive", "parse"}
  \/ step[c] \in Halting /\ t = "receive" /\ subject[c] = "parse"
Stopped(c, t) == Doing(c, "join", t) \/ Passed(c, t)

\* Connect has not come to thread t yet.
Unstarted(t) ==
  \/ Doing("user", "start", "send")
  \/ /\ t \in {"parse", "receive"}
     /\ Doing("user", "assign", "send") \/ Doing("user", "start", "parse")
  \/ t = "receive" /\ (Doing("user", "assign", "parse") \/ Doing("user", "start", "receive"))

\* No thread works: a worker that disconnects itself is all there is.
Quiet ==
  /\ at["receive"] = "ended"
  /\ \A c \in Workers : at[c] \in {"ended", "disconnect"}

NoReplies == \A i \in DOMAIN send_queue_ : ~send_queue_[i].reply

-----------------------------------------------------------------------------
(* The invariant *)

\* Each thread is in its own function.
PlacesOK ==
  /\ at["send"] \in {"ended", "test", "connected", "work", "take", "sending", "stuck",
                   "disconnect"}
  /\ at["receive"] \in {"ended", "test", "connected", "work", "receiving"}
  /\ at["parse"] \in {"ended", "test", "connected", "work", "take", "parsing", "stuck",
                    "disconnect"}

\* A worker is in Disconnect after an error, and never in Connect.
WorkersOK ==
  \A c \in Workers :
    /\ step[c] # "idle" <=> at[c] = "disconnect"
    /\ step[c] \notin {"start", "assign"}
    /\ at[c] = "disconnect" => c \in failures

\* A thread that runs on after its flag was cleared is being joined.
JoinedOK == \A t \in Threads : ~running[t] /\ at[t] # "ended" => Joiner(t)

\* A thread has an object, as soon as Connect has stored it; and an object
\* whose flag is clear is about to go.
HandlesOK ==
  \A t \in Threads :
    /\ at[t] # "ended" \/ running[t] => handle[t] \/ Doing("user", "assign", t)
    /\ handle[t] /\ ~running[t] => Joiner(t)

\* What Connect has not started yet does not exist.
FreshOK ==
  \A t \in Threads : Unstarted(t) =>
    /\ ~running[t] /\ ~handle[t] /\ at[t] = "ended"
    /\ \A c \in Callers : ~Doing(c, "store", t) /\ ~Doing(c, "join", t)

\* While Connect is under way the parsing thread has nothing to parse, and the
\* send thread can only fail and join itself.
StartingOK ==
  /\ \A t \in Threads : Doing("user", "assign", t) =>
       ~handle[t] /\ (running[t] \/ Joiner(t))
  /\ Unstarted("receive") =>
       /\ step["parse"] = "idle" /\ at["parse"] \in {"ended", "test", "connected", "work"}
       /\ step["send"] \in Halting => subject["send"] = "send"
       /\ step["send"] \notin Finishing
       /\ Unstarted("send") \/ running["send"] \/ Doing("send", "join", "send")
       /\ Unstarted("parse") \/ running["parse"]

\* A thread that a caller of Disconnect has dealt with is not started again
\* before that caller is done.
OrderOK == \A c \in Callers, t \in Threads : Stopped(c, t) => ~running[t]

\* Connect has a client, and without one nothing works.
OpenOK ==
  /\ step["user"] \in {"start", "assign"} => client_ # 0
  /\ client_ = 0 => (\A t \in Threads : ~running[t]) /\ Quiet

Control ==
  /\ PlacesOK /\ WorkersOK /\ JoinedOK /\ HandlesOK /\ FreshOK /\ StartingOK
  /\ OrderOK /\ OpenOK

\* What a Disconnect found is still there when no other Disconnect is under way.
InDisconnect(c) == step[c] \in Halting \cup Finishing
Alone(c) == \A d \in Callers \ {c} : ~InDisconnect(d)
AloneOK ==
  \A c \in Callers, t \in Threads : Alone(c) =>
    /\ Doing(c, "store", t) => running[t]
    /\ Doing(c, "join", t) => handle[t] \/ Doing("user", "assign", t)

\* What is left in the queues when the client goes.
EmptyOK ==
  /\ client_ = 0 => receive_queue_ = <<>> /\ NoReplies
  /\ Unstarted("receive") => receive_queue_ = <<>>
  /\ \A c \in Callers : /\ step[c] \in {"free", "close"} => NoReplies
                        /\ step[c] = "close" => receive_queue_ = <<>>

PacketShare == IF packet THEN 1 ELSE 0
SendShare == IF at["send"] # "ended" THEN 1 ELSE 0
ParseShare == IF at["parse"] = "parsing" THEN 1 ELSE 0
Owned == Len(receive_queue_) + PacketShare + SendShare + ParseShare
OwnersOK ==
  /\ buffers = Owned /\ Len(receive_queue_) <= MaxQueued
  /\ at["receive"] = "ended" => ~packet
  /\ at["receive"] = "receiving" => packet

Core == Control /\ AloneOK /\ EmptyOK /\ OwnersOK

\* Two workers that fail join each other for ever, and a user who connects
\* then replaces the send thread, which ends the program.
Replacing ==
  /\ step["user"] \in {"start", "assign"} /\ subject["user"] = "send"
  /\ handle["send"] /\ at["send"] # "ended"
  /\ Doing("parse", "join", "send") /\ at["parse"] = "disconnect"
  /\ at["receive"] = "ended" /\ client_ # 0
  /\ receive_queue_ = <<>> /\ NoReplies /\ Workers \subseteq failures
  /\ \/ /\ step["user"] = "start" /\ at["send"] = "disconnect" /\ buffers = 1
        /\ Doing("send", "join", "parse")
     \/ /\ step["user"] = "assign" /\ buffers = 2
        /\ \/ running["send"] /\ Doing("send", "join", "parse")
           \/ /\ at["send"] = "disconnect" /\ subject["send"] = "send"
              /\ step["send"] = "join" \/ (running["send"] /\ step["send"] \in {"stop", "store"})

LifeInv ==
  /\ TypeOK /\ SessionsDoNotMix /\ NoFault
  /\ Alive => Core \/ Replacing

-----------------------------------------------------------------------------
(* Consequences *)

\* Who has stopped all threads finds them gone, but for workers in Disconnect:
\* every other thread would need a caller of its own that joins it.
LEMMA FinishingIsQuiet ==
  ASSUME TypeOK, Control, NEW c \in Callers, step[c] \in Finishing
  PROVE  /\ Quiet /\ \A t \in Threads : ~running[t]
         /\ c \in Workers => step["user"] = "join"
<1>1. \A t \in Threads : ~running[t]
  BY DEF Control, OrderOK, Stopped, Passed
<1>2. \A t \in Threads : at[t] # "ended" => Joiner(t)
  BY <1>1 DEF Control, JoinedOK
<1>3. \A d \in Workers : step[d] # "idle" <=> at[d] = "disconnect"
  BY DEF Control, WorkersOK
<1>4. ~Doing(c, "join", "send") /\ ~Doing(c, "join", "parse") /\ ~Doing(c, "join", "receive")
  BY DEF Doing, Finishing
<1> QED BY <1>1, <1>2, <1>3, <1>4, SMTT(30)
  DEF Quiet, Joiner, Doing, Finishing, Threads, Callers, Workers

\* Without a client and with the user outside Connect and Disconnect, all is
\* gone, unless the two workers join each other or one of them itself.
LEMMA ClosedIsGone ==
  ASSUME TypeOK, Control, client_ = 0, step["user"] = "idle", ~Doomed
  PROVE  \/ /\ \A t \in Threads : at[t] = "ended" /\ ~running[t] /\ ~handle[t]
            /\ \A c \in Callers : step[c] = "idle"
         \/ Doing("parse", "join", "send") /\ Doing("send", "join", "parse")
<1>1. (\A t \in Threads : ~running[t]) /\ Quiet
  BY DEF Control, OpenOK
<1>2. \A t \in Threads : at[t] # "ended" => Joiner(t)
  BY <1>1 DEF Control, JoinedOK
<1>3. \A d \in Workers : step[d] # "idle" <=> at[d] = "disconnect"
  BY DEF Control, WorkersOK
<1>4. \A t \in Threads : handle[t] => Joiner(t)
  BY <1>1 DEF Control, HandlesOK
<1>5. ~Doing("send", "join", "send") /\ ~Doing("parse", "join", "parse")
  BY DEF Doomed, Doing, Threads, Callers
<1> QED BY <1>1, <1>2, <1>3, <1>4, <1>5, SMTT(30)
  DEF Quiet, Joiner, Doing, Threads, Callers, Workers

-----------------------------------------------------------------------------
(* The control of the loops *)

\* A thread goes on in its loop, or ends.
LEMMA LoopControl ==
  ASSUME TypeOK, Control, UNCHANGED <<running, handle, step, subject, client_>>,
         NEW t \in Threads, NEW place, Move(t, place), at[t] \notin {"ended", "disconnect"},
         place # "disconnect", failures \subseteq failures', PlacesOK',
         t = "parse" /\ place \in {"take", "parsing", "stuck"} => ~Unstarted("receive")
  PROVE  Control'
<1>1. WorkersOK'
  BY DEF WorkersOK, Control, TypeOK, Move, Workers, Threads
<1>2. JoinedOK'
  BY DEF JoinedOK, Control, TypeOK, Move, Joiner, Doing
<1>3. HandlesOK'
  BY DEF HandlesOK, Control, TypeOK, Move, Joiner, Doing
<1>4. FreshOK'
  BY DEF FreshOK, Control, TypeOK, Move, Unstarted, Doing
<1>5. StartingOK'
  <2>1. at'["parse"] \in {"ended", "test", "connected", "work"} \/ ~Unstarted("receive")
    BY DEF StartingOK, Control, TypeOK, Move, PlacesOK, Threads
  <2> QED BY <2>1 DEF StartingOK, Control, Joiner, Unstarted, Doing
<1>6. OrderOK'
  BY DEF OrderOK, Control, Stopped, Passed, Doing
<1>7. OpenOK'
  BY DEF OpenOK, Control, TypeOK, Move, Quiet, Workers, Threads
<1> QED BY <1>1, <1>2, <1>3, <1>4, <1>5, <1>6, <1>7 DEF Control

\* A worker meets an error and calls Disconnect.
LEMMA FailControl ==
  ASSUME TypeOK, Control, UNCHANGED <<running, handle, client_>>,
         NEW c \in Workers, Move(c, "disconnect"), at[c] \in {"sending", "parsing"},
         GoTo(c, "stop", "send"), FailsIn(c)
  PROVE  Control'
<1>0. c \in Threads /\ c \in Callers /\ step[c] = "idle"
  BY DEF Workers, Threads, Callers, Control, WorkersOK
<1>a. \A d \in Callers, t \in Threads, p \in {"start", "assign", "store", "join"} :
        Doing(d, p, t)' <=> Doing(d, p, t)
  BY <1>0 DEF Doing, GoTo, TypeOK
<1>b. \A t \in Threads : Joiner(t)' <=> Joiner(t)
  BY <1>a DEF Joiner
<1>c. \A t \in Threads : Unstarted(t)' <=> Unstarted(t)
  BY <1>a DEF Unstarted, Threads, Callers
<1>1. WorkersOK'
  BY <1>0 DEF WorkersOK, Control, TypeOK, Move, Workers, Threads, GoTo, FailsIn
<1>2. JoinedOK'
  BY <1>b, <1>0 DEF JoinedOK, Control, TypeOK, Move
<1>3. HandlesOK'
  BY <1>a, <1>b, <1>0 DEF HandlesOK, Control, TypeOK, Move, Callers
<1>4. FreshOK'
  BY <1>a, <1>c, <1>0 DEF FreshOK, Control, TypeOK, Move
<1>5. StartingOK'
  <2>1. c = "parse" => ~Unstarted("receive")
    BY DEF StartingOK, Control
  <2>2. c = "send" => step'["parse"] = step["parse"] /\ at'["parse"] = at["parse"]
    BY DEF GoTo, Move, TypeOK, Threads, Callers
  <2>3. step'[c] = "stop" /\ subject'[c] = "send"
    BY <1>0 DEF GoTo, TypeOK, Threads
  <2>4. Doing("send", "join", "send")' <=> Doing("send", "join", "send")
    BY <1>a DEF Threads, Callers
  <2>5. Unstarted("receive")' => c = "send" /\ Unstarted("receive")
    BY <2>1, <1>c DEF Workers, Threads
  <2>6. (Unstarted("send")' <=> Unstarted("send")) /\ (Unstarted("parse")' <=> Unstarted("parse"))
    BY <1>c DEF Threads
  <2> QED BY <1>0, <1>a, <1>b, <2>2, <2>3, <2>4, <2>5, <2>6
       DEF StartingOK, Control, Halting, Finishing, Callers
<1>6. OrderOK'
  <2>1. \A d \in Callers, t \in Threads : Stopped(d, t)' => Stopped(d, t)
    BY <1>0 DEF Stopped, Passed, Doing, GoTo, TypeOK, Halting, Finishing
  <2> QED BY <2>1 DEF OrderOK, Control
<1>7. OpenOK'
  BY <1>0 DEF OpenOK, Control, TypeOK, Move, Quiet, Workers, Threads, GoTo, Callers
<1>8. PlacesOK'
  <2>1. c = "send" \/ c = "parse"
    BY DEF Workers
  <2> QED BY <1>0, <2>1 DEF PlacesOK, Control, TypeOK, Move, Threads
<1> QED BY <1>1, <1>2, <1>3, <1>4, <1>5, <1>6, <1>7, <1>8 DEF Control

-----------------------------------------------------------------------------
(* The control of Connect and Disconnect *)

\* A caller of Disconnect goes on without touching a flag or an object.
LEMMA MoveControl ==
  ASSUME TypeOK, Control, UNCHANGED <<running, handle, at, client_, failures>>,
         NEW c \in Callers, NEW place \in {"stop", "store", "clear", "free", "close"},
         NEW t \in Threads, GoTo(c, place, t),
         step[c] \notin {"start", "assign", "join", "store"},
         c \in Workers => step[c] # "idle",
         place = "store" => ~Unstarted(t),
         \A u \in Threads : Passed(c, u)' => Passed(c, u) \/ ~running[u],
         c = "send" /\ Unstarted("receive") => place \in {"stop", "store"} /\ t = "send"
  PROVE  Control'
<1>0. /\ step' = [step EXCEPT ![c] = place] /\ subject' = [subject EXCEPT ![c] = t]
      /\ step \in [Callers -> CallPlaces] /\ subject \in [Callers -> Threads]
  BY DEF GoTo, TypeOK, CallPlaces
<1>a. \A d \in Callers, u \in Threads, p \in {"start", "assign", "join"} :
        Doing(d, p, u)' <=> Doing(d, p, u)
  BY <1>0 DEF Doing
<1>b. \A u \in Threads : Joiner(u)' <=> Joiner(u)
  BY <1>a DEF Joiner
<1>c. \A u \in Threads : Unstarted(u)' <=> Unstarted(u)
  BY <1>a DEF Unstarted, Threads, Callers
<1>1. PlacesOK'
  BY DEF PlacesOK, Control
<1>2. WorkersOK'
  BY <1>0 DEF WorkersOK, Control, Workers, Callers
<1>3. JoinedOK'
  BY <1>b DEF JoinedOK, Control
<1>4. HandlesOK'
  BY <1>a, <1>b DEF HandlesOK, Control, Callers
<1>5. FreshOK'
  <2>1. \A d \in Callers, u \in Threads :
          Doing(d, "store", u)' => Doing(d, "store", u) \/ (place = "store" /\ u = t)
    BY <1>0 DEF Doing
  <2> QED BY <2>1, <1>a, <1>c DEF FreshOK, Control
<1>6. StartingOK'
  <2>1. Unstarted("receive") => c # "parse" /\ c # "user"
    <3>1. c = "user" => ~Unstarted("receive")
      BY DEF Unstarted, Doing
    <3>2. c = "parse" => ~Unstarted("receive")
      BY DEF StartingOK, Control, Workers
    <3> QED BY <3>1, <3>2
  <2>2. Unstarted("receive") => step'["parse"] = step["parse"]
    BY <1>0, <2>1 DEF Callers
  <2>3. Unstarted("receive") /\ c = "send" => step'["send"] \in {"stop", "store"}
          /\ subject'["send"] = "send"
    BY <1>0 DEF Callers
  <2>4. Unstarted("receive") /\ c # "send" => step'["send"] = step["send"]
          /\ subject'["send"] = subject["send"]
    BY <1>0 DEF Callers
  <2>5. Doing("send", "join", "send")' <=> Doing("send", "join", "send")
    BY <1>a DEF Threads, Callers
  <2>6. /\ Unstarted("send")' <=> Unstarted("send")
        /\ Unstarted("parse")' <=> Unstarted("parse")
        /\ Unstarted("receive")' <=> Unstarted("receive")
    BY <1>c DEF Threads
  <2>7. \A u \in Threads : Doing("user", "assign", u)' <=> Doing("user", "assign", u)
    BY <1>a DEF Callers
  <2> QED BY <1>b, <2>2, <2>3, <2>4, <2>5, <2>6, <2>7
       DEF StartingOK, Control, Halting, Finishing
<1>7. OrderOK'
  <2>1. \A d \in Callers, u \in Threads : Stopped(d, u)' => Stopped(d, u) \/ ~running[u]
    <3> SUFFICES ASSUME NEW d \in Callers, NEW u \in Threads
                 PROVE  Stopped(d, u)' => Stopped(d, u) \/ ~running[u]
      OBVIOUS
    <3>1. CASE d = c
      BY <3>1, <1>a DEF Stopped
    <3>2. CASE d # c
      BY <3>2, <1>0 DEF Stopped, Passed, Doing
    <3> QED BY <3>1, <3>2
  <2> QED BY <2>1 DEF OrderOK, Control
<1>8. OpenOK'
  BY <1>0 DEF OpenOK, Control, Quiet, Callers
<1> QED BY <1>1, <1>2, <1>3, <1>4, <1>5, <1>6, <1>7, <1>8 DEF Control

\* The flag of a thread is tested.
LEMMA StopControl ==
  ASSUME TypeOK, Control, NEW c \in Callers, StopThread(c)
  PROVE  Control'
<1> DEFINE t == subject[c]
<1>0. t \in Threads /\ step[c] = "stop" /\ step \in [Callers -> CallPlaces]
      /\ subject \in [Callers -> Threads]
  BY DEF TypeOK, StopThread, CallPlaces
<1>s. c = "send" /\ Unstarted("receive") => t = "send" /\ running["send"]
  <2>1. ~Doing("send", "join", "send") \/ c # "send"
    BY <1>0 DEF Doing
  <2>2. c = "send" => ~Unstarted("send")
    BY <1>0 DEF Control, FreshOK, WorkersOK, Workers, Threads
  <2> QED BY <1>0, <2>1, <2>2 DEF Control, StartingOK, Halting
<1>1. CASE running[t]
  <2>1. GoTo(c, "store", t)
    BY <1>1 DEF StopThread
  <2>2. ~Unstarted(t)
    BY <1>0, <1>1 DEF Control, FreshOK
  <2>3. \A u \in Threads : Passed(c, u)' => Passed(c, u)
    BY <1>0, <2>1 DEF Passed, GoTo, Halting, Finishing
  <2> QED BY <1>0, <1>s, <2>1, <2>2, <2>3, MoveControl DEF StopThread
<1>2. CASE ~running[t]
  <2>1. AfterStopping(c, t)
    BY <1>2 DEF StopThread
  <2>2. ~(c = "send" /\ Unstarted("receive"))
    BY <1>s, <1>2
  <2>3. \A u \in Threads : Passed(c, u)' => Passed(c, u) \/ ~running[u]
    BY <1>0, <1>2, <2>1 DEF Passed, GoTo, Halting, Finishing, AfterStopping, Threads
  <2>4. CASE t = "send"
    <3>1. GoTo(c, "stop", "receive")
      BY <2>1, <2>4 DEF AfterStopping
    <3> QED BY <1>0, <2>2, <2>3, <3>1, MoveControl DEF StopThread, Threads
  <2>5. CASE t = "receive"
    <3>1. GoTo(c, "stop", "parse")
      BY <2>1, <2>5 DEF AfterStopping
    <3> QED BY <1>0, <2>2, <2>3, <3>1, MoveControl DEF StopThread, Threads
  <2>6. CASE t = "parse"
    <3>1. GoTo(c, "clear", "parse")
      BY <2>1, <2>6 DEF AfterStopping
    <3> QED BY <1>0, <2>2, <2>3, <3>1, MoveControl DEF StopThread, Threads
  <2> QED BY <1>0, <2>4, <2>5, <2>6 DEF Threads
<1> QED BY <1>1, <1>2

\* The flag of a thread is cleared, to join it.
LEMMA FlagControl ==
  ASSUME TypeOK, Control, NEW c \in Callers, ClearFlag(c)
  PROVE  Control'
<1> DEFINE t == subject[c]
<1>0. /\ t \in Threads /\ step[c] = "store"
      /\ step' = [step EXCEPT ![c] = "join"] /\ subject' = [subject EXCEPT ![c] = t]
      /\ running' = [running EXCEPT ![t] = FALSE] /\ running \in [Threads -> BOOLEAN]
      /\ step \in [Callers -> CallPlaces] /\ subject \in [Callers -> Threads]
      /\ UNCHANGED <<handle, at, client_, failures>>
  BY DEF TypeOK, ClearFlag, CallPlaces, GoTo, FlagCleared
<1> HIDE DEF t
<1>a. \A d \in Callers, u \in Threads, p \in {"start", "assign", "store"} :
        Doing(d, p, u)' => Doing(d, p, u)
  BY <1>0 DEF Doing
<1>b. \A u \in Threads, p \in {"start", "assign"} :
        Doing("user", p, u)' <=> Doing("user", p, u)
  BY <1>0 DEF Doing, Callers
<1>c. \A d \in Callers, u \in Threads :
        Doing(d, "join", u)' <=> Doing(d, "join", u) \/ (d = c /\ u = t)
  BY <1>0 DEF Doing, t
<1>d. \A u \in Threads : Joiner(u)' <=> Joiner(u) \/ u = t
  BY <1>c DEF Joiner
<1>e. \A u \in Threads : Unstarted(u)' <=> Unstarted(u)
  BY <1>b DEF Unstarted, Threads
<1>f. ~Unstarted(t)
  BY <1>0 DEF FreshOK, Control, Doing, t
<1>1. PlacesOK'
  BY <1>0 DEF PlacesOK, Control
<1>2. WorkersOK'
  BY <1>0 DEF WorkersOK, Control, Workers, Callers
<1>3. JoinedOK'
  BY <1>0, <1>d DEF JoinedOK, Control
<1>4. HandlesOK'
  BY <1>0, <1>b, <1>d DEF HandlesOK, Control
<1>5. FreshOK'
  BY <1>0, <1>a, <1>c, <1>e, <1>f DEF FreshOK, Control
<1>6. StartingOK'
  <2>1. \A u \in Threads : Doing("user", "assign", u)' =>
          ~handle'[u] /\ (running'[u] \/ Joiner(u)')
    BY <1>0, <1>b, <1>d DEF StartingOK, Control
  <2>2. ASSUME Unstarted("receive")'
        PROVE  /\ c = "send" /\ t = "send" /\ step'["parse"] = "idle"
               /\ step'["send"] = "join" /\ subject'["send"] = "send"
               /\ at'["parse"] \in {"ended", "test", "connected", "work"}
               /\ Unstarted("parse")' \/ running'["parse"]
    <3>1. Unstarted("receive") /\ (Unstarted("parse")' <=> Unstarted("parse"))
      BY <2>2, <1>e DEF Threads
    <3>2. c # "user"
      BY <1>0, <3>1 DEF Unstarted, Doing
    <3>3. c = "send" /\ t = "send"
      BY <1>0, <3>1, <3>2 DEF StartingOK, Control, Halting, Callers, t
    <3> QED BY <1>0, <3>1, <3>3 DEF StartingOK, Control, Callers, Threads
  <2>3. Unstarted("receive")' => Doing("send", "join", "send")'
    BY <2>2 DEF Doing
  <2>4. Unstarted("receive")' =>
          /\ step'["parse"] = "idle" /\ at'["parse"] \in {"ended", "test", "connected", "work"}
          /\ step'["send"] \in Halting => subject'["send"] = "send"
          /\ step'["send"] \notin Finishing
          /\ Unstarted("parse")' \/ running'["parse"]
    BY <2>2 DEF Finishing
  <2> QED BY <2>1, <2>3, <2>4 DEF StartingOK
<1>7. OrderOK'
  <2>1. \A d \in Callers, u \in Threads : Passed(d, u)' => Passed(d, u)
    BY <1>0 DEF Passed, Halting, Finishing, t
  <2>2. \A d \in Callers, u \in Threads : Stopped(d, u)' => Stopped(d, u) \/ u = t
    BY <2>1, <1>c DEF Stopped
  <2> QED BY <1>0, <2>2 DEF OrderOK, Control
<1>8. OpenOK'
  BY <1>0 DEF OpenOK, Control, Quiet, Callers
<1> QED BY <1>1, <1>2, <1>3, <1>4, <1>5, <1>6, <1>7, <1>8 DEF Control

\* A thread that has ended is joined.
LEMMA JoinControl ==
  ASSUME TypeOK, Control, NEW c \in Callers, Join(c), Alive'
  PROVE  /\ Control'
         /\ AfterStopping(c, subject[c])
<1> DEFINE t == subject[c]
<1>0. /\ t \in Threads /\ step[c] = "join" /\ t # c /\ handle[t] /\ at[t] = "ended"
      /\ handle' = [handle EXCEPT ![t] = FALSE] /\ handle \in [Threads -> BOOLEAN]
      /\ step \in [Callers -> CallPlaces] /\ subject \in [Callers -> Threads]
      /\ UNCHANGED <<running, at, client_, failures>> /\ AfterStopping(c, t)
  BY DEF TypeOK, Join, CallPlaces, HasEnded, Alive
<1>1. PICK place \in {"stop", "clear"}, u \in Threads :
        /\ step' = [step EXCEPT ![c] = place] /\ subject' = [subject EXCEPT ![c] = u]
        /\ t = "send" => place = "stop" /\ u = "receive"
        /\ t = "receive" => place = "stop" /\ u = "parse"
        /\ t = "parse" => place = "clear" /\ u = "parse"
  BY <1>0 DEF AfterStopping, GoTo, Threads
<1> HIDE DEF t
<1>a. \A d \in Callers, v \in Threads, p \in {"start", "assign", "store", "join"} :
        Doing(d, p, v)' => Doing(d, p, v)
  BY <1>0, <1>1 DEF Doing
<1>b. \A v \in Threads, p \in {"start", "assign"} :
        Doing("user", p, v)' <=> Doing("user", p, v)
  BY <1>0, <1>1 DEF Doing, Callers
<1>c. \A d \in Callers, v \in Threads : v # t => (Doing(d, "join", v)' <=> Doing(d, "join", v))
  BY <1>0, <1>1 DEF Doing, t
<1>d. \A v \in Threads : v # t => (Joiner(v)' <=> Joiner(v))
  BY <1>c DEF Joiner
<1>e. \A v \in Threads : Unstarted(v)' <=> Unstarted(v)
  BY <1>b DEF Unstarted, Threads
<1>f. ~running[t]
  BY <1>0 DEF OrderOK, Stopped, Doing, Control, t
<1>2. PlacesOK'
  BY <1>0 DEF PlacesOK, Control
<1>3. WorkersOK'
  BY <1>0, <1>1 DEF WorkersOK, Control, Workers, Callers
<1>4. JoinedOK'
  BY <1>0, <1>d DEF JoinedOK, Control
<1>5. HandlesOK'
  BY <1>0, <1>b, <1>d, <1>f DEF HandlesOK, Control
<1>6. FreshOK'
  BY <1>0, <1>a, <1>e DEF FreshOK, Control
<1>7. StartingOK'
  <2>1. \A v \in Threads : Doing("user", "assign", v)' =>
          ~handle'[v] /\ (running'[v] \/ Joiner(v)')
    BY <1>0, <1>b, <1>d DEF StartingOK, Control
  <2>2. ~Unstarted("receive")
    <3>1. SUFFICES ASSUME Unstarted("receive") PROVE FALSE
      OBVIOUS
    <3>2. c # "user"
      BY <1>0, <3>1 DEF Unstarted, Doing
    <3>3. c = "send" /\ t = "send"
      BY <1>0, <3>1, <3>2 DEF StartingOK, Control, Halting, Callers, t
    <3> QED BY <1>0, <3>3
  <2> QED BY <2>1, <2>2, <1>e DEF StartingOK, Threads
<1>8. OrderOK'
  <2>1. \A d \in Callers, v \in Threads : Passed(d, v)' => Passed(d, v) \/ v = t
    <3> SUFFICES ASSUME NEW d \in Callers, NEW v \in Threads, Passed(d, v)'
                 PROVE  Passed(d, v) \/ v = t
      OBVIOUS
    <3>1. CASE d # c
      BY <3>1, <1>0, <1>1 DEF Passed
    <3>2. CASE d = c
      <4>1. step[c] = "join" /\ subject[c] = t
        BY <1>0 DEF t
      <4>2. step'[c] = place /\ subject'[c] = u
        BY <1>0, <1>1
      <4> QED BY <3>2, <4>1, <4>2, <1>0, <1>1 DEF Passed, Halting, Finishing, Threads
    <3> QED BY <3>1, <3>2
  <2>2. \A d \in Callers, v \in Threads : Doing(d, "join", v)' => Doing(d, "join", v)
    BY <1>a
  <2> QED BY <1>0, <1>f, <2>1, <2>2 DEF OrderOK, Control, Stopped
<1>9. OpenOK'
  BY <1>0, <1>1 DEF OpenOK, Control, Quiet, Callers
<1> QED BY <1>0, <1>2, <1>3, <1>4, <1>5, <1>6, <1>7, <1>8, <1>9 DEF Control, t

\* The queues are emptied.
LEMMA ClearControl ==
  ASSUME TypeOK, Control, NEW c \in Callers, ClearSendQueue(c) \/ ClearReceiveQueue(c)
  PROVE  Control'
<1>1. PICK place \in {"free", "close"} :
        /\ GoTo(c, place, subject[c]) /\ step[c] \in {"clear", "free"}
        /\ UNCHANGED <<running, handle, at, client_, failures>>
  BY DEF ClearSendQueue, ClearReceiveQueue
<1>2. subject[c] \in Threads
  BY DEF TypeOK
<1>3. \A u \in Threads : Passed(c, u)
  BY <1>1 DEF Passed, Finishing
<1>4. ~(c = "send" /\ Unstarted("receive"))
  BY <1>1 DEF Control, StartingOK, Finishing
<1> QED BY <1>1, <1>2, <1>3, <1>4, MoveControl

\* The user begins a Disconnect.
LEMMA DisconnectControl ==
  ASSUME TypeOK, Control, Disconnect
  PROVE  Control'
<1>1. GoTo("user", "stop", "send") /\ "user" \in Callers /\ "send" \in Threads
  BY DEF Disconnect, Callers, Threads
<1>2. \A u \in Threads : ~Passed("user", u)'
  BY <1>1 DEF GoTo, TypeOK, Passed, Halting, Finishing
<1> QED BY <1>1, <1>2, MoveControl DEF Disconnect, Workers

\* The transport is closed by the last step of Disconnect.
LEMMA CloseControl ==
  ASSUME TypeOK, Control, NEW c \in Callers, CloseTransport(c)
  PROVE  Control' /\ ~InUse /\ UNCHANGED fault
<1>0. /\ step[c] = "close" /\ step' = [step EXCEPT ![c] = "idle"] /\ UNCHANGED subject
      /\ at' = [t \in Threads |-> IF t = c THEN "ended" ELSE at[t]]
      /\ step \in [Callers -> CallPlaces] /\ subject \in [Callers -> Threads]
      /\ UNCHANGED <<running, handle, failures>>
  BY DEF TypeOK, CloseTransport, CallPlaces, GoTo
<1>q. /\ Quiet /\ \A t \in Threads : ~running[t]
      /\ c \in Workers => step["user"] = "join"
  BY <1>0, FinishingIsQuiet DEF Finishing
<1>i. ~InUse
  BY <1>q DEF InUse, Quiet, Threads, Workers
<1>u. UNCHANGED fault /\ client_' = 0
  BY <1>i DEF CloseTransport, FreeClient, IsConnected
<1>a. \A d \in Callers, v \in Threads, p \in {"start", "assign", "store", "join"} :
        Doing(d, p, v)' <=> Doing(d, p, v)
  BY <1>0 DEF Doing
<1>d. \A v \in Threads : Joiner(v)' <=> Joiner(v)
  BY <1>a DEF Joiner
<1>e. \A v \in Threads : Unstarted(v)' <=> Unstarted(v)
  BY <1>a DEF Unstarted, Threads, Callers
<1>g. step["user"] \notin {"start", "assign"}
  BY <1>0, <1>q DEF Callers, Workers
<1>1. PlacesOK'
  BY <1>0 DEF PlacesOK, Control, Threads
<1>2. WorkersOK'
  BY <1>0 DEF WorkersOK, Control, Workers, Callers, Threads
<1>3. JoinedOK'
  BY <1>0, <1>d DEF JoinedOK, Control
<1>4. HandlesOK'
  BY <1>0, <1>a, <1>d DEF HandlesOK, Control, Callers
<1>5. FreshOK'
  BY <1>0, <1>g, <1>e DEF FreshOK, Control, Unstarted, Doing
<1>6. StartingOK'
  BY <1>0, <1>g, <1>a, <1>e DEF StartingOK, Control, Unstarted, Doing, Callers, Threads
<1>7. OrderOK'
  BY <1>0, <1>q DEF OrderOK
<1>8. OpenOK'
  <2>1. step'["user"] \notin {"start", "assign"}
    BY <1>0, <1>g DEF Callers
  <2>2. Quiet'
    BY <1>0, <1>q DEF Quiet, Workers, Threads
  <2> QED BY <1>0, <1>q, <2>1, <2>2 DEF OpenOK
<1> QED BY <1>1, <1>2, <1>3, <1>4, <1>5, <1>6, <1>7, <1>8, <1>i, <1>u DEF Control

\* Connect finds everything gone, or two workers that join each other.
LEMMA ConnectControl ==
  ASSUME TypeOK, Control, Connect
  PROVE  \/ Control' /\ \A t \in Threads : at[t] = "ended"
         \/ Doing("parse", "join", "send") /\ Doing("send", "join", "parse")
<1>0. /\ step["user"] = "idle" /\ step' = [step EXCEPT !["user"] = "start"]
      /\ subject' = [subject EXCEPT !["user"] = "send"] /\ client_' # 0
      /\ step \in [Callers -> CallPlaces] /\ subject \in [Callers -> Threads]
      /\ UNCHANGED <<running, handle, at, failures>>
  BY DEF TypeOK, Connect, CallPlaces, GoTo
<1>1. CASE /\ \A t \in Threads : at[t] = "ended" /\ ~running[t] /\ ~handle[t]
           /\ \A c \in Callers : step[c] = "idle"
  <2>1. \A d \in Callers : step'[d] = (IF d = "user" THEN "start" ELSE "idle")
    BY <1>0, <1>1
  <2>2. subject'["user"] = "send"
    BY <1>0 DEF Callers
  <2>3. Unstarted("send")' /\ Unstarted("parse")'
    BY <2>1, <2>2 DEF Unstarted, Doing, Callers
  <2>4. \A d \in Callers, t \in Threads : ~Stopped(d, t)' /\ ~Doing(d, "store", t)'
    BY <2>1 DEF Stopped, Passed, Doing, Halting, Finishing
  <2>5. PlacesOK' /\ JoinedOK' /\ OrderOK'
    BY <1>0, <1>1, <2>4 DEF PlacesOK, JoinedOK, OrderOK, Threads
  <2>6. WorkersOK'
    BY <1>0, <1>1, <2>1 DEF WorkersOK, Workers, Callers, Threads
  <2>7. HandlesOK' /\ FreshOK'
    BY <1>0, <1>1, <2>4 DEF HandlesOK, FreshOK, Stopped
  <2>8. StartingOK'
    BY <1>0, <1>1, <2>1, <2>3 DEF StartingOK, Doing, Callers, Threads, Halting, Finishing
  <2>9. OpenOK'
    BY <1>0 DEF OpenOK
  <2> QED BY <1>1, <2>5, <2>6, <2>7, <2>8, <2>9 DEF Control
<1> QED BY <1>0, <1>1, ClosedIsGone DEF Connect, MayConnect

\* A thread begins to run.
LEMMA StartControl ==
  ASSUME TypeOK, Control, StartThread
  PROVE  /\ Control' /\ at[subject["user"]] = "ended" /\ ~handle[subject["user"]]
         /\ Unstarted(subject["user"])
<1> DEFINE t == subject["user"]
<1>0. /\ t \in Threads /\ step["user"] = "start"
      /\ UNCHANGED <<subject, handle, client_, failures>>
      /\ step' = [step EXCEPT !["user"] = "assign"]
      /\ running' = [running EXCEPT ![t] = TRUE] /\ running \in [Threads -> BOOLEAN]
      /\ step \in [Callers -> CallPlaces] /\ subject \in [Callers -> Threads]
      /\ at' = [at EXCEPT ![t] = "test"] /\ DOMAIN at = Threads
  BY DEF TypeOK, StartThread, CallPlaces, GoTo, Move, Callers
<1>p. t = subject["user"] /\ subject' = subject
  BY <1>0
<1> HIDE DEF t
<1>a. \A d \in Callers, v \in Threads, p \in {"store", "join"} :
        Doing(d, p, v)' <=> Doing(d, p, v)
  BY <1>0 DEF Doing
<1>d. \A v \in Threads : Joiner(v)' <=> Joiner(v)
  BY <1>a DEF Joiner
<1>b. /\ \A v \in Threads : Doing("user", "assign", v)' <=> v = t
      /\ \A v \in Threads : ~Doing("user", "start", v)'
      /\ \A v \in Threads : Doing("user", "start", v) <=> v = t
      /\ \A v \in Threads : ~Doing("user", "assign", v)
  BY <1>0, <1>p DEF Doing, Callers
<1>e. Unstarted(t) /\ \A v \in Threads : Unstarted(v)' <=> Unstarted(v) /\ v # t
  BY <1>0, <1>b DEF Unstarted, Threads
<1>f. ~running[t] /\ ~handle[t] /\ at[t] = "ended" /\ Unstarted("receive")
  BY <1>0, <1>b, <1>e DEF FreshOK, Control, Unstarted, Threads
<1>g. \A d \in Callers : ~Doing(d, "join", t)
  BY <1>0, <1>e DEF FreshOK, Control
<1>h. \A d \in Workers : step[d] \notin Finishing
  <2>1. step["parse"] = "idle" /\ step["send"] \notin Finishing
    BY <1>f DEF StartingOK, Control
  <2> QED BY <2>1 DEF Workers, Finishing
<1>s. step["send"] \in Halting => t # "send" /\ subject["send"] = "send"
  BY <1>f DEF Control, StartingOK, WorkersOK, Workers, Halting
<1>1. PlacesOK'
  BY <1>0 DEF PlacesOK, Control, Threads
<1>2. WorkersOK'
  BY <1>0, <1>f DEF WorkersOK, Control, Workers, Callers, Threads
<1>3. JoinedOK'
  BY <1>0, <1>d DEF JoinedOK, Control
<1>4. HandlesOK'
  BY <1>0, <1>b, <1>d, <1>f DEF HandlesOK, Control
<1>5. FreshOK'
  BY <1>0, <1>a, <1>e DEF FreshOK, Control
<1>6. StartingOK'
  <2>1. \A v \in Threads : Doing("user", "assign", v)' => ~handle'[v] /\ running'[v]
    BY <1>0, <1>b, <1>f
  <2>2. step'["parse"] = "idle" /\ step'["send"] = step["send"] /\ subject' = subject
    BY <1>0, <1>f DEF Callers, StartingOK, Control
  <2>3. at'["parse"] \in {"ended", "test", "connected", "work"}
    BY <1>0, <1>f DEF Threads, StartingOK, Control
  <2>4. Unstarted("send")' \/ running'["send"] \/ Doing("send", "join", "send")'
    BY <1>0, <1>e, <1>f, <1>a DEF Threads, Callers, StartingOK, Control
  <2>5. Unstarted("parse")' \/ running'["parse"]
    BY <1>0, <1>e, <1>f DEF Threads, StartingOK, Control
  <2>6. (step["send"] \in Halting => subject["send"] = "send") /\ step["send"] \notin Finishing
    BY <1>s, <1>h DEF Workers
  <2> QED BY <2>1, <2>2, <2>3, <2>4, <2>5, <2>6 DEF StartingOK
<1>7. OrderOK'
  <2>1. \A d \in Callers, v \in Threads : Stopped(d, v)' => Stopped(d, v) /\ v # t
    <3> SUFFICES ASSUME NEW d \in Callers, NEW v \in Threads, Stopped(d, v)'
                 PROVE  Stopped(d, v) /\ v # t
      OBVIOUS
    <3>1. d # "user"
      BY <1>0 DEF Stopped, Passed, Doing, Callers, Halting, Finishing
    <3>2. Stopped(d, v)
      BY <1>0, <3>1 DEF Stopped, Passed, Doing
    <3>3. d = "send" /\ Doing("send", "join", v)
      BY <3>1, <3>2, <1>h, <1>s, <1>f DEF Stopped, Passed, Callers, Workers, StartingOK,
         Control, Halting, Finishing, Doing
    <3> QED BY <3>2, <3>3, <1>g
  <2> QED BY <1>0, <2>1 DEF OrderOK, Control
<1>8. OpenOK'
  BY <1>0, <1>f DEF OpenOK, Control
<1> QED BY <1>1, <1>2, <1>3, <1>4, <1>5, <1>6, <1>7, <1>8, <1>e, <1>f DEF Control, t

\* The object of a thread that has begun to run is stored; the three threads
\* are started one after the other.
LEMMA AssignControl ==
  ASSUME TypeOK, Control, AssignThread
  PROVE  Control' /\ UNCHANGED fault
<1> DEFINE t == subject["user"]
<1>0. /\ t \in Threads /\ step["user"] = "assign" /\ UNCHANGED <<running, at, client_, failures>>
      /\ handle' = [handle EXCEPT ![t] = TRUE] /\ handle \in [Threads -> BOOLEAN]
      /\ step \in [Callers -> CallPlaces] /\ subject \in [Callers -> Threads]
  BY DEF TypeOK, AssignThread, CallPlaces, Callers
<1>1. PICK place \in {"start", "idle"}, u \in Threads :
        /\ step' = [step EXCEPT !["user"] = place] /\ subject' = [subject EXCEPT !["user"] = u]
        /\ t = "send" => place = "start" /\ u = "parse"
        /\ t = "parse" => place = "start" /\ u = "receive"
        /\ t = "receive" => place = "idle"
  BY <1>0 DEF AssignThread, GoTo, Threads
<1>p. t = subject["user"] /\ step'["user"] = place /\ subject'["user"] = u
  BY <1>0, <1>1 DEF Callers
<1>t. ~handle[t] /\ (running[t] \/ Joiner(t))
  BY <1>0 DEF Control, StartingOK, Doing
<1>u. UNCHANGED fault
  BY <1>t DEF AssignThread
<1> HIDE DEF t
<1>a. \A d \in Callers, v \in Threads, p \in {"store", "join"} :
        Doing(d, p, v)' <=> Doing(d, p, v)
  BY <1>0, <1>1 DEF Doing
<1>d. \A v \in Threads : Joiner(v)' <=> Joiner(v)
  BY <1>a DEF Joiner
<1>b. /\ \A v \in Threads : ~Doing("user", "assign", v)'
      /\ \A v \in Threads : Doing("user", "assign", v) <=> v = t
      /\ \A v \in Threads : ~Doing("user", "start", v)
      /\ \A v \in Threads : Doing("user", "start", v)' <=> place = "start" /\ v = u
  BY <1>0, <1>p DEF Doing, Callers
<1>e. \A v \in Threads : Unstarted(v)' <=> Unstarted(v)
  BY <1>0, <1>1, <1>b DEF Unstarted, Threads
<1>f. ~Unstarted(t)
  BY <1>0, <1>b DEF Unstarted, Threads
<1>2. PlacesOK'
  BY <1>0 DEF PlacesOK, Control
<1>3. WorkersOK'
  BY <1>0, <1>1 DEF WorkersOK, Control, Workers, Callers
<1>4. JoinedOK'
  BY <1>0, <1>d DEF JoinedOK, Control
<1>5. HandlesOK'
  BY <1>0, <1>b, <1>d, <1>t DEF HandlesOK, Control
<1>6. FreshOK'
  BY <1>0, <1>a, <1>e, <1>f DEF FreshOK, Control
<1>7. StartingOK'
  <2>1. step'["parse"] = step["parse"] /\ step'["send"] = step["send"]
          /\ subject'["send"] = subject["send"]
    BY <1>0, <1>1 DEF Callers
  <2>2. Doing("send", "join", "send")' <=> Doing("send", "join", "send")
    BY <1>a DEF Callers, Threads
  <2> QED BY <1>0, <1>b, <1>e, <2>1, <2>2 DEF StartingOK, Control, Threads
<1>8. OrderOK'
  <2>1. \A d \in Callers, v \in Threads : Stopped(d, v)' => Stopped(d, v)
    BY <1>0, <1>1 DEF Stopped, Passed, Doing, Halting, Finishing
  <2> QED BY <1>0, <2>1 DEF OrderOK, Control
<1>9. OpenOK'
  BY <1>0, <1>1 DEF OpenOK, Control, Quiet, Callers
<1> QED BY <1>2, <1>3, <1>4, <1>5, <1>6, <1>7, <1>8, <1>9, <1>u DEF Control

-----------------------------------------------------------------------------
(* The steps of the loops *)

\* What a turn of a loop may change besides the queues: a thread goes on or ends,
\* or it fails.
GoesOn(t, place) ==
  /\ Move(t, place) /\ place # "disconnect" /\ PlacesOK'
  /\ t = "parse" /\ place \in {"take", "parsing", "stuck"}
       => receive_queue_ # <<>> \/ at["parse"] \in {"take", "parsing"}
  /\ UNCHANGED <<step, subject>> /\ failures' \in {failures, failures \cup ({t} \cap {"receive"})}
Fails(t) ==
  /\ t \in Workers /\ at[t] \in {"sending", "parsing"}
  /\ Move(t, "disconnect") /\ GoTo(t, "stop", "send") /\ FailsIn(t)
LoopStep(t) ==
  /\ UNCHANGED <<running, handle, client_, sessions, fault>>
  /\ Fails(t) \/ \E place \in {"ended", "test", "connected", "work", "take", "sending",
                             "receiving", "parsing", "stuck"} : GoesOn(t, place)

LEMMA WorkIsLoopStep ==
  ASSUME TypeOK, PlacesOK, NEW t \in Threads, Work(t)
  PROVE  LoopStep(t) /\ at[t] \notin {"ended", "disconnect"}
<1> USE DEF LoopStep, GoesOn, Fails
<1>0. at \in [Threads -> {"ended", "test", "connected", "work", "take", "sending",
                         "receiving", "parsing", "stuck", "disconnect"}]
  BY DEF TypeOK
<1>1. ASSUME NEW place, Move(t, place), place \in {"ended", "test", "connected", "work"}
      PROVE  PlacesOK'
  BY <1>0, <1>1 DEF PlacesOK, Move, Threads
<1>2. CASE TestRunning(t)
  BY <1>1, <1>2 DEF TestRunning, End, Move
<1>3. CASE TestConnected(t)
  BY <1>1, <1>3 DEF TestConnected, Move
<1>4. CASE t = "send" /\ WaitToTake(t, send_queue_)
  <2>1. PlacesOK'
    BY <1>0, <1>4 DEF PlacesOK, WaitToTake, Move, Threads
  <2> QED BY <1>4, <2>1 DEF WaitToTake, data
<1>5. CASE t = "parse" /\ WaitToTake(t, receive_queue_)
  <2>1. PlacesOK'
    BY <1>0, <1>5 DEF PlacesOK, WaitToTake, Move, Threads
  <2> QED BY <1>5, <2>1 DEF WaitToTake, data
<1>6. CASE t = "send" /\ TakeMessage
  <2>1. PlacesOK'
    BY <1>0, <1>6 DEF PlacesOK, TakeMessage, Move, Threads
  <2> QED BY <1>6, <2>1 DEF TakeMessage
<1>7. CASE t = "parse" /\ TakePacket
  <2>1. PlacesOK'
    BY <1>0, <1>7 DEF PlacesOK, TakePacket, Move, Threads
  <2> QED BY <1>7, <2>1 DEF TakePacket
<1>h. ASSUME at[t] \in {"sending", "parsing"}, ReturnsOrHangs(t)
      PROVE  \E place \in {"test", "stuck"} : Move(t, place) /\ PlacesOK'
  <2>1. PICK place \in {"test", "stuck"} : Move(t, place)
    BY <1>h DEF ReturnsOrHangs
  <2>2. PlacesOK'
    BY <1>0, <1>h, <2>1 DEF PlacesOK, Move, Threads
  <2> QED BY <2>1, <2>2
<1>8. CASE t = "send" /\ Transmitted
  <2>1. CASE ReturnsOrHangs("send") /\ UNCHANGED <<step, subject, failures>>
    BY <1>h, <1>8, <2>1 DEF Transmitted
  <2>2. CASE FailsIn("send") /\ Move("send", "disconnect") /\ GoTo("send", "stop", "send")
    BY <1>8, <2>2 DEF Transmitted, Workers
  <2> QED BY <1>8, <2>1, <2>2 DEF Transmitted
<1>9. CASE t = "parse" /\ Parsed
  <2>1. CASE ReturnsOrHangs("parse") /\ UNCHANGED <<step, subject, failures>>
    BY <1>h, <1>9, <2>1 DEF Parsed
  <2>2. CASE FailsIn("parse") /\ Move("parse", "disconnect") /\ GoTo("parse", "stop", "send")
    BY <1>9, <2>2 DEF Parsed, Workers
  <2> QED BY <1>9, <2>1, <2>2 DEF Parsed
<1>10. CASE t = "receive" /\ StartReceiving
  <2>1. PlacesOK'
    BY <1>0, <1>10 DEF PlacesOK, StartReceiving, Move, Threads
  <2> QED BY <1>10, <2>1 DEF StartReceiving
<1>11. CASE t = "receive" /\ Received
  BY <1>1, <1>11 DEF Received, TimedOut, FailsIn, End
<1> QED BY <1>2, <1>3, <1>4, <1>5, <1>6, <1>7, <1>8, <1>9, <1>10, <1>11 DEF Work

\* A turn of a loop keeps what concerns the control.
LEMMA WorkControl ==
  ASSUME TypeOK, Control, EmptyOK, NEW t \in Threads, Work(t)
  PROVE  Control' /\ client_ # 0 /\ at[t] \notin {"ended", "disconnect"} /\ LoopStep(t)
<1>1. LoopStep(t) /\ at[t] \notin {"ended", "disconnect"}
  BY WorkIsLoopStep DEF Control
<1>2. client_ # 0
  BY <1>1 DEF Control, OpenOK, Quiet, Threads, Workers
<1>3. Control'
  <2>1. CASE Fails(t)
    BY <1>1, <2>1, FailControl DEF LoopStep, Fails
  <2>2. ASSUME NEW place, GoesOn(t, place) PROVE Control'
    <3>1. t = "parse" /\ place \in {"take", "parsing", "stuck"} => ~Unstarted("receive")
      BY <2>2 DEF GoesOn, EmptyOK, Control, StartingOK
    <3>2. Move(t, place) /\ PlacesOK' /\ failures \subseteq failures' /\ place # "disconnect"
      BY <2>2 DEF GoesOn
    <3>3. UNCHANGED <<running, handle, step, subject, client_>>
      BY <1>1, <2>2 DEF LoopStep, GoesOn
    <3> QED BY <1>1, <3>1, <3>2, <3>3, LoopControl
  <2> QED BY <1>1, <2>1, <2>2 DEF LoopStep
<1> QED BY <1>1, <1>2, <1>3

\* A fault has its cause.
Cause ==
  \/ fault' = "terminate" /\ \E t \in Threads \cap Callers : JoinsItself(t)
  \/ \E c, d \in Callers : c # d /\ Busy(c) /\ Busy(d)

\* A worker that disconnects is among those that have failed.
LEMMA CauseIsAFailure ==
  ASSUME TypeOK, Control, Cause, failures \subseteq {"receive"}
  PROVE  FALSE
<1>1. \A c \in Callers : step[c] # "idle" => c = "user"
  BY DEF Control, WorkersOK, Workers, Callers
<1> QED BY <1>1 DEF Cause, JoinsItself, Busy, Threads, Callers

\* A step of Disconnect keeps what concerns the control, and the program does not
\* end without a cause.
LEMMA ProceedControl ==
  ASSUME TypeOK, Control, AloneOK, NEW c \in Callers, Proceed(c)
  PROVE  /\ Alive' => Control'
         /\ fault' # fault => Cause
<1>1. CASE StopThread(c)
  BY <1>1, StopControl DEF StopThread
<1>2. CASE ClearFlag(c)
  BY <1>2, FlagControl DEF ClearFlag
<1>3. CASE Join(c)
  <2>1. ASSUME fault' # fault PROVE Cause
    <3>1. step[c] = "join" /\ subject[c] \in Threads
      BY <1>3 DEF Join, TypeOK
    <3>2. CASE handle[subject[c]]
      <4>1. fault' = "terminate" /\ subject[c] = c
        BY <1>3, <2>1, <3>2 DEF Join
      <4> QED BY <3>1, <4>1 DEF Cause, JoinsItself
    <3>3. CASE ~handle[subject[c]] /\ ~Alone(c)
      BY <3>1, <3>3 DEF Alone, InDisconnect, Halting, Finishing, Cause, Busy
    <3>4. CASE ~handle[subject[c]] /\ Alone(c)
      <4>1. step["user"] = "assign" /\ "user" \in Callers
        BY <3>1, <3>4 DEF AloneOK, Doing, Callers
      <4> QED BY <3>1, <4>1 DEF Cause, Busy
    <3> QED BY <3>2, <3>3, <3>4
  <2> QED BY <1>3, <2>1, JoinControl DEF Join
<1>4. CASE ClearSendQueue(c)
  BY <1>4, ClearControl DEF ClearSendQueue
<1>5. CASE ClearReceiveQueue(c)
  BY <1>5, ClearControl DEF ClearReceiveQueue
<1>6. CASE CloseTransport(c)
  BY <1>6, CloseControl
<1> QED BY <1>1, <1>2, <1>3, <1>4, <1>5, <1>6 DEF Proceed

\* When a Disconnect ends while another one is under way, that one waits in a join for
\* a thread that has its object still.
LEMMA OtherWaits ==
  ASSUME TypeOK, Control, NEW c \in Callers, CloseTransport(c),
         NEW d \in Callers, d # c, InDisconnect(d),
         \A e \in Callers \ {c, d} : ~InDisconnect(e)
  PROVE  step[d] = "join" /\ \A t \in Threads : subject[d] = t => handle[t]
<1>0. step[c] = "close" /\ step[c] \in Finishing
  BY DEF CloseTransport, Finishing
<1>q. /\ \A t \in Threads : ~running[t]
      /\ c \in Workers => step["user"] = "join"
  BY <1>0, FinishingIsQuiet
<1>w. \A e \in Workers : step[e] # "idle" => e \in Threads /\ at[e] = "disconnect"
  BY DEF Control, WorkersOK, Workers, Threads
<1>g. step["user"] # "assign"
  BY <1>0, <1>q DEF Callers, Workers
\* A worker that is in Disconnect is being joined, and not by c.
<1>j. ASSUME NEW w \in Workers, step[w] # "idle"
      PROVE  Doing(d, "join", w) /\ handle[w]
  <2>1. w \in Threads /\ at[w] # "ended"
    BY <1>j, <1>w
  <2>2. PICK e \in Callers : Doing(e, "join", w)
    BY <1>q, <2>1 DEF Control, JoinedOK, Joiner
  <2>3. e = d
    BY <1>0, <2>2 DEF Doing, InDisconnect, Halting
  <2>4. handle[w]
    BY <1>g, <2>1 DEF Control, HandlesOK, Doing
  <2> QED BY <2>2, <2>3, <2>4
<1>1. CASE d = "user"
  <2>1. c \in Workers /\ step[c] # "idle"
    BY <1>0, <1>1 DEF Callers, Workers
  <2> QED BY <1>j, <2>1 DEF Doing
<1>2. CASE d \in Workers
  <2>1. step[d] # "idle"
    BY DEF InDisconnect, Halting, Finishing
  <2> QED BY <1>j, <1>2, <2>1 DEF Doing
<1> QED BY <1>1, <1>2 DEF Callers, Workers

\* What a caller of Disconnect has found or done by itself stays so.
LEMMA ProceedAlone ==
  ASSUME TypeOK, Control, AloneOK, NEW c \in Callers, Proceed(c)
  PROVE  AloneOK'
<1>t. /\ subject[c] \in Threads /\ step \in [Callers -> CallPlaces]
      /\ subject \in [Callers -> Threads] /\ running \in [Threads -> BOOLEAN]
      /\ handle \in [Threads -> BOOLEAN]
  BY DEF TypeOK, CallPlaces
<1>b. InDisconnect(c)
  BY DEF Proceed, StopThread, ClearFlag, Join, ClearSendQueue, ClearReceiveQueue,
     CloseTransport, InDisconnect, Halting, Finishing
<1>c. /\ \A d \in Callers \ {c} : step'[d] = step[d] /\ subject'[d] = subject[d]
      /\ \A d \in Callers \ {c} : InDisconnect(d)' <=> InDisconnect(d)
  <2>1. \A d \in Callers \ {c} : step'[d] = step[d] /\ subject'[d] = subject[d]
    BY <1>t DEF Proceed, StopThread, ClearFlag, Join, ClearSendQueue, ClearReceiveQueue,
       CloseTransport, AfterStopping, GoTo, Threads
  <2> QED BY <2>1 DEF InDisconnect
<1>a. \A t \in Threads : Doing("user", "assign", t) => Doing("user", "assign", t)'
  BY <1>b, <1>c DEF Doing, InDisconnect, Halting, Finishing, Callers
<1> SUFFICES ASSUME NEW d \in Callers, NEW u \in Threads, Alone(d)'
             PROVE  /\ Doing(d, "store", u)' => running'[u]
                    /\ Doing(d, "join", u)' => handle'[u] \/ Doing("user", "assign", u)'
  BY DEF AloneOK
<1>1. CASE d # c
  <2>1. ~InDisconnect(c)'
    BY <1>1 DEF Alone
  <2>2. CloseTransport(c)
    BY <1>t, <2>1 DEF Proceed, StopThread, ClearFlag, Join, ClearSendQueue, ClearReceiveQueue,
       AfterStopping, GoTo, InDisconnect, Halting, Finishing, Threads
  <2>3. \A e \in Callers \ {c, d} : ~InDisconnect(e)
    BY <1>c DEF Alone
  <2>4. InDisconnect(d) => step[d] = "join" /\ \A t \in Threads : subject[d] = t => handle[t]
    BY <1>1, <2>2, <2>3, OtherWaits
  <2>5. UNCHANGED handle
    BY <2>2 DEF CloseTransport
  <2>6. step'[d] = step[d] /\ subject'[d] = subject[d]
    BY <1>1, <1>c
  <2> QED BY <2>4, <2>5, <2>6 DEF Doing, InDisconnect, Halting
<1>2. CASE d = c
  <2>0. Alone(c)
    BY <1>2, <1>c DEF Alone
  <2>1. CASE StopThread(c)
    <3>1. CASE running[subject[c]]
      BY <1>2, <1>t, <2>1, <3>1 DEF StopThread, GoTo, Doing
    <3>2. CASE ~running[subject[c]]
      BY <1>2, <1>t, <2>1, <3>2 DEF StopThread, AfterStopping, GoTo, Doing, Threads
    <3> QED BY <3>1, <3>2
  <2>2. CASE ClearFlag(c)
    <3>1. running[subject[c]] /\ step[c] = "store"
      BY <1>t, <2>0, <2>2 DEF ClearFlag, AloneOK, Doing
    <3>2. handle[subject[c]] \/ Doing("user", "assign", subject[c])
      BY <1>t, <3>1 DEF Control, HandlesOK
    <3>3. step'[c] = "join" /\ subject'[c] = subject[c] /\ UNCHANGED handle
      BY <1>t, <2>2 DEF ClearFlag, GoTo
    <3> QED BY <1>2, <1>t, <1>a, <3>2, <3>3 DEF Doing
  <2>3. CASE Join(c)
    <3>1. CASE AfterStopping(c, subject[c])
      BY <1>2, <1>t, <3>1 DEF AfterStopping, GoTo, Doing, Threads
    <3>2. CASE UNCHANGED <<handle, step, subject>>
      BY <1>2, <1>a, <2>0, <2>3, <3>2 DEF Join, AloneOK, Doing
    <3> QED BY <2>3, <3>1, <3>2 DEF Join
  <2>4. CASE ClearSendQueue(c) \/ ClearReceiveQueue(c) \/ CloseTransport(c)
    BY <1>2, <1>t, <2>4 DEF ClearSendQueue, ClearReceiveQueue, CloseTransport, GoTo, Doing
  <2> QED BY <2>1, <2>2, <2>3, <2>4 DEF Proceed
<1> QED BY <1>1, <1>2

-----------------------------------------------------------------------------
(* What is left when the client goes *)

\* Nobody adds a packet or a reply once a Disconnect has emptied a queue.
LEMMA WorkEmpty ==
  ASSUME TypeOK, Control, EmptyOK, NEW t \in Threads, Work(t)
  PROVE  EmptyOK'
<1>0. /\ client_ # 0 /\ at[t] \notin {"ended", "disconnect"} /\ UNCHANGED client_
      /\ \A c \in Callers : step'[c] \in Finishing => step'[c] = step[c]
      /\ \A u \in Threads : Unstarted(u)' <=> Unstarted(u)
  BY WorkControl DEF LoopStep, Fails, GoesOn, GoTo, TypeOK, Finishing, Callers, Workers,
     Unstarted, Doing
<1>1. \A c \in Callers : step'[c] \notin Finishing
  BY <1>0, FinishingIsQuiet DEF Quiet, Threads, Workers
<1>2. Unstarted("receive") => receive_queue_' = <<>>
  <2>1. Unstarted("receive") => receive_queue_ = <<>> /\ at["receive"] = "ended"
    BY DEF EmptyOK, Control, FreshOK, Threads
  <2> QED BY <2>1 DEF Work, TestRunning, TestConnected, WaitToTake, TakeMessage, Transmitted,
                      StartReceiving, Received, TakePacket, Parsed, data
<1> QED BY <1>0, <1>1, <1>2 DEF EmptyOK, Finishing, Threads

LEMMA ProceedEmpty ==
  ASSUME TypeOK, Control, EmptyOK, NEW c \in Callers, Proceed(c)
  PROVE  EmptyOK'
<1>t. /\ subject[c] \in Threads /\ step \in [Callers -> CallPlaces]
      /\ subject \in [Callers -> Threads]
  BY DEF TypeOK, CallPlaces
<1>1. PICK place \in CallPlaces \ {"start", "assign"} : step' = [step EXCEPT ![c] = place]
  BY <1>t DEF Proceed, StopThread, ClearFlag, Join, ClearSendQueue, ClearReceiveQueue,
     CloseTransport, AfterStopping, GoTo, CallPlaces, Threads
<1>2. Unstarted("receive")' => Unstarted("receive")
  <2>1. c # "user" => step'["user"] = step["user"] /\ subject'["user"] = subject["user"]
    BY <1>t DEF Proceed, StopThread, ClearFlag, Join, ClearSendQueue, ClearReceiveQueue,
       CloseTransport, AfterStopping, GoTo, CallPlaces, Callers, Threads
  <2>2. c = "user" => step'["user"] \notin {"start", "assign"}
    BY <1>t, <1>1 DEF Callers
  <2> QED BY <2>1, <2>2 DEF Unstarted, Doing
<1>3. CASE StopThread(c) \/ ClearFlag(c) \/ Join(c)
  <2>1. step'[c] \notin {"free", "close"} /\ UNCHANGED <<client_, receive_queue_, send_queue_>>
    BY <1>t, <1>3 DEF StopThread, ClearFlag, Join, AfterStopping, GoTo, CallPlaces, Threads, data
  <2> QED BY <1>t, <1>1, <1>2, <2>1 DEF EmptyOK, NoReplies
<1>4. CASE ClearSendQueue(c)
  BY <1>t, <1>1, <1>2, <1>4 DEF ClearSendQueue, EmptyOK, NoReplies, GoTo
<1>5. CASE ClearReceiveQueue(c)
  BY <1>t, <1>1, <1>2, <1>5 DEF ClearReceiveQueue, EmptyOK, NoReplies, GoTo
<1>6. CASE CloseTransport(c)
  BY <1>t, <1>1, <1>2, <1>6 DEF CloseTransport, EmptyOK, NoReplies, GoTo
<1> QED BY <1>3, <1>4, <1>5, <1>6 DEF Proceed

-----------------------------------------------------------------------------
(* Every buffer has an owner *)

LEMMA Shares ==
  /\ packet => PacketShare = 1
  /\ ~packet => PacketShare = 0
  /\ at["send"] # "ended" => SendShare = 1
  /\ at["send"] = "ended" => SendShare = 0
  /\ at["parse"] = "parsing" => ParseShare = 1
  /\ at["parse"] # "parsing" => ParseShare = 0
  /\ packet' => PacketShare' = 1
  /\ ~packet' => PacketShare' = 0
  /\ at'["send"] # "ended" => SendShare' = 1
  /\ at'["send"] = "ended" => SendShare' = 0
  /\ at'["parse"] = "parsing" => ParseShare' = 1
  /\ at'["parse"] # "parsing" => ParseShare' = 0
BY DEF PacketShare, SendShare, ParseShare

\* A thread that ends its loop in the regular way frees what it owns.
LEMMA EndOwners ==
  ASSUME TypeOK, OwnersOK, NEW t \in Threads, End(t), UNCHANGED receive_queue_,
         at[t] \notin {"ended", "parsing"}
  PROVE  OwnersOK'
<1>0. /\ at \in [Threads -> {"ended", "test", "connected", "work", "take", "sending",
                             "receiving", "parsing", "stuck", "disconnect"}]
      /\ packet \in BOOLEAN /\ buffers \in Int /\ Len(receive_queue_) \in Nat /\ MaxQueued \in Nat
  BY BoundsAssumption DEF TypeOK
<1>1. /\ at' = [at EXCEPT ![t] = "ended"] /\ buffers' = buffers - FreedAtEnd(t)
      /\ packet' = (packet /\ t # "receive")
  BY DEF End, Move
<1> USE DEF OwnersOK, Owned
<1>2. CASE t = "send"
  <2>1. FreedAtEnd(t) = 1
    BY <1>2 DEF FreedAtEnd
  <2> QED BY Shares, <1>0, <1>1, <1>2, <2>1 DEF Threads
<1>3. CASE t = "receive" /\ packet
  <2>1. FreedAtEnd(t) = 1
    BY <1>3 DEF FreedAtEnd
  <2>2. ~packet'
    BY <1>1, <1>3
  <2>3. at'["send"] = at["send"] /\ at'["parse"] = at["parse"] /\ at'["receive"] = "ended"
    BY <1>0, <1>1, <1>3 DEF Threads
  <2> QED BY Shares, <1>0, <1>1, <1>3, <2>1, <2>2, <2>3
<1>4. CASE t = "parse" \/ (t = "receive" /\ ~packet)
  <2>1. FreedAtEnd(t) = 0
    BY <1>4 DEF FreedAtEnd
  <2> QED BY Shares, <1>0, <1>1, <1>4, <2>1 DEF Threads
<1> QED BY <1>0, <1>2, <1>3, <1>4 DEF Threads

\* A turn of a loop hands a buffer on, allocates one or frees one.
LEMMA WorkOwners ==
  ASSUME TypeOK, Control, EmptyOK, OwnersOK, NEW t \in Threads, Work(t)
  PROVE  OwnersOK'
<1>0. /\ client_ # 0 /\ at[t] \notin {"ended", "disconnect"}
      /\ at \in [Threads -> {"ended", "test", "connected", "work", "take", "sending",
                             "receiving", "parsing", "stuck", "disconnect"}]
      /\ receive_queue_ \in Seq(0..sessions) /\ packet \in BOOLEAN /\ buffers \in Int
      /\ Len(receive_queue_) \in Nat /\ MaxQueued \in Nat
      /\ client_ \in Int /\ sessions \in Int
  BY WorkControl, BoundsAssumption DEF TypeOK
<1>o. /\ buffers = Owned /\ Len(receive_queue_) <= MaxQueued
      /\ at["receive"] = "ended" => ~packet
      /\ at["receive"] = "receiving" => packet
  BY DEF OwnersOK
<1> USE DEF OwnersOK, Owned
<1>1. CASE TestRunning(t)
  <2>1. CASE running[t]
    BY Shares, <1>0, <1>o, <1>1, <2>1 DEF TestRunning, Move, Threads
  <2>2. CASE ~running[t]
    BY <1>1, <2>2, EndOwners DEF TestRunning
  <2> QED BY <2>1, <2>2
<1>2. CASE TestConnected(t)
  BY Shares, <1>0, <1>o, <1>2 DEF TestConnected, Move, IsConnected, Threads
<1>3. CASE \E queue : WaitToTake(t, queue)
  BY Shares, <1>0, <1>o, <1>3 DEF WaitToTake, Move, Threads, data
<1>4. CASE TakeMessage
  BY Shares, <1>0, <1>o, <1>4 DEF TakeMessage, Move, Threads
<1>5. CASE Transmitted
  BY Shares, <1>0, <1>o, <1>5 DEF Transmitted, ReturnsOrHangs, Move, Threads, data
<1>6. CASE StartReceiving
  BY Shares, <1>0, <1>o, <1>6 DEF StartReceiving, Move, Threads
<1>7. CASE Received
  <2>1. at["receive"] = "receiving" /\ packet
    BY <1>o, <1>7 DEF Received
  <2>2. CASE TimedOut
    BY Shares, <1>0, <1>o, <1>7, <2>1, <2>2 DEF Received, TimedOut, Move, Threads
  <2>3. CASE /\ Len(receive_queue_) < MaxQueued
             /\ receive_queue_' = Append(receive_queue_, client_) /\ packet' = FALSE
             /\ Move("receive", "test") /\ UNCHANGED buffers
    <3>1. Len(receive_queue_') = Len(receive_queue_) + 1
      BY <1>0, <2>3
    <3>2. at'["send"] = at["send"] /\ at'["parse"] = at["parse"] /\ at'["receive"] = "test"
      BY <1>0, <2>3 DEF Move, Threads
    <3> QED BY Shares, <1>0, <1>o, <2>1, <2>3, <3>1, <3>2
  <2>4. CASE End("receive") /\ UNCHANGED receive_queue_
    BY <2>1, <2>4, EndOwners DEF Threads
  <2> QED BY <1>7, <2>2, <2>3, <2>4 DEF Received
<1>8. CASE TakePacket
  <2>1. Len(receive_queue_') = Len(receive_queue_) - 1
    BY <1>0, <1>8 DEF TakePacket
  <2> QED BY Shares, <1>0, <1>o, <1>8, <2>1 DEF TakePacket, Move, Threads
<1>9. CASE Parsed
  <2>1. PICK place \in {"test", "stuck", "disconnect"} : at' = [at EXCEPT !["parse"] = place]
    BY <1>9 DEF Parsed, ReturnsOrHangs, Move
  <2>2. at["parse"] = "parsing" /\ buffers' = buffers - 1 /\ UNCHANGED <<receive_queue_, packet>>
    BY <1>9 DEF Parsed
  <2> QED BY Shares, <1>0, <1>o, <2>1, <2>2 DEF Threads
<1> QED BY <1>1, <1>2, <1>3, <1>4, <1>5, <1>6, <1>7, <1>8, <1>9 DEF Work

LEMMA ProceedOwners ==
  ASSUME TypeOK, Control, OwnersOK, NEW c \in Callers, Proceed(c)
  PROVE  OwnersOK'
<1>0. /\ at \in [Threads -> {"ended", "test", "connected", "work", "take", "sending",
                             "receiving", "parsing", "stuck", "disconnect"}]
      /\ packet \in BOOLEAN /\ buffers \in Int /\ MaxQueued \in Nat
      /\ Len(receive_queue_) \in Nat
  BY BoundsAssumption DEF TypeOK
<1>o. /\ buffers = Owned /\ Len(receive_queue_) <= MaxQueued
      /\ at["receive"] = "ended" => ~packet
      /\ at["receive"] = "receiving" => packet
  BY DEF OwnersOK
<1> USE DEF OwnersOK, Owned
<1>1. CASE StopThread(c) \/ ClearFlag(c) \/ Join(c) \/ ClearSendQueue(c)
  <2>1. UNCHANGED <<at, packet, buffers, receive_queue_>>
    BY <1>1 DEF StopThread, ClearFlag, Join, ClearSendQueue, data
  <2> QED BY <1>0, <1>o, <2>1, Shares
<1>2. CASE ClearReceiveQueue(c)
  <2>1. buffers' = buffers - Len(receive_queue_) /\ Len(receive_queue_') = 0
    BY <1>2 DEF ClearReceiveQueue, PacketsFreed
  <2> QED BY Shares, <1>0, <1>o, <1>2, <2>1 DEF ClearReceiveQueue
<1>3. CASE CloseTransport(c)
  <2>1. /\ c = "send" => at["send"] = "disconnect"
        /\ c = "parse" => at["parse"] = "disconnect"
        /\ c # "receive"
    BY <1>3 DEF CloseTransport, Control, WorkersOK, Workers, Callers
  <2> QED BY Shares, <1>0, <1>o, <1>3, <2>1 DEF CloseTransport, Threads
<1> QED BY <1>1, <1>2, <1>3 DEF Proceed

LEMMA StartOwners ==
  ASSUME TypeOK, Control, OwnersOK, StartThread
  PROVE  OwnersOK'
<1>0. /\ at \in [Threads -> {"ended", "test", "connected", "work", "take", "sending",
                             "receiving", "parsing", "stuck", "disconnect"}]
      /\ packet \in BOOLEAN /\ buffers \in Int /\ MaxQueued \in Nat
      /\ Len(receive_queue_) \in Nat /\ subject["user"] \in Threads
  BY BoundsAssumption DEF TypeOK, Callers
<1>1. at[subject["user"]] = "ended"
  BY StartControl
<1> QED BY Shares, <1>0, <1>1 DEF OwnersOK, Owned, StartThread, Move, Threads

-----------------------------------------------------------------------------
(* Types *)

\* The types without the bound of buffers, which follows from its owners.
Typed ==
  /\ running \in [Threads -> BOOLEAN] /\ handle \in [Threads -> BOOLEAN]
  /\ at \in [Threads -> {"ended", "test", "connected", "work", "take", "sending",
                         "receiving", "parsing", "stuck", "disconnect"}]
  /\ step \in [Callers -> CallPlaces] /\ subject \in [Callers -> Threads]
  /\ sessions \in 0..MaxSessions /\ client_ \in 0..sessions /\ failures \subseteq Threads
  /\ send_queue_ \in Seq([reply : BOOLEAN, session : 0..sessions])
  /\ receive_queue_ \in Seq(0..sessions)
  /\ packet \in BOOLEAN /\ fault \in {"none", "terminate", "undefined"}

\* The bound of buffers.
LEMMA OwnersBound ==
  ASSUME Typed', OwnersOK'
  PROVE  buffers' \in 0..(MaxQueued + 3)
<1>1. Len(receive_queue_') \in Nat /\ MaxQueued \in Nat
  BY BoundsAssumption DEF Typed
<1> QED BY <1>1, Shares DEF OwnersOK, Owned, Typed

LEMMA MoreSessions ==
  ASSUME Typed, NEW n \in Nat, sessions <= n
  PROVE  /\ send_queue_ \in Seq([reply : BOOLEAN, session : 0..n])
         /\ receive_queue_ \in Seq(0..n)
<1>1. sessions \in Nat /\ 0..sessions \subseteq 0..n
  BY BoundsAssumption DEF Typed
<1>2. [reply : BOOLEAN, session : 0..sessions] \subseteq [reply : BOOLEAN, session : 0..n]
  BY <1>1
<1> QED BY <1>1, <1>2, SeqMonotonic DEF Typed

LEMMA ProceedTyped ==
  ASSUME Typed, NEW c \in Callers, Proceed(c)
  PROVE  Typed'
<1> USE DEF Typed
<1>t. subject[c] \in Threads
  OBVIOUS
<1>g. ASSUME NEW place \in CallPlaces, NEW t \in Threads, GoTo(c, place, t)
      PROVE  step' \in [Callers -> CallPlaces] /\ subject' \in [Callers -> Threads]
  BY <1>g DEF GoTo
<1>a. ASSUME AfterStopping(c, subject[c])
      PROVE  step' \in [Callers -> CallPlaces] /\ subject' \in [Callers -> Threads]
  BY <1>t, <1>a DEF AfterStopping, GoTo, CallPlaces, Threads
<1>e. <<>> \in Seq(0..sessions) /\ <<>> \in Seq([reply : BOOLEAN, session : 0..sessions])
  OBVIOUS
<1>1. CASE StopThread(c)
  <2>1. step' \in [Callers -> CallPlaces] /\ subject' \in [Callers -> Threads]
    BY <1>1, <1>t, <1>a, <1>g DEF StopThread, CallPlaces
  <2> QED BY <1>1, <2>1 DEF StopThread, data
<1>2. CASE ClearFlag(c)
  <2>1. step' \in [Callers -> CallPlaces] /\ subject' \in [Callers -> Threads]
    BY <1>2, <1>t, <1>g DEF ClearFlag, CallPlaces
  <2> QED BY <1>2, <1>t, <2>1 DEF ClearFlag, FlagCleared, data
<1>3. CASE Join(c)
  <2>1. step' \in [Callers -> CallPlaces] /\ subject' \in [Callers -> Threads]
    BY <1>3, <1>t, <1>a DEF Join
  <2> QED BY <1>3, <1>t, <2>1 DEF Join, data
<1>4. CASE ClearSendQueue(c)
  <2>1. step' \in [Callers -> CallPlaces] /\ subject' \in [Callers -> Threads]
    BY <1>4, <1>t, <1>g DEF ClearSendQueue, CallPlaces
  <2> QED BY <1>4, <1>e, <2>1 DEF ClearSendQueue
<1>5. CASE ClearReceiveQueue(c)
  <2>1. step' \in [Callers -> CallPlaces] /\ subject' \in [Callers -> Threads]
    BY <1>5, <1>t, <1>g DEF ClearReceiveQueue, CallPlaces
  <2> QED BY <1>5, <1>e, <2>1 DEF ClearReceiveQueue
<1>6. CASE CloseTransport(c)
  <2>1. step' \in [Callers -> CallPlaces] /\ subject' \in [Callers -> Threads]
    BY <1>6, <1>t, <1>g DEF CloseTransport, CallPlaces
  <2>2. client_' \in 0..sessions /\ fault' \in {"none", "terminate", "undefined"}
    BY <1>6, BoundsAssumption DEF CloseTransport, FreeClient
  <2> QED BY <1>6, <2>1, <2>2 DEF CloseTransport
<1> QED BY <1>1, <1>2, <1>3, <1>4, <1>5, <1>6 DEF Proceed

LEMMA WorkTyped ==
  ASSUME Typed, NEW t \in Threads, Work(t)
  PROVE  Typed'
<1> USE DEF Typed
<1>m. ASSUME NEW u \in Threads,
             NEW place \in {"ended", "test", "connected", "work", "take", "sending",
                            "receiving", "parsing", "stuck", "disconnect"},
             Move(u, place)
      PROVE  at' \in [Threads -> {"ended", "test", "connected", "work", "take", "sending",
                                 "receiving", "parsing", "stuck", "disconnect"}]
  BY <1>m DEF Move
<1>n. client_ \in 0..sessions /\ Message(TRUE) \in [reply : BOOLEAN, session : 0..sessions]
  BY BoundsAssumption DEF Message
<1>g. ASSUME NEW c \in Workers, GoTo(c, "stop", "send")
      PROVE  step' \in [Callers -> CallPlaces] /\ subject' \in [Callers -> Threads]
  <2>1. c \in Callers /\ "stop" \in CallPlaces /\ "send" \in Threads
    BY DEF Workers, Callers, CallPlaces, Threads
  <2> QED BY <1>g, <2>1 DEF GoTo
<1>f. ASSUME NEW u \in Threads, FailsIn(u) PROVE failures' \subseteq Threads
  BY <1>f DEF FailsIn
<1>1. CASE TestRunning(t)
  <2>1. packet' \in BOOLEAN
    BY <1>1 DEF TestRunning, End
  <2> QED BY <1>1, <1>m, <2>1 DEF TestRunning, End
<1>2. CASE TestConnected(t)
  <2>1. packet' \in BOOLEAN
    BY <1>2 DEF TestConnected
  <2> QED BY <1>2, <1>m, <2>1 DEF TestConnected
<1>3. CASE \E queue : WaitToTake(t, queue)
  BY <1>3, <1>m DEF WaitToTake, data
<1>4. CASE TakeMessage
  <2>1. send_queue_' \in Seq([reply : BOOLEAN, session : 0..sessions])
    BY <1>4 DEF TakeMessage
  <2> QED BY <1>4, <1>m, <2>1 DEF TakeMessage, Threads
<1>5. CASE Transmitted
  <2>1. /\ step' \in [Callers -> CallPlaces] /\ subject' \in [Callers -> Threads]
        /\ failures' \subseteq Threads
    BY <1>5, <1>f, <1>g DEF Transmitted, Threads, Workers
  <2> QED BY <1>5, <1>m, <2>1 DEF Transmitted, ReturnsOrHangs, Threads, data
<1>6. CASE StartReceiving
  BY <1>6, <1>m DEF StartReceiving, Threads
<1>7. CASE Received
  <2>1. receive_queue_' \in Seq(0..sessions)
    <3>1. Append(receive_queue_, client_) \in Seq(0..sessions)
      BY <1>n
    <3> QED BY <1>7, <3>1 DEF Received, TimedOut
  <2>2. packet' \in BOOLEAN /\ failures' \subseteq Threads
    BY <1>7 DEF Received, TimedOut, End, FailsIn, Threads
  <2> QED BY <1>7, <1>m, <2>1, <2>2 DEF Received, TimedOut, End, Threads
<1>8. CASE TakePacket
  <2>1. receive_queue_' \in Seq(0..sessions)
    BY <1>8 DEF TakePacket
  <2> QED BY <1>8, <1>m, <2>1 DEF TakePacket, Threads
<1>9. CASE Parsed
  <2>1. /\ step' \in [Callers -> CallPlaces] /\ subject' \in [Callers -> Threads]
        /\ failures' \subseteq Threads
    BY <1>9, <1>f, <1>g DEF Parsed, Threads, Workers
  <2>2. send_queue_' \in Seq([reply : BOOLEAN, session : 0..sessions])
    <3>1. Append(send_queue_, Message(TRUE)) \in Seq([reply : BOOLEAN, session : 0..sessions])
      BY <1>n, AppendProperties
    <3> QED BY <1>9, <3>1 DEF Parsed
  <2>3. at' \in [Threads -> {"ended", "test", "connected", "work", "take", "sending",
                            "receiving", "parsing", "stuck", "disconnect"}]
    <3>1. \E place \in {"test", "stuck", "disconnect"} : Move("parse", place)
      BY <1>9 DEF Parsed, ReturnsOrHangs
    <3> QED BY <1>m, <3>1 DEF Threads
  <2> QED BY <1>9, <2>1, <2>2, <2>3 DEF Parsed
<1> QED BY <1>1, <1>2, <1>3, <1>4, <1>5, <1>6, <1>7, <1>8, <1>9 DEF Work

\* A step of any kind keeps the types.
LEMMA NextTyped ==
  ASSUME Typed, [Next]_vars
  PROVE  Typed'
<1> USE DEF Typed
<1>0. /\ "user" \in Callers /\ "send" \in Threads /\ "parse" \in Threads /\ "receive" \in Threads
      /\ "start" \in CallPlaces /\ "assign" \in CallPlaces /\ "idle" \in CallPlaces
      /\ "stop" \in CallPlaces
  BY DEF Callers, Threads, CallPlaces
<1>g. ASSUME NEW place \in CallPlaces, NEW t \in Threads, GoTo("user", place, t)
      PROVE  step' \in [Callers -> CallPlaces] /\ subject' \in [Callers -> Threads]
  BY <1>g DEF GoTo
<1>1. CASE Connect
  <2>1. sessions' \in 0..MaxSessions /\ client_' \in 0..sessions' /\ sessions' \in Nat
          /\ sessions <= sessions'
    BY <1>1, BoundsAssumption DEF Connect
  <2>2. /\ send_queue_ \in Seq([reply : BOOLEAN, session : 0..sessions'])
        /\ receive_queue_ \in Seq(0..sessions')
    BY <2>1, MoreSessions
  <2>3. step' \in [Callers -> CallPlaces] /\ subject' \in [Callers -> Threads]
    BY <1>0, <1>1, <1>g DEF Connect
  <2> QED BY <1>1, <2>1, <2>2, <2>3 DEF Connect, data
<1>2. CASE Disconnect
  BY <1>0, <1>2, <1>g DEF Disconnect, data
<1>3. CASE SendMessageAsync
  <2>1. Message(FALSE) \in [reply : BOOLEAN, session : 0..sessions]
    BY BoundsAssumption DEF Message
  <2>2. send_queue_' \in Seq([reply : BOOLEAN, session : 0..sessions])
    BY <1>3, <2>1, AppendProperties DEF SendMessageAsync
  <2> QED BY <1>3, <2>2 DEF SendMessageAsync, control
<1>4. CASE StartThread
  <2>1. step' \in [Callers -> CallPlaces] /\ subject' \in [Callers -> Threads]
    BY <1>0, <1>4, <1>g DEF StartThread
  <2> QED BY <1>0, <1>4, <2>1 DEF StartThread, Move
<1>5. CASE AssignThread
  <2>1. step' \in [Callers -> CallPlaces] /\ subject' \in [Callers -> Threads]
    <3>1. subject["user"] \in Threads
      BY <1>0
    <3>2. \/ GoTo("user", "start", "parse") \/ GoTo("user", "start", "receive")
          \/ GoTo("user", "idle", "receive")
      BY <1>5, <3>1 DEF AssignThread, Threads
    <3> QED BY <1>0, <3>2, <1>g
  <2>2. fault' \in {"none", "terminate", "undefined"}
    BY <1>5 DEF AssignThread
  <2> QED BY <1>0, <1>5, <2>1, <2>2 DEF AssignThread, data
<1>6. CASE \E c \in Callers : Proceed(c)
  BY <1>6, ProceedTyped
<1>7. CASE \E t \in Threads : Work(t)
  BY <1>7, WorkTyped
<1>8. CASE UNCHANGED vars
  BY <1>8 DEF vars, control, data
<1> QED BY <1>1, <1>2, <1>3, <1>4, <1>5, <1>6, <1>7, <1>8 DEF Next, Start

-----------------------------------------------------------------------------
(* Sessions *)

LEMMA AppendedElements ==
  ASSUME NEW S, NEW s \in Seq(S), NEW e
  PROVE  \A i \in DOMAIN Append(s, e) :
           (i \in DOMAIN s /\ Append(s, e)[i] = s[i]) \/ Append(s, e)[i] = e
OBVIOUS

\* The queues hold what they held, less what was taken, and what the session
\* that lasts has added.
LEMMA QueuesOfSession ==
  ASSUME Typed, SessionsDoNotMix, UNCHANGED client_,
         \/ UNCHANGED receive_queue_ \/ receive_queue_' = <<>>
         \/ receive_queue_ # <<>> /\ receive_queue_' = Tail(receive_queue_)
         \/ receive_queue_' = Append(receive_queue_, client_),
         \/ UNCHANGED send_queue_ \/ send_queue_' = <<>>
         \/ send_queue_ # <<>> /\ send_queue_' = Tail(send_queue_)
         \/ \E r \in BOOLEAN : send_queue_' = Append(send_queue_, Message(r))
  PROVE  SessionsDoNotMix'
<1>t. /\ send_queue_ \in Seq([reply : BOOLEAN, session : 0..sessions])
      /\ receive_queue_ \in Seq(0..sessions)
  BY DEF Typed
<1>1. \A i \in DOMAIN receive_queue_' : receive_queue_'[i] = client_
  <2>0. \A i \in DOMAIN receive_queue_ : receive_queue_[i] = client_
    BY DEF SessionsDoNotMix
  <2>1. CASE receive_queue_' = Append(receive_queue_, client_)
    BY <1>t, <2>0, <2>1
  <2>2. CASE receive_queue_ # <<>> /\ receive_queue_' = Tail(receive_queue_)
    BY <1>t, <2>0, <2>2
  <2>3. CASE UNCHANGED receive_queue_ \/ receive_queue_' = <<>>
    BY <2>0, <2>3
  <2> QED BY <2>1, <2>2, <2>3
<1>2. \A i \in DOMAIN send_queue_' : send_queue_'[i].reply => send_queue_'[i].session = client_
  <2>0. \A i \in DOMAIN send_queue_ : send_queue_[i].reply => send_queue_[i].session = client_
    BY DEF SessionsDoNotMix
  <2>1. ASSUME NEW r \in BOOLEAN, send_queue_' = Append(send_queue_, Message(r))
        PROVE  \A i \in DOMAIN send_queue_' : send_queue_'[i].reply
                 => send_queue_'[i].session = client_
    <3>1. Message(r).session = client_
      BY DEF Message
    <3>2. \A i \in DOMAIN send_queue_' :
            \/ (i \in DOMAIN send_queue_ /\ send_queue_'[i] = send_queue_[i])
            \/ send_queue_'[i] = Message(r)
      BY <1>t, <2>1
    <3> QED BY <2>0, <3>1, <3>2
  <2>2. CASE send_queue_ # <<>> /\ send_queue_' = Tail(send_queue_)
    <3>1. \A i \in DOMAIN send_queue_' : i + 1 \in DOMAIN send_queue_
            /\ send_queue_'[i] = send_queue_[i + 1]
      BY <1>t, <2>2
    <3> QED BY <2>0, <3>1
  <2>3. CASE UNCHANGED send_queue_ \/ send_queue_' = <<>>
    BY <2>0, <2>3
  <2> QED BY <2>1, <2>2, <2>3
<1> QED BY <1>1, <1>2 DEF SessionsDoNotMix

LEMMA NextSessions ==
  ASSUME Typed, SessionsDoNotMix, [Next]_vars,
         client_ = 0 \/ (\E c \in Callers : step[c] = "close")
           => receive_queue_ = <<>> /\ NoReplies
  PROVE  SessionsDoNotMix'
<1>1. CASE Connect \/ \E c \in Callers : CloseTransport(c)
  BY <1>1 DEF Connect, MayConnect, CloseTransport, SessionsDoNotMix, NoReplies, data
<1>2. CASE Disconnect \/ Start \/ UNCHANGED vars
  BY <1>2 DEF Disconnect, Start, StartThread, AssignThread, vars, control, data, SessionsDoNotMix
<1>3. CASE SendMessageAsync
  BY <1>3, QueuesOfSession DEF SendMessageAsync, control
<1>4. ASSUME NEW c \in Callers, Proceed(c), ~CloseTransport(c) PROVE SessionsDoNotMix'
  BY <1>4, QueuesOfSession
  DEF Proceed, StopThread, ClearFlag, Join, ClearSendQueue, ClearReceiveQueue, data
<1>5. ASSUME NEW t \in Threads, Work(t) PROVE SessionsDoNotMix'
  <2>1. CASE TestRunning(t) \/ TestConnected(t) \/ \E queue : WaitToTake(t, queue)
    BY <2>1, QueuesOfSession DEF TestRunning, TestConnected, WaitToTake, data
  <2>2. CASE TakeMessage \/ Transmitted \/ StartReceiving \/ TakePacket
    BY <2>2, QueuesOfSession DEF TakeMessage, Transmitted, StartReceiving, TakePacket, data
  <2>3. CASE Received
    BY <2>3, QueuesOfSession DEF Received, TimedOut
  <2>4. CASE Parsed
    BY <2>4, QueuesOfSession DEF Parsed
  <2> QED BY <1>5, <2>1, <2>2, <2>3, <2>4 DEF Work
<1> QED BY <1>1, <1>2, <1>3, <1>4, <1>5 DEF Next

-----------------------------------------------------------------------------
(* The steps of Connect, and the invariant *)

\* Nothing the user does before he disconnects undoes what another caller has found.
LEMMA UserAlone ==
  ASSUME TypeOK, AloneOK, Connect \/ StartThread \/ AssignThread \/ Disconnect
  PROVE  AloneOK'
<1>t. /\ step \in [Callers -> CallPlaces] /\ subject \in [Callers -> Threads]
      /\ running \in [Threads -> BOOLEAN] /\ handle \in [Threads -> BOOLEAN]
      /\ "user" \in Callers /\ subject["user"] \in Threads
  BY DEF TypeOK, CallPlaces, Callers
<1>1. /\ step["user"] \in {"idle", "start", "assign"}
      /\ \E place \in {"start", "assign", "idle", "stop"}, u \in Threads : GoTo("user", place, u)
  BY <1>t DEF Connect, StartThread, AssignThread, Disconnect, Threads
<1>2. PICK place \in {"start", "assign", "idle", "stop"}, u \in Threads :
        /\ step' = [step EXCEPT !["user"] = place]
        /\ subject' = [subject EXCEPT !["user"] = u]
  BY <1>1 DEF GoTo
<1>3. \A c \in Callers, p \in {"store", "join"}, t \in Threads : Doing(c, p, t)' => Doing(c, p, t)
  BY <1>t, <1>2 DEF Doing
<1>4. \A c \in Callers : InDisconnect(c) => InDisconnect(c)'
  BY <1>t, <1>1, <1>2 DEF InDisconnect, Halting, Finishing
<1>5. \A c \in Callers : Alone(c)' => Alone(c)
  BY <1>4 DEF Alone
<1>6. \A t \in Threads : running[t] => running'[t]
  BY <1>t DEF Connect, StartThread, AssignThread, Disconnect
<1>7. ASSUME NEW t \in Threads, handle[t] \/ Doing("user", "assign", t)
      PROVE  handle'[t]
  <2>1. CASE AssignThread
    BY <1>t, <1>7, <2>1 DEF AssignThread, Doing
  <2>2. CASE Connect \/ StartThread \/ Disconnect
    BY <1>7, <2>2 DEF Connect, StartThread, Disconnect, Doing
  <2> QED BY <2>1, <2>2
<1> QED BY <1>3, <1>5, <1>6, <1>7 DEF AloneOK

LEMMA UserStep ==
  ASSUME TypeOK, Core, Connect \/ Start \/ Disconnect \/ SendMessageAsync
  PROVE  Core' \/ Replacing'
<1> USE DEF Core
<1>0. /\ "user" \in Callers /\ step \in [Callers -> CallPlaces]
           /\ subject \in [Callers -> Threads]
      /\ Typed /\ Len(receive_queue_) \in Nat
  BY DEF TypeOK, Typed, CallPlaces, Callers
<1>1. CASE Connect
  <2>1. CASE Control' /\ \A t \in Threads : at[t] = "ended"
    <3>1. AloneOK'
      BY <1>1, UserAlone
    <3>2. receive_queue_ = <<>> /\ NoReplies
      BY <1>1 DEF Connect, MayConnect, EmptyOK
    <3>3. EmptyOK'
      BY <1>1, <3>2 DEF EmptyOK, Connect, NoReplies, data
    <3>4. OwnersOK'
      BY <1>1, Shares DEF OwnersOK, Owned, Connect, data
    <3> QED BY <2>1, <3>1, <3>3, <3>4
  <2>2. CASE Doing("parse", "join", "send") /\ Doing("send", "join", "parse")
    <3>1. at["parse"] = "disconnect" /\ at["send"] = "disconnect" /\ Workers \subseteq failures
      BY <2>2 DEF Control, WorkersOK, Workers, Doing
    <3>2. handle["send"]
      BY <1>1, <3>1 DEF Control, HandlesOK, Threads, Connect, Doing
    <3>3. at["receive"] = "ended" /\ receive_queue_ = <<>> /\ NoReplies /\ ~packet
      BY <1>1 DEF Connect, MayConnect, EmptyOK, Control, OpenOK, Quiet, OwnersOK
    <3>4. buffers = 1
      BY <1>0, <3>1, <3>3, Shares DEF OwnersOK, Owned
    <3>5. client_' # 0
      BY <1>1 DEF Connect, TypeOK
    <3>6. /\ step'["user"] = "start" /\ subject'["user"] = "send"
          /\ Doing("parse", "join", "send")' /\ Doing("send", "join", "parse")'
      BY <1>0, <1>1, <2>2 DEF Connect, GoTo, Doing, Callers
    <3> QED BY <1>1, <3>1, <3>2, <3>3, <3>4, <3>5, <3>6 DEF Replacing, Connect, NoReplies, data
  <2> QED BY <1>1, <2>1, <2>2, ConnectControl
<1>2. CASE StartThread
  <2>1. Control' /\ Unstarted(subject["user"])
    BY <1>2, StartControl
  <2>2. AloneOK'
    BY <1>2, UserAlone
  <2>3. EmptyOK'
    <3>1. \A c \in Callers : step'[c] \in {"free", "close"} => step'[c] = step[c]
      BY <1>0, <1>2 DEF StartThread, GoTo
    <3>2. Unstarted("receive")
      BY <1>0, <1>2 DEF StartThread, Unstarted, Doing, Threads
    <3> QED BY <1>2, <3>1, <3>2 DEF EmptyOK, StartThread, NoReplies
  <2> QED BY <1>2, <2>1, <2>2, <2>3, StartOwners
<1>3. CASE AssignThread
  <2>1. Control'
    BY <1>3, AssignControl
  <2>0. \/ GoTo("user", "start", "parse") /\ subject["user"] = "send"
        \/ GoTo("user", "start", "receive") /\ subject["user"] = "parse"
        \/ GoTo("user", "idle", "receive")
    BY <1>0, <1>3 DEF AssignThread, Threads
  <2>2. AloneOK'
    BY <1>3, UserAlone
  <2>3. EmptyOK'
    <3>1. \A c \in Callers : step'[c] \in {"free", "close"} => step'[c] = step[c]
      BY <1>0, <2>0 DEF GoTo
    <3>2. Unstarted("receive")' => Unstarted("receive")
      BY <1>0, <1>3, <2>0 DEF AssignThread, GoTo, Unstarted, Doing, Threads
    <3> QED BY <1>3, <3>1, <3>2 DEF EmptyOK, AssignThread, NoReplies, data
  <2>4. OwnersOK'
    BY <1>0, <1>3, Shares DEF OwnersOK, Owned, AssignThread, data
  <2> QED BY <2>1, <2>2, <2>3, <2>4
<1>4. CASE Disconnect
  <2>1. Control'
    BY <1>4, DisconnectControl
  <2>2. AloneOK'
    BY <1>4, UserAlone
  <2>3. EmptyOK'
    <3>1. \A c \in Callers : step'[c] \in {"free", "close"} => step'[c] = step[c]
      BY <1>0, <1>4 DEF Disconnect, GoTo
    <3>2. ~Unstarted("receive")'
      BY <1>0, <1>4 DEF Disconnect, GoTo, Unstarted, Doing
    <3> QED BY <1>4, <3>1, <3>2 DEF EmptyOK, Disconnect, NoReplies, data
  <2>4. OwnersOK'
    BY <1>0, <1>4, Shares DEF OwnersOK, Owned, Disconnect, data
  <2> QED BY <2>1, <2>2, <2>3, <2>4
<1>5. CASE SendMessageAsync
  <2>1. NoReplies => NoReplies'
    <3>1. \A i \in DOMAIN send_queue_' :
            \/ (i \in DOMAIN send_queue_ /\ send_queue_'[i] = send_queue_[i])
            \/ send_queue_'[i] = Message(FALSE)
      BY <1>0, <1>5, AppendedElements DEF SendMessageAsync, Typed
    <3> QED BY <3>1 DEF NoReplies, Message
  <2>2. UNCHANGED <<control, receive_queue_, packet, buffers>>
    BY <1>5 DEF SendMessageAsync
  <2>3. Control'
    BY <2>2 DEF Control, control, PlacesOK, WorkersOK, JoinedOK, HandlesOK, FreshOK, StartingOK,
       OrderOK, OpenOK, Joiner, Unstarted, Stopped, Passed, Doing, Quiet
  <2>4. AloneOK' /\ EmptyOK'
    BY <2>1, <2>2 DEF AloneOK, Alone, InDisconnect, EmptyOK, control, Unstarted, Doing
  <2>5. OwnersOK'
    BY <1>0, <2>2, Shares DEF OwnersOK, Owned, control
  <2> QED BY <2>3, <2>4, <2>5
<1> QED BY <1>1, <1>2, <1>3, <1>4, <1>5 DEF Start

LEMMA NextIsAlive == Next => Alive
BY DEF Next, Connect, Disconnect, SendMessageAsync, Start, StartThread, AssignThread, Proceed,
   StopThread, ClearFlag, Join, ClearSendQueue, ClearReceiveQueue, CloseTransport, Work,
   TestRunning, TestConnected, WaitToTake, TakeMessage, Transmitted, StartReceiving, Received,
   TakePacket, Parsed

LEMMA FailuresGrow == Next => failures \subseteq failures'
BY DEF Next, Connect, Disconnect, SendMessageAsync, Start, StartThread, AssignThread, Proceed,
   StopThread, ClearFlag, Join, ClearSendQueue, ClearReceiveQueue, CloseTransport, Work,
   TestRunning, TestConnected, WaitToTake, TakeMessage, Transmitted, StartReceiving, Received,
   TakePacket, Parsed, FailsIn, TimedOut, control, data

\* While the user replaces the thread of a worker that waits for ever, only that
\* goes on, until the program ends.
LEMMA ReplacingStep ==
  ASSUME TypeOK, Replacing, Next
  PROVE  /\ Alive' => Replacing'
         /\ buffers' \in {buffers, 2}
         /\ Workers \subseteq failures'
<1>0. /\ step \in [Callers -> CallPlaces] /\ subject \in [Callers -> Threads]
      /\ at \in [Threads -> {"ended", "test", "connected", "work", "take", "sending",
                             "receiving", "parsing", "stuck", "disconnect"}]
      /\ running \in [Threads -> BOOLEAN]
      /\ send_queue_ \in Seq([reply : BOOLEAN, session : 0..sessions])
  BY DEF TypeOK, CallPlaces
<1>r. /\ step["user"] \in {"start", "assign"} /\ subject["user"] = "send"
      /\ handle["send"] /\ at["send"] # "ended"
      /\ step["parse"] = "join" /\ subject["parse"] = "send" /\ at["parse"] = "disconnect"
      /\ at["receive"] = "ended" /\ client_ # 0
      /\ receive_queue_ = <<>> /\ NoReplies /\ Workers \subseteq failures
  BY DEF Replacing, Doing
<1>f. Workers \subseteq failures /\ failures \subseteq failures'
  BY <1>r, FailuresGrow
<1>n. ASSUME \/ UNCHANGED send_queue_ \/ (send_queue_ # <<>> /\ send_queue_' = Tail(send_queue_))
             \/ send_queue_' = Append(send_queue_, Message(FALSE))
      PROVE  NoReplies'
  <2>1. CASE send_queue_' = Append(send_queue_, Message(FALSE))
    <3>1. \A i \in DOMAIN send_queue_' :
            \/ (i \in DOMAIN send_queue_ /\ send_queue_'[i] = send_queue_[i])
            \/ send_queue_'[i] = Message(FALSE)
      BY <1>0, <2>1, AppendedElements
    <3> QED BY <1>r, <3>1 DEF NoReplies, Message
  <2>2. CASE send_queue_ # <<>> /\ send_queue_' = Tail(send_queue_)
    <3>1. \A i \in DOMAIN send_queue_' : i + 1 \in DOMAIN send_queue_
            /\ send_queue_'[i] = send_queue_[i + 1]
      BY <1>0, <2>2
    <3> QED BY <1>r, <3>1 DEF NoReplies
  <2>3. CASE UNCHANGED send_queue_
    BY <1>r, <2>3 DEF NoReplies
  <2> QED BY <1>n, <2>1, <2>2, <2>3
<1>1. CASE Connect \/ Disconnect
  BY <1>1, <1>r DEF Connect, Disconnect
<1>2. CASE SendMessageAsync
  BY <1>2, <1>n DEF SendMessageAsync, Replacing, Doing, control
<1>3. CASE StartThread
  <2>1. step["user"] = "start" /\ step["send"] = "join" /\ subject["send"] = "parse"
          /\ buffers = 1
    BY <1>3 DEF StartThread, Replacing, Doing
  <2>2. /\ step' = [step EXCEPT !["user"] = "assign"]
             /\ subject' = [subject EXCEPT !["user"] = "send"]
        /\ running' = [running EXCEPT !["send"] = TRUE] /\ at' = [at EXCEPT !["send"] = "test"]
        /\ buffers' = buffers + 1
        /\ UNCHANGED <<handle, client_, failures, send_queue_, receive_queue_>>
    BY <1>3, <1>r DEF StartThread, GoTo, Move
  <2> QED BY <1>0, <1>r, <2>1, <2>2 DEF Replacing, Doing, Callers, Threads, NoReplies
<1>4. CASE AssignThread
  BY <1>4, <1>r DEF AssignThread, Alive, data
<1>5. ASSUME NEW c \in Callers, Proceed(c)
      PROVE  (Alive' => Replacing') /\ buffers' = buffers
  <2>1. c = "send"
    <3>1. c # "user"
      BY <1>5, <1>r DEF Proceed, StopThread, ClearFlag, Join, ClearSendQueue, ClearReceiveQueue,
         CloseTransport
    <3>2. c # "parse"
      BY <1>5, <1>r DEF Proceed, StopThread, ClearFlag, Join, HasEnded, ClearSendQueue,
         ClearReceiveQueue,
         CloseTransport
    <3> QED BY <3>1, <3>2 DEF Callers
  <2>2. \/ step["send"] = "join" /\ subject["send"] = "parse"
        \/ /\ step["user"] = "assign" /\ buffers = 2 /\ at["send"] = "disconnect"
                /\ subject["send"] = "send"
           /\ step["send"] = "join" \/ (running["send"] /\ step["send"] \in {"stop", "store"})
    BY DEF Replacing, Doing
  <2>3. CASE StopThread("send")
    <3>1. GoTo("send", "store", "send") /\ step["send"] = "stop" /\ running["send"]
      BY <2>2, <2>3 DEF StopThread
    <3>2. step'["send"] = "store" /\ subject'["send"] = "send" /\ \A d \in {"user", "parse"} :
            step'[d] = step[d] /\ subject'[d] = subject[d]
      BY <1>0, <3>1 DEF GoTo, Callers
    <3> QED BY <1>0, <1>r, <2>2, <2>3, <3>1, <3>2 DEF StopThread, Replacing, Doing, NoReplies,
               data
  <2>4. CASE ClearFlag("send")
    <3>1. GoTo("send", "join", "send") /\ step["send"] = "store"
      BY <2>2, <2>4 DEF ClearFlag
    <3>2. step'["send"] = "join" /\ subject'["send"] = "send" /\ \A d \in {"user", "parse"} :
            step'[d] = step[d] /\ subject'[d] = subject[d]
      BY <1>0, <3>1 DEF GoTo, Callers
    <3> QED BY <1>0, <1>r, <2>2, <2>4, <3>1, <3>2 DEF ClearFlag, Replacing, Doing, NoReplies, data
  <2>5. CASE Join("send")
    <3>1. subject["send"] \in {"parse", "send"} /\ at["parse"] # "ended" /\ at["send"] # "ended"
      BY <1>r, <2>2
    <3>2. fault' # "none"
      BY <2>5, <3>1 DEF Join, HasEnded
    <3> QED BY <2>5, <3>2 DEF Join, Alive, data
  <2>6. ~ClearSendQueue("send") /\ ~ClearReceiveQueue("send") /\ ~CloseTransport("send")
    BY <2>2 DEF ClearSendQueue, ClearReceiveQueue, CloseTransport
  <2> QED BY <1>5, <2>1, <2>3, <2>4, <2>5, <2>6 DEF Proceed
<1>6. ASSUME NEW t \in Threads, Work(t)
      PROVE  Replacing' /\ buffers' = buffers
  <2>1. t = "send" /\ at["send"] # "disconnect"
    BY <1>6, <1>r DEF Work, TestRunning, TestConnected, WaitToTake, TakeMessage, Transmitted,
       StartReceiving, Received, TakePacket, Parsed, Threads
  <2>2. /\ step["user"] = "assign" /\ buffers = 2 /\ running["send"]
        /\ step["send"] = "join" /\ subject["send"] = "parse"
    BY <2>1 DEF Replacing, Doing
  <2>3. ASSUME NEW place \in {"test", "connected", "work", "take", "sending", "stuck"},
               Move("send", place),
               UNCHANGED <<running, handle, step, subject, client_, buffers, receive_queue_>>,
               UNCHANGED send_queue_ \/ (send_queue_ # <<>> /\ send_queue_' = Tail(send_queue_))
        PROVE  Replacing'
    <3>1. at'["send"] = place /\ at'["parse"] = at["parse"] /\ at'["receive"] = at["receive"]
      BY <1>0, <2>3 DEF Move, Threads
    <3>2. NoReplies'
      BY <1>n, <2>3
    <3> QED BY <1>f, <1>r, <2>2, <2>3, <3>1, <3>2 DEF Replacing, Doing
  <2>4. CASE TestRunning("send")
    BY <2>2, <2>3, <2>4 DEF TestRunning
  <2>5. CASE TestConnected("send")
    BY <1>r, <2>3, <2>5 DEF TestConnected, IsConnected
  <2>6. CASE WaitToTake("send", send_queue_)
    BY <2>3, <2>6 DEF WaitToTake, data
  <2>7. CASE TakeMessage
    BY <2>3, <2>7 DEF TakeMessage
  <2>8. CASE Transmitted
    <3>1. CASE ReturnsOrHangs("send") /\ UNCHANGED <<step, subject, failures>>
      BY <2>3, <2>8, <3>1 DEF Transmitted, ReturnsOrHangs, data
    <3>2. CASE Move("send", "disconnect") /\ GoTo("send", "stop", "send")
      <4>1. /\ at'["send"] = "disconnect" /\ at'["parse"] = at["parse"]
                 /\ at'["receive"] = at["receive"]
            /\ step'["send"] = "stop" /\ subject'["send"] = "send"
            /\ \A d \in {"user", "parse"} : step'[d] = step[d] /\ subject'[d] = subject[d]
        BY <1>0, <3>2 DEF Move, GoTo, Threads, Callers
      <4> QED BY <1>f, <1>r, <2>2, <2>8, <4>1 DEF Transmitted, Replacing, Doing, NoReplies, data
    <3> QED BY <2>8, <3>1, <3>2 DEF Transmitted, data
  <2>9. UNCHANGED buffers
    BY <1>6, <2>1, <2>2 DEF Work, TestRunning, TestConnected, WaitToTake, TakeMessage,
       Transmitted, data
  <2> QED BY <1>6, <2>1, <2>4, <2>5, <2>6, <2>7, <2>8, <2>9 DEF Work
<1>7. buffers' \in {buffers, 2}
  <2>1. CASE StartThread
    BY <2>1, <1>r DEF StartThread, Replacing
  <2>2. CASE SendMessageAsync \/ AssignThread
    BY <2>2 DEF SendMessageAsync, AssignThread, data
  <2> QED BY <1>1, <1>5, <1>6, <1>r, <2>1, <2>2 DEF Next, Start, Connect, Disconnect
<1> QED BY <1>1, <1>2, <1>3, <1>4, <1>5, <1>6, <1>7, <1>f DEF Next, Start

\* A worker that starts to disconnect has found nothing yet, and no other is alone.
LEMMA FailAlone ==
  ASSUME TypeOK, AloneOK, UNCHANGED <<running, handle>>, NEW c \in Workers,
         GoTo(c, "stop", "send"), step[c] = "idle"
  PROVE  AloneOK'
<1>1. /\ step \in [Callers -> CallPlaces] /\ subject \in [Callers -> Threads]
      /\ c \in Callers /\ c # "user" /\ "user" \in Callers
  BY DEF TypeOK, CallPlaces, Workers, Callers
<1>2. /\ step' = [step EXCEPT ![c] = "stop"]
      /\ subject' = [subject EXCEPT ![c] = "send"]
  BY DEF GoTo
<1>3. \A d \in Callers, p \in {"store", "join"}, t \in Threads : Doing(d, p, t)' => Doing(d, p, t)
  BY <1>1, <1>2 DEF Doing
<1>4. \A d \in Callers : InDisconnect(d) => InDisconnect(d)'
  BY <1>1, <1>2 DEF InDisconnect, Halting
<1>5. \A d \in Callers : Alone(d)' => Alone(d)
  BY <1>4 DEF Alone
<1>6. \A t \in Threads : Doing("user", "assign", t) => Doing("user", "assign", t)'
  BY <1>1, <1>2 DEF Doing
<1> QED BY <1>3, <1>5, <1>6 DEF AloneOK

LEMMA CoreStep ==
  ASSUME TypeOK, Core, Next
  PROVE  /\ OwnersOK' \/ Replacing'
         /\ Alive' => Core' \/ Replacing'
         /\ fault' # fault => Cause
<1> USE DEF Core
<1>1. CASE Connect \/ Start \/ Disconnect \/ SendMessageAsync
  <2>1. UNCHANGED fault
    <3>1. AssignThread => UNCHANGED fault
      BY AssignControl
    <3> QED BY <1>1, <3>1 DEF Connect, Start, StartThread, Disconnect, SendMessageAsync, control
  <2> QED BY <1>1, <2>1, UserStep
<1>2. ASSUME NEW c \in Callers, Proceed(c)
      PROVE  /\ OwnersOK' /\ (Alive' => Core')
             /\ fault' # fault => Cause
  BY <1>2, ProceedControl, ProceedAlone, ProceedEmpty, ProceedOwners
<1>3. ASSUME NEW t \in Threads, Work(t)
      PROVE  Core' /\ UNCHANGED fault
  <2>1. Control' /\ LoopStep(t)
    BY <1>3, WorkControl
  <2>2. AloneOK'
    <3>1. CASE UNCHANGED <<step, subject>>
      BY <2>1, <3>1 DEF AloneOK, Alone, InDisconnect, LoopStep, Doing
    <3>2. CASE Fails(t)
      <4>1. step[t] = "idle"
        BY <3>2 DEF Fails, Control, WorkersOK
      <4> QED BY <2>1, <3>2, <4>1, FailAlone DEF LoopStep, Fails
    <3> QED BY <2>1, <3>1, <3>2 DEF LoopStep, GoesOn
  <2> QED BY <1>3, <2>1, <2>2, WorkEmpty, WorkOwners DEF LoopStep
<1> QED BY <1>1, <1>2, <1>3 DEF Next

LEMMA LifeInit == Init => LifeInv
<1> SUFFICES ASSUME Init PROVE LifeInv
  OBVIOUS
<1>0. <<>> \in Seq(0..0) /\ <<>> \in Seq([reply : BOOLEAN, session : 0..0]) /\ Len(<<>>) = 0
  OBVIOUS
<1>1. TypeOK
  <2>1. 0 \in 0..MaxSessions /\ 0 \in 0..0 /\ 0 \in 0..(MaxQueued + 3)
    BY BoundsAssumption
  <2>2. sessions = 0 /\ send_queue_ = <<>> /\ receive_queue_ = <<>>
    BY DEF Init
  <2>3. /\ send_queue_ \in Seq([reply : BOOLEAN, session : 0..sessions])
        /\ receive_queue_ \in Seq(0..sessions)
    BY <2>2
  <2> QED BY <2>1, <2>3 DEF Init, TypeOK, Callers, Threads
<1>2. SessionsDoNotMix /\ NoFault
  BY DEF Init, SessionsDoNotMix, NoFault
<1>3. Control
  BY DEF Init, Control, PlacesOK, WorkersOK, JoinedOK, HandlesOK, FreshOK, StartingOK, OrderOK,
     OpenOK,
     Stopped, Passed, Doing, Unstarted, Halting, Finishing, Quiet, Workers, Threads, Callers
<1>4. AloneOK /\ EmptyOK
  BY DEF Init, AloneOK, EmptyOK, NoReplies, Doing, Threads, Callers
<1>5. OwnersOK
  BY <1>0, Shares, BoundsAssumption DEF Init, OwnersOK, Owned, Threads
<1> QED BY <1>1, <1>2, <1>3, <1>4, <1>5 DEF LifeInv, Core

LEMMA LifeNext == LifeInv /\ [Next]_vars => LifeInv'
<1> SUFFICES ASSUME LifeInv, [Next]_vars PROVE LifeInv'
  OBVIOUS
<1>1. CASE UNCHANGED vars
  <2>0. UNCHANGED <<running, handle, at, step, subject, client_, sessions, failures, fault,
                    send_queue_, receive_queue_, packet, buffers>>
    BY <1>1 DEF vars, control, data
  <2>1. TypeOK' /\ SessionsDoNotMix' /\ NoFault'
    BY <2>0 DEF LifeInv, TypeOK, SessionsDoNotMix, NoFault
  <2>2. Control => Control'
    BY <2>0 DEF Control, PlacesOK, WorkersOK, JoinedOK, HandlesOK, FreshOK, StartingOK,
       OrderOK, OpenOK, Joiner, Unstarted, Stopped, Passed, Doing, Quiet
  <2>3. (AloneOK => AloneOK') /\ (EmptyOK => EmptyOK')
    BY <2>0 DEF AloneOK, Alone, InDisconnect, EmptyOK, NoReplies, Unstarted, Doing
  <2>4. OwnersOK => OwnersOK'
    BY <2>0 DEF OwnersOK, Owned, PacketShare, SendShare, ParseShare
  <2>5. Replacing => Replacing'
    BY <2>0 DEF Replacing, NoReplies, Doing
  <2> QED BY <2>0, <2>1, <2>2, <2>3, <2>4, <2>5 DEF LifeInv, Core, Alive
<1>2. CASE Next
  <2>0. Alive /\ Typed
    BY <1>2, NextIsAlive DEF LifeInv, TypeOK, Typed, CallPlaces
  <2>1. Typed'
    BY <2>0, <1>2, NextTyped
  <2>2. SessionsDoNotMix'
    <3>1. client_ = 0 \/ (\E c \in Callers : step[c] = "close")
            => receive_queue_ = <<>> /\ NoReplies
      BY <2>0 DEF LifeInv, Core, EmptyOK, Replacing
    <3> QED BY <2>0, <1>2, <3>1, NextSessions DEF LifeInv
  <2>3. CASE Core
    <3>1. /\ OwnersOK' \/ Replacing'
          /\ Alive' => Core' \/ Replacing'
          /\ fault' # fault => Cause
      BY <1>2, <2>3, CoreStep DEF LifeInv
    <3>2. buffers' \in 0..(MaxQueued + 3)
      <4>1. OwnersOK' => buffers' \in 0..(MaxQueued + 3)
        BY <2>1, OwnersBound
      <4>2. Replacing' => buffers' \in 0..(MaxQueued + 3)
        BY BoundsAssumption DEF Replacing
      <4> QED BY <3>1, <4>1, <4>2
    <3>3. TypeOK'
      BY <2>1, <3>2 DEF Typed, TypeOK, CallPlaces
    <3>4. NoFault'
      <4>1. failures \subseteq failures'
        BY <1>2, FailuresGrow
      <4>2. failures \subseteq {"receive"} => ~Cause
        BY <2>3, CauseIsAFailure DEF LifeInv, Core
      <4> QED BY <2>0, <3>1, <4>1, <4>2 DEF NoFault, Alive
    <3> QED BY <2>2, <3>1, <3>3, <3>4 DEF LifeInv
  <2>4. CASE Replacing
    <3>1. /\ Alive' => Replacing'
          /\ buffers' \in {buffers, 2}
          /\ Workers \subseteq failures'
      BY <1>2, <2>4, ReplacingStep DEF LifeInv
    <3>2. TypeOK'
      BY <2>1, <3>1, BoundsAssumption DEF Typed, TypeOK, CallPlaces, LifeInv
    <3>3. NoFault'
      BY <3>1 DEF NoFault, Workers
    <3> QED BY <2>2, <3>1, <3>2, <3>3 DEF LifeInv
  <2> QED BY <2>0, <2>3, <2>4 DEF LifeInv
<1> QED BY <1>1, <1>2

-----------------------------------------------------------------------------
(* Theorems *)

\* The invariant contains what the runs check.
LEMMA LifeConsequences ==
  ASSUME LifeInv
  PROVE  LifecycleInv
<1>1. TypeOK
  BY DEF LifeInv
<1>2. ThreadsSeeTheirTransport
  <2> SUFFICES ASSUME failures \subseteq {"receive"}, NEW t \in Threads,
                      at[t] # "ended", client_ = 0
               PROVE  FALSE
    BY DEF ThreadsSeeTheirTransport
  <2>1. ~Replacing /\ Alive
    BY DEF LifeInv, NoFault, Alive, Replacing, Workers
  <2>2. Quiet /\ WorkersOK
    BY <2>1 DEF LifeInv, Core, Control, OpenOK
  <2> QED BY <2>2 DEF Quiet, WorkersOK, Threads, Workers
<1>3. ClosedMeansQuiet
  <2> SUFFICES ASSUME Alive, ~Doomed, OneFailsAtMost, step["user"] = "idle", client_ = 0
               PROVE  /\ \A t \in Threads : at[t] = "ended" /\ ~running[t] /\ ~handle[t]
                      /\ receive_queue_ = <<>> /\ buffers = 0
    BY DEF ClosedMeansQuiet
  <2>1. Core
    BY DEF LifeInv, Replacing
  <2>2. ~(Doing("parse", "join", "send") /\ Doing("send", "join", "parse"))
    BY <2>1 DEF OneFailsAtMost, Core, Control, WorkersOK, Workers, Doing
  <2>3. \A t \in Threads : at[t] = "ended" /\ ~running[t] /\ ~handle[t]
    BY <1>1, <2>1, <2>2, ClosedIsGone DEF Core
  <2>4. receive_queue_ = <<>> /\ Len(<<>>) = 0 /\ ~packet
    BY <2>1, <2>3 DEF Core, EmptyOK, OwnersOK, Threads
  <2>5. buffers = 0
    BY <2>1, <2>3, <2>4, Shares DEF Core, OwnersOK, Owned, Threads
  <2> QED BY <2>3, <2>4, <2>5
<1>4. BuffersHaveAnOwner
  <2> SUFFICES ASSUME Alive, OneFailsAtMost
               PROVE  buffers = Len(receive_queue_) + (IF packet THEN 1 ELSE 0)
                                + (IF at["send"] # "ended" THEN 1 ELSE 0)
                                + (IF at["parse"] = "parsing" THEN 1 ELSE 0)
    BY DEF BuffersHaveAnOwner
  <2>1. Core
    BY DEF LifeInv, Replacing, OneFailsAtMost, Workers
  <2> QED BY <2>1 DEF Core, OwnersOK, Owned, PacketShare, SendShare, ParseShare
<1> QED BY <1>1, <1>2, <1>3, <1>4 DEF LifecycleInv, LifeInv

\* The three of the connection, its threads and whoever replaces a session move in
\* step: the strengthening of the properties below is kept by every action.
THEOREM LifeIsInvariant == Spec => []LifeInv
<1> QED BY LifeInit, LifeNext, PTL DEF Spec

\* Connect and Disconnect keep threads, client and buffers consistent.  While no error
\* but of the receiving thread has been met, the program does not end and a thread
\* that runs has a client.  While one of the other two at most has met an error, the
\* program has not ended and no worker is about to join itself, a closed connection has
\* no threads and no packets, and every buffer has one owner.
THEOREM LifecycleIsConsistent == Spec => []LifecycleInv
<1> QED BY LifeConsequences, LifeIsInvariant, PTL

\* As long as neither the send nor the parsing thread has met an error, however
\* the user connects and disconnects, the program does not end.
THEOREM NothingGoesWrong == Spec => []NoFault
<1>1. LifeInv => NoFault
  BY DEF LifeInv
<1> QED BY <1>1, LifeIsInvariant, PTL

\* The program ends, or its behaviour becomes undefined, only when a worker joins itself
\* in the Disconnect it calls on an error (the program is terminated then), or when two
\* of the user and the workers are in Connect or Disconnect at once.
THEOREM FaultsHaveTheirCause == Spec => FaultsHaveACause
<1>1. LifeInv /\ [Next]_vars =>
        [fault' # fault =>
           \/ fault' = "terminate" /\ \E t \in Threads \cap Callers : JoinsItself(t)
           \/ \E c, d \in Callers : c # d /\ Busy(c) /\ Busy(d)]_vars
  <2> SUFFICES ASSUME LifeInv, Next, fault' # fault PROVE Cause
    BY DEF Cause
  <2>1. Alive
    BY NextIsAlive
  <2>2. CASE Core
    BY <2>2, CoreStep DEF LifeInv
  <2>3. CASE Replacing
    <3>1. Busy("user") /\ Busy("parse") /\ "user" \in Callers /\ "parse" \in Callers
      BY <2>3 DEF Replacing, Doing, Busy, Callers
    <3> QED BY <3>1 DEF Cause
  <2> QED BY <2>1, <2>2, <2>3 DEF LifeInv
<1> QED BY <1>1, LifeIsInvariant, PTL DEF Spec, FaultsHaveACause

\* No packet and no reply of one session is found in a later one.
THEOREM SessionsStayApart == Spec => []SessionsDoNotMix
<1>1. LifeInv => SessionsDoNotMix
  BY DEF LifeInv
<1> QED BY <1>1, LifeIsInvariant, PTL

=============================================================================
