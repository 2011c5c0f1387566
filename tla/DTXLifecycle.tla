---------------------------- MODULE DTXLifecycle ----------------------------
(***************************************************************************)
(* The life of a DTXConnection: Connect and Disconnect on the thread of the *)
(* user, the three worker threads between them, and the Disconnect that a   *)
(* worker thread calls on an error.  A step is one access to a flag, a      *)
(* thread object, a queue or the transport.                                 *)
(***************************************************************************)
EXTENDS Integers, Sequences, SequencesExt

CONSTANTS
  MaxSessions,   \* bound: successful calls of Connect
  MaxQueued      \* bound: elements in each of the queues

ASSUME BoundsAssumption == MaxSessions \in Nat /\ MaxQueued \in Nat

Threads == {"send", "receive", "parse"}
Callers == {"user", "send", "parse"}

VARIABLES
  running,      \* running[t]: send_thread_running_, ...
  handle,       \* handle[t]: send_thread_, ... owns a thread that can be joined
  at,           \* at[t]: where in its function thread t is; ended; stuck, in a call
                \* that never returns
  step,         \* step[c]: where in Connect or Disconnect caller c is, or idle
  subject,      \* subject[c]: the thread that c starts or stops there
  client_,      \* the session of the transport's client, 0 when it is null
  send_queue_,  \* messages: replies and others, with the session they were queued in
  receive_queue_,  \* packets: the sessions they were received in
  packet,       \* ReceiveThread's receive_packet: has it a buffer?
  (* history *)
  sessions,     \* sessions so far
  buffers,      \* buffers allocated by the threads and not freed
  failures,     \* threads that have met an error: of TransmitMessage, of
                \* ReceiveWithTimeout other than its timeout, of ParseIncomingBytes
  fault         \* none, terminate (std::terminate is called), undefined (behaviour)

control == <<running, handle, at, step, subject, client_, sessions, failures,
             fault>>
data == <<send_queue_, receive_queue_, packet, buffers>>
vars == <<control, data>>

Init ==
  /\ running = [t \in Threads |-> FALSE] /\ handle = [t \in Threads |-> FALSE]
  /\ at = [t \in Threads |-> "ended"]
  /\ step = [c \in Callers |-> "idle"] /\ subject = [c \in Callers |-> "send"]
  /\ client_ = 0 /\ send_queue_ = <<>> /\ receive_queue_ = <<>>
  /\ packet = FALSE /\ sessions = 0 /\ buffers = 0 /\ failures = {} /\ fault = "none"

\* Caller c goes on with a step about thread t.
GoTo(c, place, t) ==
  step' = [step EXCEPT ![c] = place] /\ subject' = [subject EXCEPT ![c] = t]

\* Thread t goes on at a place of its function.
Move(t, place) == at' = [at EXCEPT ![t] = place]

\* The program has not come to its end.
Alive == fault = "none"

\* A worker thread is on its way to join itself, which ends the program:
\* the user does not connect again in between.
Doomed == \E t \in Threads \cap Callers : step[t] \in {"store", "join"} /\ subject[t] = t

-----------------------------------------------------------------------------
(* Connect.  One that fails changes nothing. *)

\* NewClient refuses a client that is not null.
AnyClient == TRUE  \* mutant: the test of `*client` is dropped
MayConnect == client_ = 0

Connect ==
  /\ Alive /\ step["user"] = "idle" /\ MayConnect /\ sessions < MaxSessions /\ ~Doomed
  /\ sessions' = sessions + 1 /\ client_' = sessions + 1
  /\ GoTo("user", "start", "send")
  /\ UNCHANGED <<running, handle, at, failures, fault>> /\ UNCHANGED data

\* The flag is set and the thread runs before its object is stored.
StartThread ==
  LET t == subject["user"] IN
    /\ Alive /\ step["user"] = "start"
    /\ running' = [running EXCEPT ![t] = TRUE]
    /\ Move(t, "test") /\ GoTo("user", "assign", t)
    /\ buffers' = buffers + (IF t = "send" THEN 1 ELSE 0)
    /\ UNCHANGED <<handle, client_, sessions, failures, fault>>
    /\ UNCHANGED <<send_queue_, receive_queue_, packet>>

\* To replace a std::thread that can be joined terminates the program.
AssignThread ==
  LET t == subject["user"] IN
    /\ Alive /\ step["user"] = "assign"
    /\ handle' = [handle EXCEPT ![t] = TRUE]
    /\ fault' = IF handle[t] THEN "terminate" ELSE fault
    /\ CASE t = "send"    -> GoTo("user", "start", "parse")
         [] t = "parse"   -> GoTo("user", "start", "receive")
         [] t = "receive" -> GoTo("user", "idle", t)
    /\ UNCHANGED <<running, at, client_, sessions, failures>> /\ UNCHANGED data

-----------------------------------------------------------------------------
(* Disconnect *)

Disconnect ==
  /\ Alive /\ step["user"] = "idle"
  /\ GoTo("user", "stop", "send")
  /\ UNCHANGED <<running, handle, at, client_, sessions, failures, fault>> /\ UNCHANGED data

\* The send thread, then the receive thread, then the parsing thread.
AfterStopping(c, t) ==
  CASE t = "send"    -> GoTo(c, "stop", "receive")
    [] t = "receive" -> GoTo(c, "stop", "parse")
    [] t = "parse"   -> GoTo(c, "clear", t)

StopThread(c) ==
  LET t == subject[c] IN
    /\ Alive /\ step[c] = "stop"
    /\ IF running[t] THEN GoTo(c, "store", t) ELSE AfterStopping(c, t)
    /\ UNCHANGED <<running, handle, at, client_, sessions, failures, fault>> /\ UNCHANGED data

FlagKept(c) == running  \* mutant: the flag is not cleared
FlagCleared(c) == [running EXCEPT ![subject[c]] = FALSE]

ClearFlag(c) ==
  /\ Alive /\ step[c] = "store"
  /\ running' = FlagCleared(c)
  /\ GoTo(c, "join", subject[c])
  /\ UNCHANGED <<handle, at, client_, sessions, failures, fault>> /\ UNCHANGED data

AtOnce(t) == TRUE  \* mutant: detach instead of join
HasEnded(t) == at[t] = "ended"

\* A thread that joins itself gets a std::system_error that nobody catches; a
\* null pointer has no thread.
Join(c) ==
  LET t == subject[c] IN
    /\ Alive /\ step[c] = "join"
    /\ \/ /\ t # c /\ handle[t] /\ HasEnded(t)
          /\ handle' = [handle EXCEPT ![t] = FALSE]
          /\ AfterStopping(c, t) /\ UNCHANGED fault
       \/ /\ fault' = IF ~handle[t] THEN "undefined" ELSE "terminate"
          /\ ~handle[t] \/ t = c
          /\ UNCHANGED <<handle, step, subject>>
    /\ UNCHANGED <<running, at, client_, sessions, failures>> /\ UNCHANGED data

ClearSendQueue(c) ==
  /\ Alive /\ step[c] = "clear"
  /\ send_queue_' = <<>> /\ GoTo(c, "free", subject[c])
  /\ UNCHANGED <<running, handle, at, client_, sessions, failures, fault>>
  /\ UNCHANGED <<receive_queue_, packet, buffers>>

PacketsKept == 0  \* mutant: Clear without the function that frees the packets
PacketsFreed == Len(receive_queue_)

ClearReceiveQueue(c) ==
  /\ Alive /\ step[c] = "free"
  /\ receive_queue_' = <<>> /\ buffers' = buffers - PacketsFreed
  /\ GoTo(c, "close", subject[c])
  /\ UNCHANGED <<running, handle, at, client_, sessions, failures, fault>>
  /\ UNCHANGED <<send_queue_, packet>>

IsConnected == client_ # 0
InUse == at["send"] \in {"sending", "stuck"} \/ at["receive"] = "receiving"

\* InstrumentService::Disconnect: nobody may use the client any more.
FreeClient ==
  /\ client_' = 0
  /\ fault' = IF InUse THEN "undefined" ELSE fault

\* A worker thread that called Disconnect breaks its loop.
CloseTransport(c) ==
  /\ Alive /\ step[c] = "close"
  /\ GoTo(c, "idle", subject[c])
  /\ IF IsConnected THEN FreeClient ELSE UNCHANGED <<client_, fault>>
  /\ at' = [t \in Threads |-> IF t = c THEN "ended" ELSE at[t]]
  /\ buffers' = buffers - (IF c = "send" THEN 1 ELSE 0)
  /\ UNCHANGED <<running, handle, sessions, failures>>
  /\ UNCHANGED <<send_queue_, receive_queue_, packet>>

Proceed(c) ==
  \/ StopThread(c) \/ ClearFlag(c) \/ Join(c)
  \/ ClearSendQueue(c) \/ ClearReceiveQueue(c) \/ CloseTransport(c)

-----------------------------------------------------------------------------
(* The loops of the worker threads *)

\* At its regular end a thread frees its buffer.
FreedAtEnd(t) ==
  IF t = "send" \/ (t = "receive" /\ packet) THEN 1 ELSE 0

End(t) ==
  /\ Move(t, "ended") /\ buffers' = buffers - FreedAtEnd(t)
  /\ packet' = (packet /\ t # "receive")

TestRunning(t) ==
  /\ Alive /\ at[t] = "test"
  /\ IF running[t] THEN Move(t, "connected") /\ UNCHANGED <<buffers, packet>> ELSE End(t)
  /\ UNCHANGED <<running, handle, step, subject, client_, sessions, failures, fault>>
  /\ UNCHANGED <<send_queue_, receive_queue_>>

\* A thread that finds the transport closed returns without freeing its buffer.
TestConnected(t) ==
  /\ Alive /\ at[t] = "connected"
  /\ Move(t, IF IsConnected THEN "work" ELSE "ended")
  /\ packet' = (packet /\ (IsConnected \/ t # "receive"))
  /\ UNCHANGED <<running, handle, step, subject, client_, sessions, failures, fault>>
  /\ UNCHANGED <<send_queue_, receive_queue_, buffers>>

\* WaitToTake: true when there is something, false after the timeout.
WaitToTake(t, queue) ==
  /\ Alive /\ at[t] = "work"
  /\ Move(t, IF queue # <<>> THEN "take" ELSE "test")
  /\ UNCHANGED <<running, handle, step, subject, client_, sessions, failures, fault>> /\ UNCHANGED data

FailsIn(t) == failures' = failures \cup {t}

\* What thread t has called returns, or never does.  service_send has no timeout, the
\* loop of the transmitter may go on for ever, and a callback may wait, in
\* SendMessageSync or in Cancel, for a response that its own thread has to route.
ReturnsOrHangs(t) == \E place \in {"test", "stuck"} : Move(t, place)

TakeMessage ==
  /\ Alive /\ at["send"] = "take" /\ send_queue_ # <<>>
  /\ send_queue_' = Tail(send_queue_) /\ Move("send", "sending")
  /\ UNCHANGED <<running, handle, step, subject, client_, sessions, failures, fault>>
  /\ UNCHANGED <<receive_queue_, packet, buffers>>

Transmitted ==
  /\ Alive /\ at["send"] = "sending"
  /\ \/ ReturnsOrHangs("send") /\ UNCHANGED <<step, subject, failures>>
     \/ FailsIn("send") /\ Move("send", "disconnect") /\ GoTo("send", "stop", "send")
  /\ UNCHANGED <<running, handle, client_, sessions, fault>> /\ UNCHANGED data

StartReceiving ==
  /\ Alive /\ at["receive"] = "work"
  /\ packet' = TRUE /\ buffers' = buffers + (IF packet THEN 0 ELSE 1)
  /\ Move("receive", "receiving")
  /\ UNCHANGED <<running, handle, step, subject, client_, sessions, failures, fault>>
  /\ UNCHANGED <<send_queue_, receive_queue_>>

\* A timeout is no error.
TimedOut ==
  Move("receive", "test") /\ UNCHANGED <<receive_queue_, packet, buffers, failures>>

Received ==
  /\ Alive /\ at["receive"] = "receiving"
  /\ \/ TimedOut
     \/ /\ Len(receive_queue_) < MaxQueued
        /\ receive_queue_' = Append(receive_queue_, client_) /\ packet' = FALSE
        /\ Move("receive", "test") /\ UNCHANGED <<buffers, failures>>
     \/ FailsIn("receive") /\ End("receive") /\ UNCHANGED receive_queue_
  /\ UNCHANGED <<running, handle, step, subject, client_, sessions, fault>>
  /\ UNCHANGED <<send_queue_>>

TakePacket ==
  /\ Alive /\ at["parse"] = "take" /\ receive_queue_ # <<>>
  /\ receive_queue_' = Tail(receive_queue_) /\ Move("parse", "parsing")
  /\ UNCHANGED <<running, handle, step, subject, client_, sessions, failures, fault>>
  /\ UNCHANGED <<send_queue_, packet, buffers>>

Message(reply) == [reply |-> reply, session |-> client_]

\* ParseIncomingBytes, after which the packet is freed; the messages are routed, which
\* runs the callbacks, and one that asks for it gets its reply.
Parsed ==
  /\ Alive /\ at["parse"] = "parsing"
  /\ buffers' = buffers - 1
  /\ \/ /\ ReturnsOrHangs("parse") /\ UNCHANGED <<step, subject, failures>>
        /\ \/ UNCHANGED send_queue_
           \/ /\ Len(send_queue_) < MaxQueued
              /\ send_queue_' = Append(send_queue_, Message(TRUE))
     \/ /\ FailsIn("parse")
        /\ Move("parse", "disconnect") /\ GoTo("parse", "stop", "send")
        /\ UNCHANGED send_queue_
  /\ UNCHANGED <<running, handle, client_, sessions, fault>>
  /\ UNCHANGED <<receive_queue_, packet>>

\* SendMessageAsync on any thread of the user, connected or not.
SendMessageAsync ==
  /\ Alive /\ Len(send_queue_) < MaxQueued
  /\ send_queue_' = Append(send_queue_, Message(FALSE))
  /\ UNCHANGED control /\ UNCHANGED <<receive_queue_, packet, buffers>>

-----------------------------------------------------------------------------
Work(t) ==
  \/ TestRunning(t) \/ TestConnected(t)
  \/ t = "send" /\ (WaitToTake(t, send_queue_) \/ TakeMessage \/ Transmitted)
  \/ t = "receive" /\ (StartReceiving \/ Received)
  \/ t = "parse" /\ (WaitToTake(t, receive_queue_) \/ TakePacket \/ Parsed)

Start == StartThread \/ AssignThread

Next ==
  \/ Connect \/ Disconnect \/ SendMessageAsync \/ Start
  \/ \E c \in Callers : Proceed(c)
  \/ \E t \in Threads : Work(t)

Spec == Init /\ [][Next]_vars

\* Every thread is scheduled; ReceiveWithTimeout and WaitToTake return after
\* their timeout.  What a stuck thread has called does not return.  The user need not
\* call anything.
FairSpec ==
  /\ Spec
  /\ WF_vars(Start)
  /\ \A c \in Callers : WF_vars(Proceed(c))
  /\ \A t \in Threads : WF_vars(Work(t))

-----------------------------------------------------------------------------
(* Properties *)

\* Every variable has its type.
TypeOK ==
  /\ running \in [Threads -> BOOLEAN] /\ handle \in [Threads -> BOOLEAN]
  /\ at \in [Threads -> {"ended", "test", "connected", "work", "take", "sending",
                         "receiving", "parsing", "stuck", "disconnect"}]
  /\ step \in [Callers -> {"idle", "start", "assign", "stop", "store", "join",
                           "clear", "free", "close"}]
  /\ subject \in [Callers -> Threads]
  /\ sessions \in 0..MaxSessions /\ client_ \in 0..sessions /\ failures \subseteq Threads
  /\ send_queue_ \in Seq([reply : BOOLEAN, session : 0..sessions])
  /\ receive_queue_ \in Seq(0..sessions)
  /\ packet \in BOOLEAN /\ buffers \in 0..(MaxQueued + 3)
  /\ fault \in {"none", "terminate", "undefined"}

\* Two threads that disconnect at the same time wait for each other, or both
\* free what is left: the promises below are made for one of them at most.
OneFailsAtMost == ~{"send", "parse"} \subseteq failures

\* Without an error of the send or the parsing thread, Connect and Disconnect,
\* in whatever order the user calls them, never drop a running thread, never
\* join a thread that is not there, and never free the client under its users.
NoFault == failures \subseteq {"receive"} => fault = "none"

\* A worker thread never finds its transport closed: Disconnect closes it when
\* all of them have ended.  (The early returns of the loops, which would leak
\* the thread's buffer, are not taken.)
ThreadsSeeTheirTransport ==
  failures \subseteq {"receive"} => \A t \in Threads : at[t] # "ended" => client_ # 0

\* When Disconnect has returned, the threads have ended, their objects are
\* gone, and no packet is left, whichever thread failed meanwhile, unless the
\* program is about to be terminated.
ClosedMeansQuiet ==
  Alive /\ ~Doomed /\ OneFailsAtMost /\ step["user"] = "idle" /\ client_ = 0 =>
    /\ \A t \in Threads : at[t] = "ended" /\ ~running[t] /\ ~handle[t]
    /\ receive_queue_ = <<>> /\ buffers = 0

\* Every buffer the threads allocate has one owner until it is freed, whichever
\* of them fails and whoever disconnects: none is leaked, none freed twice.
BuffersHaveAnOwner ==
  LET one(owned) == IF owned THEN 1 ELSE 0 IN
    Alive /\ ~Doomed /\ OneFailsAtMost =>
      buffers = Len(receive_queue_) + one(packet) + one(at["send"] # "ended")
                + one(at["parse"] = "parsing")

\* The threads, the client and the buffers are consistent.
LifecycleInv ==
  TypeOK /\ NoFault /\ ThreadsSeeTheirTransport /\ ClosedMeansQuiet /\ BuffersHaveAnOwner

JoinsItself(t) == step[t] = "join" /\ subject[t] = t
Busy(c) == step[c] # "idle"

\* What can go wrong, and nothing else: a worker that disconnects after an error joins
\* itself, which terminates the program, or two threads are in Connect or Disconnect at
\* the same time.  The error of one worker alone never leads to undefined behaviour.
FaultsHaveACause ==
  [][fault' # fault =>
       \/ fault' = "terminate" /\ \E t \in Threads \cap Callers : JoinsItself(t)
       \/ \E c, d \in Callers : c # d /\ Busy(c) /\ Busy(d)]_vars

\* Packets and replies stay in the session they belong to.
SessionsDoNotMix ==
  /\ \A i \in DOMAIN receive_queue_ : receive_queue_[i] = client_
  /\ \A i \in DOMAIN send_queue_ : send_queue_[i].reply => send_queue_[i].session = client_

\* Disconnect returns or ends the program, wherever in their loops the threads are
\* and whichever of them fails, with three exceptions: two workers that fail join
\* each other for ever, a transmission does not return, or a callback does not.
DisconnectReturns ==
  step["user"] \in {"stop", "store", "join", "clear", "free", "close"}
    ~> \/ step["user"] = "idle" \/ fault # "none"
       \/ ~OneFailsAtMost \/ \E t \in Threads : at[t] = "stuck"

=============================================================================
