---------------------------- MODULE DTXSessions ----------------------------
(***************************************************************************)
(* Several sessions of one DTXConnection with callers at work: DTXMessaging  *)
(* together with the part of Connect and Disconnect that its state sees.    *)
(* One further thread of the program disconnects and connects again while   *)
(* the callers send and wait.                                               *)
(*                                                                          *)
(* Disconnect ends the three threads one by one, clears the two queues and  *)
(* closes the transport.  The handlers, the channels, the counters and the  *)
(* state of the parser stay.  How the threads are stopped is the subject of *)
(* DTXLifecycle; here they end between two turns.                           *)
(***************************************************************************)
EXTENDS DTXMessaging

CONSTANT MaxSessions  \* bound: how often the program connects

ASSUME MaxSessionsAssumption == MaxSessions \in Nat \ {0}

VARIABLES
  stage,    \* how far Disconnect has come
  session,  \* number of the session
  (* history *)
  lost      \* tickets whose request or reply went with a session

sessionVars == <<stage, session, lost>>
allVars == <<vars, sessionVars>>

Stages == {"up", "silent", "deaf", "joined", "cleared", "closed"}

Running == stage \in {"up", "silent", "deaf"}  \* the parsing thread is there

SessionsInit == Init /\ stage = "up" /\ session = 1 /\ lost = {}

-----------------------------------------------------------------------------
(* Disconnect and Connect *)

\* StopSendThread: the send thread has transmitted what it took.
JoinSendThread == stage = "up" /\ stage' = "silent" /\ UNCHANGED <<vars, session, lost>>

\* StopReceiveThread: what the device sends from now on is not read.
JoinReceiveThread == stage = "silent" /\ stage' = "deaf" /\ UNCHANGED <<vars, session, lost>>

\* StopParsingThread: the thread has routed its batch; packets may be left.
JoinParsingThread ==
  /\ stage = "deaf" /\ ppc = "idle" /\ stage' = "joined"
  /\ UNCHANGED <<vars, session, lost>>

Tickets(queue) == {queue[i].ticket : i \in DOMAIN queue}
Origins(queue) == {queue[i].origin : i \in DOMAIN queue}

QueueCleared == <<>>

ClearSendQueue ==
  /\ stage = "joined" /\ stage' = "cleared"
  /\ send_queue_' = QueueCleared
  /\ lost' = lost \cup Tickets(send_queue_)
  /\ UNCHANGED <<counters, handlers_by_identifier_, channels, callers, parser, device,
                 issued, invoked, seen, session>>

\* receive_queue_.Clear and the end of the transport: packets, and whatever the
\* device had to send in this session, are gone.
CloseTransport ==
  /\ stage = "cleared" /\ stage' = "closed"
  /\ incoming' = <<>> /\ owed' = {} /\ awaiting' = {} /\ deviceChannels' = {}
  /\ lost' = lost \cup Origins(incoming) \cup {m.ticket : m \in owed}
  /\ UNCHANGED <<counters, send_queue_, handlers_by_identifier_, channels, callers, parser,
                 unsolicited, answered, issued, invoked, seen, session>>

NumbersRestart == 1   \* mutant: Connect resets the counter
NumbersGoOn == next_msg_identifier_

\* Connect starts the threads; nothing else of the object is reset.
Connect ==
  /\ stage = "closed" /\ session < MaxSessions
  /\ stage' = "up" /\ session' = session + 1
  /\ next_msg_identifier_' = NumbersGoOn
  /\ UNCHANGED <<next_channel_code_, send_queue_, handlers_by_identifier_, channels, callers,
                 parser, device, issued, invoked, seen, lost>>

-----------------------------------------------------------------------------
\* What goes on in a stage: the callers always, each thread while it runs, the
\* device while the transport is open.
DeviceSends ==
  \E code \in UnsolicitedCodes, id \in DeviceIdentifiers, expects \in BOOLEAN :
    DeviceSend(code, id, expects)

CallerStep == \E c \in Threads : Start(c) \/ Continue(c) \/ WaitExpires(c)

Work ==
  /\ \/ CallerStep
     \/ stage = "up" /\ Transmit
     \/ stage \in {"up", "silent"} /\ (DeviceReplies \/ DeviceSends)
     \/ Running /\ Parse
  /\ UNCHANGED sessionVars

Disconnect ==
  JoinSendThread \/ JoinReceiveThread \/ JoinParsingThread \/ ClearSendQueue \/ CloseTransport

SessionsNext == Work \/ Disconnect \/ Connect

SessionsSpec == SessionsInit /\ [][SessionsNext]_allVars

\* The threads of a session run, the device answers while it is connected, and a
\* Disconnect that has begun goes on.  Nobody has to disconnect or to connect.
SessionsFairness ==
  /\ \A c \in Threads : WF_allVars(Continue(c) /\ UNCHANGED sessionVars)
  /\ WF_allVars(stage = "up" /\ Transmit /\ UNCHANGED sessionVars)
  /\ WF_allVars(stage \in {"up", "silent"} /\ DeviceReplies /\ UNCHANGED sessionVars)
  /\ WF_allVars(Running /\ Parse /\ UNCHANGED sessionVars)
  /\ WF_allVars(stage # "up" /\ Disconnect)

FairSessionsSpec == SessionsSpec /\ SessionsFairness

-----------------------------------------------------------------------------
(* Properties *)

\* Every variable has its type.
SessionsTypeOK ==
  /\ TypeOK
  /\ stage \in Stages /\ session \in 1..MaxSessions /\ lost \subseteq Int

\* The handlers of lost messages stay in the map for ever: no later session
\* gives their keys to another message, so none of them is ever invoked.
LostHandlersStayQuiet == ppc = "invoke" => found.ticket \notin lost

\* A request is transmitted in one session at most: what Disconnect clears or
\* the device loses does not turn up in the next one.
LostRequestsStayLost ==
  /\ \A i \in DOMAIN send_queue_ : send_queue_[i].ticket \notin lost
  /\ \A m \in owed : m.ticket \notin lost

\* The sessions are consistent, and a handler is invoked with the response to its own
\* message, also when that message waited while the connection was down.
SessionsInv ==
  SessionsTypeOK /\ OwnReplyOnly /\ LostHandlersStayQuiet /\ LostRequestsStayLost

\* Nobody waits for a message that is neither on its way nor lost with a session:
\* Disconnect is the only thing that can strand a caller.
OnlyDisconnectStrands ==
  \A c \in Threads : pc[c] = "wait" /\ call[c].ticket \notin invoked =>
    \/ call[c].ticket \in lost
    \/ \E i \in DOMAIN send_queue_ : send_queue_[i].ticket = call[c].ticket
    \/ \E m \in owed : m.ticket = call[c].ticket
    \/ \E i \in DOMAIN incoming : incoming[i].origin = call[c].ticket
    \/ \E i \in DOMAIN batch : batch[i].origin = call[c].ticket

\* A synchronous call that waits while the connection stays up returns, in the
\* first session and in those after it, unless an earlier Disconnect lost it.
CallReturnsInSession ==
  \A c \in Callers, s \in 1..MaxSessions :
    (pc[c] = "wait" /\ stage = "up" /\ session = s /\ call[c].ticket \notin lost)
      ~> (pc[c] # "wait" \/ stage # "up" \/ session # s)

=============================================================================
