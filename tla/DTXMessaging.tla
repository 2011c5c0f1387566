---------------------------- MODULE DTXMessaging ----------------------------
(***************************************************************************)
(* The messaging core of DTXConnection while the connection is up:          *)
(* threads that call SendMessageAsync, SendMessageSync,                     *)
(* MakeChannelWithIdentifier and CancelChannel, the send thread, the        *)
(* parsing thread, and the device at the other end of the transport.        *)
(*                                                                          *)
(* The callbacks run on the parsing thread, which is then one more thread    *)
(* that sends.                                                              *)
(*                                                                          *)
(* A step is one access to state that threads share: the atomic counters,   *)
(* the send queue, the two unsynchronised maps, the promise of a            *)
(* synchronous call.  Starting, stopping and failing belong to              *)
(* DTXLifecycle; bytes and fragments to the modules of the wire.            *)
(***************************************************************************)
EXTENDS Integers, Sequences, FiniteSets

CONSTANTS
  Callers,           \* threads of the program that use the connection
  ParsingThread,     \* the thread that runs the callbacks
  Ops,               \* the operations the callers use, a subset of AllOps
  CallbackOps,       \* the operations that callbacks use
  Timeouts,          \* values of timeout_ms: "forever" is -1, "finite" any other
  LongWait,          \* may a wait of 2^32-1 ms (49.7 days) run out?
  PromptDevice,      \* may a reply overtake the return of SendMessageAsync?
  MapsRace,          \* may overlapping accesses to a map go wrong?
  UnsolicitedCodes,  \* channel codes of the messages the device sends by itself
  DeviceIdentifiers, \* their identifiers
  MaxRequests,       \* bound: messages the callers send
  MaxUnsolicited,    \* bound: messages the device sends by itself
  MaxChannels        \* bound: channels the callers make

AllOps == {"post", "async", "sync", "make", "cancel"}

ASSUME ConstantsAssumption ==
  /\ ParsingThread \notin Callers
  /\ Ops \subseteq AllOps /\ CallbackOps \subseteq AllOps
  /\ Timeouts \subseteq {"forever", "finite"}
  /\ {LongWait, PromptDevice, MapsRace} \subseteq BOOLEAN
  /\ UnsolicitedCodes \subseteq Int
  /\ DeviceIdentifiers \subseteq Nat
  /\ {MaxRequests, MaxUnsolicited, MaxChannels} \subseteq Nat

VARIABLES
  next_msg_identifier_, next_channel_code_,
  send_queue_,             \* messages with their routing info
  handlers_by_identifier_, \* entries [chan, id, sync, owner, ticket]
  channels_by_code_,       \* codes that are keys of the map
  message_handlers,        \* codes of channels with a non-null message_handler_
  opened, canceled,        \* channels a caller got back; channels with canceled_ set
  pc, call,                \* where each thread stands, and in which call
  ppc, batch, found, max_msg_identifier, \* locals of the parsing thread
  owed,                    \* requests the device has to answer
  incoming,                \* messages on their way to the parsing thread
  stale,                   \* messages parsed and still in the parsing buffer
  unsolicited,             \* how many messages the device has sent by itself
  awaiting,                \* the channels of those it waits for an answer to
  deviceChannels,          \* channels the device has agreed to open
  (* history *)
  issued,    \* issued[t] is the identifier of the t-th message sent: its ticket is t
  invoked,   \* tickets whose callback has been invoked
  answered,  \* tickets the device has replied to
  seen       \* largest identifier in the batches routed so far

Threads == Callers \cup {ParsingThread}

counters == <<next_msg_identifier_, next_channel_code_>>
channels == <<channels_by_code_, message_handlers, opened, canceled>>
parser   == <<ppc, batch, found, max_msg_identifier, stale>>
device   == <<owed, incoming, unsolicited, awaiting, deviceChannels, answered>>
callers  == <<pc, call>>
vars == <<counters, send_queue_, handlers_by_identifier_, channels, callers,
          parser, device, issued, invoked, seen>>

-----------------------------------------------------------------------------
(* Messages and calls *)

Abs(n) == IF n < 0 THEN -n ELSE n
LatestOf(m, n) == n  \* mutant: a plain store
Larger(m, n) == IF m < n THEN n ELSE m

\* A call before and after it has fetched its identifier.
NewCall(op, chan, target, timeout) ==
  [op |-> op, chan |-> chan, target |-> target, timeout |-> timeout, id |-> 0, ticket |-> 0]
Numbered(r, id, ticket) ==
  [op |-> r.op, chan |-> r.chan, target |-> r.target, timeout |-> r.timeout,
   id |-> id, ticket |-> ticket]
NoCall == NewCall("post", 0, 0, "forever")

Handler(chan, id, sync, ticket) == [chan |-> chan, id |-> id, sync |-> sync, ticket |-> ticket]
NoHandler == Handler(0, 0, FALSE, 0)

HasCallback(op) == op # "post"
IsSync(op) == op \in {"sync", "make", "cancel"}

\* A message of the send queue: its routing info, the identifier that was set
\* on the message itself, and what the device makes of its payload.
Outgoing(r) ==
  [id |-> r.id, chan |-> r.chan, conv |-> 0, expects |-> HasCallback(r.op),
   identifier_ |-> 0, op |-> r.op, target |-> r.target, ticket |-> r.ticket]

\* A message of the device; origin is the ticket of the request it answers, or
\* -k for the k-th message that the device sends by itself.
Incoming(id, chan, conv, expects, origin) ==
  [id |-> id, chan |-> chan, conv |-> conv, expects |-> expects, origin |-> origin]

\* ReplyMessage: NewReply copies identifier, channel and conversation of the
\* message it answers; SendMessageAsync routes it under a fresh identifier, and the
\* routing info is what the transmitter writes: the copied identifier goes nowhere.
Reply(m, id, ticket) ==
  [id |-> id, chan |-> m.chan, conv |-> m.conv + 1, expects |-> FALSE,
   identifier_ |-> m.id, op |-> "reply", target |-> 0, ticket |-> ticket]

-----------------------------------------------------------------------------
Init ==
  /\ next_msg_identifier_ = 1 /\ next_channel_code_ = 1
  /\ send_queue_ = <<>> /\ handlers_by_identifier_ = {}
  /\ channels_by_code_ = {} /\ message_handlers = {}
  /\ opened = {} /\ canceled = {}
  /\ pc = [c \in Threads |-> "idle"] /\ call = [c \in Threads |-> NoCall]
  /\ ppc = "idle" /\ batch = <<>> /\ found = NoHandler /\ max_msg_identifier = 0
  /\ owed = {} /\ incoming = <<>> /\ stale = <<>> /\ unsolicited = 0 /\ awaiting = {}
  /\ deviceChannels = {}
  /\ issued = <<>> /\ invoked = {} /\ answered = {} /\ seen = 0

-----------------------------------------------------------------------------
(* The threads that send: callers, and callbacks on the parsing thread *)

Goto(c, label) == pc' = [pc EXCEPT ![c] = label] /\ UNCHANGED call
Return(c) == pc' = [pc EXCEPT ![c] = "idle"] /\ call' = [call EXCEPT ![c] = NoCall]
Begin(c, label, r) == pc' = [pc EXCEPT ![c] = label] /\ call' = [call EXCEPT ![c] = r]

\* Messages that callers have sent or are about to send: the bound MaxRequests.
Requests == Len(issued) + Cardinality({c \in Threads : pc[c] \in {"open", "fetch"}})

\* The program's code runs on thread c, and may begin op: on the parsing thread
\* it runs in callbacks.
Permitted(c) == IF c = ParsingThread THEN CallbackOps ELSE Ops
InProgram(c) == pc[c] = "idle" /\ (c = ParsingThread => ppc \in {"callback", "handler"})
MayBegin(c, op) == InProgram(c) /\ op \in Permitted(c)

\* SendMessageAsync or SendMessageSync, on the connection (channel 0) or on a
\* channel, whose DTXChannel sets the channel code of the message.
Send(c, op, chan, timeout) ==
  /\ MayBegin(c, op) /\ Requests < MaxRequests
  /\ op \notin {"make", "cancel"}
  /\ chan \in {0} \cup opened
  /\ Begin(c, "fetch", NewCall(op, chan, 0, timeout))
  /\ UNCHANGED <<counters, send_queue_, handlers_by_identifier_, channels, parser, device,
                 issued, invoked, seen>>

\* MakeChannelWithIdentifier: allocate a code, insert the channel, then send
\* _requestChannelWithCode:identifier: and wait for the response.
MakeChannel(c) ==
  /\ MayBegin(c, "make") /\ Requests < MaxRequests
  /\ next_channel_code_ <= MaxChannels
  /\ next_channel_code_' = next_channel_code_ + 1
  /\ Begin(c, "open", NewCall("make", 0, next_channel_code_, "forever"))
  /\ UNCHANGED <<next_msg_identifier_, send_queue_, handlers_by_identifier_, channels, parser,
                 device, issued, invoked, seen>>

InsertChannel(c) ==
  /\ pc[c] = "open"
  /\ \/ channels_by_code_' = channels_by_code_ \cup {call[c].target}
     \/ /\ MapsRace /\ \E d \in Threads \ {c} : pc[d] \in {"open", "close"}
        /\ UNCHANGED channels_by_code_
  /\ Goto(c, "fetch")
  /\ UNCHANGED <<counters, send_queue_, handlers_by_identifier_, message_handlers, opened,
                 canceled, parser, device, issued, invoked, seen>>

SetMessageHandler(c, code) ==
  /\ InProgram(c) /\ code \in opened
  /\ message_handlers' = message_handlers \cup {code}
  /\ UNCHANGED <<counters, send_queue_, handlers_by_identifier_, channels_by_code_, opened,
                 canceled, callers, parser, device, issued, invoked, seen>>

\* DTXChannel::Cancel: send _channelCanceled: and wait for the response.
CancelChannel(c, code) ==
  /\ MayBegin(c, "cancel") /\ Requests < MaxRequests
  /\ code \in opened
  /\ Begin(c, "fetch", NewCall("cancel", 0, code, "forever"))
  /\ UNCHANGED <<counters, send_queue_, handlers_by_identifier_, channels, parser, device,
                 issued, invoked, seen>>

FetchIdentifier(c) ==
  /\ pc[c] = "fetch"
  /\ Begin(c, "push", Numbered(call[c], next_msg_identifier_, Len(issued) + 1))
  /\ issued' = Append(issued, next_msg_identifier_)
  /\ next_msg_identifier_' = next_msg_identifier_ + 1
  /\ UNCHANGED <<next_channel_code_, send_queue_, handlers_by_identifier_, channels, parser,
                 device, invoked, seen>>

PushRequest(c) ==
  /\ pc[c] = "push"
  /\ send_queue_' = Append(send_queue_, Outgoing(call[c]))
  /\ IF HasCallback(call[c].op) THEN Goto(c, "insert") ELSE Return(c)
  /\ UNCHANGED <<counters, handlers_by_identifier_, channels, parser, device,
                 issued, invoked, seen>>

\* std::unordered_map::insert leaves an entry with the same key alone.
InsertHandler(c) ==
  /\ pc[c] = "insert"
  /\ LET r == call[c]
         taken == \E h \in handlers_by_identifier_ : h.chan = r.chan /\ h.id = r.id
         handler == Handler(r.chan, r.id, IsSync(r.op), r.ticket)
     IN  \/ handlers_by_identifier_' = handlers_by_identifier_ \cup (IF taken THEN {} ELSE {handler})
         \/ /\ MapsRace /\ (ppc = "erase" \/ \E d \in Threads \ {c} : pc[d] = "insert")
            /\ UNCHANGED handlers_by_identifier_
  /\ IF IsSync(call[c].op) THEN Goto(c, "wait") ELSE Return(c)
  /\ UNCHANGED <<counters, send_queue_, channels, parser, device, issued, invoked, seen>>

\* What follows the return of SendMessageSync.
Resume(c) ==
  /\ IF call[c].op = "cancel" THEN Goto(c, "close") ELSE Return(c)
  /\ opened' = opened \cup (IF call[c].op = "make" THEN {call[c].target} ELSE {})
  /\ UNCHANGED <<counters, send_queue_, handlers_by_identifier_, channels_by_code_,
                 message_handlers, canceled, parser, device, issued, invoked, seen>>

\* future.get(), or future.wait_for() before its time is up.
GetResponse(c) == pc[c] = "wait" /\ call[c].ticket \in invoked /\ Resume(c)

\* The test `timeout_ms != -1` sends the finite timeouts to future.get(), which
\* waits for ever, and -1 to a wait_for() of 2^32-1 ms.
TimedWaitSwapped(timeout) == timeout = "finite"  \* mutant: timeout_ms == -1
TimedWait(timeout) == timeout = "forever"

\* future.wait_for() runs out: the call returns nullptr and leaves its handler,
\* which captured the promise of the call, in the map.
WaitExpires(c) ==
  /\ pc[c] = "wait" /\ call[c].ticket \notin invoked
  /\ TimedWait(call[c].timeout)
  /\ call[c].timeout = "forever" => LongWait
  /\ Resume(c)

ChannelsKept(code) == channels_by_code_  \* mutant: the erase is forgotten
ChannelsWithout(code) == channels_by_code_ \ {code}

\* The end of CancelChannel: the channel leaves the map, and then canceled_ is set,
\* in one step, as nothing but DTXChannel::IsCanceled reads it.
EraseChannel(c) ==
  /\ pc[c] = "close"
  /\ \/ channels_by_code_' = ChannelsWithout(call[c].target)
     \/ /\ MapsRace /\ \E d \in Threads \ {c} : pc[d] \in {"open", "close"}
        /\ UNCHANGED channels_by_code_
  /\ canceled' = canceled \cup {call[c].target}
  /\ Return(c)
  /\ UNCHANGED <<counters, send_queue_, handlers_by_identifier_, message_handlers, opened,
                 parser, device, issued, invoked, seen>>

-----------------------------------------------------------------------------
(* The send thread and the device *)

\* The device takes a message with the next conversation index for the answer to one of
\* its own on that channel: the identifier, a fresh one, does not tell to which.
Answer(m) ==
  IF m.conv > 0 /\ \E a \in awaiting : a.chan = m.chan
  THEN \E a \in awaiting : a.chan = m.chan /\ awaiting' = awaiting \ {a}
  ELSE UNCHANGED awaiting

\* One turn of SendThread: take the first message and transmit it.
Transmit ==
  /\ send_queue_ # <<>>
  /\ LET m == Head(send_queue_) IN
       /\ owed' = owed \cup (IF m.expects THEN {m} ELSE {})
       /\ Answer(m)
  /\ send_queue_' = Tail(send_queue_)
  /\ UNCHANGED <<counters, handlers_by_identifier_, channels, callers, parser, incoming,
                 unsolicited, deviceChannels, answered, issued, invoked, seen>>

\* The device answers a request, under the identifier and channel of the request.
DeviceReply(m) ==
  /\ m \in owed
  /\ PromptDevice \/ \A c \in Threads : pc[c] = "insert" => call[c].ticket # m.ticket
  /\ owed' = owed \ {m}
  /\ incoming' = Append(incoming, Incoming(m.id, m.chan, m.conv + 1, FALSE, m.ticket))
  /\ answered' = answered \cup {m.ticket}
  /\ deviceChannels' = deviceChannels \cup (IF m.op = "make" THEN {m.target} ELSE {})
  /\ UNCHANGED <<counters, send_queue_, handlers_by_identifier_, channels, callers, parser,
                 unsolicited, awaiting, issued, invoked, seen>>

\* The device sends a message of its own, numbered by its own counter.
DeviceSend(code, id, expects) ==
  /\ unsolicited < MaxUnsolicited
  /\ code = 0 \/ Abs(code) \in deviceChannels
  /\ unsolicited' = unsolicited + 1
  /\ awaiting' = awaiting \cup (IF expects THEN {[chan |-> code, number |-> unsolicited']} ELSE {})
  /\ incoming' = Append(incoming, Incoming(id, code, 0, expects, -unsolicited'))
  /\ UNCHANGED <<counters, send_queue_, handlers_by_identifier_, channels, callers, parser,
                 owed, deviceChannels, answered, issued, invoked, seen>>

-----------------------------------------------------------------------------
(* The parsing thread *)

\* A packet completes n messages, and ParseIncomingBytes returns them in order,
\* after those it has left in its buffer.  It empties the buffer only when the
\* packet also holds the beginning of the next message (see DTXMessageParser).
TakePacket(n) ==
  /\ ppc = "idle" /\ n \in 1..Len(incoming)
  /\ batch' = stale \o SubSeq(incoming, 1, n)
  /\ \/ stale' = batch'
     \/ n < Len(incoming) /\ stale' = <<>>
  /\ incoming' = SubSeq(incoming, n + 1, Len(incoming))
  /\ ppc' = "route" /\ max_msg_identifier' = 0 /\ found' = NoHandler
  /\ UNCHANGED <<counters, send_queue_, handlers_by_identifier_, channels, callers, owed,
                 unsolicited, awaiting, deviceChannels, answered, issued, invoked, seen>>

\* RouteMessage has returned: reply if the message asks for it, then go on.
NextMessage ==
  /\ batch' = Tail(batch) /\ ppc' = "route" /\ found' = NoHandler
  /\ max_msg_identifier' = Larger(max_msg_identifier, Head(batch).id)
  /\ UNCHANGED stale

RoutedOnly == NextMessage  \* mutant: ReplyMessage is never called
Routed ==
  IF Head(batch).expects
  THEN ppc' = "reply" /\ found' = NoHandler /\ UNCHANGED <<batch, max_msg_identifier, stale>>
  ELSE NextMessage

\* The entries under the key of channel code and identifier.
HitsOfChannel(m) == {h \in handlers_by_identifier_ : h.chan = m.chan}  \* mutant
HitsUnsigned(m) ==                                          \* mutant: |code|
  {h \in handlers_by_identifier_ : h.chan = Abs(m.chan) /\ h.id = m.id}
Hits(m) == {h \in handlers_by_identifier_ : h.chan = m.chan /\ h.id = m.id}

LookupHandler ==
  /\ ppc = "route" /\ batch # <<>>
  /\ \/ \E h \in Hits(Head(batch)) : found' = h /\ ppc' = "invoke"
     \/ /\ \/ Hits(Head(batch)) = {}
           \/ MapsRace /\ \E c \in Callers : pc[c] = "insert"
        /\ ppc' = "channel" /\ UNCHANGED found
  /\ UNCHANGED <<counters, send_queue_, handlers_by_identifier_, channels, callers, batch,
                 max_msg_identifier, stale, device, issued, invoked, seen>>

\* The callback of a synchronous call sets its promise; one of the program runs
\* until it returns.
InvokeHandler ==
  /\ ppc = "invoke" /\ ppc' = IF found.sync THEN "erase" ELSE "callback"
  /\ invoked' = invoked \cup {found.ticket}
  /\ UNCHANGED <<counters, send_queue_, handlers_by_identifier_, channels, callers, batch,
                 found, max_msg_identifier, stale, device, issued, seen>>

WithoutNothing == handlers_by_identifier_  \* mutant: the erase is forgotten
WithoutChannelOfFound ==                   \* mutant: the key is the channel alone
  {h \in handlers_by_identifier_ : h.chan # found.chan}
WithoutFound == handlers_by_identifier_ \ {found}

EraseHandler ==
  /\ ppc = "erase"
  /\ \/ handlers_by_identifier_' = WithoutFound
     \/ /\ MapsRace /\ \E c \in Callers : pc[c] = "insert"
        /\ UNCHANGED handlers_by_identifier_
  /\ Routed
  /\ UNCHANGED <<counters, send_queue_, channels, callers, device, issued, invoked, seen>>

SignedCode(m) == m.chan  \* mutant: no std::abs
ChannelOf(m) == Abs(m.chan)

\* No handler: the message goes to the handler of its channel, or is dropped.
LookupChannel ==
  /\ ppc = "channel"
  /\ LET code == ChannelOf(Head(batch)) IN
       \/ /\ code \in channels_by_code_ \cap message_handlers
          /\ ppc' = "deliver" /\ UNCHANGED <<batch, found, max_msg_identifier, stale>>
       \/ /\ \/ code \notin channels_by_code_ \cap message_handlers
             \/ MapsRace /\ \E c \in Callers : pc[c] \in {"open", "close"}
          /\ Routed
  /\ UNCHANGED <<counters, send_queue_, handlers_by_identifier_, channels, callers, device,
                 issued, invoked, seen>>

InvokeChannelHandler ==
  /\ ppc = "deliver" /\ ppc' = "handler"
  /\ UNCHANGED <<counters, send_queue_, handlers_by_identifier_, channels, callers, batch,
                 found, max_msg_identifier, stale, device, issued, invoked, seen>>

\* A callback of the program returns, once the calls it has made have returned.
CallbackReturns ==
  /\ pc[ParsingThread] = "idle"
  /\ \/ /\ ppc = "callback" /\ ppc' = "erase"
        /\ UNCHANGED <<batch, found, max_msg_identifier, stale>>
     \/ ppc = "handler" /\ Routed
  /\ UNCHANGED <<counters, send_queue_, handlers_by_identifier_, channels, callers, device,
                 issued, invoked, seen>>

\* ReplyMessage: SendMessageAsync with no callback, from the parsing thread.
FetchReplyIdentifier ==
  /\ ppc = "reply" /\ ppc' = "push"
  /\ issued' = Append(issued, next_msg_identifier_)
  /\ next_msg_identifier_' = next_msg_identifier_ + 1
  /\ found' = Handler(0, next_msg_identifier_, FALSE, Len(issued) + 1)
  /\ UNCHANGED <<next_channel_code_, send_queue_, handlers_by_identifier_, channels, callers,
                 batch, max_msg_identifier, stale, device, invoked, seen>>

PushReply ==
  /\ ppc = "push"
  /\ send_queue_' = Append(send_queue_, Reply(Head(batch), found.id, found.ticket))
  /\ NextMessage
  /\ UNCHANGED <<counters, handlers_by_identifier_, channels, callers, device,
                 issued, invoked, seen>>

AfterBatchMax == Larger(next_msg_identifier_, max_msg_identifier)  \* mutant: no + 1
AfterBatch == Larger(next_msg_identifier_, max_msg_identifier + 1)

\* IDEVICE_ATOMIC_SET_MAX, once the whole batch has been routed.
FinishBatch ==
  /\ ppc = "route" /\ batch = <<>> /\ ppc' = "idle"
  /\ next_msg_identifier_' = AfterBatch
  /\ seen' = Larger(seen, max_msg_identifier)
  /\ UNCHANGED <<next_channel_code_, send_queue_, handlers_by_identifier_, channels, callers,
                 batch, found, max_msg_identifier, stale, device, issued, invoked>>

-----------------------------------------------------------------------------
Start(c) ==
  \/ \E op \in Permitted(c), chan \in {0} \cup opened, t \in Timeouts : Send(c, op, chan, t)
  \/ MakeChannel(c)
  \/ \E code \in opened : SetMessageHandler(c, code) \/ CancelChannel(c, code)

Continue(c) ==
  \/ InsertChannel(c) \/ FetchIdentifier(c) \/ PushRequest(c) \/ InsertHandler(c)
  \/ GetResponse(c) \/ EraseChannel(c)

Parse ==
  \/ \E n \in 1..Len(incoming) : TakePacket(n)
  \/ LookupHandler \/ InvokeHandler \/ EraseHandler
  \/ LookupChannel \/ InvokeChannelHandler \/ CallbackReturns
  \/ FetchReplyIdentifier \/ PushReply \/ FinishBatch

DeviceReplies == \E m \in owed : DeviceReply(m)

Next ==
  \/ \E c \in Threads : Start(c) \/ Continue(c) \/ WaitExpires(c)
  \/ Transmit
  \/ DeviceReplies
  \/ \E code \in UnsolicitedCodes, id \in DeviceIdentifiers, expects \in BOOLEAN :
       DeviceSend(code, id, expects)
  \/ Parse

Spec == Init /\ [][Next]_vars

\* The threads run; a call that has begun goes on; a callback returns if its
\* calls do; the device answers.  Nobody has to begin a call, and no wait has to
\* run out.
Fairness ==
  /\ \A c \in Threads : WF_vars(Continue(c))
  /\ WF_vars(Transmit) /\ WF_vars(Parse) /\ WF_vars(DeviceReplies)

FairSpec == Spec /\ Fairness

-----------------------------------------------------------------------------
(* Properties *)

Labels == {"idle", "open", "fetch", "push", "insert", "wait", "close"}
ParserLabels ==
  {"idle", "route", "invoke", "callback", "erase", "channel", "deliver", "handler", "reply",
   "push"}

CallType == [op : AllOps, chan : Nat, target : Nat, timeout : {"forever", "finite"},
             id : Nat, ticket : Nat]
HandlerType == [chan : Nat, id : Nat, sync : BOOLEAN, ticket : Nat]
OutgoingType == [id : Nat, chan : Int, conv : Nat, expects : BOOLEAN, identifier_ : Nat,
                 op : AllOps \cup {"reply"}, target : Nat, ticket : Nat]
IncomingType == [id : Nat, chan : Int, conv : Nat, expects : BOOLEAN, origin : Int]
AwaitedType == [chan : Int, number : Nat]

\* Every variable has its type.
TypeOK ==
  /\ next_msg_identifier_ \in Nat \ {0} /\ next_channel_code_ \in Nat \ {0}
  /\ send_queue_ \in Seq(OutgoingType)
  /\ handlers_by_identifier_ \subseteq HandlerType
  /\ channels_by_code_ \subseteq Nat /\ message_handlers \subseteq Nat
  /\ opened \subseteq Nat /\ canceled \subseteq Nat
  /\ pc \in [Threads -> Labels] /\ call \in [Threads -> CallType]
  /\ ppc \in ParserLabels /\ batch \in Seq(IncomingType)
  /\ found \in HandlerType /\ max_msg_identifier \in Nat
  /\ owed \subseteq OutgoingType /\ incoming \in Seq(IncomingType)
  /\ stale \in Seq(IncomingType)
  /\ unsolicited \in Nat /\ awaiting \subseteq AwaitedType /\ deviceChannels \subseteq Nat
  /\ issued \in Seq(Nat) /\ invoked \subseteq Nat /\ answered \subseteq Nat /\ seen \in Nat

\* Identifiers are never reused: whatever the threads do and whatever numbers
\* the device chooses, fetch_add and IDEVICE_ATOMIC_SET_MAX together hand out a
\* strictly increasing sequence.
IdentifiersIncrease ==
  \A s, t \in DOMAIN issued : s < t => issued[s] < issued[t]

\* A reply of the device that reaches a handler reaches the handler of the very
\* request it answers, even when the device numbers its own messages with
\* identifiers that the program uses too (RouteMessage looks up a key, and
\* handlers of abandoned or unanswered requests stay in the map).
RepliesReachTheirCaller ==
  ppc = "invoke" /\ Head(batch).origin > 0 => found.ticket = Head(batch).origin

\* A handler is invoked with the response to its own message only
\* ("callback for response message", dtxconnection.h).
OwnReplyOnly == ppc = "invoke" => found.ticket = Head(batch).origin

\* RouteMessage invokes no handler twice: it erases the handler before the next
\* message, even though other callers insert in between.
HandlerRunsOnce == ppc = "invoke" => found.ticket \notin invoked

\* SendMessageSync captures a promise of its own frame by reference: when the
\* parsing thread invokes the handler, the call is still waiting.
PromiseAlive ==
  ppc = "invoke" /\ found.sync =>
    \E c \in Threads : pc[c] = "wait" /\ call[c].ticket = found.ticket

\* A call that waits will get its response: its handler is in the map, and its
\* request, or the reply to it, is somewhere between the send queue and the parser.
WaitingCallIsServed ==
  \A c \in Threads : pc[c] = "wait" /\ call[c].ticket \notin invoked =>
    /\ \E h \in handlers_by_identifier_ : h.ticket = call[c].ticket
    /\ \/ \E i \in DOMAIN send_queue_ : send_queue_[i].ticket = call[c].ticket
       \/ \E m \in owed : m.ticket = call[c].ticket
       \/ \E i \in DOMAIN incoming : incoming[i].origin = call[c].ticket
       \/ \E i \in DOMAIN batch : batch[i].origin = call[c].ticket

\* A request that the device may still answer keeps its handler: what callbacks
\* insert while RouteMessage holds an iterator survives the erase that follows.
RequestsKeepTheirHandler ==
  \A m \in owed : m.expects =>
    \/ \E c \in Threads : pc[c] = "insert" /\ call[c].ticket = m.ticket
    \/ \E h \in handlers_by_identifier_ : h.ticket = m.ticket /\ h.ticket \notin invoked

\* Nobody is forgotten: neither a call that waits nor a message with a callback.
NobodyIsForgotten == WaitingCallIsServed /\ RequestsKeepTheirHandler

\* Once a batch has been routed, no new message takes an identifier that the
\* device has used in it or before.
NewIdentifiersFollowSeen ==
  [][Len(issued') > Len(issued) => issued'[Len(issued')] > seen]_vars

\* A message whose channel is looked up after Cancel has returned is not handed
\* to the handler of the channel.
CanceledChannelsStayQuiet ==
  [][ppc = "channel" /\ ppc' = "deliver" => Abs(Head(batch).chan) \notin canceled]_vars

\* "When the message does not have a specific handler, it is routed to the
\* channel's handler": of a channel that is open and has one, whatever the sign of
\* the code and whatever else threads do to the map.
ChannelMessagesAreHandled ==
  [][/\ ppc = "channel" /\ ppc' # "channel"
     /\ \E code \in (opened \cap message_handlers) \ canceled : Head(batch).chan \in {code, -code}
     => ppc' = "deliver"]_vars

\* For every device message that expects a reply, one with the next conversation index
\* goes out on its channel: the parsing thread calls ReplyMessage whether or not a
\* handler took the message.  Nothing is said about the identifier of the reply, which
\* is not that of the message.
RepliesGoOut == []<>(awaiting = {})

\* The connection keeps the promises of DTXCalls, and, when the threads are fair, every
\* answer reaches its callback, also of a message that another callback has sent, and
\* every call that is served returns.
Calls == INSTANCE DTXCalls
  WITH GivesUp <- LongWait, sent <- DOMAIN issued,
       waiting <- {call[c].ticket : c \in {d \in Threads : pc[d] = "wait"}}

ImplementsCalls == Calls!Spec
ServesCalls == Calls!FairSpec

(* A statement of the documentation that the code does not keep. *)

\* Cancel "blocks until the service returns a response", and no longer.
CancelReturnsOnceAnswered ==
  \A c \in Threads :
    (pc[c] = "wait" /\ call[c].op = "cancel" /\ call[c].ticket \in answered)
      ~> (pc[c] # "wait")

=============================================================================
