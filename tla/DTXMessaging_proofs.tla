------------------------ MODULE DTXMessaging_proofs ------------------------
(***************************************************************************)
(* Theorems about DTXMessaging: no identifier is used twice, replies reach  *)
(* their caller, and the connection keeps the promises of DTXCalls; while   *)
(* its maps do not race, no handler runs twice; none outlives the call      *)
(* whose promise it sets, if no wait runs out; nobody is forgotten, if no   *)
(* reply is early and the device keeps to negative codes; channels get      *)
(* their messages until they are canceled.                                  *)
(* And about DTXSessions: what a Disconnect clears stays away from the      *)
(* later sessions, and nothing but a Disconnect strands a caller.  For      *)
(* every set of callers, every choice of operations, in callbacks too,      *)
(* every numbering of the device, every bound and any number of sessions.   *)
(***************************************************************************)
EXTENDS DTXSessions, SequenceTheorems, TLAPS

USE DEF counters, channels, parser, device, callers

\* While a message is being routed it is at the head of the batch.
BatchOK == ppc \notin {"idle", "route"} => batch # <<>>

TypeInv == TypeOK /\ BatchOK

\* Numbers stay numbers.
LEMMA LargerNat == \A m, n \in Nat : Larger(m, n) \in Nat /\ Larger(m, n) >= m /\ Larger(m, n) >= n
  BY DEF Larger

\* What the two ends of a message sequence are.
LEMMA SeqFacts ==
  ASSUME NEW S, NEW s \in Seq(S)
  PROVE  /\ \A x \in S : Append(s, x) \in Seq(S)
         /\ s # <<>> => Head(s) \in S /\ Tail(s) \in Seq(S)
  OBVIOUS

LEMMA TypeInit == Init => TypeInv
  BY ConstantsAssumption DEF Init, TypeInv, TypeOK, BatchOK, NoCall, NewCall, NoHandler, Handler, CallType, HandlerType,
     Labels, ParserLabels, AllOps


\* Moving a caller to a label, and starting and ending a call, keep its types.
LEMMA CallerTypes ==
  ASSUME TypeOK, NEW c \in Threads, NEW label \in Labels, NEW r \in CallType
  PROVE  /\ Goto(c, label) => pc' \in [Threads -> Labels] /\ call' \in [Threads -> CallType]
         /\ Return(c) => pc' \in [Threads -> Labels] /\ call' \in [Threads -> CallType]
         /\ Begin(c, label, r) => pc' \in [Threads -> Labels] /\ call' \in [Threads -> CallType]
<1>1. NoCall \in CallType /\ "idle" \in Labels
  BY DEF NoCall, NewCall, CallType, AllOps, Labels
<1> QED BY <1>1 DEF TypeOK, Goto, Return, Begin

\* The steps of a caller keep the types.
LEMMA TypeCaller ==
  ASSUME TypeInv, NEW c \in Threads, Start(c) \/ Continue(c) \/ WaitExpires(c)
  PROVE  TypeInv'
<1> USE DEF TypeInv
<1>a. {"idle", "open", "fetch", "push", "insert", "wait", "close"} \subseteq Labels
  BY DEF Labels
<1>b. call[c] \in CallType
  BY DEF TypeOK
<1>1. ASSUME NEW op \in Permitted(c), NEW chan \in {0} \cup opened, NEW t \in Timeouts, Send(c, op, chan, t)
      PROVE  TypeInv'
  <2>1. op \in AllOps /\ chan \in Nat /\ t \in {"forever", "finite"}
    BY ConstantsAssumption DEF TypeOK, Permitted
  <2>2. NewCall(op, chan, 0, t) \in CallType
    BY <2>1 DEF NewCall, CallType
  <2>3. pc' \in [Threads -> Labels] /\ call' \in [Threads -> CallType]
    BY <1>1, <1>a, <2>2, CallerTypes DEF Send
  <2> QED BY <1>1, <2>3 DEF Send, TypeOK, BatchOK
<1>2. ASSUME MakeChannel(c) PROVE TypeInv'
  <2>1. next_channel_code_ \in Nat
    BY DEF TypeOK
  <2>2. NewCall("make", 0, next_channel_code_, "forever") \in CallType
    BY <2>1 DEF NewCall, CallType, AllOps
  <2>3. pc' \in [Threads -> Labels] /\ call' \in [Threads -> CallType]
    BY <1>2, <1>a, <2>2, CallerTypes DEF MakeChannel
  <2> QED BY <1>2, <2>3 DEF MakeChannel, TypeOK, BatchOK
<1>3. ASSUME NEW code \in opened, SetMessageHandler(c, code) PROVE TypeInv'
  BY <1>3 DEF SetMessageHandler, TypeOK, BatchOK
<1>4. ASSUME NEW code \in opened, CancelChannel(c, code) PROVE TypeInv'
  <2>1. NewCall("cancel", 0, code, "forever") \in CallType
    BY DEF NewCall, CallType, TypeOK, AllOps
  <2>2. pc' \in [Threads -> Labels] /\ call' \in [Threads -> CallType]
    BY <1>4, <1>a, <2>1, CallerTypes DEF CancelChannel
  <2> QED BY <1>4, <2>2 DEF CancelChannel, TypeOK, BatchOK
<1>5. ASSUME InsertChannel(c) PROVE TypeInv'
  <2>1. call[c].target \in Nat
    BY <1>b DEF CallType
  <2>2. pc' \in [Threads -> Labels] /\ call' \in [Threads -> CallType]
    BY <1>5, <1>a, <1>b, CallerTypes DEF InsertChannel
  <2> QED BY <1>5, <2>1, <2>2 DEF InsertChannel, TypeOK, BatchOK
<1>6. ASSUME FetchIdentifier(c) PROVE TypeInv'
  <2>1. next_msg_identifier_ \in Nat /\ Len(issued) + 1 \in Nat
    BY DEF TypeOK
  <2>2. Numbered(call[c], next_msg_identifier_, Len(issued) + 1) \in CallType
    BY <1>b, <2>1 DEF Numbered, CallType
  <2>3. pc' \in [Threads -> Labels] /\ call' \in [Threads -> CallType]
    BY <1>6, <1>a, <2>2, CallerTypes DEF FetchIdentifier
  <2>4. issued' \in Seq(Nat)
    BY <1>6 DEF FetchIdentifier, TypeOK
  <2> QED BY <1>6, <2>3, <2>4 DEF FetchIdentifier, TypeOK, BatchOK
<1>7. ASSUME PushRequest(c) PROVE TypeInv'
  <2>1. Outgoing(call[c]) \in OutgoingType
    BY <1>b DEF Outgoing, OutgoingType, CallType, HasCallback
  <2>2. send_queue_' \in Seq(OutgoingType)
    BY <1>7, <2>1 DEF PushRequest, TypeOK
  <2>3. pc' \in [Threads -> Labels] /\ call' \in [Threads -> CallType]
    BY <1>7, <1>a, <1>b, CallerTypes DEF PushRequest
  <2> QED BY <1>7, <2>2, <2>3 DEF PushRequest, TypeOK, BatchOK
<1>8. ASSUME InsertHandler(c) PROVE TypeInv'
  <2>1. Handler(call[c].chan, call[c].id, IsSync(call[c].op), call[c].ticket) \in HandlerType
    BY <1>b DEF Handler, HandlerType, CallType, IsSync
  <2>2. handlers_by_identifier_' \subseteq HandlerType
    BY <1>8, <2>1 DEF InsertHandler, TypeOK
  <2>3. pc' \in [Threads -> Labels] /\ call' \in [Threads -> CallType]
    BY <1>8, <1>a, <1>b, CallerTypes DEF InsertHandler
  <2> QED BY <1>8, <2>2, <2>3 DEF InsertHandler, TypeOK, BatchOK
<1>9. ASSUME Resume(c) PROVE TypeInv'
  <2>1. call[c].target \in Nat
    BY <1>b DEF CallType
  <2>2. pc' \in [Threads -> Labels] /\ call' \in [Threads -> CallType]
    BY <1>9, <1>a, <1>b, CallerTypes DEF Resume
  <2> QED BY <1>9, <2>1, <2>2 DEF Resume, TypeOK, BatchOK
<1>10. ASSUME EraseChannel(c) PROVE TypeInv'
  <2>1. call[c].target \in Nat
    BY <1>b DEF CallType
  <2>2. pc' \in [Threads -> Labels] /\ call' \in [Threads -> CallType]
    BY <1>10, <1>a, <1>b, CallerTypes DEF EraseChannel
  <2> QED BY <1>10, <2>1, <2>2 DEF EraseChannel, ChannelsWithout, TypeOK, BatchOK
<1> QED
  BY <1>1, <1>2, <1>3, <1>4, <1>5, <1>6, <1>7, <1>8, <1>9, <1>10
  DEF Start, Continue, GetResponse, WaitExpires

\* So do the steps of the send thread and of the device.
LEMMA TypeDevice ==
  ASSUME TypeInv,
         \/ Transmit \/ DeviceReplies
         \/ \E code \in UnsolicitedCodes, id \in DeviceIdentifiers, expects \in BOOLEAN :
              DeviceSend(code, id, expects)
  PROVE  TypeInv'
<1> USE DEF TypeInv
<1>1. CASE Transmit
  <2>1. Head(send_queue_) \in OutgoingType /\ send_queue_' \in Seq(OutgoingType)
    BY <1>1, SeqFacts DEF Transmit, TypeOK
  <2>2. awaiting' \subseteq AwaitedType
    BY <1>1 DEF Transmit, Answer, TypeOK
  <2> QED BY <1>1, <2>1, <2>2 DEF Transmit, TypeOK, BatchOK
<1>2. ASSUME NEW m \in owed, DeviceReply(m) PROVE TypeInv'
  <2>0. m \in OutgoingType
    BY DEF TypeOK
  <2>1. Incoming(m.id, m.chan, m.conv + 1, FALSE, m.ticket) \in IncomingType
    BY <2>0 DEF Incoming, IncomingType, OutgoingType
  <2>2. incoming' \in Seq(IncomingType)
    <3>1. incoming \in Seq(IncomingType)
      BY DEF TypeOK
    <3> QED BY <1>2, <2>1, <3>1, SeqFacts DEF DeviceReply
  <2>3. m.ticket \in Nat /\ m.target \in Nat
    BY <2>0 DEF OutgoingType
  <2> QED BY <1>2, <2>2, <2>3 DEF DeviceReply, TypeOK, BatchOK
<1>3. ASSUME NEW code \in UnsolicitedCodes, NEW id \in DeviceIdentifiers, NEW expects \in BOOLEAN,
             DeviceSend(code, id, expects)
      PROVE  TypeInv'
  <2>1. unsolicited' \in Nat
    BY <1>3 DEF DeviceSend, TypeOK
  <2>2. Incoming(id, code, 0, expects, -unsolicited') \in IncomingType
    BY <2>1, ConstantsAssumption DEF Incoming, IncomingType
  <2>3. incoming' \in Seq(IncomingType)
    BY <1>3, <2>2 DEF DeviceSend, TypeOK
  <2>4. awaiting' \subseteq AwaitedType
    <3>1. [chan |-> code, number |-> unsolicited'] \in AwaitedType
      BY <2>1, ConstantsAssumption DEF AwaitedType
    <3> QED BY <1>3, <3>1 DEF DeviceSend, TypeOK
  <2> QED BY <1>3, <2>1, <2>3, <2>4 DEF DeviceSend, TypeOK, BatchOK
<1> QED BY <1>1, <1>2, <1>3 DEF DeviceReplies

\* The parsing thread moves on to the next message.
LEMMA TypeRouted ==
  ASSUME TypeInv, batch # <<>>
  PROVE  /\ NextMessage => /\ batch' \in Seq(IncomingType) /\ stale' \in Seq(IncomingType)
                           /\ ppc' = "route" /\ found' \in HandlerType
                           /\ max_msg_identifier' \in Nat
         /\ Routed => /\ batch' \in Seq(IncomingType) /\ stale' \in Seq(IncomingType)
                      /\ ppc' \in ParserLabels /\ found' \in HandlerType
                      /\ max_msg_identifier' \in Nat /\ BatchOK'
<1>1. NoHandler \in HandlerType
  BY DEF NoHandler, Handler, HandlerType
<1>2. Head(batch) \in IncomingType /\ Tail(batch) \in Seq(IncomingType)
  BY SeqFacts DEF TypeInv, TypeOK
<1>3. Head(batch).id \in Nat
  BY <1>2 DEF IncomingType
<1>4. Larger(max_msg_identifier, Head(batch).id) \in Nat
  BY <1>3, LargerNat DEF TypeInv, TypeOK
<1> QED BY <1>1, <1>2, <1>4 DEF NextMessage, Routed, TypeInv, TypeOK, BatchOK, ParserLabels

\* The steps of the parsing thread keep the types.
LEMMA TypeParse == TypeInv /\ Parse => TypeInv'
<1> SUFFICES ASSUME TypeInv, Parse PROVE TypeInv'
  OBVIOUS
<1>1. ASSUME NEW n \in 1..Len(incoming), TakePacket(n) PROVE TypeInv'
  <2>1. NoHandler \in HandlerType
    BY DEF NoHandler, Handler, HandlerType
  <2>2. /\ SubSeq(incoming, 1, n) \in Seq(IncomingType)
        /\ SubSeq(incoming, n + 1, Len(incoming)) \in Seq(IncomingType)
    BY DEF TypeInv, TypeOK
  <2>3. batch' \in Seq(IncomingType) /\ stale' \in Seq(IncomingType)
    <3>1. stale \in Seq(IncomingType) /\ <<>> \in Seq(IncomingType)
      BY DEF TypeInv, TypeOK
    <3>2. stale \o SubSeq(incoming, 1, n) \in Seq(IncomingType)
      BY <2>2, <3>1, ConcatProperties
    <3> QED BY <1>1, <3>1, <3>2 DEF TakePacket
  <2> QED BY <1>1, <2>1, <2>2, <2>3 DEF TakePacket, TypeInv, TypeOK, BatchOK, ParserLabels
<1>2. CASE LookupHandler
  BY <1>2 DEF LookupHandler, Hits, TypeInv, TypeOK, BatchOK, ParserLabels
<1>3. CASE InvokeHandler
  <2>1. found.ticket \in Nat
    BY DEF TypeInv, TypeOK, HandlerType
  <2> QED BY <1>3, <2>1 DEF InvokeHandler, TypeInv, TypeOK, BatchOK, ParserLabels
<1>4. CASE EraseHandler
  BY <1>4, TypeRouted DEF EraseHandler, WithoutFound, TypeInv, TypeOK, BatchOK
<1>5. CASE LookupChannel
  BY <1>5, TypeRouted DEF LookupChannel, TypeInv, TypeOK, BatchOK, ParserLabels
<1>6. CASE InvokeChannelHandler
  BY <1>6 DEF InvokeChannelHandler, TypeInv, TypeOK, BatchOK, ParserLabels
<1>10. CASE CallbackReturns
  BY <1>10, TypeRouted DEF CallbackReturns, TypeInv, TypeOK, BatchOK, ParserLabels
<1>7. CASE FetchReplyIdentifier
  <2>1. Handler(0, next_msg_identifier_, FALSE, Len(issued) + 1) \in HandlerType
    BY DEF Handler, HandlerType, TypeInv, TypeOK
  <2>2. issued' \in Seq(Nat)
    BY <1>7 DEF FetchReplyIdentifier, TypeInv, TypeOK
  <2>3. found' \in HandlerType
    BY <1>7, <2>1 DEF FetchReplyIdentifier
  <2>4. next_msg_identifier_' \in Nat \ {0}
    BY <1>7 DEF FetchReplyIdentifier, TypeInv, TypeOK
  <2>5. batch # <<>>
    BY <1>7 DEF FetchReplyIdentifier, TypeInv, BatchOK
  <2> QED
    BY <1>7, <2>2, <2>3, <2>4, <2>5 DEF FetchReplyIdentifier, TypeInv, TypeOK, BatchOK, ParserLabels
<1>8. CASE PushReply
  <2>1. Head(batch) \in IncomingType /\ batch # <<>>
    BY <1>8, SeqFacts DEF PushReply, TypeInv, TypeOK, BatchOK
  <2>0. found.id \in Nat /\ found.ticket \in Nat
    BY DEF HandlerType, TypeInv, TypeOK
  <2>2. Reply(Head(batch), found.id, found.ticket) \in OutgoingType
    BY <2>0, <2>1 DEF Reply, OutgoingType, IncomingType
  <2>3. send_queue_' \in Seq(OutgoingType)
    BY <1>8, <2>2 DEF PushReply, TypeInv, TypeOK
  <2> QED BY <1>8, <2>1, <2>3, TypeRouted DEF PushReply, TypeInv, TypeOK, BatchOK, ParserLabels
<1>9. CASE FinishBatch
  <2>1. next_msg_identifier_' \in Nat \ {0}
    BY <1>9, LargerNat DEF FinishBatch, AfterBatch, TypeInv, TypeOK
  <2>2. seen' \in Nat
    BY <1>9, LargerNat DEF FinishBatch, TypeInv, TypeOK
  <2> QED BY <1>9, <2>1, <2>2 DEF FinishBatch, TypeInv, TypeOK, BatchOK, ParserLabels
<1> QED BY <1>1, <1>2, <1>3, <1>4, <1>5, <1>6, <1>7, <1>8, <1>9, <1>10 DEF Parse

LEMMA TypeStep == TypeInv /\ [Next]_vars => TypeInv'
<1> SUFFICES ASSUME TypeInv, [Next]_vars PROVE TypeInv'
  OBVIOUS
<1>1. CASE Next
  BY <1>1, TypeCaller, TypeDevice, TypeParse DEF Next
<1>2. CASE UNCHANGED vars
  BY <1>2 DEF vars, TypeInv, TypeOK, BatchOK
<1> QED BY <1>1, <1>2

\* Every variable always has its type, and a message is routed only from a batch.
LEMMA TypeInvariant == Spec => []TypeInv
  BY TypeInit, TypeStep, PTL DEF Spec

\* Every variable always has its type.
THEOREM TypeCorrect == Spec => []TypeOK
<1>1. TypeInv => TypeOK
  BY DEF TypeInv
<1> QED BY <1>1, TypeInvariant, PTL

-----------------------------------------------------------------------------
(* Identifiers *)

\* The counter is above every identifier handed out and every identifier seen.
CounterAhead ==
  /\ \A t \in DOMAIN issued : issued[t] < next_msg_identifier_
  /\ seen < next_msg_identifier_

IdentifierInv == IdentifiersIncrease /\ CounterAhead

\* A step hands out the value of the counter and increments it, or hands out
\* nothing and does not decrease the counter.
HandsOut ==
  /\ issued' = Append(issued, next_msg_identifier_)
  /\ next_msg_identifier_' = next_msg_identifier_ + 1 /\ seen' = seen

HandsOutNothing ==
  /\ issued' = issued /\ next_msg_identifier_' >= next_msg_identifier_
  /\ seen' = seen \/ seen' < next_msg_identifier_'

LEMMA CounterStep ==
  ASSUME TypeInv, CounterAhead, [Next]_vars
  PROVE  HandsOut \/ HandsOutNothing
<1>0. next_msg_identifier_ \in Nat /\ max_msg_identifier \in Nat /\ seen \in Nat
  BY DEF TypeInv, TypeOK
<1>1. ASSUME NEW c \in Threads, Start(c) \/ Continue(c) \/ WaitExpires(c)
      PROVE  HandsOut \/ HandsOutNothing
  <2>1. CASE FetchIdentifier(c)
    BY <2>1 DEF FetchIdentifier, HandsOut
  <2>2. CASE Continue(c) /\ ~FetchIdentifier(c)
    BY <2>2, <1>0 DEF Continue, InsertChannel, PushRequest, InsertHandler, GetResponse, Resume,
       EraseChannel, HandsOutNothing
  <2>3. CASE Start(c) \/ WaitExpires(c)
    BY <2>3, <1>0 DEF Start, Send, MakeChannel, SetMessageHandler, CancelChannel, WaitExpires,
       Resume, HandsOutNothing
  <2> QED BY <1>1, <2>1, <2>2, <2>3
<1>2. CASE \/ Transmit \/ DeviceReplies
           \/ \E code \in UnsolicitedCodes, id \in DeviceIdentifiers, expects \in BOOLEAN :
                DeviceSend(code, id, expects)
  <2>1. Transmit => UNCHANGED <<counters, issued, seen>>
    BY DEF Transmit
  <2>2. DeviceReplies => UNCHANGED <<counters, issued, seen>>
    BY DEF DeviceReplies, DeviceReply
  <2>3. ASSUME NEW code, NEW id, NEW expects, DeviceSend(code, id, expects)
        PROVE  UNCHANGED <<counters, issued, seen>>
    BY <2>3 DEF DeviceSend
  <2>4. UNCHANGED <<counters, issued, seen>>
    BY <1>2, <2>1, <2>2, <2>3
  <2> QED BY <2>4, <1>0 DEF HandsOutNothing
<1>3. CASE FetchReplyIdentifier
  BY <1>3 DEF FetchReplyIdentifier, HandsOut
<1>4. CASE FinishBatch
  BY <1>4, <1>0, LargerNat DEF FinishBatch, AfterBatch, Larger, CounterAhead, HandsOutNothing
<1>5. CASE Parse /\ ~FetchReplyIdentifier /\ ~FinishBatch
  BY <1>5, <1>0 DEF Parse, TakePacket, LookupHandler, InvokeHandler, EraseHandler, LookupChannel,
     InvokeChannelHandler, CallbackReturns, PushReply, HandsOutNothing
<1>6. CASE UNCHANGED vars
  BY <1>6, <1>0 DEF vars, HandsOutNothing
<1> QED BY <1>1, <1>2, <1>3, <1>4, <1>5, <1>6 DEF Next

\* What a step that hands out an identifier does to the sequence of identifiers.
LEMMA IssuedStep ==
  ASSUME TypeInv, HandsOut
  PROVE  /\ Len(issued') = Len(issued) + 1 /\ DOMAIN issued' = 1..(Len(issued) + 1)
         /\ \A t \in DOMAIN issued : issued'[t] = issued[t]
         /\ issued'[Len(issued) + 1] = next_msg_identifier_
<1>1. issued \in Seq(Nat) /\ next_msg_identifier_ \in Nat
  BY DEF TypeInv, TypeOK
<1> QED BY <1>1 DEF HandsOut

LEMMA IdentifierStep == TypeInv /\ IdentifierInv /\ [Next]_vars => IdentifierInv'
<1> SUFFICES ASSUME TypeInv, IdentifierInv, [Next]_vars PROVE IdentifierInv'
  OBVIOUS
<1>0. /\ next_msg_identifier_ \in Nat /\ issued \in Seq(Nat) /\ seen \in Nat
      /\ next_msg_identifier_' \in Nat /\ seen' \in Nat
  BY TypeStep DEF TypeInv, TypeOK
<1>1. CASE HandsOut
  <2>1. IdentifiersIncrease'
    <3>1. /\ DOMAIN issued = 1..Len(issued) /\ Len(issued) \in Nat
          /\ \A i \in DOMAIN issued : issued[i] \in Nat
      BY <1>0
    <3>2. /\ Len(issued') = Len(issued) + 1 /\ DOMAIN issued' = 1..(Len(issued) + 1)
          /\ \A t \in DOMAIN issued : issued'[t] = issued[t]
          /\ issued'[Len(issued) + 1] = next_msg_identifier_
      BY <1>1, IssuedStep
    <3>3. ASSUME NEW s \in 1..(Len(issued) + 1), NEW t \in 1..(Len(issued) + 1), s < t
          PROVE  issued'[s] < issued'[t]
      <4>1. s \in DOMAIN issued /\ issued'[s] = issued[s]
        BY <3>1, <3>2, <3>3
      <4>2. CASE t \in DOMAIN issued
        BY <3>2, <3>3, <4>1, <4>2 DEF IdentifierInv, IdentifiersIncrease
      <4>3. CASE t = Len(issued) + 1
        BY <3>2, <4>1, <4>3 DEF IdentifierInv, CounterAhead
      <4> QED BY <3>1, <4>2, <4>3
    <3> QED BY <3>2, <3>3 DEF IdentifiersIncrease
  <2>2. CounterAhead'
    BY <1>0, <1>1, IssuedStep DEF IdentifierInv, CounterAhead, HandsOut
  <2> QED BY <2>1, <2>2 DEF IdentifierInv
<1>2. CASE HandsOutNothing
  BY <1>0, <1>2 DEF HandsOutNothing, IdentifierInv, IdentifiersIncrease, CounterAhead
<1> QED BY <1>1, <1>2, CounterStep DEF IdentifierInv

LEMMA IdentifierInit == Init => IdentifierInv
  BY DEF Init, IdentifierInv, IdentifiersIncrease, CounterAhead

LEMMA IdentifierInvariant == Spec => [](TypeInv /\ IdentifierInv)
<1>1. Init => TypeInv /\ IdentifierInv
  BY TypeInit, IdentifierInit
<1>2. TypeInv /\ IdentifierInv /\ [Next]_vars => (TypeInv /\ IdentifierInv)'
  BY TypeStep, IdentifierStep
<1> QED BY <1>1, <1>2, PTL DEF Spec

\* No identifier is handed out twice, and later messages have larger ones:
\* fetch_add in SendMessageAsync and IDEVICE_ATOMIC_SET_MAX in ParsingThread work
\* together for any number of callers and any identifiers of the device.
THEOREM IdentifiersNeverReused == Spec => []IdentifiersIncrease
<1>1. IdentifierInv => IdentifiersIncrease
  BY DEF IdentifierInv
<1> QED BY <1>1, IdentifierInvariant, PTL

\* A new message never takes an identifier of a batch that has been routed.
THEOREM NewIdentifiersAreFresh == Spec => NewIdentifiersFollowSeen
<1>1. TypeInv /\ IdentifierInv /\ [Next]_vars
        => [Len(issued') > Len(issued) => issued'[Len(issued')] > seen]_vars
  <2> SUFFICES ASSUME TypeInv, IdentifierInv, [Next]_vars, Len(issued') > Len(issued)
               PROVE  issued'[Len(issued')] > seen
    OBVIOUS
  <2>0. next_msg_identifier_ \in Nat /\ issued \in Seq(Nat) /\ seen \in Nat
    BY DEF TypeInv, TypeOK
  <2>1. HandsOut
    BY <2>0, CounterStep DEF HandsOutNothing, IdentifierInv
  <2> QED BY <2>0, <2>1, IssuedStep DEF IdentifierInv, CounterAhead
<1> QED BY <1>1, IdentifierInvariant, PTL DEF Spec, NewIdentifiersFollowSeen

-----------------------------------------------------------------------------
(* Replies and their callers *)

\* The record r (a call, a handler or a request) carries the identifier that was
\* handed out with its ticket.
Keyed(r) == r.ticket \in DOMAIN issued /\ r.id = issued[r.ticket]

KeyedRequests == {m \in OutgoingType : m.expects => Keyed(m)}

\* What the device sends: replies under the identifier of an answered request,
\* and messages of its own on one of its channel codes.
GenuineReply(m) == m.origin \in DOMAIN issued \cap answered /\ m.id = issued[m.origin]
Genuine ==
  {m \in IncomingType : GenuineReply(m) \/ (m.origin <= 0 /\ m.chan \in UnsolicitedCodes)}

\* Identifiers travel with their tickets through calls, handlers, requests and
\* replies, and a handler is invoked with a message of its key.
CallKeys == \A c \in Threads : pc[c] \in {"push", "insert", "wait"} => Keyed(call[c])
HandlerKeys == \A h \in handlers_by_identifier_ : Keyed(h)
FoundKey ==
  ppc = "invoke" =>
    found \in handlers_by_identifier_ /\ found.chan = Head(batch).chan /\ found.id = Head(batch).id
RequestKeys == send_queue_ \in Seq(KeyedRequests) /\ \A m \in owed : m.expects /\ Keyed(m)
ReplyKeys == incoming \in Seq(Genuine) /\ batch \in Seq(Genuine) /\ stale \in Seq(Genuine)

KeysInv == CallKeys /\ HandlerKeys /\ FoundKey /\ RequestKeys /\ ReplyKeys

RoutingInv == TypeInv /\ IdentifierInv /\ KeysInv

LEMMA SeqMonotone == \A S, T : S \subseteq T => Seq(S) \subseteq Seq(T)
  OBVIOUS

\* What is keyed stays keyed, and what is genuine stays genuine.
LEMMA KeysGrow ==
  ASSUME TypeInv, CounterAhead, [Next]_vars
  PROVE  /\ answered \subseteq answered'
         /\ \A r : Keyed(r) => Keyed(r)'
         /\ KeyedRequests \subseteq KeyedRequests'
         /\ Genuine \subseteq Genuine'
         /\ Seq(KeyedRequests) \subseteq Seq(KeyedRequests')
         /\ Seq(Genuine) \subseteq Seq(Genuine')
<1>1. answered \subseteq answered'
  <2>1. ASSUME NEW c \in Threads, Start(c) \/ Continue(c) \/ WaitExpires(c)
        PROVE  answered' = answered
    <3>1. CASE Start(c)
      BY <3>1 DEF Start, Send, MakeChannel, SetMessageHandler, CancelChannel
    <3>2. CASE Continue(c) \/ WaitExpires(c)
      BY <3>2 DEF Continue, InsertChannel, FetchIdentifier, PushRequest, InsertHandler, GetResponse,
         EraseChannel, WaitExpires, Resume
    <3> QED BY <2>1, <3>1, <3>2
  <2>2. Transmit => answered' = answered
    BY DEF Transmit
  <2>3. DeviceReplies => answered \subseteq answered'
    BY DEF DeviceReplies, DeviceReply
  <2>4. \A code, id, expects : DeviceSend(code, id, expects) => answered' = answered
    BY DEF DeviceSend
  <2>5. Parse => answered' = answered
    BY DEF Parse, TakePacket, LookupHandler, InvokeHandler, EraseHandler, LookupChannel,
       InvokeChannelHandler, CallbackReturns, FetchReplyIdentifier, PushReply, FinishBatch
  <2>6. UNCHANGED vars => answered' = answered
    BY DEF vars
  <2> QED BY <2>1, <2>2, <2>3, <2>4, <2>5, <2>6 DEF Next
<1>2. \A t \in DOMAIN issued : t \in DOMAIN issued' /\ issued'[t] = issued[t]
  <2>1. CASE HandsOut
    <3>1. DOMAIN issued = 1..Len(issued) /\ Len(issued) \in Nat
      BY DEF TypeInv, TypeOK
    <3>2. /\ DOMAIN issued' = 1..(Len(issued) + 1)
          /\ \A t \in DOMAIN issued : issued'[t] = issued[t]
      BY <2>1, IssuedStep
    <3> QED BY <3>1, <3>2
  <2>2. CASE HandsOutNothing
    BY <2>2 DEF HandsOutNothing
  <2> QED BY <2>1, <2>2, CounterStep
<1>3. \A r : Keyed(r) => Keyed(r)'
  BY <1>2 DEF Keyed
<1>4. KeyedRequests \subseteq KeyedRequests'
  BY <1>2 DEF KeyedRequests, Keyed
<1>5. Genuine \subseteq Genuine'
  BY <1>1, <1>2 DEF Genuine, GenuineReply
<1> QED BY <1>1, <1>3, <1>4, <1>5, SeqMonotone

\* The steps of a thread that sends.
LEMMA KeysCaller ==
  ASSUME RoutingInv, NEW c \in Threads, Start(c) \/ Continue(c) \/ WaitExpires(c)
  PROVE  KeysInv'
<1>0. TypeInv /\ CounterAhead /\ [Next]_vars
  BY DEF RoutingInv, IdentifierInv, Next
<1>1. ReplyKeys'
  <2>1. UNCHANGED <<incoming, batch, stale>>
    <3>1. CASE Start(c)
      BY <3>1 DEF Start, Send, MakeChannel, SetMessageHandler, CancelChannel
    <3>2. CASE Continue(c) \/ WaitExpires(c)
      BY <3>2 DEF Continue, InsertChannel, FetchIdentifier, PushRequest, InsertHandler, GetResponse,
         EraseChannel, WaitExpires, Resume
    <3> QED BY <3>1, <3>2
  <2> QED BY <1>0, <2>1, KeysGrow DEF RoutingInv, KeysInv, ReplyKeys
<1>2. HandlerKeys'
  <2>1. CASE InsertHandler(c)
    <3>2. UNCHANGED issued
      BY <2>1 DEF InsertHandler
    <3>3. Keyed(call[c])
      BY <2>1 DEF InsertHandler, RoutingInv, KeysInv, CallKeys
    <3>4. Keyed(Handler(call[c].chan, call[c].id, IsSync(call[c].op), call[c].ticket))
      BY <3>3 DEF Keyed, Handler
    <3> QED BY <2>1, <3>2, <3>4 DEF InsertHandler, RoutingInv, KeysInv, HandlerKeys, Keyed
  <2>2. CASE UNCHANGED handlers_by_identifier_
    BY <1>0, <2>2, KeysGrow DEF RoutingInv, KeysInv, HandlerKeys
  <2>3. InsertHandler(c) \/ UNCHANGED handlers_by_identifier_
    <3>1. CASE Start(c)
      BY <3>1 DEF Start, Send, MakeChannel, SetMessageHandler, CancelChannel
    <3>2. CASE Continue(c) \/ WaitExpires(c)
      BY <3>2 DEF Continue, InsertChannel, FetchIdentifier, PushRequest, GetResponse,
         EraseChannel, WaitExpires, Resume
    <3> QED BY <3>1, <3>2
  <2> QED BY <2>1, <2>2, <2>3
<1>3. RequestKeys'
  <2>1. CASE PushRequest(c)
    <3>1. Keyed(call[c])
      BY <2>1 DEF PushRequest, RoutingInv, KeysInv, CallKeys
    <3>2. call[c] \in CallType
      BY <1>0 DEF TypeInv, TypeOK
    <3>3. Outgoing(call[c]) \in OutgoingType
      BY <3>2 DEF Outgoing, OutgoingType, CallType, HasCallback
    <3>4. Outgoing(call[c]) \in KeyedRequests
      BY <3>1, <3>3 DEF Outgoing, KeyedRequests, Keyed
    <3>5. send_queue_ \in Seq(KeyedRequests) /\ KeyedRequests' = KeyedRequests
      BY <2>1 DEF RoutingInv, KeysInv, RequestKeys, PushRequest, KeyedRequests, Keyed
    <3>6. send_queue_' \in Seq(KeyedRequests')
      BY <2>1, <3>4, <3>5, SeqFacts DEF PushRequest
    <3> QED BY <1>0, <2>1, <3>6, KeysGrow DEF RoutingInv, KeysInv, RequestKeys, PushRequest
  <2>2. CASE UNCHANGED send_queue_ /\ UNCHANGED owed
    BY <1>0, <2>2, KeysGrow DEF RoutingInv, KeysInv, RequestKeys
  <2>3. PushRequest(c) \/ (UNCHANGED send_queue_ /\ UNCHANGED owed)
    <3>1. CASE Start(c)
      BY <3>1 DEF Start, Send, MakeChannel, SetMessageHandler, CancelChannel
    <3>2. CASE Continue(c) \/ WaitExpires(c)
      BY <3>2 DEF Continue, InsertChannel, FetchIdentifier, InsertHandler, GetResponse,
         EraseChannel, WaitExpires, Resume
    <3> QED BY <3>1, <3>2
  <2> QED BY <2>1, <2>2, <2>3
<1>4. CallKeys'
  <2>0. pc \in [Threads -> Labels] /\ call \in [Threads -> CallType]
    BY <1>0 DEF TypeInv, TypeOK
  <2>1. CASE FetchIdentifier(c)
    <3>1. HandsOut
      BY <2>1 DEF FetchIdentifier, HandsOut
    <3>2. Keyed(call[c])'
      BY <1>0, <2>0, <2>1, <3>1, IssuedStep DEF Keyed, Numbered, FetchIdentifier, Begin
    <3>3. \A d \in Threads \ {c} : pc'[d] = pc[d] /\ call'[d] = call[d]
      BY <2>0, <2>1 DEF FetchIdentifier, Begin
    <3>4. \A d \in Threads \ {c} : pc[d] \in {"push", "insert", "wait"} => Keyed(call[d])'
      BY <1>0, <3>3, KeysGrow DEF RoutingInv, KeysInv, CallKeys, Keyed
    <3> QED BY <3>2, <3>3, <3>4 DEF CallKeys
  <2>2. CASE \A d \in Threads :
               pc'[d] \in {"push", "insert", "wait"} =>
                 pc[d] \in {"push", "insert", "wait"} /\ call'[d] = call[d]
    BY <1>0, <2>2, KeysGrow DEF RoutingInv, KeysInv, CallKeys, Keyed
  <2>3. ASSUME ~FetchIdentifier(c)
        PROVE  \A d \in Threads :
                 pc'[d] \in {"push", "insert", "wait"} =>
                   pc[d] \in {"push", "insert", "wait"} /\ call'[d] = call[d]
    <3>1. CASE Start(c)
      BY <2>0, <3>1 DEF Start, Send, MakeChannel, SetMessageHandler, CancelChannel, Begin
    <3>2. CASE InsertChannel(c) \/ EraseChannel(c)
      BY <2>0, <3>2 DEF InsertChannel, EraseChannel, Goto, Return
    <3>3. CASE PushRequest(c) \/ InsertHandler(c)
      BY <2>0, <3>3 DEF PushRequest, InsertHandler, Goto, Return
    <3>4. CASE Resume(c)
      BY <2>0, <3>4 DEF Resume, Goto, Return
    <3> QED BY <2>3, <3>1, <3>2, <3>3, <3>4 DEF Continue, GetResponse, WaitExpires
  <2> QED BY <2>1, <2>2, <2>3
<1>5. FoundKey'
  <2>1. UNCHANGED <<ppc, found, batch>> /\ handlers_by_identifier_ \subseteq handlers_by_identifier_'
    <3>1. CASE Start(c)
      BY <3>1 DEF Start, Send, MakeChannel, SetMessageHandler, CancelChannel
    <3>2. CASE Continue(c) \/ WaitExpires(c)
      BY <3>2 DEF Continue, InsertChannel, FetchIdentifier, PushRequest, InsertHandler, GetResponse,
         EraseChannel, WaitExpires, Resume
    <3> QED BY <3>1, <3>2
  <2> QED BY <2>1 DEF RoutingInv, KeysInv, FoundKey
<1> QED BY <1>1, <1>2, <1>3, <1>4, <1>5 DEF KeysInv

\* The steps of the send thread and of the device.
LEMMA KeysDevice ==
  ASSUME RoutingInv,
         \/ Transmit \/ DeviceReplies
         \/ \E code \in UnsolicitedCodes, id \in DeviceIdentifiers, expects \in BOOLEAN :
              DeviceSend(code, id, expects)
  PROVE  KeysInv'
<1>0. TypeInv /\ CounterAhead /\ [Next]_vars
  BY DEF RoutingInv, IdentifierInv, Next
<1>1. UNCHANGED <<pc, call, handlers_by_identifier_, ppc, found, batch, stale, issued>>
  <2>1. Transmit => UNCHANGED <<pc, call, handlers_by_identifier_, ppc, found, batch, stale, issued>>
    BY DEF Transmit
  <2>2. DeviceReplies => UNCHANGED <<pc, call, handlers_by_identifier_, ppc, found, batch, stale, issued>>
    BY DEF DeviceReplies, DeviceReply
  <2>3. \A code, id, expects : DeviceSend(code, id, expects) =>
          UNCHANGED <<pc, call, handlers_by_identifier_, ppc, found, batch, stale, issued>>
    BY DEF DeviceSend
  <2> QED BY <2>1, <2>2, <2>3
<1>2. CallKeys' /\ HandlerKeys' /\ FoundKey'
  BY <1>1 DEF RoutingInv, KeysInv, CallKeys, HandlerKeys, FoundKey, Keyed
<1>3. batch' \in Seq(Genuine') /\ stale' \in Seq(Genuine')
  BY <1>0, <1>1, KeysGrow DEF RoutingInv, KeysInv, ReplyKeys
<1>4. send_queue_ \in Seq(KeyedRequests) /\ incoming \in Seq(Genuine')
  BY <1>0, KeysGrow DEF RoutingInv, KeysInv, RequestKeys, ReplyKeys
<1>5. KeyedRequests' = KeyedRequests /\ \A m : Keyed(m) => Keyed(m)'
  BY <1>1 DEF KeyedRequests, Keyed
<1>6. CASE Transmit
  <2>1. Head(send_queue_) \in KeyedRequests /\ send_queue_' \in Seq(KeyedRequests)
    BY <1>4, <1>6, SeqFacts DEF Transmit
  <2>2. \A m \in owed' : m.expects /\ Keyed(m)
    BY <1>6, <2>1 DEF Transmit, KeyedRequests, RoutingInv, KeysInv, RequestKeys
  <2>3. RequestKeys'
    BY <1>5, <2>1, <2>2 DEF RequestKeys
  <2>4. ReplyKeys'
    BY <1>3, <1>4, <1>6 DEF Transmit, ReplyKeys
  <2> QED BY <1>2, <2>3, <2>4 DEF KeysInv
<1>7. ASSUME NEW m \in owed, DeviceReply(m) PROVE KeysInv'
  <2>0. m \in OutgoingType /\ Keyed(m)
    BY <1>0 DEF TypeInv, TypeOK, RoutingInv, KeysInv, RequestKeys
  <2>1. Incoming(m.id, m.chan, m.conv + 1, FALSE, m.ticket) \in IncomingType
    BY <2>0 DEF Incoming, IncomingType, OutgoingType
  <2>2. m.ticket \in answered'
    BY <1>7 DEF DeviceReply
  <2>3. Incoming(m.id, m.chan, m.conv + 1, FALSE, m.ticket) \in Genuine'
    BY <1>1, <2>0, <2>1, <2>2 DEF Genuine, GenuineReply, Incoming, Keyed
  <2>4. incoming' \in Seq(Genuine')
    BY <1>4, <1>7, <2>3, SeqFacts DEF DeviceReply
  <2>5. RequestKeys'
    BY <1>5, <1>7 DEF RoutingInv, KeysInv, RequestKeys, DeviceReply
  <2> QED BY <1>2, <1>3, <2>4, <2>5 DEF KeysInv, ReplyKeys
<1>8. ASSUME NEW code \in UnsolicitedCodes, NEW id \in DeviceIdentifiers, NEW expects \in BOOLEAN,
             DeviceSend(code, id, expects)
      PROVE  KeysInv'
  <2>1. unsolicited \in Nat /\ unsolicited' = unsolicited + 1
    BY <1>0, <1>8 DEF DeviceSend, TypeInv, TypeOK
  <2>2. Incoming(id, code, 0, expects, -unsolicited') \in IncomingType
    BY <2>1, ConstantsAssumption DEF Incoming, IncomingType
  <2>3. Incoming(id, code, 0, expects, -unsolicited') \in Genuine'
    BY <2>1, <2>2 DEF Genuine, Incoming
  <2>4. incoming' \in Seq(Genuine')
    BY <1>4, <1>8, <2>3, SeqFacts DEF DeviceSend
  <2>5. RequestKeys'
    BY <1>5, <1>8 DEF RoutingInv, KeysInv, RequestKeys, DeviceSend
  <2> QED BY <1>2, <1>3, <2>4, <2>5 DEF KeysInv, ReplyKeys
<1> QED BY <1>6, <1>7, <1>8 DEF DeviceReplies

\* The parsing thread is done with a message.
LEMMA KeysRouted ==
  ASSUME RoutingInv, batch # <<>>, NextMessage \/ Routed
  PROVE  batch' \in Seq(Genuine) /\ stale' \in Seq(Genuine) /\ ppc' # "invoke"
<1>1. batch \in Seq(Genuine) /\ stale \in Seq(Genuine)
  BY DEF RoutingInv, KeysInv, ReplyKeys
<1>2. Tail(batch) \in Seq(Genuine)
  BY <1>1, SeqFacts
<1> QED BY <1>1, <1>2 DEF NextMessage, Routed

\* The steps of the parsing thread.
LEMMA KeysParse == RoutingInv /\ Parse => KeysInv'
<1> SUFFICES ASSUME RoutingInv, Parse PROVE KeysInv'
  OBVIOUS
<1>0. TypeInv /\ CounterAhead /\ [Next]_vars
  BY DEF RoutingInv, IdentifierInv, Next
<1>1. UNCHANGED <<pc, call, owed>>
  BY DEF Parse, TakePacket, LookupHandler, InvokeHandler, EraseHandler, LookupChannel,
     InvokeChannelHandler, CallbackReturns, FetchReplyIdentifier, PushReply, FinishBatch
<1>2. CallKeys'
  BY <1>0, <1>1, KeysGrow DEF RoutingInv, KeysInv, CallKeys, Keyed
<1>3. HandlerKeys'
  <2>1. handlers_by_identifier_' \subseteq handlers_by_identifier_
    BY DEF Parse, TakePacket, LookupHandler, InvokeHandler, EraseHandler, WithoutFound, LookupChannel,
       InvokeChannelHandler, CallbackReturns, FetchReplyIdentifier, PushReply, FinishBatch
  <2> QED BY <1>0, <2>1, KeysGrow DEF RoutingInv, KeysInv, HandlerKeys
<1>4. RequestKeys'
  <2>1. CASE PushReply
    <3>0. batch # <<>>
      BY <1>0, <2>1 DEF PushReply, TypeInv, BatchOK
    <3>1. Head(batch) \in IncomingType
      BY <1>0, <3>0, SeqFacts DEF TypeInv, TypeOK
    <3>2. found.id \in Nat /\ found.ticket \in Nat
      BY <1>0 DEF TypeInv, TypeOK, HandlerType
    <3>3. Reply(Head(batch), found.id, found.ticket) \in KeyedRequests
      BY <3>1, <3>2 DEF Reply, OutgoingType, IncomingType, KeyedRequests
    <3>4. send_queue_' \in Seq(KeyedRequests)
      BY <2>1, <3>3, SeqFacts DEF PushReply, RoutingInv, KeysInv, RequestKeys
    <3> QED BY <1>0, <1>1, <3>4, KeysGrow DEF RoutingInv, KeysInv, RequestKeys
  <2>2. CASE ~PushReply
    <3>1. UNCHANGED send_queue_
      BY <2>2 DEF Parse, TakePacket, LookupHandler, InvokeHandler, EraseHandler, LookupChannel,
         InvokeChannelHandler, CallbackReturns, FetchReplyIdentifier, FinishBatch
    <3> QED BY <1>0, <1>1, <3>1, KeysGrow DEF RoutingInv, KeysInv, RequestKeys
  <2> QED BY <2>1, <2>2
<1>5. /\ incoming' \in Seq(Genuine) /\ batch' \in Seq(Genuine) /\ stale' \in Seq(Genuine)
      /\ FoundKey'
  <2>0. incoming \in Seq(Genuine) /\ batch \in Seq(Genuine) /\ stale \in Seq(Genuine)
    BY DEF RoutingInv, KeysInv, ReplyKeys
  <2>1. ASSUME NEW n \in 1..Len(incoming), TakePacket(n)
        PROVE  /\ incoming' \in Seq(Genuine) /\ batch' \in Seq(Genuine) /\ stale' \in Seq(Genuine)
               /\ FoundKey'
    <3>1. /\ SubSeq(incoming, 1, n) \in Seq(Genuine)
          /\ SubSeq(incoming, n + 1, Len(incoming)) \in Seq(Genuine) /\ <<>> \in Seq(Genuine)
      BY <2>0
    <3>2. stale \o SubSeq(incoming, 1, n) \in Seq(Genuine)
      BY <2>0, <3>1, ConcatProperties
    <3> QED BY <2>1, <3>1, <3>2 DEF TakePacket, FoundKey
  <2>2. CASE LookupHandler
    BY <2>0, <2>2 DEF LookupHandler, Hits, FoundKey
  <2>3. CASE EraseHandler \/ LookupChannel \/ CallbackReturns \/ PushReply
    <3>1. batch # <<>>
      BY <1>0, <2>3 DEF EraseHandler, LookupChannel, CallbackReturns, PushReply, TypeInv, BatchOK
    <3> QED
      BY <2>0, <2>3, <3>1, KeysRouted DEF EraseHandler, LookupChannel, CallbackReturns, PushReply,
         FoundKey
  <2>4. CASE InvokeHandler \/ InvokeChannelHandler \/ FetchReplyIdentifier \/ FinishBatch
    BY <2>0, <2>4 DEF InvokeHandler, InvokeChannelHandler, FetchReplyIdentifier, FinishBatch, FoundKey
  <2>5. CASE \/ LookupHandler \/ EraseHandler \/ LookupChannel \/ CallbackReturns \/ PushReply
             \/ InvokeHandler \/ InvokeChannelHandler \/ FetchReplyIdentifier \/ FinishBatch
    BY <2>2, <2>3, <2>4, <2>5
  <2> QED BY <2>1, <2>5 DEF Parse
<1>6. ReplyKeys'
  BY <1>0, <1>5, KeysGrow DEF ReplyKeys
<1> QED BY <1>2, <1>3, <1>4, <1>5, <1>6 DEF KeysInv

LEMMA RoutingStep == RoutingInv /\ [Next]_vars => RoutingInv'
<1> SUFFICES ASSUME RoutingInv, [Next]_vars PROVE RoutingInv'
  OBVIOUS
<1>1. TypeInv' /\ IdentifierInv'
  BY TypeStep, IdentifierStep DEF RoutingInv
<1>2. CASE Next
  BY <1>1, <1>2, KeysCaller, KeysDevice, KeysParse DEF Next, RoutingInv
<1>3. CASE UNCHANGED vars
  <2>1. KeysInv'
    BY <1>3 DEF vars, RoutingInv, KeysInv, CallKeys, HandlerKeys, FoundKey, RequestKeys, ReplyKeys,
       Keyed, KeyedRequests, Genuine, GenuineReply
  <2> QED BY <1>1, <2>1 DEF RoutingInv
<1> QED BY <1>2, <1>3

LEMMA RoutingInit == Init => RoutingInv
<1> SUFFICES ASSUME Init PROVE RoutingInv
  OBVIOUS
<1>1. KeysInv
  BY DEF Init, KeysInv, CallKeys, HandlerKeys, FoundKey, RequestKeys, ReplyKeys
<1> QED BY <1>1, TypeInit, IdentifierInit DEF RoutingInv

LEMMA RoutingInvariant == Spec => []RoutingInv
  BY RoutingInit, RoutingStep, PTL DEF Spec

\* Messages that carry the same identifier carry the same ticket.
LEMMA SameTicket ==
  ASSUME TypeInv, IdentifiersIncrease, NEW s \in DOMAIN issued, NEW t \in DOMAIN issued,
         issued[s] = issued[t]
  PROVE  s = t
<1>1. issued \in Seq(Nat)
  BY DEF TypeInv, TypeOK
<1>2. s \in Nat /\ t \in Nat /\ issued[s] \in Nat /\ issued[t] \in Nat
  BY <1>1
<1> QED BY <1>2 DEF IdentifiersIncrease

\* What is invoked was found under the identifier that was handed out with its
\* ticket.
LEMMA FoundTicket ==
  ASSUME RoutingInv, ppc = "invoke"
  PROVE  /\ Head(batch) \in Genuine /\ Head(batch).chan = found.chan /\ found \in HandlerType
         /\ Head(batch).origin > 0 => found.ticket = Head(batch).origin /\ found.ticket \in answered
<1>1. batch # <<>> /\ batch \in Seq(Genuine)
  BY DEF RoutingInv, TypeInv, BatchOK, KeysInv, ReplyKeys
<1>2. Head(batch) \in Genuine
  BY <1>1, SeqFacts
<1>3. Keyed(found) /\ found.chan = Head(batch).chan /\ found.id = Head(batch).id
  BY DEF RoutingInv, KeysInv, FoundKey, HandlerKeys
<1>4. ASSUME Head(batch).origin > 0
      PROVE  found.ticket = Head(batch).origin /\ found.ticket \in answered
  <2>1. Head(batch).origin \in Int
    BY <1>2 DEF Genuine, IncomingType
  <2>2. GenuineReply(Head(batch))
    BY <1>2, <1>4, <2>1 DEF Genuine
  <2> QED BY <1>3, <2>2, SameTicket DEF GenuineReply, Keyed, RoutingInv, IdentifierInv
<1>5. found \in HandlerType
  BY DEF RoutingInv, TypeInv, TypeOK
<1> QED BY <1>2, <1>3, <1>4, <1>5

\* A reply of the device that reaches a handler reaches the one of its request,
\* for any callers and callbacks, any messages the device sends by itself, racing
\* maps and calls that give up: identifiers are never reused, so that the key of
\* a handler that is left behind is not taken again.
THEOREM RepliesAreRouted == Spec => []RepliesReachTheirCaller
<1>1. RoutingInv => RepliesReachTheirCaller
  BY FoundTicket DEF RepliesReachTheirCaller
<1> QED BY <1>1, RoutingInvariant, PTL

\* The device uses negative codes for the messages it sends by itself.
NegativeCodesOnly == \A code \in UnsolicitedCodes : code < 0

LEMMA OwnReply ==
  ASSUME RoutingInv, NegativeCodesOnly, ppc = "invoke"
  PROVE  found.ticket = Head(batch).origin /\ found.ticket \in answered
<1>1. Head(batch).origin \in Int /\ found.chan \in Nat
  BY FoundTicket DEF Genuine, IncomingType, HandlerType
<1>2. CASE Head(batch).origin > 0
  BY <1>2, FoundTicket
<1>3. CASE Head(batch).origin <= 0
  <2>1. GenuineReply(Head(batch)) \/ Head(batch).chan \in UnsolicitedCodes
    BY FoundTicket DEF Genuine
  <2>2. Head(batch).chan \notin UnsolicitedCodes
    BY <1>1, FoundTicket, ConstantsAssumption DEF NegativeCodesOnly
  <2>3. issued \in Seq(Nat)
    BY DEF RoutingInv, TypeInv, TypeOK
  <2>4. Head(batch).origin \notin DOMAIN issued
    BY <1>1, <1>3, <2>3
  <2> QED BY <2>1, <2>2, <2>4 DEF GenuineReply
<1> QED BY <1>1, <1>2, <1>3

\* As long as the device keeps to negative codes, a handler is invoked with the
\* response to its own message only.
THEOREM HandlersGetTheirReplies == NegativeCodesOnly => (Spec => []OwnReplyOnly)
<1> SUFFICES ASSUME NegativeCodesOnly PROVE Spec => []OwnReplyOnly
  OBVIOUS
<1>1. RoutingInv => OwnReplyOnly
  BY OwnReply DEF OwnReplyOnly
<1> QED BY <1>1, RoutingInvariant, PTL

-----------------------------------------------------------------------------
(* The abstract connection *)

Waiting == {call[c].ticket : c \in {d \in Threads : pc[d] = "wait"}}

\* What a step of a thread that sends is for DTXCalls.
LEMMA CallerRefines ==
  ASSUME RoutingInv, NEW c \in Threads, Start(c) \/ Continue(c) \/ WaitExpires(c)
  PROVE  [Calls!Next]_Calls!vars
<1> USE DEF Calls!Next, Calls!vars
<1>0. /\ pc \in [Threads -> Labels] /\ call \in [Threads -> CallType]
      /\ issued \in Seq(Nat) /\ next_msg_identifier_ \in Nat
  BY DEF RoutingInv, TypeInv, TypeOK
<1>1. UNCHANGED <<answered, invoked>>
  <2>1. CASE Start(c)
    BY <2>1 DEF Start, Send, MakeChannel, SetMessageHandler, CancelChannel
  <2>2. CASE Continue(c) \/ WaitExpires(c)
    BY <2>2 DEF Continue, InsertChannel, FetchIdentifier, PushRequest, InsertHandler, GetResponse,
       EraseChannel, WaitExpires, Resume
  <2> QED BY <2>1, <2>2
<1>2. CASE FetchIdentifier(c)
  <2>1. Waiting' = Waiting
    BY <1>0, <1>2 DEF FetchIdentifier, Begin, Waiting
  <2>2. DOMAIN issued = 1..Len(issued) /\ DOMAIN issued' = 1..(Len(issued) + 1)
    BY <1>0, <1>2 DEF FetchIdentifier
  <2>3. DOMAIN issued' = DOMAIN issued \cup {Len(issued) + 1}
        /\ Len(issued) + 1 \in DOMAIN issued' \ DOMAIN issued
    BY <1>0, <2>2
  <2> QED BY <1>1, <2>1, <2>3 DEF Calls!Send, Waiting
<1>3. CASE InsertHandler(c)
  <2>1. issued' = issued
    BY <1>3 DEF InsertHandler
  <2>2. call[c].ticket \in DOMAIN issued
    BY <1>3 DEF InsertHandler, RoutingInv, KeysInv, CallKeys, Keyed
  <2>3. CASE IsSync(call[c].op)
    <3>1. pc' = [pc EXCEPT ![c] = "wait"] /\ call' = call
      BY <1>3, <2>3 DEF InsertHandler, Goto
    <3>2. Waiting' = Waiting \cup {call[c].ticket}
      BY <1>0, <3>1 DEF Waiting
    <3>3. Waiting' = Waiting \/ call[c].ticket \in DOMAIN issued \ Waiting
      BY <2>2, <3>2
    <3> QED BY <1>1, <2>1, <3>2, <3>3 DEF Calls!Wait, Waiting
  <2>4. CASE ~IsSync(call[c].op)
    <3>0. pc[c] = "insert" /\ Return(c)
      BY <1>3, <2>4 DEF InsertHandler
    <3>2. \A d \in Threads : (pc'[d] = "wait" <=> pc[d] = "wait")
                            /\ (pc[d] = "wait" => call'[d] = call[d])
      BY <1>0, <3>0 DEF Return
    <3>1. Waiting' = Waiting
      BY <3>2 DEF Waiting
    <3> QED BY <1>1, <2>1, <3>1 DEF Waiting
  <2> QED BY <2>3, <2>4
<1>4. CASE GetResponse(c) \/ WaitExpires(c)
  <2>1. issued' = issued /\ pc[c] = "wait"
    BY <1>4 DEF GetResponse, WaitExpires, Resume
  <2>2. call[c].ticket \in invoked \/ LongWait
    BY <1>4 DEF GetResponse, WaitExpires, TimedWait
  <2>3. /\ pc'[c] # "wait"
        /\ \A d \in Threads \ {c} : pc'[d] = pc[d] /\ call'[d] = call[d]
    BY <1>0, <1>4 DEF GetResponse, WaitExpires, Resume, Goto, Return
  <2>4. call[c].ticket \in Waiting
    BY <2>1 DEF Waiting
  <2>5. Waiting' = {call[d].ticket : d \in {e \in Threads \ {c} : pc[e] = "wait"}}
    BY <2>3 DEF Waiting
  <2>6. Waiting' = Waiting \/ Waiting' = Waiting \ {call[c].ticket}
    BY <2>5 DEF Waiting
  <2> QED BY <1>1, <2>1, <2>2, <2>4, <2>6 DEF Calls!Return, Waiting
<1>5. CASE Start(c) \/ InsertChannel(c) \/ PushRequest(c) \/ EraseChannel(c)
  <2>1. issued' = issued
    BY <1>5 DEF Start, Send, MakeChannel, SetMessageHandler, CancelChannel, InsertChannel,
       PushRequest, EraseChannel
  <2>2. \A d \in Threads : (pc'[d] = "wait" <=> pc[d] = "wait")
                          /\ (pc[d] = "wait" => call'[d] = call[d])
    <3>1. CASE Start(c)
      BY <1>0, <3>1 DEF Start, Send, MakeChannel, SetMessageHandler, CancelChannel, MayBegin,
         InProgram, Begin
    <3>2. CASE InsertChannel(c) \/ PushRequest(c) \/ EraseChannel(c)
      BY <1>0, <3>2 DEF InsertChannel, PushRequest, EraseChannel, Goto, Return
    <3> QED BY <1>5, <3>1, <3>2
  <2>3. Waiting' = Waiting
    BY <2>2 DEF Waiting
  <2> QED BY <1>1, <2>1, <2>3 DEF Waiting
<1> QED BY <1>2, <1>3, <1>4, <1>5 DEF Continue

\* What the other steps are for DTXCalls.
LEMMA OthersRefine ==
  ASSUME RoutingInv, NegativeCodesOnly,
         \/ Transmit \/ DeviceReplies \/ Parse \/ UNCHANGED vars
         \/ \E code \in UnsolicitedCodes, id \in DeviceIdentifiers, expects \in BOOLEAN :
              DeviceSend(code, id, expects)
  PROVE  [Calls!Next]_Calls!vars
<1> USE DEF Calls!Next, Calls!vars
<1>1. ASSUME NEW m \in owed, DeviceReply(m) PROVE [Calls!Next]_Calls!vars
  <2>1. m.ticket \in DOMAIN issued
    BY DEF RoutingInv, KeysInv, RequestKeys, Keyed
  <2> QED BY <1>1, <2>1 DEF DeviceReply, Calls!Answer
<1>2. CASE InvokeHandler
  <2>1. found.ticket \in answered
    BY <1>2, OwnReply DEF InvokeHandler
  <2> QED BY <1>2, <2>1 DEF InvokeHandler, Calls!Invoke
<1>3. CASE FetchReplyIdentifier
  <2>0. issued \in Seq(Nat) /\ next_msg_identifier_ \in Nat
    BY DEF RoutingInv, TypeInv, TypeOK
  <2>1. DOMAIN issued = 1..Len(issued) /\ DOMAIN issued' = 1..(Len(issued) + 1)
    BY <1>3, <2>0 DEF FetchReplyIdentifier
  <2>2. DOMAIN issued' = DOMAIN issued \cup {Len(issued) + 1}
        /\ Len(issued) + 1 \in DOMAIN issued' \ DOMAIN issued
    BY <2>0, <2>1
  <2> QED BY <1>3, <2>2 DEF FetchReplyIdentifier, Calls!Send
<1>4. ASSUME UNCHANGED <<issued, answered, invoked, pc, call>> PROVE [Calls!Next]_Calls!vars
  BY <1>4
<1>5. CASE Parse /\ ~InvokeHandler /\ ~FetchReplyIdentifier
  BY <1>4, <1>5 DEF Parse, TakePacket, LookupHandler, EraseHandler, LookupChannel,
     InvokeChannelHandler, CallbackReturns, PushReply, FinishBatch
<1>6. CASE Transmit
  BY <1>4, <1>6 DEF Transmit
<1>7. CASE \E code \in UnsolicitedCodes, id \in DeviceIdentifiers, expects \in BOOLEAN :
             DeviceSend(code, id, expects)
  BY <1>4, <1>7 DEF DeviceSend
<1>8. CASE UNCHANGED vars
  BY <1>4, <1>8 DEF vars
<1> QED BY <1>1, <1>2, <1>3, <1>5, <1>6, <1>7, <1>8 DEF DeviceReplies

\* The connection keeps the promises of DTXCalls, for any threads, callbacks and
\* bounds, as long as the device keeps to negative codes for its own messages: a
\* callback runs only for an answered message, and a call returns only after its
\* callback or when its wait runs out.
THEOREM ConnectionImplementsCalls == NegativeCodesOnly => (Spec => ImplementsCalls)
<1> SUFFICES ASSUME NegativeCodesOnly PROVE Spec => ImplementsCalls
  OBVIOUS
<1>1. Init => Calls!Init
  BY DEF Init, Calls!Init
<1>2. RoutingInv /\ [Next]_vars => [Calls!Next]_Calls!vars
  BY CallerRefines, OthersRefine DEF Next
<1> QED BY <1>1, <1>2, RoutingInvariant, PTL DEF Spec, ImplementsCalls, Calls!Spec

-----------------------------------------------------------------------------
\* A ticket belongs to one call, and to one handler once the call has inserted it; until
\* then it has not been invoked.
Sent == {"push", "insert", "wait"}
OneTicketEach ==
  /\ \A c, d \in Threads :
       c # d /\ pc[c] \in Sent /\ pc[d] \in Sent => call[c].ticket # call[d].ticket
  /\ \A g, h \in handlers_by_identifier_ : g.ticket = h.ticket => g = h
  /\ \A c \in Threads : pc[c] \in {"push", "insert"} =>
       /\ call[c].ticket \notin invoked
       /\ \A h \in handlers_by_identifier_ : h.ticket # call[c].ticket

\* The entry RouteMessage has found stays in the map until it erases it, and is the only
\* one that may have been invoked already.
FoundStays == ppc \in {"invoke", "callback", "erase"} => found \in handlers_by_identifier_
InvokedIsErased ==
  /\ invoked \subseteq DOMAIN issued
  /\ \A h \in handlers_by_identifier_ :
       h.ticket \in invoked => ppc \in {"callback", "erase"} /\ h = found

OnceInv == RoutingInv /\ OneTicketEach /\ FoundStays /\ InvokedIsErased

LEMMA OnceInit == Init => OnceInv
<1> SUFFICES ASSUME Init PROVE OnceInv
  OBVIOUS
<1>1. OneTicketEach /\ FoundStays /\ InvokedIsErased
  BY DEF Init, OneTicketEach, FoundStays, InvokedIsErased, Sent
<1> QED BY <1>1, RoutingInit DEF OnceInv

\* What a step of a thread that sends leaves alone, unless it fetches, or inserts.
LEMMA CallerFrame ==
  ASSUME TypeInv, NEW c \in Threads, Start(c) \/ Continue(c) \/ WaitExpires(c)
  PROVE  /\ UNCHANGED <<ppc, found, batch, stale, incoming, owed, invoked, answered>>
         /\ \A d \in Threads \ {c} : pc'[d] = pc[d] /\ call'[d] = call[d]
         /\ ~FetchIdentifier(c) => UNCHANGED issued
         /\ ~InsertHandler(c) => UNCHANGED handlers_by_identifier_
         /\ ~PushRequest(c) => UNCHANGED send_queue_
         /\ ~FetchIdentifier(c) /\ pc'[c] \in Sent => pc[c] \in Sent /\ call'[c] = call[c]
         /\ ~FetchIdentifier(c) => pc'[c] # "push"
         /\ pc'[c] = "insert" => PushRequest(c)
         /\ pc'[c] = "wait" => InsertHandler(c)
         /\ pc[c] = "insert" => InsertHandler(c)
<1>0. pc \in [Threads -> Labels] /\ call \in [Threads -> CallType]
  BY DEF TypeInv, TypeOK
<1>1. CASE Start(c)
  BY <1>0, <1>1 DEF Start, Send, MakeChannel, SetMessageHandler, CancelChannel, MayBegin,
     InProgram, Begin, Sent, FetchIdentifier, InsertHandler, PushRequest
<1>2. CASE FetchIdentifier(c)
  BY <1>0, <1>2 DEF FetchIdentifier, Begin, InsertHandler, PushRequest
<1>3. CASE PushRequest(c)
  BY <1>0, <1>3 DEF PushRequest, Goto, Return, FetchIdentifier, InsertHandler, Sent
<1>4. CASE InsertHandler(c)
  BY <1>0, <1>4 DEF InsertHandler, Goto, Return, FetchIdentifier, PushRequest, Sent
<1>5. CASE InsertChannel(c) \/ EraseChannel(c)
  BY <1>0, <1>5 DEF InsertChannel, EraseChannel, Goto, Return, FetchIdentifier, InsertHandler,
     PushRequest, Sent
<1>6. CASE GetResponse(c) \/ WaitExpires(c)
  BY <1>0, <1>6 DEF GetResponse, WaitExpires, Resume, Goto, Return, FetchIdentifier,
     InsertHandler, PushRequest, Sent
<1> QED BY <1>1, <1>2, <1>3, <1>4, <1>5, <1>6 DEF Continue

\* A ticket that has been handed out is not the next one.
LEMMA FreshTicket ==
  ASSUME TypeInv, NEW t \in DOMAIN issued
  PROVE  t # Len(issued) + 1
<1>1. issued \in Seq(Nat)
  BY DEF TypeInv, TypeOK
<1> QED BY <1>1

LEMMA OnceCaller ==
  ASSUME OnceInv, NEW c \in Threads, Start(c) \/ Continue(c) \/ WaitExpires(c)
  PROVE  OneTicketEach' /\ FoundStays' /\ InvokedIsErased'
<1>0. /\ TypeInv /\ pc \in [Threads -> Labels] /\ call \in [Threads -> CallType]
      /\ CounterAhead /\ [Next]_vars
  BY DEF OnceInv, RoutingInv, IdentifierInv, TypeInv, TypeOK, Next
<1>f. /\ UNCHANGED <<ppc, found, invoked>>
      /\ \A d \in Threads \ {c} : pc'[d] = pc[d] /\ call'[d] = call[d]
  BY <1>0, CallerFrame
<1>k. \A d \in Threads : pc[d] \in Sent => call[d].ticket \in DOMAIN issued
  BY DEF OnceInv, RoutingInv, KeysInv, CallKeys, Keyed, Sent
<1>1. CASE FetchIdentifier(c)
  <2>1. call'[c].ticket = Len(issued) + 1 /\ pc'[c] = "push"
    BY <1>0, <1>1 DEF FetchIdentifier, Begin, Numbered
  <2>2. UNCHANGED handlers_by_identifier_
    BY <1>1 DEF FetchIdentifier
  <2>3. /\ \A d \in Threads \ {c} : pc'[d] \in Sent => call'[d].ticket # call'[c].ticket
        /\ \A h \in handlers_by_identifier_ : h.ticket # call'[c].ticket
        /\ call'[c].ticket \notin invoked
    BY <1>0, <1>f, <1>k, <2>1, FreshTicket
    DEF OnceInv, RoutingInv, KeysInv, HandlerKeys, Keyed, InvokedIsErased
  <2>4. OneTicketEach'
    BY <1>f, <2>1, <2>2, <2>3 DEF OnceInv, OneTicketEach
  <2>5. DOMAIN issued \subseteq DOMAIN issued'
    <3>1. HandsOut /\ issued \in Seq(Nat)
      BY <1>0, <1>1 DEF FetchIdentifier, HandsOut, TypeInv, TypeOK
    <3> QED BY <1>0, <3>1, IssuedStep
  <2> QED BY <1>f, <2>2, <2>4, <2>5 DEF OnceInv, FoundStays, InvokedIsErased
<1>2. CASE InsertHandler(c)
  <2> DEFINE new == Handler(call[c].chan, call[c].id, IsSync(call[c].op), call[c].ticket)
  <2>1. /\ handlers_by_identifier_ \subseteq handlers_by_identifier_'
        /\ handlers_by_identifier_' \subseteq handlers_by_identifier_ \cup {new}
        /\ UNCHANGED issued /\ pc[c] = "insert"
    BY <1>2 DEF InsertHandler
  <2>2. new.ticket = call[c].ticket
    BY DEF Handler
  <2> HIDE DEF new
  <2>3. /\ \A h \in handlers_by_identifier_ : h.ticket # new.ticket
        /\ new.ticket \notin invoked
        /\ \A d \in Threads \ {c} : pc[d] \in {"push", "insert"} => call[d].ticket # new.ticket
    BY <2>1, <2>2 DEF OnceInv, OneTicketEach, Sent
  <2>4. pc'[c] \in {"wait", "idle"} /\ (pc'[c] = "wait" => call'[c] = call[c])
    BY <1>0, <1>2 DEF InsertHandler, Goto, Return
  <2>5. OneTicketEach'
    <3>1. \A d, e \in Threads :
            d # e /\ pc'[d] \in Sent /\ pc'[e] \in Sent => call'[d].ticket # call'[e].ticket
      BY <1>f, <2>1, <2>4 DEF OnceInv, OneTicketEach, Sent
    <3>2. \A g, h \in handlers_by_identifier_' : g.ticket = h.ticket => g = h
      BY <2>1, <2>3 DEF OnceInv, OneTicketEach
    <3>3. \A d \in Threads : pc'[d] \in {"push", "insert"} =>
            /\ call'[d].ticket \notin invoked'
            /\ \A h \in handlers_by_identifier_' : h.ticket # call'[d].ticket
      BY <1>f, <2>1, <2>3, <2>4 DEF OnceInv, OneTicketEach
    <3> QED BY <3>1, <3>2, <3>3 DEF OneTicketEach
  <2> QED BY <1>f, <2>1, <2>3, <2>5 DEF OnceInv, FoundStays, InvokedIsErased
<1>3. CASE ~FetchIdentifier(c) /\ ~InsertHandler(c)
  <2>1. /\ UNCHANGED <<issued, handlers_by_identifier_>>
        /\ \A d \in Threads : pc'[d] \in Sent => pc[d] \in Sent /\ call'[d] = call[d]
        /\ \A d \in Threads : pc'[d] \in {"push", "insert"} => pc[d] \in {"push", "insert"}
    BY <1>0, <1>3, CallerFrame DEF PushRequest
  <2>2. OneTicketEach'
    BY <1>f, <2>1 DEF OnceInv, OneTicketEach, Sent
  <2> QED BY <1>f, <2>1, <2>2 DEF OnceInv, FoundStays, InvokedIsErased
<1> QED BY <1>1, <1>2, <1>3

LEMMA OnceDevice ==
  ASSUME OnceInv,
         \/ Transmit \/ DeviceReplies \/ UNCHANGED vars
         \/ \E code \in UnsolicitedCodes, id \in DeviceIdentifiers, expects \in BOOLEAN :
              DeviceSend(code, id, expects)
  PROVE  OneTicketEach' /\ FoundStays' /\ InvokedIsErased'
<1>1. UNCHANGED <<pc, call, handlers_by_identifier_, ppc, found, invoked, issued>>
  BY DEF Transmit, DeviceReplies, DeviceReply, DeviceSend, vars
<1> QED BY <1>1 DEF OnceInv, OneTicketEach, FoundStays, InvokedIsErased

\* Where RouteMessage goes when it is done with a message.
LEMMA RoutedLabels == NextMessage \/ Routed => ppc' \in {"route", "reply"}
  BY DEF NextMessage, Routed

LEMMA OnceParse ==
  ASSUME OnceInv, ~MapsRace, Parse
  PROVE  OneTicketEach' /\ FoundStays' /\ InvokedIsErased'
<1>0. UNCHANGED <<pc, call>>
  BY DEF Parse, TakePacket, LookupHandler, InvokeHandler, EraseHandler, LookupChannel,
     InvokeChannelHandler, CallbackReturns, FetchReplyIdentifier, PushReply, FinishBatch
<1>i. TypeInv /\ OneTicketEach /\ FoundStays /\ InvokedIsErased
  BY DEF OnceInv, RoutingInv
<1>1. CASE LookupHandler
  <2>1. ppc = "route" /\ UNCHANGED <<handlers_by_identifier_, invoked, issued>>
    BY <1>1 DEF LookupHandler
  <2>2. ppc' = "channel" \/ (ppc' = "invoke" /\ found' \in handlers_by_identifier_)
    BY <1>1 DEF LookupHandler, Hits
  <2> QED BY <1>0, <1>i, <2>1, <2>2 DEF OneTicketEach, FoundStays, InvokedIsErased
<1>2. CASE InvokeHandler
  <2>1. /\ ppc = "invoke" /\ ppc' \in {"erase", "callback"}
        /\ UNCHANGED <<handlers_by_identifier_, found, issued>>
        /\ invoked' = invoked \cup {found.ticket} /\ found \in handlers_by_identifier_
    BY <1>2, <1>i DEF InvokeHandler, FoundStays
  <2>2. found.ticket \in DOMAIN issued
    BY <2>1 DEF OnceInv, RoutingInv, KeysInv, HandlerKeys, Keyed
  <2>3. OneTicketEach'
    BY <1>0, <1>i, <2>1 DEF OneTicketEach
  <2>4. \A h \in handlers_by_identifier_ : h.ticket \in invoked' => h = found
    BY <1>i, <2>1 DEF InvokedIsErased, OneTicketEach
  <2> QED BY <1>i, <2>1, <2>2, <2>3, <2>4 DEF FoundStays, InvokedIsErased
<1>3. CASE EraseHandler
  <2>1. /\ ppc = "erase" /\ handlers_by_identifier_' = handlers_by_identifier_ \ {found}
        /\ UNCHANGED <<invoked, issued>> /\ ppc' \in {"route", "reply"}
    BY <1>3, RoutedLabels DEF EraseHandler, WithoutFound
  <2> QED BY <1>0, <1>i, <2>1 DEF OneTicketEach, FoundStays, InvokedIsErased
<1>4. CASE CallbackReturns
  <2>1. UNCHANGED <<handlers_by_identifier_, invoked, issued>>
    BY <1>4 DEF CallbackReturns
  <2>2. \/ ppc = "callback" /\ ppc' = "erase" /\ UNCHANGED found
        \/ ppc = "handler" /\ ppc' \in {"route", "reply"}
    BY <1>4, RoutedLabels DEF CallbackReturns
  <2> QED BY <1>0, <1>i, <2>1, <2>2 DEF OneTicketEach, FoundStays, InvokedIsErased
<1>5. CASE \/ \E n \in 1..Len(incoming) : TakePacket(n)
           \/ LookupChannel \/ InvokeChannelHandler \/ PushReply \/ FinishBatch
           \/ FetchReplyIdentifier
  <2>1. /\ UNCHANGED <<handlers_by_identifier_, invoked>>
        /\ ppc \notin {"invoke", "callback", "erase"}
             /\ ppc' \notin {"invoke", "callback", "erase"}
    BY <1>5, RoutedLabels DEF TakePacket, LookupChannel, InvokeChannelHandler, PushReply,
       FinishBatch, FetchReplyIdentifier
  <2>2. DOMAIN issued \subseteq DOMAIN issued'
    <3>1. CASE FetchReplyIdentifier
      <4>1. HandsOut /\ issued \in Seq(Nat)
        BY <1>i, <3>1 DEF FetchReplyIdentifier, HandsOut, TypeInv, TypeOK
      <4> QED BY <1>i, <4>1, IssuedStep
    <3>2. CASE ~FetchReplyIdentifier
      BY <1>5, <3>2 DEF TakePacket, LookupChannel, InvokeChannelHandler, PushReply, FinishBatch
    <3> QED BY <3>1, <3>2
  <2> QED BY <1>0, <1>i, <2>1, <2>2 DEF OneTicketEach, FoundStays, InvokedIsErased
<1> QED BY <1>1, <1>2, <1>3, <1>4, <1>5 DEF Parse

LEMMA OnceStep == ~MapsRace /\ OnceInv /\ [Next]_vars => OnceInv'
<1> SUFFICES ASSUME ~MapsRace, OnceInv, [Next]_vars PROVE OnceInv'
  OBVIOUS
<1>1. RoutingInv'
  BY RoutingStep DEF OnceInv
<1>2. OneTicketEach' /\ FoundStays' /\ InvokedIsErased'
  BY OnceCaller, OnceDevice, OnceParse DEF Next
<1> QED BY <1>1, <1>2 DEF OnceInv

\* RouteMessage invokes no handler twice, whatever messages the parser returns again and
\* whatever callers and callbacks insert in between, while accesses to the map do not go
\* wrong (dtxconnection.cpp:296-304).
THEOREM HandlersRunOnce == ~MapsRace => (Spec => []HandlerRunsOnce)
<1> SUFFICES ASSUME ~MapsRace PROVE Spec => []HandlerRunsOnce
  OBVIOUS
<1>1. OnceInv => HandlerRunsOnce
  BY DEF OnceInv, FoundStays, InvokedIsErased, HandlerRunsOnce
<1> QED BY <1>1, OnceInit, OnceStep, PTL DEF Spec

-----------------------------------------------------------------------------
(* The promises of synchronous calls *)

\* A handler that captured a promise, and has not been invoked, belongs to a call that
\* waits.
PromiseKept ==
  \A h \in handlers_by_identifier_ : h.sync /\ h.ticket \notin invoked =>
    \E c \in Threads : pc[c] = "wait" /\ call[c].ticket = h.ticket

PromiseInv == OnceInv /\ PromiseKept

\* A call stops waiting when its handler has been invoked.
LEMMA WaitEnds ==
  ASSUME TypeInv, ~LongWait, NEW c \in Threads, Start(c) \/ Continue(c) \/ WaitExpires(c)
  PROVE  \A d \in Threads : pc[d] = "wait" =>
           \/ pc'[d] = "wait" /\ call'[d] = call[d]
           \/ call[d].ticket \in invoked
<1>0. pc \in [Threads -> Labels] /\ call \in [Threads -> CallType]
  BY DEF TypeInv, TypeOK
<1>1. \A d \in Threads \ {c} : pc'[d] = pc[d] /\ call'[d] = call[d]
  BY CallerFrame
<1>2. CASE pc[c] # "wait"
  BY <1>1, <1>2
<1>3. CASE pc[c] = "wait"
  <2>1. CASE Start(c)
    BY <1>0, <1>1, <1>3, <2>1 DEF Start, Send, MakeChannel, SetMessageHandler, CancelChannel,
       MayBegin, InProgram
  <2>2. CASE Continue(c)
    BY <1>1, <1>3, <2>2 DEF Continue, InsertChannel, FetchIdentifier, PushRequest, InsertHandler,
       GetResponse, EraseChannel
  <2>3. ~WaitExpires(c)
    BY DEF WaitExpires, TimedWait
  <2> QED BY <2>1, <2>2, <2>3
<1> QED BY <1>2, <1>3

LEMMA PromiseStep == ~MapsRace /\ ~LongWait /\ PromiseInv /\ [Next]_vars => PromiseInv'
<1> SUFFICES ASSUME ~MapsRace, ~LongWait, PromiseInv, [Next]_vars PROVE PromiseKept'
  BY OnceStep DEF PromiseInv
<1>0. TypeInv /\ pc \in [Threads -> Labels] /\ call \in [Threads -> CallType]
  BY DEF PromiseInv, OnceInv, RoutingInv, TypeInv, TypeOK
<1>1. ASSUME NEW c \in Threads, Start(c) \/ Continue(c) \/ WaitExpires(c) PROVE PromiseKept'
  <2>1. UNCHANGED invoked
    BY <1>0, <1>1, CallerFrame
  <2>2. \A h \in handlers_by_identifier_ : h.sync /\ h.ticket \notin invoked =>
          \E d \in Threads : pc'[d] = "wait" /\ call'[d].ticket = h.ticket
    BY <1>0, <1>1, WaitEnds DEF PromiseInv, PromiseKept
  <2>3. CASE InsertHandler(c)
    <3> DEFINE new == Handler(call[c].chan, call[c].id, IsSync(call[c].op), call[c].ticket)
    <3>1. handlers_by_identifier_' \subseteq handlers_by_identifier_ \cup {new}
      BY <2>3 DEF InsertHandler
    <3>2. new.sync => pc'[c] = "wait" /\ call'[c] = call[c]
      BY <1>0, <2>3 DEF InsertHandler, Handler, Goto
    <3>3. new.ticket = call[c].ticket
      BY DEF Handler
    <3> HIDE DEF new
    <3> QED BY <2>1, <2>2, <3>1, <3>2, <3>3 DEF PromiseKept
  <2>4. CASE ~InsertHandler(c)
    <3>1. UNCHANGED handlers_by_identifier_
      BY <1>0, <1>1, <2>4, CallerFrame
    <3> QED BY <2>1, <2>2, <3>1 DEF PromiseKept
  <2> QED BY <2>3, <2>4
<1>2. CASE UNCHANGED <<pc, call>> /\ handlers_by_identifier_' \subseteq handlers_by_identifier_
           /\ invoked \subseteq invoked'
  BY <1>2 DEF PromiseInv, PromiseKept
<1>3. CASE Parse
  BY <1>2, <1>3 DEF Parse, TakePacket, LookupHandler, InvokeHandler, EraseHandler, WithoutFound,
     LookupChannel, InvokeChannelHandler, CallbackReturns, FetchReplyIdentifier, PushReply,
     FinishBatch
<1>4. CASE \/ Transmit \/ DeviceReplies \/ UNCHANGED vars
           \/ \E code \in UnsolicitedCodes, id \in DeviceIdentifiers, expects \in BOOLEAN :
                DeviceSend(code, id, expects)
  BY <1>2, <1>4 DEF Transmit, DeviceReplies, DeviceReply, DeviceSend, vars
<1> QED BY <1>1, <1>3, <1>4 DEF Next

LEMMA PromiseInit == Init => PromiseInv
  BY OnceInit DEF Init, PromiseInv, PromiseKept

\* When the handler of a synchronous call runs, the frame whose promise it captured by
\* reference is still there (dtxconnection.cpp:145), while accesses to the map do not go
\* wrong and no wait runs out.
THEOREM PromisesOutliveTheirHandlers == ~MapsRace /\ ~LongWait => (Spec => []PromiseAlive)
<1> SUFFICES ASSUME ~MapsRace, ~LongWait PROVE Spec => []PromiseAlive
  OBVIOUS
<1>1. PromiseInv => PromiseAlive
  BY DEF PromiseInv, PromiseKept, OnceInv, FoundStays, InvokedIsErased, PromiseAlive
<1> QED BY <1>1, PromiseInit, PromiseStep, PTL DEF Spec

-----------------------------------------------------------------------------
(* Requests and replies on their way *)

Elems(s) == {s[i] : i \in DOMAIN s}

\* The elements of a sequence after the operations of the queues.
LEMMA ElemsOf ==
  ASSUME NEW S, NEW s \in Seq(S)
  PROVE  /\ \A x \in S : Elems(Append(s, x)) = Elems(s) \cup {x}
         /\ s # <<>> => Elems(s) = {Head(s)} \cup Elems(Tail(s))
         /\ \A t \in Seq(S) : Elems(s \o t) = Elems(s) \cup Elems(t)
         /\ \A n \in 1..Len(s) :
              Elems(s) = Elems(SubSeq(s, 1, n)) \cup Elems(SubSeq(s, n + 1, Len(s)))
<1>1. DOMAIN s = 1..Len(s) /\ Len(s) \in Nat
  OBVIOUS
<1>2. ASSUME NEW x \in S PROVE Elems(Append(s, x)) = Elems(s) \cup {x}
  <2>1. /\ DOMAIN Append(s, x) = 1..(Len(s) + 1) /\ Append(s, x)[Len(s) + 1] = x
        /\ \A i \in 1..Len(s) : Append(s, x)[i] = s[i]
    BY <1>1
  <2> QED BY <1>1, <2>1 DEF Elems
<1>3. ASSUME s # <<>> PROVE Elems(s) = {Head(s)} \cup Elems(Tail(s))
  <2>1. /\ Head(s) = s[1] /\ DOMAIN Tail(s) = 1..(Len(s) - 1) /\ Len(s) >= 1
        /\ \A i \in 1..(Len(s) - 1) : Tail(s)[i] = s[i + 1]
    BY <1>1, <1>3
  <2>2. ASSUME NEW i \in 1..Len(s) PROVE s[i] \in {Head(s)} \cup Elems(Tail(s))
    <3>1. CASE i = 1
      BY <2>1, <3>1
    <3>2. CASE i # 1
      <4>1. i - 1 \in 1..(Len(s) - 1) /\ Tail(s)[i - 1] = s[i]
        BY <1>1, <2>1, <3>2
      <4> QED BY <2>1, <4>1 DEF Elems
    <3> QED BY <3>1, <3>2
  <2>3. \A i \in 1..(Len(s) - 1) : i + 1 \in 1..Len(s)
    BY <1>1
  <2> QED BY <1>1, <2>1, <2>2, <2>3 DEF Elems
<1>4. ASSUME NEW t \in Seq(S) PROVE Elems(s \o t) = Elems(s) \cup Elems(t)
  <2>1. /\ DOMAIN t = 1..Len(t) /\ Len(t) \in Nat /\ DOMAIN (s \o t) = 1..(Len(s) + Len(t))
        /\ \A i \in 1..Len(s) : (s \o t)[i] = s[i]
        /\ \A i \in 1..Len(t) : (s \o t)[Len(s) + i] = t[i]
    BY <1>1, ConcatProperties
  <2>2. \A i \in 1..Len(s) : s[i] \in Elems(s \o t)
    <3>1. \A i \in 1..Len(s) : i \in 1..(Len(s) + Len(t))
      BY <1>1, <2>1
    <3> QED BY <2>1, <3>1 DEF Elems
  <2>3. \A i \in 1..Len(t) : t[i] \in Elems(s \o t)
    <3>1. \A i \in 1..Len(t) : Len(s) + i \in 1..(Len(s) + Len(t))
      BY <1>1, <2>1
    <3> QED BY <2>1, <3>1 DEF Elems
  <2>4. ASSUME NEW i \in 1..(Len(s) + Len(t)) PROVE (s \o t)[i] \in Elems(s) \cup Elems(t)
    <3>1. CASE i <= Len(s)
      BY <1>1, <2>1, <3>1 DEF Elems
    <3>2. CASE i > Len(s)
      <4>1. i - Len(s) \in 1..Len(t) /\ Len(s) + (i - Len(s)) = i
        BY <1>1, <2>1, <3>2
      <4>2. (s \o t)[i] = t[i - Len(s)]
        BY <2>1, <4>1
      <4> QED BY <2>1, <4>1, <4>2 DEF Elems
    <3> QED BY <1>1, <3>1, <3>2
  <2>5. Elems(s \o t) \subseteq Elems(s) \cup Elems(t)
    BY <2>1, <2>4 DEF Elems
  <2>6. Elems(s) \subseteq Elems(s \o t) /\ Elems(t) \subseteq Elems(s \o t)
    BY <1>1, <2>1, <2>2, <2>3 DEF Elems
  <2> QED BY <2>5, <2>6, Zenon
<1>5. ASSUME NEW n \in 1..Len(s)
      PROVE  Elems(s) = Elems(SubSeq(s, 1, n)) \cup Elems(SubSeq(s, n + 1, Len(s)))
  <2>1. /\ DOMAIN SubSeq(s, 1, n) = 1..n
        /\ \A i \in 1..n : SubSeq(s, 1, n)[i] = s[i] /\ i \in 1..Len(s)
    BY <1>1
  <2>2. /\ DOMAIN SubSeq(s, n + 1, Len(s)) = 1..(Len(s) - n)
        /\ \A i \in 1..(Len(s) - n) :
             SubSeq(s, n + 1, Len(s))[i] = s[n + i] /\ n + i \in 1..Len(s)
    BY <1>1
  <2>3. ASSUME NEW i \in 1..Len(s)
        PROVE  s[i] \in Elems(SubSeq(s, 1, n)) \cup Elems(SubSeq(s, n + 1, Len(s)))
    <3>1. CASE i <= n
      <4>1. i \in 1..n
        BY <1>1, <3>1
      <4>2. SubSeq(s, 1, n)[i] = s[i]
        BY <2>1, <4>1
      <4> QED BY <2>1, <4>1, <4>2 DEF Elems
    <3>2. CASE i > n
      <4>1. i - n \in 1..(Len(s) - n) /\ n + (i - n) = i
        BY <1>1, <3>2
      <4>2. SubSeq(s, n + 1, Len(s))[i - n] = s[i]
        BY <2>2, <4>1
      <4> QED BY <2>2, <4>1, <4>2 DEF Elems
    <3> QED BY <3>1, <3>2
  <2>4. Elems(s) \subseteq Elems(SubSeq(s, 1, n)) \cup Elems(SubSeq(s, n + 1, Len(s)))
    BY <1>1, <2>3 DEF Elems
  <2>5. Elems(SubSeq(s, 1, n)) \subseteq Elems(s)
    BY <1>1, <2>1 DEF Elems
  <2>6. Elems(SubSeq(s, n + 1, Len(s))) \subseteq Elems(s)
    BY <1>1, <2>2 DEF Elems
  <2> QED BY <2>4, <2>5, <2>6, Zenon
<1> QED BY <1>2, <1>3, <1>4, <1>5

\* No two messages of s that expect a reply have the same ticket.
Once(s) ==
  \A i, j \in DOMAIN s : i # j /\ s[i].expects /\ s[j].expects => s[i].ticket # s[j].ticket

LEMMA OnceOf ==
  ASSUME NEW S, NEW s \in Seq(S), Once(s)
  PROVE  /\ \A x \in S :
              (x.expects => \A m \in Elems(s) : m.expects => m.ticket # x.ticket)
                => Once(Append(s, x))
         /\ s # <<>> =>
              /\ Once(Tail(s))
              /\ Head(s).expects =>
                   \A m \in Elems(Tail(s)) : m.expects => m.ticket # Head(s).ticket
<1>1. DOMAIN s = 1..Len(s) /\ Len(s) \in Nat
  OBVIOUS
<1>2. ASSUME NEW x \in S, x.expects => \A m \in Elems(s) : m.expects => m.ticket # x.ticket
      PROVE  Once(Append(s, x))
  <2>1. /\ DOMAIN Append(s, x) = 1..(Len(s) + 1) /\ Append(s, x)[Len(s) + 1] = x
        /\ \A i \in 1..Len(s) : Append(s, x)[i] = s[i]
    BY <1>1
  <2>2. \A i \in 1..Len(s) : s[i] \in Elems(s)
    BY <1>1 DEF Elems
  <2>3. \A i \in 1..(Len(s) + 1) : i \in 1..Len(s) \/ i = Len(s) + 1
    BY <1>1
  <2> QED BY <1>1, <1>2, <2>1, <2>2, <2>3 DEF Once
<1>3. ASSUME s # <<>>
      PROVE  /\ Once(Tail(s))
             /\ Head(s).expects =>
                  \A m \in Elems(Tail(s)) : m.expects => m.ticket # Head(s).ticket
  <2>1. /\ Head(s) = s[1] /\ DOMAIN Tail(s) = 1..(Len(s) - 1) /\ 1 \in 1..Len(s)
        /\ \A i \in 1..(Len(s) - 1) :
             Tail(s)[i] = s[i + 1] /\ i + 1 \in 1..Len(s) /\ i + 1 # 1
    BY <1>1, <1>3
  <2>2. \A i, j \in 1..(Len(s) - 1) : i # j => i + 1 # j + 1
    BY <1>1
  <2>3. Once(Tail(s))
    BY <1>1, <2>1, <2>2 DEF Once
  <2>4. ASSUME Head(s).expects, NEW i \in 1..(Len(s) - 1), Tail(s)[i].expects
        PROVE  Tail(s)[i].ticket # Head(s).ticket
    BY <1>1, <2>1, <2>4 DEF Once
  <2> QED BY <2>1, <2>3, <2>4 DEF Elems
<1> QED BY <1>2, <1>3

\* The requests the device has still to answer, the messages before RouteMessage, and
\* those with the ones the parser may return again.
Queued == {m \in Elems(send_queue_) : m.expects}
Pending == owed \cup Queued
Arriving == Elems(incoming) \cup Elems(batch)
Coming == Arriving \cup Elems(stale)

LEMMA MessagesStay ==
  ASSUME UNCHANGED <<send_queue_, owed, incoming, batch, stale>>
  PROVE  UNCHANGED <<Queued, Pending, Arriving, Coming>>
BY DEF Queued, Pending, Arriving, Coming, Elems

LEMMA QueueMoves ==
  ASSUME TypeInv
  PROVE  /\ UNCHANGED send_queue_ => UNCHANGED Queued
         /\ \A c \in Threads : PushRequest(c) =>
              Queued' = Queued \cup (IF HasCallback(call[c].op) THEN {Outgoing(call[c])} ELSE {})
         /\ PushReply => UNCHANGED Queued
         /\ Transmit =>
              /\ Head(send_queue_).expects => Queued = Queued' \cup {Head(send_queue_)}
              /\ ~Head(send_queue_).expects => UNCHANGED Queued
<1>0. send_queue_ \in Seq(OutgoingType)
  BY DEF TypeInv, TypeOK
<1>1. UNCHANGED send_queue_ => UNCHANGED Queued
  BY DEF Queued, Elems
<1>2. ASSUME NEW c \in Threads, PushRequest(c)
      PROVE  Queued' = Queued \cup (IF HasCallback(call[c].op) THEN {Outgoing(call[c])} ELSE {})
  <2>1. call[c] \in CallType
    BY DEF TypeInv, TypeOK
  <2>2. Outgoing(call[c]) \in OutgoingType /\ Outgoing(call[c]).expects = HasCallback(call[c].op)
    BY <2>1 DEF Outgoing, OutgoingType, CallType, HasCallback
  <2>3. Elems(send_queue_') = Elems(send_queue_) \cup {Outgoing(call[c])}
    BY <1>0, <1>2, <2>2, ElemsOf DEF PushRequest
  <2>4. Elems(send_queue_)' = Elems(send_queue_')
    BY DEF Elems
  <2> QED BY <2>2, <2>3, <2>4 DEF Queued
<1>3. ASSUME PushReply PROVE UNCHANGED Queued
  <2> DEFINE reply == Reply(Head(batch), found.id, found.ticket)
  <2>1. Head(batch) \in IncomingType /\ found \in HandlerType
    BY <1>3, SeqFacts DEF PushReply, TypeInv, TypeOK, BatchOK
  <2>2. reply \in OutgoingType /\ ~reply.expects
    BY <2>1 DEF Reply, OutgoingType, IncomingType, HandlerType
  <2>3. Elems(send_queue_') = Elems(send_queue_) \cup {reply}
    BY <1>0, <1>3, <2>2, ElemsOf DEF PushReply
  <2>4. Elems(send_queue_)' = Elems(send_queue_')
    BY DEF Elems
  <2> QED BY <2>2, <2>3, <2>4 DEF Queued
<1>4. ASSUME Transmit
      PROVE  /\ Head(send_queue_).expects => Queued = Queued' \cup {Head(send_queue_)}
             /\ ~Head(send_queue_).expects => UNCHANGED Queued
  <2>1. Elems(send_queue_) = {Head(send_queue_)} \cup Elems(send_queue_')
    BY <1>0, <1>4, ElemsOf DEF Transmit
  <2>2. Elems(send_queue_)' = Elems(send_queue_')
    BY DEF Elems
  <2> QED BY <2>1, <2>2 DEF Queued
<1> QED BY <1>1, <1>2, <1>3, <1>4

\* Messages come from the device, and leave with RouteMessage.
LEMMA MessagesMove ==
  ASSUME TypeInv
  PROVE  /\ UNCHANGED <<incoming, batch>> => UNCHANGED Arriving
         /\ UNCHANGED <<incoming, batch, stale>> => UNCHANGED Coming
         /\ \A m \in IncomingType : incoming' = Append(incoming, m)
              /\ UNCHANGED <<batch, stale>> =>
              Arriving' = Arriving \cup {m} /\ Coming' = Coming \cup {m}
         /\ \A n \in 1..Len(incoming) : TakePacket(n) =>
              (batch = <<>> => Arriving \subseteq Arriving') /\ Coming' \subseteq Coming
         /\ batch # <<>> /\ NextMessage /\ UNCHANGED incoming =>
              Arriving = Arriving' \cup {Head(batch)} /\ Coming = Coming' \cup {Head(batch)}
<1>0. {incoming, batch, stale} \subseteq Seq(IncomingType)
  BY DEF TypeInv, TypeOK
<1>p. /\ Elems(incoming)' = Elems(incoming') /\ Elems(batch)' = Elems(batch')
      /\ Elems(stale)' = Elems(stale')
  BY DEF Elems
<1>1. /\ UNCHANGED <<incoming, batch>> => UNCHANGED Arriving
      /\ UNCHANGED <<incoming, batch, stale>> => UNCHANGED Coming
  BY <1>p DEF Arriving, Coming
<1>2. ASSUME NEW m \in IncomingType, incoming' = Append(incoming, m), UNCHANGED <<batch, stale>>
      PROVE  Arriving' = Arriving \cup {m} /\ Coming' = Coming \cup {m}
  <2>1. Elems(incoming') = Elems(incoming) \cup {m}
    BY <1>0, <1>2, ElemsOf
  <2> QED BY <1>2, <1>p, <2>1 DEF Arriving, Coming
<1>3. ASSUME NEW n \in 1..Len(incoming), TakePacket(n)
      PROVE  (batch = <<>> => Arriving \subseteq Arriving') /\ Coming' \subseteq Coming
  <2> DEFINE first == SubSeq(incoming, 1, n)
  <2>1. first \in Seq(IncomingType)
    BY <1>0
  <2>2. Elems(incoming) = Elems(first) \cup Elems(incoming')
    BY <1>0, <1>3, ElemsOf DEF TakePacket
  <2>3. batch' = stale \o first
    BY <1>3 DEF TakePacket
  <2>4. Elems(batch') = Elems(stale) \cup Elems(first)
    <3>1. stale \in Seq(IncomingType)
      BY <1>0
    <3>2. Elems(stale \o first) = Elems(stale) \cup Elems(first)
      <4> HIDE DEF first
      <4> QED BY <2>1, <3>1, ElemsOf
    <3> QED BY <2>3, <3>2
  <2>5. Elems(stale') \subseteq Elems(batch')
    <3>1. stale' = batch' \/ stale' = <<>>
      BY <1>3 DEF TakePacket
    <3>2. Elems(<<>>) = {}
      BY DEF Elems
    <3> QED BY <3>1, <3>2
  <2>6. batch = <<>> => Elems(batch) = {}
    BY DEF Elems
  <2> HIDE DEF first
  <2> QED BY <1>p, <2>2, <2>4, <2>5, <2>6 DEF Arriving, Coming
<1>4. ASSUME batch # <<>>, NextMessage, UNCHANGED incoming
      PROVE  Arriving = Arriving' \cup {Head(batch)} /\ Coming = Coming' \cup {Head(batch)}
  <2>1. Elems(batch) = {Head(batch)} \cup Elems(batch')
    BY <1>0, <1>4, ElemsOf DEF NextMessage
  <2> QED BY <1>4, <1>p, <2>1 DEF NextMessage, Arriving, Coming
<1> QED BY <1>1, <1>2, <1>3, <1>4

\* A ticket travels once on its way to the device, and has been answered only when it is
\* not on that way any more.
SentOnce ==
  /\ Once(send_queue_)
  /\ \A m \in owed, n \in Queued : m.ticket # n.ticket
  /\ \A m, n \in owed : m.ticket = n.ticket => m = n
  /\ \A m \in Pending : m.ticket \notin answered
  /\ \A c \in Threads : pc[c] \in {"push", "insert"} => call[c].ticket \notin answered
  /\ \A c \in Threads : pc[c] = "push" => \A m \in Pending : m.ticket # call[c].ticket
  /\ invoked \subseteq answered /\ answered \subseteq DOMAIN issued

\* Request and reply travel on the channel that their handler has in its key.
Travels(t, chan) ==
  /\ \A m \in Pending : m.ticket = t => m.chan = chan
  /\ \A m \in Coming : m.origin = t => m.chan = chan
SameChannel ==
  /\ \A h \in handlers_by_identifier_ : Travels(h.ticket, h.chan)
  /\ \A c \in Threads : pc[c] = "insert" => Travels(call[c].ticket, call[c].chan)

\* Who waits, or will be answered, keeps its handler.
HasHandler(t) == \E h \in handlers_by_identifier_ : h.ticket = t
Inserting(t) == \E c \in Threads : pc[c] = "insert" /\ call[c].ticket = t
HandlersStay ==
  /\ \A m \in Pending : Inserting(m.ticket) \/ HasHandler(m.ticket)
  /\ \A c \in Threads : pc[c] = "wait" /\ call[c].ticket \notin invoked =>
       HasHandler(call[c].ticket)

\* Until it is served a call has its request, or the reply, on the way, unless these are
\* among those that are gone (none, while the connection stays up); it is not the message
\* that RouteMessage has just routed.
Asked(t) == \E m \in Pending : m.ticket = t
Replied(t) == \E m \in Arriving : m.origin = t
Served(gone) ==
  /\ \A c \in Threads : pc[c] = "insert" => Asked(call[c].ticket) \/ call[c].ticket \in gone
  /\ \A c \in Threads : pc[c] = "wait" /\ call[c].ticket \notin invoked =>
       Asked(call[c].ticket) \/ Replied(call[c].ticket) \/ call[c].ticket \in gone
RoutedIsDone ==
  ppc \notin {"idle", "route", "invoke"} =>
    \A c \in Threads :
      pc[c] = "wait" /\ call[c].ticket \notin invoked => Head(batch).origin # call[c].ticket

FoundInvoked == ppc \in {"callback", "erase"} => found.ticket \in invoked
IdleIsEmpty == ppc = "idle" => batch = <<>>

OnTheWay(gone) ==
  /\ SentOnce /\ SameChannel /\ HandlersStay /\ Served(gone)
  /\ RoutedIsDone /\ FoundInvoked /\ IdleIsEmpty
ServiceInv(gone) == OnceInv /\ OnTheWay(gone)

\* What is known of tickets: those on their way have been handed out, and those of
\* replies have been answered.
LEMMA TicketFacts ==
  ASSUME RoutingInv
  PROVE  /\ \A t \in DOMAIN issued : t \in Nat /\ t > 0
         /\ \A m \in Pending : m.ticket \in DOMAIN issued
         /\ \A m \in Coming : m.origin \in DOMAIN issued =>
              m.origin \in answered /\ m.id = issued[m.origin]
<1>1. issued \in Seq(Nat)
  BY DEF RoutingInv, TypeInv, TypeOK
<1>2. \A t \in DOMAIN issued : t \in Nat /\ t > 0
  BY <1>1
<1>3. \A m \in Pending : m.ticket \in DOMAIN issued
  BY DEF RoutingInv, KeysInv, RequestKeys, Pending, Queued, Elems, Keyed, KeyedRequests
<1>4. Coming \subseteq Genuine
  BY DEF RoutingInv, KeysInv, ReplyKeys, Coming, Arriving, Elems
<1>5. \A m \in Genuine : m.origin \in DOMAIN issued =>
        m.origin \in answered /\ m.id = issued[m.origin]
  BY <1>2 DEF Genuine, GenuineReply
<1> QED BY <1>2, <1>3, <1>4, <1>5

LEMMA ServeFetch ==
  ASSUME NEW gone, ServiceInv(gone), NEW c \in Threads, FetchIdentifier(c)
  PROVE  OnTheWay(gone)'
<1>0. TypeInv /\ pc \in [Threads -> Labels] /\ call \in [Threads -> CallType]
  BY DEF ServiceInv, OnceInv, RoutingInv, TypeInv, TypeOK
<1>1. /\ UNCHANGED <<ppc, found, batch, stale, incoming, owed, invoked, answered, send_queue_,
                     handlers_by_identifier_>>
      /\ \A d \in Threads \ {c} : pc'[d] = pc[d] /\ call'[d] = call[d]
      /\ pc[c] = "fetch" /\ pc'[c] = "push" /\ call'[c].ticket = Len(issued) + 1
  BY <1>0 DEF FetchIdentifier, Begin, Numbered
<1>2. UNCHANGED <<Queued, Pending, Arriving, Coming>>
  BY <1>1, MessagesStay
<1>3. /\ \A m \in Pending : m.ticket # call'[c].ticket
      /\ call'[c].ticket \notin answered
  BY <1>0, <1>1, TicketFacts, FreshTicket
  DEF ServiceInv, OnceInv, RoutingInv, OnTheWay, SentOnce
<1>4. DOMAIN issued \subseteq DOMAIN issued'
  <2>1. HandsOut /\ CounterAhead /\ TypeInv /\ [Next]_vars
    BY DEF FetchIdentifier, HandsOut, ServiceInv, OnceInv, RoutingInv, IdentifierInv, Next,
       Continue
  <2> QED BY <1>0, <2>1, IssuedStep DEF TypeInv, TypeOK
<1>5. SentOnce'
  BY <1>1, <1>2, <1>3, <1>4 DEF ServiceInv, OnTheWay, SentOnce, Once
<1>6. SameChannel'
  BY <1>1, <1>2 DEF ServiceInv, OnTheWay, SameChannel, Travels
<1>7. HandlersStay'
  BY <1>1, <1>2 DEF ServiceInv, OnTheWay, HandlersStay, HasHandler, Inserting
<1>8. Served(gone)'
  BY <1>1, <1>2 DEF ServiceInv, OnTheWay, Served, Asked, Replied
<1>9. RoutedIsDone' /\ FoundInvoked' /\ IdleIsEmpty'
  BY <1>1 DEF ServiceInv, OnTheWay, RoutedIsDone, FoundInvoked, IdleIsEmpty
<1> QED BY <1>5, <1>6, <1>7, <1>8, <1>9 DEF OnTheWay

\* With a callback the request is on its way, and its handler is still to be inserted.
LEMMA ServePush ==
  ASSUME NEW gone, ServiceInv(gone), NEW c \in Threads, PushRequest(c)
  PROVE  OnTheWay(gone)'
<1>0. TypeInv /\ pc \in [Threads -> Labels] /\ call \in [Threads -> CallType]
  BY DEF ServiceInv, OnceInv, RoutingInv, TypeInv, TypeOK
<1> DEFINE r == call[c]
           m == Outgoing(r)
<1>1. /\ UNCHANGED <<ppc, found, batch, stale, incoming, owed, issued, invoked, answered,
                     handlers_by_identifier_>>
      /\ \A d \in Threads \ {c} : pc'[d] = pc[d] /\ call'[d] = call[d]
      /\ pc[c] = "push" /\ send_queue_' = Append(send_queue_, m)
      /\ HasCallback(r.op) => pc'[c] = "insert" /\ call'[c] = r
      /\ ~HasCallback(r.op) => pc'[c] = "idle"
  BY <1>0 DEF PushRequest, Goto, Return
<1>2. UNCHANGED <<Arriving, Coming>>
  BY <1>0, <1>1, MessagesMove
<1>3. m \in OutgoingType /\ m.expects = HasCallback(r.op) /\ m.ticket = r.ticket
        /\ m.chan = r.chan
  BY <1>0 DEF Outgoing, OutgoingType, CallType, HasCallback
<1>4. /\ Queued' = Queued \cup (IF m.expects THEN {m} ELSE {})
      /\ Pending' = Pending \cup (IF m.expects THEN {m} ELSE {})
  BY <1>0, <1>1, <1>3, QueueMoves DEF Pending
<1>5. /\ \A n \in Pending : n.ticket # r.ticket
      /\ r.ticket \notin answered /\ r.ticket \in DOMAIN issued
      /\ \A h \in handlers_by_identifier_ : h.ticket # r.ticket
      /\ \A d \in Threads \ {c} : pc[d] \in Sent => call[d].ticket # r.ticket
  BY <1>1 DEF ServiceInv, OnTheWay, SentOnce, OnceInv, OneTicketEach, Sent, RoutingInv, KeysInv,
     CallKeys, Keyed
<1>6. \A n \in Coming : n.origin # r.ticket
  BY <1>5, TicketFacts DEF ServiceInv, OnceInv
<1> HIDE DEF r, m
<1>7. SentOnce'
  <2>1. Once(send_queue_')
    <3>1. Once(send_queue_) /\ send_queue_ \in Seq(OutgoingType)
      BY <1>0 DEF ServiceInv, OnTheWay, SentOnce, TypeInv, TypeOK
    <3>2. \A n \in Elems(send_queue_) : n.expects => n.ticket # m.ticket
      BY <1>3, <1>5 DEF Pending, Queued
    <3> QED BY <1>1, <1>3, <3>1, <3>2, OnceOf
  <2>2. Once(send_queue_)'
    BY <2>1 DEF Once
  <2>3. \A k \in owed', n \in Queued' : k.ticket # n.ticket
    BY <1>1, <1>3, <1>4, <1>5 DEF ServiceInv, OnTheWay, SentOnce, Pending
  <2>4. \A n \in Pending' : n.ticket \notin answered'
    BY <1>1, <1>3, <1>4, <1>5 DEF ServiceInv, OnTheWay, SentOnce
  <2>5. \A d \in Threads : pc'[d] \in {"push", "insert"} => call'[d].ticket \notin answered'
    BY <1>1, <1>5 DEF ServiceInv, OnTheWay, SentOnce
  <2>6. \A d \in Threads : pc'[d] = "push" => \A n \in Pending' : n.ticket # call'[d].ticket
    BY <1>1, <1>3, <1>4, <1>5 DEF ServiceInv, OnTheWay, SentOnce, Sent
  <2>7. UNCHANGED <<owed, invoked, answered, issued>>
    BY <1>1
  <2> QED BY <2>2, <2>3, <2>4, <2>5, <2>6, <2>7 DEF ServiceInv, OnTheWay, SentOnce
<1>8. SameChannel'
  <2>1. \A t, chan : t # r.ticket /\ Travels(t, chan) => Travels(t, chan)'
    BY <1>2, <1>3, <1>4 DEF Travels
  <2>2. \A t, chan : t = r.ticket /\ chan = r.chan => Travels(t, chan)'
    BY <1>2, <1>3, <1>4, <1>5, <1>6 DEF Travels
  <2>3. \A h \in handlers_by_identifier_' : Travels(h.ticket, h.chan)'
    BY <1>1, <1>5, <2>1 DEF ServiceInv, OnTheWay, SameChannel
  <2>4. \A d \in Threads : \A t, chan :
          pc'[d] = "insert" /\ t = call'[d].ticket /\ chan = call'[d].chan => Travels(t, chan)'
    BY <1>1, <1>5, <2>1, <2>2 DEF ServiceInv, OnTheWay, SameChannel, Sent
  <2> QED BY <2>3, <2>4 DEF SameChannel, Travels
<1>9. HandlersStay'
  <2>1. \A n \in Pending' : Inserting(n.ticket)' \/ HasHandler(n.ticket)'
    <3>1. \A n \in Pending : Inserting(n.ticket) => Inserting(n.ticket)'
      BY <1>1, <1>5 DEF Inserting
    <3>2. \A t : m.expects /\ t = m.ticket => Inserting(t)'
      BY <1>1, <1>3 DEF Inserting
    <3>3. \A n \in Pending : HasHandler(n.ticket) => HasHandler(n.ticket)'
      BY <1>1 DEF HasHandler
    <3> QED BY <1>4, <3>1, <3>2, <3>3 DEF ServiceInv, OnTheWay, HandlersStay
  <2> QED BY <1>1, <2>1 DEF ServiceInv, OnTheWay, HandlersStay, HasHandler
<1>10. Served(gone)'
  BY <1>1, <1>2, <1>3, <1>4 DEF ServiceInv, OnTheWay, Served, Asked, Replied
<1>11. RoutedIsDone' /\ FoundInvoked' /\ IdleIsEmpty'
  BY <1>1 DEF ServiceInv, OnTheWay, RoutedIsDone, FoundInvoked, IdleIsEmpty
<1> QED BY <1>7, <1>8, <1>9, <1>10, <1>11 DEF OnTheWay

\* The message that is being routed has come from the device.
LEMMA HeadComes ==
  ASSUME TypeInv, ppc \notin {"idle", "route"} \/ batch # <<>>
  PROVE  /\ batch # <<>> /\ Head(batch) \in IncomingType
         /\ Head(batch) \in Arriving /\ Head(batch) \in Coming
<1>1. batch # <<>> /\ batch \in Seq(IncomingType)
  BY DEF TypeInv, TypeOK, BatchOK
<1>2. Head(batch) \in IncomingType /\ Head(batch) \in Elems(batch)
  BY <1>1, SeqFacts, ElemsOf
<1> QED BY <1>1, <1>2 DEF Arriving, Coming

\* The handler takes over what the call that inserts it has known.
LEMMA ServeInsert ==
  ASSUME NEW gone, ServiceInv(gone), ~MapsRace, NEW c \in Threads, InsertHandler(c)
  PROVE  OnTheWay(gone)'
<1>0. /\ TypeInv /\ pc \in [Threads -> Labels] /\ call \in [Threads -> CallType]
      /\ IdentifiersIncrease /\ HandlerKeys /\ CallKeys
  BY DEF ServiceInv, OnceInv, RoutingInv, TypeInv, TypeOK, IdentifierInv, KeysInv
<1> DEFINE r == call[c]
           new == Handler(r.chan, r.id, IsSync(r.op), r.ticket)
<1>1. /\ UNCHANGED <<ppc, found, batch, stale, incoming, owed, issued, invoked, answered,
                     send_queue_>>
      /\ \A d \in Threads \ {c} : pc'[d] = pc[d] /\ call'[d] = call[d]
      /\ pc[c] = "insert" /\ pc'[c] \in {"wait", "idle"}
      /\ pc'[c] = "wait" => call'[c] = r
  BY <1>0 DEF InsertHandler, Goto, Return
<1>2. UNCHANGED <<Queued, Pending, Arriving, Coming>>
  BY <1>1, MessagesStay
<1>3. /\ r.ticket \in DOMAIN issued /\ r.ticket \notin answered
      /\ \A h \in handlers_by_identifier_ : h.ticket # r.ticket
  BY <1>0, <1>1 DEF ServiceInv, OnTheWay, SentOnce, OnceInv, OneTicketEach, CallKeys, Keyed
<1>4. \A h \in handlers_by_identifier_ : h.id # r.id
  BY <1>0, <1>1, <1>3, SameTicket DEF HandlerKeys, CallKeys, Keyed
<1>5. handlers_by_identifier_' = handlers_by_identifier_ \cup {new}
  BY <1>4 DEF InsertHandler
<1>6. new.ticket = r.ticket /\ new.chan = r.chan
  BY DEF Handler
<1> HIDE DEF r, new
<1>7. SentOnce'
  BY <1>1, <1>2 DEF ServiceInv, OnTheWay, SentOnce, Once
<1>8. SameChannel'
  <2>1. \A t, chan : Travels(t, chan) => Travels(t, chan)'
    BY <1>2 DEF Travels
  <2>2. Travels(r.ticket, r.chan)
    BY <1>1 DEF ServiceInv, OnTheWay, SameChannel, r
  <2>3. \A h \in handlers_by_identifier_' : Travels(h.ticket, h.chan)'
    BY <1>5, <1>6, <2>1, <2>2 DEF ServiceInv, OnTheWay, SameChannel
  <2>4. \A d \in Threads : \A t, chan :
          pc'[d] = "insert" /\ t = call'[d].ticket /\ chan = call'[d].chan => Travels(t, chan)'
    BY <1>1, <2>1 DEF ServiceInv, OnTheWay, SameChannel
  <2> QED BY <2>3, <2>4 DEF SameChannel, Travels
<1>9. HandlersStay'
  <2>1. \A t : HasHandler(t) \/ t = r.ticket => HasHandler(t)'
    BY <1>5, <1>6 DEF HasHandler
  <2>2. \A t : Inserting(t) => Inserting(t)' \/ t = r.ticket
    BY <1>1 DEF Inserting, r
  <2>3. \A m \in Pending' : Inserting(m.ticket)' \/ HasHandler(m.ticket)'
    BY <1>2, <2>1, <2>2 DEF ServiceInv, OnTheWay, HandlersStay
  <2>4. \A d \in Threads : \A t :
          pc'[d] = "wait" /\ t = call'[d].ticket /\ t \notin invoked => HasHandler(t)'
    BY <1>1, <2>1 DEF ServiceInv, OnTheWay, HandlersStay
  <2> QED BY <1>1, <2>3, <2>4 DEF HandlersStay, HasHandler
<1>10. Served(gone)'
  BY <1>1, <1>2 DEF ServiceInv, OnTheWay, Served, Asked, Replied, r
<1>11. RoutedIsDone'
  <2>1. ppc \notin {"idle", "route"} => Head(batch).origin # r.ticket
    BY <1>0, <1>3, HeadComes, TicketFacts DEF ServiceInv, OnceInv
  <2> QED BY <1>1, <2>1 DEF ServiceInv, OnTheWay, RoutedIsDone
<1>12. FoundInvoked' /\ IdleIsEmpty'
  BY <1>1 DEF ServiceInv, OnTheWay, FoundInvoked, IdleIsEmpty
<1> QED BY <1>7, <1>8, <1>9, <1>10, <1>11, <1>12 DEF OnTheWay

\* The other steps of a thread that sends: a call has not begun to travel, or has ended.
LEMMA ServeCaller ==
  ASSUME NEW gone, ServiceInv(gone), ~MapsRace, NEW c \in Threads, Start(c) \/ Continue(c)
           \/ WaitExpires(c)
  PROVE  OnTheWay(gone)'
<1>1. CASE FetchIdentifier(c) \/ PushRequest(c) \/ InsertHandler(c)
  BY <1>1, ServeFetch, ServePush, ServeInsert
<1>2. CASE ~FetchIdentifier(c) /\ ~PushRequest(c) /\ ~InsertHandler(c)
  <2>0. TypeInv
    BY DEF ServiceInv, OnceInv, RoutingInv
  <2>1. /\ UNCHANGED <<ppc, found, batch, stale, incoming, owed, issued, invoked, answered,
                       send_queue_, handlers_by_identifier_>>
        /\ \A d \in Threads \ {c} : pc'[d] = pc[d] /\ call'[d] = call[d]
        /\ pc'[c] \notin Sent /\ pc[c] # "insert"
    BY <1>2, <2>0, CallerFrame DEF Sent
  <2>2. UNCHANGED <<Queued, Pending, Arriving, Coming>>
    BY <2>0, <2>1, QueueMoves, MessagesMove DEF Pending
  <2>3. \A d \in Threads : pc'[d] \in Sent => pc[d] = pc'[d] /\ call'[d] = call[d]
    BY <2>1
  <2>4. SentOnce'
    BY <2>1, <2>2, <2>3 DEF ServiceInv, OnTheWay, SentOnce, Once, Sent
  <2>5. SameChannel'
    BY <2>1, <2>2, <2>3 DEF ServiceInv, OnTheWay, SameChannel, Travels, Sent
  <2>6. HandlersStay'
    BY <2>1, <2>2, <2>3 DEF ServiceInv, OnTheWay, HandlersStay, HasHandler, Inserting, Sent
  <2>7. Served(gone)'
    BY <2>1, <2>2, <2>3 DEF ServiceInv, OnTheWay, Served, Asked, Replied, Sent
  <2>8. RoutedIsDone' /\ FoundInvoked' /\ IdleIsEmpty'
    BY <2>1, <2>3 DEF ServiceInv, OnTheWay, RoutedIsDone, FoundInvoked, IdleIsEmpty, Sent
  <2> QED BY <2>4, <2>5, <2>6, <2>7, <2>8 DEF OnTheWay
<1> QED BY <1>1, <1>2

\* The send thread takes a request from the queue to the device.
LEMMA ServeTransmit ==
  ASSUME NEW gone, ServiceInv(gone), Transmit
  PROVE  OnTheWay(gone)'
<1> DEFINE m == Head(send_queue_)
<1>0. TypeInv /\ send_queue_ \in Seq(OutgoingType) /\ m \in OutgoingType
  BY SeqFacts DEF Transmit, ServiceInv, OnceInv, RoutingInv, TypeInv, TypeOK
<1>1. /\ UNCHANGED <<pc, call, ppc, found, batch, stale, incoming, issued, invoked, answered,
                     handlers_by_identifier_>>
      /\ owed' = owed \cup (IF m.expects THEN {m} ELSE {})
      /\ send_queue_ # <<>> /\ send_queue_' = Tail(send_queue_)
  BY DEF Transmit
<1>2. UNCHANGED <<Arriving, Coming>>
  BY <1>0, <1>1, MessagesMove
<1>3. /\ m.expects => Queued = Queued' \cup {m}
      /\ ~m.expects => UNCHANGED Queued
  BY <1>0, QueueMoves
<1>4. Pending' = Pending
  BY <1>1, <1>3 DEF Pending
<1>5. /\ Once(send_queue_')
      /\ m.expects => \A n \in Queued' : n.ticket # m.ticket
  <2>1. Once(send_queue_)
    BY DEF ServiceInv, OnTheWay, SentOnce
  <2>2. Elems(send_queue_)' = Elems(send_queue_')
    BY DEF Elems
  <2>3. m.expects => \A n \in Elems(send_queue_') : n.expects => n.ticket # m.ticket
    BY <1>0, <1>1, <2>1, OnceOf
  <2> QED BY <1>0, <1>1, <2>1, <2>2, <2>3, OnceOf DEF Queued
<1> HIDE DEF m
<1>6. SentOnce'
  <2>1. Once(send_queue_)'
    BY <1>5 DEF Once
  <2>2. \A k \in owed', n \in Queued' : k.ticket # n.ticket
    BY <1>1, <1>3, <1>5 DEF ServiceInv, OnTheWay, SentOnce
  <2>3. \A k, n \in owed' : k.ticket = n.ticket => k = n
    BY <1>1, <1>3 DEF ServiceInv, OnTheWay, SentOnce
  <2> QED BY <1>1, <1>4, <2>1, <2>2, <2>3 DEF ServiceInv, OnTheWay, SentOnce
<1>7. SameChannel'
  BY <1>1, <1>2, <1>4 DEF ServiceInv, OnTheWay, SameChannel, Travels
<1>8. HandlersStay'
  BY <1>1, <1>4 DEF ServiceInv, OnTheWay, HandlersStay, HasHandler, Inserting
<1>9. Served(gone)'
  BY <1>1, <1>2, <1>4 DEF ServiceInv, OnTheWay, Served, Asked, Replied
<1>10. RoutedIsDone' /\ FoundInvoked' /\ IdleIsEmpty'
  BY <1>1 DEF ServiceInv, OnTheWay, RoutedIsDone, FoundInvoked, IdleIsEmpty
<1> QED BY <1>6, <1>7, <1>8, <1>9, <1>10 DEF OnTheWay

\* A request becomes the reply to it, once its handler is in the map.
LEMMA ServeReply ==
  ASSUME NEW gone, ServiceInv(gone), ~PromptDevice, NEW m \in owed, DeviceReply(m)
  PROVE  OnTheWay(gone)'
<1> DEFINE n == Incoming(m.id, m.chan, m.conv + 1, FALSE, m.ticket)
<1>0. TypeInv /\ m \in OutgoingType
  BY DEF ServiceInv, OnceInv, RoutingInv, TypeInv, TypeOK
<1>1. /\ UNCHANGED <<pc, call, ppc, found, batch, stale, send_queue_, issued, invoked,
                     handlers_by_identifier_>>
      /\ owed' = owed \ {m} /\ answered' = answered \cup {m.ticket}
      /\ incoming' = Append(incoming, n)
      /\ \A c \in Threads : pc[c] = "insert" => call[c].ticket # m.ticket
  BY DEF DeviceReply
<1>2. n \in IncomingType /\ n.origin = m.ticket /\ n.chan = m.chan
  BY <1>0 DEF Incoming, IncomingType, OutgoingType
<1>3. Arriving' = Arriving \cup {n} /\ Coming' = Coming \cup {n}
  <2> HIDE DEF n
  <2> QED BY <1>0, <1>1, <1>2, MessagesMove
<1>4. UNCHANGED Queued
  BY <1>0, <1>1, QueueMoves
<1>5. m \in Pending /\ Pending' \subseteq Pending /\ Pending \ {m} \subseteq Pending'
  BY <1>1, <1>4 DEF Pending
<1>6. /\ \A k \in Pending' : k.ticket # m.ticket
      /\ m.ticket \in DOMAIN issued
  <2>1. m.ticket \in DOMAIN issued
    BY <1>5, TicketFacts DEF ServiceInv, OnceInv
  <2> QED BY <1>1, <1>4, <2>1 DEF ServiceInv, OnTheWay, SentOnce, Pending
<1> HIDE DEF n
<1>7. SentOnce'
  <2>1. Once(send_queue_)'
    BY <1>1 DEF ServiceInv, OnTheWay, SentOnce, Once
  <2>2. \A k \in Pending' : k.ticket \notin answered'
    BY <1>1, <1>5, <1>6 DEF ServiceInv, OnTheWay, SentOnce
  <2>3. \A c \in Threads : pc'[c] \in {"push", "insert"} => call'[c].ticket \notin answered'
    BY <1>1, <1>5 DEF ServiceInv, OnTheWay, SentOnce
  <2>4. \A c \in Threads : pc'[c] = "push" => \A k \in Pending' : k.ticket # call'[c].ticket
    BY <1>1, <1>5 DEF ServiceInv, OnTheWay, SentOnce
  <2>5. invoked' \subseteq answered' /\ answered' \subseteq DOMAIN issued'
    BY <1>1, <1>6 DEF ServiceInv, OnTheWay, SentOnce
  <2> QED BY <1>1, <1>4, <2>1, <2>2, <2>3, <2>4, <2>5 DEF ServiceInv, OnTheWay, SentOnce
<1>8. SameChannel'
  <2>1. \A t, chan : Travels(t, chan) => Travels(t, chan)'
    BY <1>2, <1>3, <1>5 DEF Travels
  <2>2. \A h \in handlers_by_identifier_' : Travels(h.ticket, h.chan)'
    BY <1>1, <2>1 DEF ServiceInv, OnTheWay, SameChannel
  <2>3. \A c \in Threads : \A t, chan :
          pc'[c] = "insert" /\ t = call'[c].ticket /\ chan = call'[c].chan => Travels(t, chan)'
    BY <1>1, <2>1 DEF ServiceInv, OnTheWay, SameChannel
  <2> QED BY <2>2, <2>3 DEF SameChannel, Travels
<1>9. HandlersStay'
  BY <1>1, <1>5 DEF ServiceInv, OnTheWay, HandlersStay, HasHandler, Inserting
<1>10. Served(gone)'
  <2>1. \A t : Asked(t) => Asked(t)' \/ t = m.ticket
    BY <1>5 DEF Asked
  <2>2. \A t : Replied(t) \/ t = m.ticket => Replied(t)'
    BY <1>2, <1>3 DEF Replied
  <2>3. \A c \in Threads : \A t : pc'[c] = "insert" /\ t = call'[c].ticket
          => Asked(t)' \/ t \in gone
    BY <1>1, <2>1 DEF ServiceInv, OnTheWay, Served
  <2>4. \A c \in Threads : \A t : pc'[c] = "wait" /\ t = call'[c].ticket /\ t \notin invoked' =>
          Asked(t)' \/ Replied(t)' \/ t \in gone
    BY <1>1, <2>1, <2>2 DEF ServiceInv, OnTheWay, Served
  <2> QED BY <2>3, <2>4 DEF Served, Asked, Replied
<1>11. RoutedIsDone' /\ FoundInvoked' /\ IdleIsEmpty'
  BY <1>1 DEF ServiceInv, OnTheWay, RoutedIsDone, FoundInvoked, IdleIsEmpty
<1> QED BY <1>7, <1>8, <1>9, <1>10, <1>11 DEF OnTheWay

\* A message of the device itself answers no ticket.
LEMMA ServeSend ==
  ASSUME NEW gone, ServiceInv(gone), NEW code \in UnsolicitedCodes, NEW id \in DeviceIdentifiers,
         NEW expects \in BOOLEAN, DeviceSend(code, id, expects)
  PROVE  OnTheWay(gone)'
<1> DEFINE n == Incoming(id, code, 0, expects, -unsolicited')
<1>0. TypeInv /\ unsolicited \in Nat
  BY DEF ServiceInv, OnceInv, RoutingInv, TypeInv, TypeOK
<1>1. /\ UNCHANGED <<pc, call, ppc, found, batch, stale, send_queue_, issued, invoked, owed,
                     answered, handlers_by_identifier_>>
      /\ incoming' = Append(incoming, n) /\ unsolicited' = unsolicited + 1
  BY DEF DeviceSend
<1>2. n \in IncomingType /\ n.origin \in Int /\ n.origin < 0
  BY <1>0, <1>1, ConstantsAssumption DEF Incoming, IncomingType
<1>3. Arriving' = Arriving \cup {n} /\ Coming' = Coming \cup {n}
  <2> HIDE DEF n
  <2> QED BY <1>0, <1>1, <1>2, MessagesMove
<1>4. UNCHANGED <<Queued, Pending>>
  BY <1>0, <1>1, QueueMoves DEF Pending
<1> HIDE DEF n
<1>5. \A t \in DOMAIN issued : n.origin # t
  BY <1>2, TicketFacts DEF ServiceInv, OnceInv
<1>6. SentOnce'
  BY <1>1, <1>4 DEF ServiceInv, OnTheWay, SentOnce, Once
<1>7. SameChannel'
  <2>0. /\ \A h \in handlers_by_identifier_ : h.ticket \in DOMAIN issued
        /\ \A c \in Threads : pc[c] = "insert" => call[c].ticket \in DOMAIN issued
    BY DEF ServiceInv, OnceInv, RoutingInv, KeysInv, HandlerKeys, CallKeys, Keyed
  <2>1. \A t, chan : t \in DOMAIN issued /\ Travels(t, chan) => Travels(t, chan)'
    BY <1>3, <1>4, <1>5 DEF Travels
  <2>2. \A h \in handlers_by_identifier_' : Travels(h.ticket, h.chan)'
    BY <1>1, <2>0, <2>1 DEF ServiceInv, OnTheWay, SameChannel
  <2>3. \A c \in Threads : \A t, chan :
          pc'[c] = "insert" /\ t = call'[c].ticket /\ chan = call'[c].chan => Travels(t, chan)'
    BY <1>1, <2>0, <2>1 DEF ServiceInv, OnTheWay, SameChannel
  <2> QED BY <2>2, <2>3 DEF SameChannel, Travels
<1>8. HandlersStay'
  BY <1>1, <1>4 DEF ServiceInv, OnTheWay, HandlersStay, HasHandler, Inserting
<1>9. Served(gone)'
  BY <1>1, <1>3, <1>4 DEF ServiceInv, OnTheWay, Served, Asked, Replied
<1>10. RoutedIsDone' /\ FoundInvoked' /\ IdleIsEmpty'
  BY <1>1 DEF ServiceInv, OnTheWay, RoutedIsDone, FoundInvoked, IdleIsEmpty
<1> QED BY <1>6, <1>7, <1>8, <1>9, <1>10 DEF OnTheWay

\* The parsing thread takes a packet when it has routed the last one.
LEMMA ServeTake ==
  ASSUME NEW gone, ServiceInv(gone), NEW n \in 1..Len(incoming), TakePacket(n)
  PROVE  OnTheWay(gone)'
<1>0. TypeInv /\ batch = <<>>
  BY DEF TakePacket, ServiceInv, OnceInv, RoutingInv, OnTheWay, IdleIsEmpty
<1>1. /\ UNCHANGED <<pc, call, send_queue_, issued, invoked, owed, answered,
                     handlers_by_identifier_>>
      /\ ppc' = "route"
  BY DEF TakePacket
<1>2. Arriving \subseteq Arriving' /\ Coming' \subseteq Coming
  BY <1>0, MessagesMove
<1>3. UNCHANGED <<Queued, Pending>>
  BY <1>0, <1>1, QueueMoves DEF Pending
<1>4. SentOnce'
  BY <1>1, <1>3 DEF ServiceInv, OnTheWay, SentOnce, Once
<1>5. SameChannel'
  BY <1>1, <1>2, <1>3 DEF ServiceInv, OnTheWay, SameChannel, Travels
<1>6. HandlersStay'
  BY <1>1, <1>3 DEF ServiceInv, OnTheWay, HandlersStay, HasHandler, Inserting
<1>7. Served(gone)'
  BY <1>1, <1>2, <1>3 DEF ServiceInv, OnTheWay, Served, Asked, Replied
<1>8. RoutedIsDone' /\ FoundInvoked' /\ IdleIsEmpty'
  BY <1>1 DEF RoutedIsDone, FoundInvoked, IdleIsEmpty
<1> QED BY <1>4, <1>5, <1>6, <1>7, <1>8 DEF OnTheWay

\* The message at the head of the batch is left where it is.
LEMMA ServeHere ==
  ASSUME NEW gone, ServiceInv(gone), DOMAIN issued \subseteq DOMAIN issued',
         UNCHANGED <<pc, call, incoming, batch, stale, owed, answered, invoked, send_queue_,
                     handlers_by_identifier_>>
  PROVE  SentOnce' /\ SameChannel' /\ HandlersStay' /\ Served(gone)'
<1>0. TypeInv
  BY DEF ServiceInv, OnceInv, RoutingInv
<1>1. UNCHANGED <<Queued, Pending, Arriving, Coming>>
  BY <1>0, QueueMoves, MessagesMove DEF Pending
<1>2. SentOnce'
  BY <1>1 DEF ServiceInv, OnTheWay, SentOnce, Once
<1>3. SameChannel'
  BY <1>1 DEF ServiceInv, OnTheWay, SameChannel, Travels
<1>4. HandlersStay'
  BY <1>1 DEF ServiceInv, OnTheWay, HandlersStay, HasHandler, Inserting
<1>5. Served(gone)'
  BY <1>1 DEF ServiceInv, OnTheWay, Served, Asked, Replied
<1> QED BY <1>2, <1>3, <1>4, <1>5

\* The message that has just been routed goes, and maybe the handler that has run.
LEMMA ServeRouted ==
  ASSUME NEW gone, ServiceInv(gone), ppc \notin {"idle", "route", "invoke"}, Routed
           \/ NextMessage,
         UNCHANGED <<pc, call, incoming, owed, answered, invoked, issued, Queued>>,
         Once(send_queue_)',
         handlers_by_identifier_' \subseteq handlers_by_identifier_,
         \A h \in handlers_by_identifier_ \ handlers_by_identifier_' : h.ticket \in invoked
  PROVE  OnTheWay(gone)'
<1>0. TypeInv /\ batch # <<>>
  BY DEF ServiceInv, OnceInv, RoutingInv, TypeInv, BatchOK
<1>1. UNCHANGED Pending
  BY DEF Pending
<1>2. \/ ppc' = "reply" /\ UNCHANGED <<batch, Arriving, Coming>>
      \/ /\ ppc' = "route"
         /\ Arriving = Arriving' \cup {Head(batch)} /\ Coming' \subseteq Coming
  <2>1. CASE NextMessage
    BY <1>0, <2>1, MessagesMove DEF NextMessage
  <2>2. CASE ppc' = "reply" /\ UNCHANGED <<batch, stale>>
    BY <1>0, <2>2, MessagesMove
  <2> QED BY <2>1, <2>2 DEF Routed
<1>3. SentOnce'
  BY <1>1 DEF ServiceInv, OnTheWay, SentOnce
<1>4. SameChannel'
  BY <1>1, <1>2 DEF ServiceInv, OnTheWay, SameChannel, Travels
<1>5. HandlersStay'
  <2>1. \A t : HasHandler(t) => HasHandler(t)' \/ t \in invoked
    BY DEF HasHandler
  <2>2. \A m \in Pending : m.ticket \notin invoked
    BY DEF ServiceInv, OnTheWay, SentOnce
  <2>3. \A m \in Pending' : Inserting(m.ticket)' \/ HasHandler(m.ticket)'
    BY <1>1, <2>1, <2>2 DEF ServiceInv, OnTheWay, HandlersStay, Inserting
  <2>4. \A c \in Threads : \A t :
          pc'[c] = "wait" /\ t = call'[c].ticket /\ t \notin invoked' => HasHandler(t)'
    BY <2>1 DEF ServiceInv, OnTheWay, HandlersStay
  <2> QED BY <2>3, <2>4 DEF HandlersStay, HasHandler
<1>6. Served(gone)'
  <2>1. \A c \in Threads : \A t : pc'[c] = "wait" /\ t = call'[c].ticket /\ t \notin invoked' =>
          Asked(t)' \/ Replied(t)' \/ t \in gone
    <3>1. \A t : Asked(t) => Asked(t)'
      BY <1>1 DEF Asked
    <3>2. \A t : Replied(t) /\ t # Head(batch).origin => Replied(t)'
      BY <1>2 DEF Replied
    <3> QED BY <3>1, <3>2 DEF ServiceInv, OnTheWay, Served, RoutedIsDone
  <2>2. \A c \in Threads : \A t : pc'[c] = "insert" /\ t = call'[c].ticket
          => Asked(t)' \/ t \in gone
    BY <1>1 DEF ServiceInv, OnTheWay, Served, Asked
  <2> QED BY <2>1, <2>2 DEF Served, Asked, Replied
<1>7. RoutedIsDone' /\ FoundInvoked' /\ IdleIsEmpty'
  BY <1>2 DEF ServiceInv, OnTheWay, RoutedIsDone, FoundInvoked, IdleIsEmpty
<1> QED BY <1>3, <1>4, <1>5, <1>6, <1>7 DEF OnTheWay

\* The lookup finds the handler of a call that waits for this reply.
LEMMA ServeLookup ==
  ASSUME NEW gone, ServiceInv(gone), ~MapsRace, LookupHandler
  PROVE  OnTheWay(gone)'
<1>1. /\ UNCHANGED <<pc, call, incoming, batch, stale, owed, answered, invoked, issued,
                     send_queue_, handlers_by_identifier_>>
      /\ ppc' = "invoke" \/ (ppc' = "channel" /\ Hits(Head(batch)) = {})
      /\ batch # <<>>
  BY DEF LookupHandler
<1>2. ASSUME NEW c \in Threads, pc[c] = "wait", call[c].ticket \notin invoked,
             Head(batch).origin = call[c].ticket
      PROVE  Hits(Head(batch)) # {}
  <2> DEFINE t == call[c].ticket
  <2>1. t \in DOMAIN issued /\ RoutingInv
    BY <1>2 DEF ServiceInv, OnceInv, RoutingInv, KeysInv, CallKeys, Keyed
  <2>2. Head(batch) \in Coming /\ Head(batch).id = issued[t]
    BY <1>1, <1>2, <2>1, HeadComes, TicketFacts DEF RoutingInv
  <2>3. PICK h \in handlers_by_identifier_ : h.ticket = t
    BY <1>2 DEF ServiceInv, OnTheWay, HandlersStay, HasHandler
  <2>4. h.id = issued[t]
    BY <2>1, <2>3 DEF RoutingInv, KeysInv, HandlerKeys, Keyed
  <2>5. h.chan = Head(batch).chan
    BY <1>2, <2>2, <2>3 DEF ServiceInv, OnTheWay, SameChannel, Travels
  <2> QED BY <2>2, <2>3, <2>4, <2>5 DEF Hits
<1>3. RoutedIsDone' /\ FoundInvoked' /\ IdleIsEmpty'
  BY <1>1, <1>2 DEF RoutedIsDone, FoundInvoked, IdleIsEmpty
<1> QED BY <1>1, <1>3, ServeHere DEF OnTheWay

\* A handler that is invoked with the response to its own message has been answered.
LEMMA AnsweredFirst ==
  ASSUME RoutingInv, OwnReplyOnly, ppc = "invoke"
  PROVE  found.ticket = Head(batch).origin /\ found.ticket \in answered
<1>1. found.ticket \in DOMAIN issued /\ issued \in Seq(Nat)
  BY DEF RoutingInv, TypeInv, TypeOK, KeysInv, FoundKey, HandlerKeys, Keyed
<1>2. found.ticket \in Nat /\ found.ticket > 0
  BY <1>1
<1> QED BY <1>2, FoundTicket DEF OwnReplyOnly

\* The handler that is invoked is the one of the message that it is invoked with.
LEMMA ServeInvoke ==
  ASSUME NEW gone, ServiceInv(gone), OwnReplyOnly, InvokeHandler
  PROVE  OnTheWay(gone)'
<1>0. TypeInv
  BY DEF ServiceInv, OnceInv, RoutingInv
<1>1. /\ UNCHANGED <<pc, call, incoming, batch, stale, owed, answered, issued, send_queue_,
                     handlers_by_identifier_, found>>
      /\ ppc = "invoke" /\ ppc' \in {"erase", "callback"}
      /\ invoked' = invoked \cup {found.ticket}
  BY DEF InvokeHandler
<1>2. UNCHANGED <<Queued, Pending, Arriving, Coming>>
  BY <1>1, MessagesStay
<1>3. found.ticket = Head(batch).origin /\ found.ticket \in answered
  BY <1>1, AnsweredFirst DEF ServiceInv, OnceInv
<1>4. SentOnce'
  BY <1>1, <1>2, <1>3 DEF ServiceInv, OnTheWay, SentOnce, Once
<1>5. SameChannel'
  BY <1>1, <1>2 DEF ServiceInv, OnTheWay, SameChannel, Travels
<1>6. HandlersStay'
  BY <1>1, <1>2 DEF ServiceInv, OnTheWay, HandlersStay, HasHandler, Inserting
<1>7. Served(gone)'
  BY <1>1, <1>2 DEF ServiceInv, OnTheWay, Served, Asked, Replied
<1>8. RoutedIsDone' /\ FoundInvoked' /\ IdleIsEmpty'
  BY <1>1, <1>3 DEF RoutedIsDone, FoundInvoked, IdleIsEmpty
<1> QED BY <1>4, <1>5, <1>6, <1>7, <1>8 DEF OnTheWay

\* The steps of the parsing thread.
LEMMA ServeParse ==
  ASSUME NEW gone, ServiceInv(gone), ~MapsRace, OwnReplyOnly, Parse
  PROVE  OnTheWay(gone)'
<1>0. TypeInv /\ Once(send_queue_) /\ send_queue_ \in Seq(OutgoingType)
  BY DEF ServiceInv, OnceInv, RoutingInv, TypeInv, TypeOK, OnTheWay, SentOnce
<1>1. CASE \/ \E n \in 1..Len(incoming) : TakePacket(n)
           \/ LookupHandler \/ InvokeHandler
  BY <1>1, ServeTake, ServeLookup, ServeInvoke
<1>2. CASE EraseHandler
  <2>1. /\ UNCHANGED <<pc, call, incoming, owed, answered, invoked, issued, send_queue_>>
        /\ ppc = "erase" /\ Routed /\ handlers_by_identifier_' = handlers_by_identifier_ \ {found}
    BY <1>2 DEF EraseHandler, WithoutFound
  <2>2. UNCHANGED Queued /\ Once(send_queue_)'
    BY <1>0, <2>1, QueueMoves DEF Once
  <2>3. found.ticket \in invoked
    BY <2>1 DEF ServiceInv, OnTheWay, FoundInvoked
  <2> QED BY <2>1, <2>2, <2>3, ServeRouted
<1>3. CASE PushReply
  <2> DEFINE reply == Reply(Head(batch), found.id, found.ticket)
  <2>1. /\ UNCHANGED <<pc, call, incoming, owed, answered, invoked, issued,
                       handlers_by_identifier_>>
        /\ ppc = "push" /\ NextMessage /\ send_queue_' = Append(send_queue_, reply)
    BY <1>3 DEF PushReply
  <2>2. reply \in OutgoingType /\ ~reply.expects
    <3>1. Head(batch) \in IncomingType /\ found \in HandlerType
      BY <1>0, <2>1, HeadComes DEF TypeInv, TypeOK
    <3> QED BY <3>1 DEF Reply, OutgoingType, IncomingType, HandlerType
  <2> HIDE DEF reply
  <2>3. Once(send_queue_')
    BY <1>0, <2>1, <2>2, OnceOf
  <2>4. UNCHANGED Queued /\ Once(send_queue_)'
    BY <1>0, <1>3, <2>3, QueueMoves DEF Once
  <2> QED BY <2>1, <2>4, ServeRouted
<1>4. CASE LookupChannel \/ CallbackReturns
  <2>1. UNCHANGED <<pc, call, incoming, owed, answered, invoked, issued, send_queue_,
                    handlers_by_identifier_>>
    BY <1>4 DEF LookupChannel, CallbackReturns
  <2>2. \/ ppc \in {"channel", "handler"} /\ Routed
        \/ /\ UNCHANGED <<batch, stale>>
           /\ \/ ppc = "channel" /\ ppc' = "deliver"
              \/ ppc = "callback" /\ ppc' = "erase" /\ UNCHANGED found
    BY <1>4 DEF LookupChannel, CallbackReturns
  <2>3. CASE ppc \in {"channel", "handler"} /\ Routed
    <3>1. UNCHANGED Queued /\ Once(send_queue_)'
      BY <1>0, <2>1, QueueMoves DEF Once
    <3> QED BY <2>1, <2>3, <3>1, ServeRouted
  <2>4. CASE /\ UNCHANGED <<batch, stale>>
             /\ \/ ppc = "channel" /\ ppc' = "deliver"
                \/ ppc = "callback" /\ ppc' = "erase" /\ UNCHANGED found
    <3>1. RoutedIsDone' /\ FoundInvoked' /\ IdleIsEmpty'
      BY <2>1, <2>4 DEF ServiceInv, OnTheWay, RoutedIsDone, FoundInvoked, IdleIsEmpty
    <3> QED BY <2>1, <2>4, <3>1, ServeHere DEF OnTheWay
  <2> QED BY <2>2, <2>3, <2>4
<1>5. CASE InvokeChannelHandler \/ FetchReplyIdentifier \/ FinishBatch
  <2>1. /\ UNCHANGED <<pc, call, incoming, batch, stale, owed, answered, invoked, send_queue_,
                       handlers_by_identifier_>>
        /\ \/ ppc = "deliver" /\ ppc' = "handler"
           \/ ppc = "reply" /\ ppc' = "push"
           \/ ppc' = "idle" /\ batch = <<>>
    BY <1>5 DEF InvokeChannelHandler, FetchReplyIdentifier, FinishBatch
  <2>2. DOMAIN issued \subseteq DOMAIN issued'
    <3>1. CASE FetchReplyIdentifier
      <4>1. HandsOut /\ issued \in Seq(Nat)
        BY <1>0, <3>1 DEF FetchReplyIdentifier, HandsOut, TypeInv, TypeOK
      <4> QED BY <1>0, <4>1, IssuedStep
    <3>2. CASE InvokeChannelHandler \/ FinishBatch
      BY <3>2 DEF InvokeChannelHandler, FinishBatch
    <3> QED BY <1>5, <3>1, <3>2
  <2>3. RoutedIsDone' /\ FoundInvoked' /\ IdleIsEmpty'
    BY <2>1 DEF ServiceInv, OnTheWay, RoutedIsDone, FoundInvoked, IdleIsEmpty
  <2> QED BY <2>1, <2>2, <2>3, ServeHere DEF OnTheWay
<1> QED BY <1>1, <1>2, <1>3, <1>4, <1>5 DEF Parse

LEMMA ServiceStep ==
  ASSUME ~MapsRace, ~PromptDevice, OwnReplyOnly, NEW gone, ServiceInv(gone), [Next]_vars
  PROVE  ServiceInv(gone)'
<1>0. OnceInv'
  BY OnceStep DEF ServiceInv
<1>1. CASE Next
  BY <1>0, <1>1, ServeCaller, ServeTransmit, ServeReply, ServeSend, ServeParse
  DEF Next, DeviceReplies, ServiceInv
<1>2. CASE UNCHANGED vars
  <2>1. UNCHANGED <<pc, call, incoming, batch, stale, owed, answered, invoked, send_queue_,
                    handlers_by_identifier_, issued, ppc, found>>
    BY <1>2 DEF vars
  <2>2. RoutedIsDone' /\ FoundInvoked' /\ IdleIsEmpty'
    BY <2>1 DEF ServiceInv, OnTheWay, RoutedIsDone, FoundInvoked, IdleIsEmpty
  <2> QED BY <1>0, <2>1, <2>2, ServeHere DEF OnTheWay, ServiceInv
<1> QED BY <1>1, <1>2

LEMMA ServiceInit ==
  ASSUME NEW gone, Init
  PROVE  ServiceInv(gone)
<1>1. Queued = {} /\ Pending = {} /\ Coming = {}
  BY DEF Init, Queued, Pending, Coming, Arriving, Elems
<1>2. Once(send_queue_)
  BY DEF Init, Once
<1>3. OnTheWay(gone)
  BY <1>1, <1>2 DEF Init, OnTheWay, SentOnce, SameChannel, HandlersStay, Served, RoutedIsDone,
     FoundInvoked, IdleIsEmpty
<1> QED BY <1>3, OnceInit DEF ServiceInv

\* A call that waits keeps its handler and has its request or the reply to it on the way,
\* and so has a request the device may answer, whatever else is sent meanwhile, in callbacks
\* too: while accesses to the map do not go wrong, replies do not overtake the return of
\* SendMessageAsync, and the device keeps to negative codes for its own messages.
THEOREM NobodyIsEverForgotten ==
  ~MapsRace /\ ~PromptDevice /\ NegativeCodesOnly => (Spec => []NobodyIsForgotten)
<1> SUFFICES ASSUME ~MapsRace, ~PromptDevice, NegativeCodesOnly
             PROVE  Spec => []NobodyIsForgotten
  OBVIOUS
<1> DEFINE Inv == ServiceInv({})
<1>1. Init => Inv
  BY ServiceInit
<1>2. Inv /\ [Next]_vars => Inv'
  <2>1. Inv => OwnReplyOnly
    BY OwnReply DEF ServiceInv, OnceInv, OwnReplyOnly
  <2> QED BY <2>1, ServiceStep
<1>3. Inv => NobodyIsForgotten
  <2> SUFFICES ASSUME Inv PROVE NobodyIsForgotten
    OBVIOUS
  <2>1. WaitingCallIsServed
    BY DEF ServiceInv, OnTheWay, HandlersStay, HasHandler, Served, Asked, Replied, Pending,
       Queued,
       Arriving, Elems, WaitingCallIsServed
  <2>2. RequestsKeepTheirHandler
    BY DEF ServiceInv, OnTheWay, HandlersStay, HasHandler, Inserting, SentOnce, Pending,
       RequestsKeepTheirHandler
  <2> QED BY <2>1, <2>2 DEF NobodyIsForgotten
<1> QED
  <2> HIDE DEF Inv
  <2> QED BY <1>1, <1>2, <1>3, PTL DEF Spec

-----------------------------------------------------------------------------
(* Channels: messages go to the handlers of open channels, and not to those of channels  *)
(* that have been canceled, for any threads that make and cancel them.                   *)

\* A channel that is being made has a code of its own, which is in the map once it has
\* been inserted and until the channel is canceled.
Making(c) == pc[c] # "idle" /\ call[c].op = "make"
MakingOK ==
  /\ \A c \in Threads : Making(c) =>
       /\ call[c].target < next_channel_code_ /\ call[c].target \notin opened
       /\ pc[c] # "open" => call[c].target \in channels_by_code_ \cup canceled
  /\ \A c, d \in Threads : c # d /\ Making(c) /\ Making(d) => call[c].target # call[d].target

\* Only channels that are open are canceled, at the end of Cancel.
CancelingOK ==
  /\ \A c \in Threads : pc[c] # "idle" /\ call[c].op = "cancel" => call[c].target \in opened
  /\ \A c \in Threads : pc[c] = "open" => call[c].op = "make"
  /\ \A c \in Threads : pc[c] = "close" => call[c].op = "cancel"

\* The map has the open channels that have not been canceled, and no canceled one.
OpenOK ==
  /\ opened \subseteq channels_by_code_ \cup canceled
  /\ \A code \in opened : code < next_channel_code_
  /\ canceled \subseteq opened /\ canceled \cap channels_by_code_ = {}

ChannelInv == TypeInv /\ MakingOK /\ CancelingOK /\ OpenOK

LEMMA ChannelInit == Init => ChannelInv
<1> SUFFICES ASSUME Init PROVE ChannelInv
  OBVIOUS
<1>1. MakingOK /\ CancelingOK /\ OpenOK
  BY DEF Init, MakingOK, Making, CancelingOK, OpenOK
<1> QED BY <1>1, TypeInit DEF ChannelInv

\* A call begins.
LEMMA ChannelStart ==
  ASSUME ChannelInv, NEW c \in Threads, Start(c)
  PROVE  MakingOK' /\ CancelingOK' /\ OpenOK'
<1>0. /\ pc \in [Threads -> Labels] /\ call \in [Threads -> CallType]
      /\ next_channel_code_ \in Nat /\ opened \subseteq Nat
  BY DEF ChannelInv, TypeInv, TypeOK
<1>1. ASSUME NEW op, NEW chan, NEW t, Send(c, op, chan, t)
      PROVE  MakingOK' /\ CancelingOK' /\ OpenOK'
  <2>1. /\ UNCHANGED <<next_channel_code_, opened, canceled, channels_by_code_>>
        /\ \A d \in Threads \ {c} : pc'[d] = pc[d] /\ call'[d] = call[d]
        /\ pc'[c] = "fetch" /\ call'[c].op \notin {"make", "cancel"}
    BY <1>0, <1>1 DEF Send, Begin, NewCall
  <2> QED BY <2>1 DEF ChannelInv, MakingOK, Making, CancelingOK, OpenOK
<1>2. CASE MakeChannel(c)
  <2>1. /\ UNCHANGED <<opened, canceled, channels_by_code_>>
        /\ next_channel_code_' = next_channel_code_ + 1
        /\ \A d \in Threads \ {c} : pc'[d] = pc[d] /\ call'[d] = call[d]
        /\ pc'[c] = "open" /\ call'[c].op = "make" /\ call'[c].target = next_channel_code_
    BY <1>0, <1>2 DEF MakeChannel, Begin, NewCall
  <2>2. \A n \in Nat : n < next_channel_code_ => n < next_channel_code_' /\ n # next_channel_code_
    BY <1>0, <2>1
  <2>3. \A d \in Threads : call[d].target \in Nat
    BY <1>0 DEF CallType
  <2>4. next_channel_code_ < next_channel_code_' /\ next_channel_code_ \notin opened
    BY <1>0, <2>1, <2>2 DEF ChannelInv, OpenOK
  <2>5. MakingOK'
    BY <2>1, <2>2, <2>3, <2>4 DEF ChannelInv, MakingOK, Making
  <2>6. CancelingOK'
    BY <2>1 DEF ChannelInv, CancelingOK
  <2>7. OpenOK'
    BY <1>0, <2>1, <2>2 DEF ChannelInv, OpenOK
  <2> QED BY <2>5, <2>6, <2>7
<1>3. ASSUME NEW code \in opened, SetMessageHandler(c, code)
      PROVE  MakingOK' /\ CancelingOK' /\ OpenOK'
  BY <1>3 DEF SetMessageHandler, ChannelInv, MakingOK, Making, CancelingOK, OpenOK
<1>4. ASSUME NEW code \in opened, CancelChannel(c, code)
      PROVE  MakingOK' /\ CancelingOK' /\ OpenOK'
  <2>1. /\ UNCHANGED <<next_channel_code_, opened, canceled, channels_by_code_>>
        /\ \A d \in Threads \ {c} : pc'[d] = pc[d] /\ call'[d] = call[d]
        /\ pc'[c] = "fetch" /\ call'[c].op = "cancel" /\ call'[c].target = code
    BY <1>0, <1>4 DEF CancelChannel, Begin, NewCall
  <2> QED BY <2>1 DEF ChannelInv, MakingOK, Making, CancelingOK, OpenOK
<1> QED BY <1>1, <1>2, <1>3, <1>4 DEF Start

\* A call goes on, or gives up.
LEMMA ChannelContinue ==
  ASSUME ChannelInv, ~MapsRace, NEW c \in Threads, Continue(c) \/ WaitExpires(c)
  PROVE  MakingOK' /\ CancelingOK' /\ OpenOK'
<1>0. pc \in [Threads -> Labels] /\ call \in [Threads -> CallType]
  BY DEF ChannelInv, TypeInv, TypeOK
<1> DEFINE t == call[c].target
<1>1. CASE InsertChannel(c)
  <2>1. /\ UNCHANGED <<next_channel_code_, opened, canceled, call>>
        /\ channels_by_code_' = channels_by_code_ \cup {t}
        /\ \A d \in Threads \ {c} : pc'[d] = pc[d]
        /\ pc[c] = "open" /\ pc'[c] = "fetch"
    BY <1>0, <1>1 DEF InsertChannel, Goto
  <2>2. t \notin opened
    BY <2>1 DEF ChannelInv, CancelingOK, MakingOK, Making
  <2> QED BY <2>1, <2>2 DEF ChannelInv, MakingOK, Making, CancelingOK, OpenOK
<1>2. CASE FetchIdentifier(c)
  <2>1. /\ UNCHANGED <<next_channel_code_, opened, canceled, channels_by_code_>>
        /\ \A d \in Threads \ {c} : pc'[d] = pc[d] /\ call'[d] = call[d]
        /\ pc[c] = "fetch" /\ pc'[c] = "push"
        /\ call'[c].op = call[c].op /\ call'[c].target = call[c].target
    BY <1>0, <1>2 DEF FetchIdentifier, Begin, Numbered
  <2> QED BY <2>1 DEF ChannelInv, MakingOK, Making, CancelingOK, OpenOK
<1>3. CASE PushRequest(c) \/ InsertHandler(c)
  <2>1. /\ UNCHANGED <<next_channel_code_, opened, canceled, channels_by_code_>>
        /\ \A d \in Threads \ {c} : pc'[d] = pc[d] /\ call'[d] = call[d]
        /\ pc[c] \in {"push", "insert"}
        /\ pc'[c] = "idle" \/ (pc'[c] \in {"insert", "wait"} /\ call'[c] = call[c])
    BY <1>0, <1>3 DEF PushRequest, InsertHandler, Goto, Return
  <2> QED BY <2>1 DEF ChannelInv, MakingOK, Making, CancelingOK, OpenOK
<1>4. CASE GetResponse(c) \/ WaitExpires(c)
  <2>1. /\ UNCHANGED <<next_channel_code_, canceled, channels_by_code_>>
        /\ \A d \in Threads \ {c} : pc'[d] = pc[d] /\ call'[d] = call[d]
        /\ pc[c] = "wait"
        /\ \/ pc'[c] = "idle"
           \/ pc'[c] = "close" /\ call[c].op = "cancel" /\ call'[c] = call[c]
        /\ opened' = opened \cup (IF call[c].op = "make" THEN {t} ELSE {})
    BY <1>0, <1>4 DEF GetResponse, WaitExpires, Resume, Goto, Return
  <2>2. CASE call[c].op = "make"
    <3>1. /\ Making(c) /\ pc'[c] = "idle" /\ opened' = opened \cup {t}
          /\ t < next_channel_code_ /\ t \in channels_by_code_ \cup canceled
      BY <2>1, <2>2 DEF ChannelInv, MakingOK, Making
    <3>2. \A d \in Threads \ {c} : Making(d) => call[d].target # t
      BY <3>1 DEF ChannelInv, MakingOK
    <3>3. MakingOK'
      BY <2>1, <3>1, <3>2 DEF ChannelInv, MakingOK, Making
    <3> QED BY <2>1, <3>1, <3>3 DEF ChannelInv, CancelingOK, OpenOK
  <2>3. CASE call[c].op # "make"
    BY <2>1, <2>3 DEF ChannelInv, MakingOK, Making, CancelingOK, OpenOK
  <2> QED BY <2>2, <2>3
<1>5. CASE EraseChannel(c)
  <2>1. /\ UNCHANGED <<next_channel_code_, opened>>
        /\ channels_by_code_' = channels_by_code_ \ {t} /\ canceled' = canceled \cup {t}
        /\ \A d \in Threads \ {c} : pc'[d] = pc[d] /\ call'[d] = call[d]
        /\ pc[c] = "close" /\ pc'[c] = "idle"
    BY <1>0, <1>5 DEF EraseChannel, ChannelsWithout, Return
  <2>2. t \in opened
    BY <2>1 DEF ChannelInv, CancelingOK
  <2> QED BY <2>1, <2>2 DEF ChannelInv, MakingOK, Making, CancelingOK, OpenOK
<1> QED BY <1>1, <1>2, <1>3, <1>4, <1>5 DEF Continue

LEMMA ChannelStep == ~MapsRace /\ ChannelInv /\ [Next]_vars => ChannelInv'
<1> SUFFICES ASSUME ~MapsRace, ChannelInv, [Next]_vars PROVE MakingOK' /\ CancelingOK' /\ OpenOK'
  BY TypeStep DEF ChannelInv
<1>1. ASSUME NEW c \in Threads, Start(c) \/ Continue(c) \/ WaitExpires(c)
      PROVE  MakingOK' /\ CancelingOK' /\ OpenOK'
  BY <1>1, ChannelStart, ChannelContinue
<1>2. CASE UNCHANGED <<next_channel_code_, channels, callers>>
  BY <1>2 DEF ChannelInv, MakingOK, Making, CancelingOK, OpenOK
<1>3. CASE Parse
  BY <1>2, <1>3 DEF Parse, TakePacket, LookupHandler, InvokeHandler, EraseHandler, LookupChannel,
     InvokeChannelHandler, CallbackReturns, FetchReplyIdentifier, PushReply, FinishBatch
<1>4. CASE \/ Transmit \/ DeviceReplies \/ UNCHANGED vars
           \/ \E code \in UnsolicitedCodes, id \in DeviceIdentifiers, expects \in BOOLEAN :
                DeviceSend(code, id, expects)
  BY <1>2, <1>4 DEF Transmit, DeviceReplies, DeviceReply, DeviceSend, vars
<1> QED BY <1>1, <1>3, <1>4 DEF Next

\* RouteMessage leaves the lookup in channels_by_code_ by that lookup only.
LEMMA LookupOnly ==
  ASSUME [Next]_vars, ppc = "channel", ppc' # "channel"
  PROVE  LookupChannel
<1>1. ASSUME NEW c \in Threads, Start(c) \/ Continue(c) \/ WaitExpires(c)
      PROVE  FALSE
  <2>1. CASE Start(c)
    BY <2>1 DEF Start, Send, MakeChannel, SetMessageHandler, CancelChannel
  <2>2. CASE Continue(c) \/ WaitExpires(c)
    BY <2>2 DEF Continue, InsertChannel, FetchIdentifier, PushRequest, InsertHandler, GetResponse,
       EraseChannel, WaitExpires, Resume
  <2> QED BY <1>1, <2>1, <2>2
<1>2. CASE Parse
  BY <1>2 DEF Parse, TakePacket, LookupHandler, InvokeHandler, EraseHandler,
     InvokeChannelHandler, CallbackReturns, FetchReplyIdentifier, PushReply, FinishBatch
<1>3. ~(\/ Transmit \/ DeviceReplies \/ UNCHANGED vars
        \/ \E code \in UnsolicitedCodes, id \in DeviceIdentifiers, expects \in BOOLEAN :
             DeviceSend(code, id, expects))
  BY DEF Transmit, DeviceReplies, DeviceReply, DeviceSend, vars
<1> QED BY <1>1, <1>2, <1>3 DEF Next

LEMMA ChannelInvariant == ~MapsRace => (Spec => []ChannelInv)
<1> SUFFICES ASSUME ~MapsRace PROVE Spec => []ChannelInv
  OBVIOUS
<1> QED BY ChannelInit, ChannelStep, PTL DEF Spec

\* A message that is routed after Cancel has returned is not handed to the handler of the
\* channel: codes are never used again, and no insert of a channel that is being made, by
\* whatever thread, brings a canceled one back (dtxconnection.cpp:42, 70, 308).
THEOREM CanceledStayQuiet == ~MapsRace => (Spec => CanceledChannelsStayQuiet)
<1> SUFFICES ASSUME ~MapsRace PROVE Spec => CanceledChannelsStayQuiet
  OBVIOUS
<1>1. ASSUME ChannelInv, [Next]_vars
      PROVE  [ppc = "channel" /\ ppc' = "deliver" => Abs(Head(batch).chan) \notin canceled]_vars
  <2> SUFFICES ASSUME ppc = "channel", ppc' = "deliver" PROVE Abs(Head(batch).chan) \notin canceled
    OBVIOUS
  <2>1. LookupChannel
    BY <1>1, LookupOnly
  <2>2. Abs(Head(batch).chan) \in channels_by_code_
    BY <2>1 DEF LookupChannel, ChannelOf, Routed, NextMessage
  <2> QED BY <1>1, <2>2 DEF ChannelInv, OpenOK
<1> QED BY <1>1, ChannelInvariant, PTL DEF Spec, CanceledChannelsStayQuiet

\* A message for an open channel that has a handler is handed to it, whatever the sign of
\* the code it comes under and whatever other channels threads make and cancel meanwhile.
THEOREM OpenChannelsAreServed == ~MapsRace => (Spec => ChannelMessagesAreHandled)
<1> SUFFICES ASSUME ~MapsRace PROVE Spec => ChannelMessagesAreHandled
  OBVIOUS
<1>1. ASSUME ChannelInv, [Next]_vars
      PROVE  [/\ ppc = "channel" /\ ppc' # "channel"
              /\ \E code \in (opened \cap message_handlers) \ canceled : Head(batch).chan \in {code, -code}
              => ppc' = "deliver"]_vars
  <2> SUFFICES ASSUME ppc = "channel", ppc' # "channel",
                      NEW code \in (opened \cap message_handlers) \ canceled,
                      Head(batch).chan \in {code, -code}
               PROVE  ppc' = "deliver"
    OBVIOUS
  <2>1. LookupChannel
    BY <1>1, LookupOnly
  <2>2. code \in Nat
    BY <1>1 DEF ChannelInv, TypeInv, TypeOK
  <2>3. Abs(Head(batch).chan) = code
    BY <2>2 DEF Abs
  <2>4. code \in channels_by_code_ \cap message_handlers
    BY <1>1 DEF ChannelInv, OpenOK
  <2> QED BY <2>1, <2>3, <2>4 DEF LookupChannel, ChannelOf
<1> QED BY <1>1, ChannelInvariant, PTL DEF Spec, ChannelMessagesAreHandled

-----------------------------------------------------------------------------
(* Tickets in queues *)

TicketsApart(s) == \A i, j \in DOMAIN s : s[i].ticket = s[j].ticket => i = j
OriginsApart(s) ==
  \A i, j \in DOMAIN s : s[i].origin > 0 /\ s[i].origin = s[j].origin => i = j

\* The tickets of a queue after its operations.
LEMMA TicketsOf ==
  ASSUME NEW S, NEW s \in Seq(S)
  PROVE  /\ \A x \in S : Tickets(Append(s, x)) = Tickets(s) \cup {x.ticket}
         /\ \A x \in S : TicketsApart(s) /\ x.ticket \notin Tickets(s)
              => TicketsApart(Append(s, x))
         /\ s # <<>> =>
              /\ Tickets(s) = {Head(s).ticket} \cup Tickets(Tail(s))
              /\ TicketsApart(s) => TicketsApart(Tail(s))
                   /\ Head(s).ticket \notin Tickets(Tail(s))
<1>1. DOMAIN s = 1..Len(s) /\ Len(s) \in Nat
  OBVIOUS
<1>2. \A t : Tickets(t) = {m.ticket : m \in Elems(t)}
  BY DEF Tickets, Elems
<1>3. ASSUME NEW x \in S
      PROVE  /\ Tickets(Append(s, x)) = Tickets(s) \cup {x.ticket}
             /\ TicketsApart(s) /\ x.ticket \notin Tickets(s) => TicketsApart(Append(s, x))
  <2>1. /\ DOMAIN Append(s, x) = 1..(Len(s) + 1) /\ Append(s, x)[Len(s) + 1] = x
        /\ \A i \in 1..Len(s) : Append(s, x)[i] = s[i]
        /\ \A i \in 1..(Len(s) + 1) : i \in 1..Len(s) \/ i = Len(s) + 1
        /\ Append(s, x) \in Seq(S)
    BY <1>1
  <2>2. Tickets(Append(s, x)) = Tickets(s) \cup {x.ticket}
    <3>1. Elems(Append(s, x)) = Elems(s) \cup {x}
      BY ElemsOf
    <3>2. Tickets(Append(s, x)) = {m.ticket : m \in Elems(s) \cup {x}}
      BY <1>2, <3>1
    <3> QED BY <1>2, <3>2
  <2>3. ASSUME TicketsApart(s), x.ticket \notin Tickets(s) PROVE TicketsApart(Append(s, x))
    <3>1. \A i \in 1..Len(s) : s[i].ticket # x.ticket
      BY <1>1, <2>3 DEF Tickets
    <3> QED BY <1>1, <2>1, <2>3, <3>1 DEF TicketsApart
  <2> QED BY <2>2, <2>3
<1>4. ASSUME s # <<>>
      PROVE  /\ Tickets(s) = {Head(s).ticket} \cup Tickets(Tail(s))
             /\ TicketsApart(s) =>
                  TicketsApart(Tail(s)) /\ Head(s).ticket \notin Tickets(Tail(s))
  <2>1. /\ Head(s) = s[1] /\ DOMAIN Tail(s) = 1..(Len(s) - 1) /\ 1 \in 1..Len(s)
        /\ \A i \in 1..(Len(s) - 1) :
             Tail(s)[i] = s[i + 1] /\ i + 1 \in 1..Len(s) /\ i + 1 # 1
        /\ \A i, j \in 1..(Len(s) - 1) : i + 1 = j + 1 => i = j
        /\ Tail(s) \in Seq(S)
    BY <1>1, <1>4
  <2>2. Tickets(s) = {Head(s).ticket} \cup Tickets(Tail(s))
    <3>1. Elems(s) = {Head(s)} \cup Elems(Tail(s))
      BY <1>4, ElemsOf
    <3>2. Tickets(s) = {m.ticket : m \in {Head(s)} \cup Elems(Tail(s))}
      BY <1>2, <3>1
    <3> QED BY <1>2, <3>2
  <2>3. ASSUME TicketsApart(s) PROVE TicketsApart(Tail(s))
    BY <1>1, <2>1, <2>3 DEF TicketsApart
  <2>4. ASSUME TicketsApart(s) PROVE Head(s).ticket \notin Tickets(Tail(s))
    BY <1>1, <2>1, <2>4 DEF TicketsApart, Tickets
  <2> QED BY <2>2, <2>3, <2>4
<1> QED BY <1>3, <1>4

\* The origins of messages on their way after they are sent and taken.
LEMMA OriginsOf ==
  ASSUME NEW S, NEW s \in Seq(S)
  PROVE  /\ \A x \in S : Origins(Append(s, x)) = Origins(s) \cup {x.origin}
         /\ \A x \in S : OriginsApart(s) /\ (x.origin > 0 => x.origin \notin Origins(s)) =>
              OriginsApart(Append(s, x))
         /\ s # <<>> => Origins(Tail(s)) \subseteq Origins(s)
         /\ \A t \in Seq(S) : Origins(s \o t) = Origins(s) \cup Origins(t)
         /\ \A n \in 1..Len(s) :
              /\ Origins(s) = Origins(SubSeq(s, 1, n)) \cup Origins(SubSeq(s, n + 1, Len(s)))
              /\ OriginsApart(s) =>
                   /\ OriginsApart(SubSeq(s, n + 1, Len(s)))
                   /\ \A t \in Origins(SubSeq(s, 1, n)) :
                        t > 0 => t \notin Origins(SubSeq(s, n + 1, Len(s)))
<1>1. DOMAIN s = 1..Len(s) /\ Len(s) \in Nat
  OBVIOUS
<1>2. \A t : Origins(t) = {m.origin : m \in Elems(t)}
  BY DEF Origins, Elems
<1>3. /\ \A x \in S : Origins(Append(s, x)) = Origins(s) \cup {x.origin}
      /\ s # <<>> => Origins(Tail(s)) \subseteq Origins(s)
      /\ \A t \in Seq(S) : Origins(s \o t) = Origins(s) \cup Origins(t)
      /\ \A n \in 1..Len(s) :
           Origins(s) = Origins(SubSeq(s, 1, n)) \cup Origins(SubSeq(s, n + 1, Len(s)))
  <2>1. \A x \in S : Elems(Append(s, x)) = Elems(s) \cup {x}
    BY ElemsOf
  <2>2. s # <<>> => Elems(Tail(s)) \subseteq Elems(s)
    BY ElemsOf
  <2>3. \A t \in Seq(S) : Elems(s \o t) = Elems(s) \cup Elems(t)
    BY ElemsOf
  <2>4. \A n \in 1..Len(s) :
          Elems(s) = Elems(SubSeq(s, 1, n)) \cup Elems(SubSeq(s, n + 1, Len(s)))
    BY ElemsOf
  <2>5. \A x \in S : Origins(Append(s, x)) = Origins(s) \cup {x.origin}
    BY <1>2, <2>1
  <2>6. s # <<>> => Origins(Tail(s)) \subseteq Origins(s)
    BY <1>2, <2>2
  <2>7. \A t \in Seq(S) : Origins(s \o t) = Origins(s) \cup Origins(t)
    BY <1>2, <2>3
  <2>8. ASSUME NEW n \in 1..Len(s)
        PROVE  Origins(s) = Origins(SubSeq(s, 1, n)) \cup Origins(SubSeq(s, n + 1, Len(s)))
    BY <1>2, <2>4
  <2> QED BY <2>5, <2>6, <2>7, <2>8
<1>4. ASSUME NEW x \in S, OriginsApart(s), x.origin > 0 => x.origin \notin Origins(s)
      PROVE  OriginsApart(Append(s, x))
  <2>1. /\ DOMAIN Append(s, x) = 1..(Len(s) + 1) /\ Append(s, x)[Len(s) + 1] = x
        /\ \A i \in 1..Len(s) : Append(s, x)[i] = s[i]
        /\ \A i \in 1..(Len(s) + 1) : i \in 1..Len(s) \/ i = Len(s) + 1
    BY <1>1
  <2>2. \A i \in 1..Len(s) : x.origin > 0 => s[i].origin # x.origin
    BY <1>1, <1>4 DEF Origins
  <2> QED BY <1>1, <1>4, <2>1, <2>2 DEF OriginsApart
<1>5. ASSUME NEW n \in 1..Len(s), OriginsApart(s)
      PROVE  /\ OriginsApart(SubSeq(s, n + 1, Len(s)))
             /\ \A t \in Origins(SubSeq(s, 1, n)) :
                  t > 0 => t \notin Origins(SubSeq(s, n + 1, Len(s)))
  <2>1. /\ DOMAIN SubSeq(s, 1, n) = 1..n
        /\ \A i \in 1..n : SubSeq(s, 1, n)[i] = s[i] /\ i \in 1..Len(s)
    BY <1>1
  <2>2. /\ DOMAIN SubSeq(s, n + 1, Len(s)) = 1..(Len(s) - n)
        /\ \A i \in 1..(Len(s) - n) :
             SubSeq(s, n + 1, Len(s))[i] = s[n + i] /\ n + i \in 1..Len(s)
    BY <1>1
  <2>3. /\ \A i, j \in 1..(Len(s) - n) : n + i = n + j => i = j
        /\ \A i \in 1..n, j \in 1..(Len(s) - n) : i # n + j
    BY <1>1
  <2>4. OriginsApart(SubSeq(s, n + 1, Len(s)))
    BY <1>1, <1>5, <2>2, <2>3 DEF OriginsApart
  <2>5. ASSUME NEW i \in 1..n, NEW j \in 1..(Len(s) - n), SubSeq(s, 1, n)[i].origin > 0
        PROVE  SubSeq(s, 1, n)[i].origin # SubSeq(s, n + 1, Len(s))[j].origin
    BY <1>1, <1>5, <2>1, <2>2, <2>3, <2>5 DEF OriginsApart
  <2> DEFINE first == SubSeq(s, 1, n)
             rest == SubSeq(s, n + 1, Len(s))
  <2>6. /\ DOMAIN first = 1..n /\ DOMAIN rest = 1..(Len(s) - n)
        /\ \A i \in 1..n, j \in 1..(Len(s) - n) :
             first[i].origin > 0 => first[i].origin # rest[j].origin
    BY <2>1, <2>2, <2>5
  <2>7. OriginsApart(rest)
    BY <2>4
  <2> HIDE DEF first, rest
  <2>8. \A t \in Origins(first) : t > 0 => t \notin Origins(rest)
    BY <2>6 DEF Origins
  <2> QED BY <2>7, <2>8 DEF first, rest
<1> QED BY <1>3, <1>4, <1>5

-----------------------------------------------------------------------------
(* What a session loses *)

\* Tickets in the send queue, with the device, on the way to the parser, and of messages
\* that are parsed and may be parsed again.
Sending == Tickets(send_queue_)
Owed == {m.ticket : m \in owed}
Replying == Origins(incoming)
Parsed == Origins(batch) \cup Origins(stale)

\* A ticket that nobody knows of but the thread that sends the message.
Fresh(t) == t \in DOMAIN issued /\ t \notin Sending \cup Owed \cup answered \cup lost

\* A message is pushed by one thread, and for the first time.
UnsentIsFresh ==
  /\ \A c \in Threads : pc[c] = "push" => Fresh(call[c].ticket)
  /\ \A c, d \in Threads :
       pc[c] = "push" /\ pc[d] = "push" /\ call[c].ticket = call[d].ticket => c = d
  /\ ppc = "push" =>
       Fresh(found.ticket) /\ \A c \in Threads : pc[c] = "push" => call[c].ticket # found.ticket

\* It is in the queue once, or with the device, and not answered yet.
QueueApart == TicketsApart(send_queue_)
RequestOnce ==
  /\ QueueApart
  /\ Sending \cup Owed \subseteq DOMAIN issued \ (answered \cup lost)
  /\ Sending \cap Owed = {}
  /\ \A m, n \in owed : m.ticket = n.ticket => m = n

\* Its reply is with the transport once, or has been parsed.
RepliesApart == OriginsApart(incoming)
ReplyOnce ==
  /\ RepliesApart
  /\ \A t \in Replying : t > 0 => t \notin Parsed \cup lost
  /\ \A t \in Parsed : t > 0 => t \notin lost

\* What is answered or lost has been issued.
OldTickets ==
  answered \subseteq DOMAIN issued /\ \A t \in lost : t > 0 => t \in DOMAIN issued

TravelsOnce == UnsentIsFresh /\ RequestOnce /\ ReplyOnce /\ OldTickets

StagesOK == stage \in Stages /\ session \in 1..MaxSessions /\ lost \subseteq Int

LostInv == RoutingInv /\ StagesOK /\ TravelsOnce

LEMMA SendingMoves ==
  ASSUME TypeInv
  PROVE  /\ UNCHANGED send_queue_ => UNCHANGED <<Sending, QueueApart>>
         /\ \A x \in OutgoingType : send_queue_' = Append(send_queue_, x) =>
              /\ Sending' = Sending \cup {x.ticket}
              /\ QueueApart /\ x.ticket \notin Sending => QueueApart'
         /\ send_queue_ # <<>> /\ send_queue_' = Tail(send_queue_) =>
              /\ Sending = Sending' \cup {Head(send_queue_).ticket}
              /\ QueueApart => QueueApart' /\ Head(send_queue_).ticket \notin Sending'
         /\ send_queue_' = <<>> => Sending' = {} /\ QueueApart'
<1>0. send_queue_ \in Seq(OutgoingType)
  BY DEF TypeInv, TypeOK
<1>1. Sending' = Tickets(send_queue_') /\ (QueueApart' <=> TicketsApart(send_queue_'))
  BY DEF Sending, Tickets, QueueApart, TicketsApart
<1>2. UNCHANGED send_queue_ => UNCHANGED <<Sending, QueueApart>>
  BY DEF Sending, Tickets, QueueApart, TicketsApart
<1>3. send_queue_' = <<>> => Sending' = {} /\ QueueApart'
  BY DEF Sending, Tickets, QueueApart, TicketsApart
<1>4. ASSUME NEW x \in OutgoingType, send_queue_' = Append(send_queue_, x)
      PROVE  /\ Sending' = Sending \cup {x.ticket}
             /\ QueueApart /\ x.ticket \notin Sending => QueueApart'
  BY <1>0, <1>1, <1>4, TicketsOf DEF Sending, QueueApart
<1>5. ASSUME send_queue_ # <<>>, send_queue_' = Tail(send_queue_)
      PROVE  /\ Sending = Sending' \cup {Head(send_queue_).ticket}
             /\ QueueApart => QueueApart' /\ Head(send_queue_).ticket \notin Sending'
  BY <1>0, <1>1, <1>5, TicketsOf DEF Sending, QueueApart
<1> QED BY <1>2, <1>3, <1>4, <1>5

LEMMA ReplyingMoves ==
  ASSUME TypeInv
  PROVE  /\ UNCHANGED incoming => UNCHANGED <<Replying, RepliesApart>>
         /\ UNCHANGED <<batch, stale>> => UNCHANGED Parsed
         /\ batch # <<>> /\ NextMessage => Parsed' \subseteq Parsed
         /\ \A x \in IncomingType : incoming' = Append(incoming, x) =>
              /\ Replying' = Replying \cup {x.origin}
              /\ RepliesApart /\ (x.origin > 0 => x.origin \notin Replying) => RepliesApart'
         /\ \A n \in 1..Len(incoming) : TakePacket(n) /\ RepliesApart =>
              /\ RepliesApart' /\ Replying' \subseteq Replying
              /\ Parsed' \subseteq Parsed \cup Replying
              /\ \A t \in Replying' : t > 0 => t \notin Parsed' \ Parsed
         /\ incoming' = <<>> => Replying' = {} /\ RepliesApart'
<1>0. /\ incoming \in Seq(IncomingType) /\ batch \in Seq(IncomingType)
      /\ stale \in Seq(IncomingType)
  BY DEF TypeInv, TypeOK
<1>1. /\ Replying' = Origins(incoming') /\ (RepliesApart' <=> OriginsApart(incoming'))
      /\ Parsed' = Origins(batch') \cup Origins(stale')
  BY DEF Replying, Origins, RepliesApart, OriginsApart, Parsed
<1>2. /\ UNCHANGED incoming => UNCHANGED <<Replying, RepliesApart>>
      /\ UNCHANGED <<batch, stale>> => UNCHANGED Parsed
      /\ incoming' = <<>> => Replying' = {} /\ RepliesApart'
  BY DEF Replying, Origins, RepliesApart, OriginsApart, Parsed
<1>3. ASSUME batch # <<>>, NextMessage PROVE Parsed' \subseteq Parsed
  BY <1>0, <1>1, <1>3, OriginsOf DEF NextMessage, Parsed
<1>4. ASSUME NEW x \in IncomingType, incoming' = Append(incoming, x)
      PROVE  /\ Replying' = Replying \cup {x.origin}
             /\ RepliesApart /\ (x.origin > 0 => x.origin \notin Replying) => RepliesApart'
  BY <1>0, <1>1, <1>4, OriginsOf DEF Replying, RepliesApart
<1>5. ASSUME NEW n \in 1..Len(incoming), TakePacket(n), RepliesApart
      PROVE  /\ RepliesApart' /\ Replying' \subseteq Replying
             /\ Parsed' \subseteq Parsed \cup Replying
             /\ \A t \in Replying' : t > 0 => t \notin Parsed' \ Parsed
  <2> DEFINE first == SubSeq(incoming, 1, n)
             rest == SubSeq(incoming, n + 1, Len(incoming))
  <2>1. /\ batch' = stale \o first /\ incoming' = rest /\ stale' \in {batch', <<>>}
        /\ first \in Seq(IncomingType)
    BY <1>0, <1>5 DEF TakePacket
  <2>2. /\ Replying = Origins(first) \cup Origins(rest) /\ OriginsApart(rest)
        /\ \A t \in Origins(first) : t > 0 => t \notin Origins(rest)
    BY <1>0, <1>5, OriginsOf DEF Replying, RepliesApart
  <2> HIDE DEF first, rest
  <2>3. Origins(batch') = Origins(stale) \cup Origins(first)
    BY <1>0, <2>1, OriginsOf
  <2>4. Origins(<<>>) = {}
    BY DEF Origins
  <2>5. Parsed' = Origins(stale) \cup Origins(first)
    BY <1>1, <2>1, <2>3, <2>4
  <2> QED BY <1>1, <2>1, <2>2, <2>5 DEF Parsed
<1> QED BY <1>2, <1>3, <1>4, <1>5

\* Steps that send nothing, take nothing and lose nothing.
LEMMA LostFrame ==
  ASSUME TravelsOnce,
         UNCHANGED <<Sending, QueueApart, Replying, RepliesApart, owed, answered, lost>>,
         DOMAIN issued \subseteq DOMAIN issued', Parsed' \subseteq Parsed,
         \A c \in Threads : pc'[c] = "push" => pc[c] = "push" /\ call'[c] = call[c],
         ppc' = "push" => ppc = "push" /\ UNCHANGED found
  PROVE  TravelsOnce'
<1>1. UNCHANGED Owed
  BY DEF Owed
<1>2. \A t : Fresh(t) => Fresh(t)'
  BY <1>1 DEF Fresh
<1>3. UnsentIsFresh'
  <2>1. \A c \in Threads : \A t : pc'[c] = "push" /\ t = call'[c].ticket => Fresh(t)'
    BY <1>2 DEF TravelsOnce, UnsentIsFresh
  <2>2. \A t : ppc' = "push" /\ t = found'.ticket => Fresh(t)'
    BY <1>2 DEF TravelsOnce, UnsentIsFresh
  <2> QED BY <2>1, <2>2 DEF TravelsOnce, UnsentIsFresh, Fresh
<1>4. RequestOnce' /\ ReplyOnce' /\ OldTickets'
  BY <1>1 DEF TravelsOnce, RequestOnce, ReplyOnce, OldTickets
<1> QED BY <1>3, <1>4 DEF TravelsOnce

\* A new ticket is fresh.
LEMMA NewTicket ==
  ASSUME TypeInv, TravelsOnce, issued' = Append(issued, next_msg_identifier_),
         UNCHANGED <<Sending, Owed, answered, lost>>
  PROVE  /\ DOMAIN issued \subseteq DOMAIN issued'
         /\ \A t : t = Len(issued) + 1 => t \notin DOMAIN issued /\ Fresh(t)'
<1>1. issued \in Seq(Nat) /\ next_msg_identifier_ \in Nat
  BY DEF TypeInv, TypeOK
<1>2. /\ Len(issued) \in Nat /\ DOMAIN issued = 1..Len(issued)
      /\ DOMAIN issued' = 1..(Len(issued) + 1)
  BY <1>1
<1>3. DOMAIN issued \subseteq DOMAIN issued'
  BY <1>2
<1>4. ASSUME NEW t, t = Len(issued) + 1
      PROVE  t \in DOMAIN issued' /\ t \notin DOMAIN issued /\ t > 0
  BY <1>2, <1>4
<1>5. ASSUME NEW t, t = Len(issued) + 1
      PROVE  t \notin Sending \cup Owed \cup answered \cup lost
  BY <1>4, <1>5 DEF TravelsOnce, RequestOnce, OldTickets
<1> QED BY <1>3, <1>4, <1>5 DEF Fresh

\* The steps of a thread that sends.
LEMMA LostCaller ==
  ASSUME RoutingInv, TravelsOnce, NEW c \in Threads, Start(c) \/ Continue(c) \/ WaitExpires(c),
         UNCHANGED lost
  PROVE  TravelsOnce'
<1>0. /\ TypeInv /\ pc \in [Threads -> Labels] /\ call \in [Threads -> CallType]
      /\ issued \in Seq(Nat)
  BY DEF RoutingInv, TypeInv, TypeOK
<1>1. /\ UNCHANGED <<ppc, found, batch, stale, incoming, owed, answered>>
      /\ \A d \in Threads \ {c} : pc'[d] = pc[d] /\ call'[d] = call[d]
  BY <1>0, CallerFrame
<1>2. UNCHANGED <<Owed, Replying, RepliesApart, Parsed>>
  BY <1>0, <1>1, ReplyingMoves DEF Owed
<1>3. CASE FetchIdentifier(c)
  <2>1. /\ call'[c].ticket = Len(issued) + 1 /\ pc'[c] = "push"
        /\ issued' = Append(issued, next_msg_identifier_) /\ UNCHANGED send_queue_
    BY <1>0, <1>3 DEF FetchIdentifier, Begin, Numbered
  <2>2. UNCHANGED <<Sending, QueueApart>>
    BY <1>0, <2>1, SendingMoves
  <2>3. /\ DOMAIN issued \subseteq DOMAIN issued'
        /\ \A t : t = call'[c].ticket => t \notin DOMAIN issued /\ Fresh(t)'
    BY <1>0, <1>1, <1>2, <2>1, <2>2, NewTicket
  <2>4. \A t : Fresh(t) => Fresh(t)' /\ t # call'[c].ticket
    BY <1>1, <1>2, <2>2, <2>3 DEF Fresh
  <2>5. \A d \in Threads : \A t : pc'[d] = "push" /\ t = call'[d].ticket => Fresh(t)'
    BY <1>1, <2>3, <2>4 DEF TravelsOnce, UnsentIsFresh, Fresh
  <2>6. \A t : ppc' = "push" /\ t = found'.ticket => Fresh(t)' /\ t # call'[c].ticket
    BY <1>1, <2>4 DEF TravelsOnce, UnsentIsFresh
  <2>7. \A d \in Threads \ {c} : pc'[d] = "push" => call'[d].ticket # call'[c].ticket
    BY <1>1, <2>4 DEF TravelsOnce, UnsentIsFresh
  <2>8. UnsentIsFresh'
    BY <1>1, <2>5, <2>6, <2>7 DEF TravelsOnce, UnsentIsFresh, Fresh
  <2>9. RequestOnce' /\ ReplyOnce' /\ OldTickets'
    BY <1>1, <1>2, <2>2, <2>3 DEF TravelsOnce, RequestOnce, ReplyOnce, OldTickets
  <2> QED BY <2>8, <2>9 DEF TravelsOnce
<1>4. CASE PushRequest(c)
  <2>1. /\ send_queue_' = Append(send_queue_, Outgoing(call[c])) /\ UNCHANGED issued
        /\ pc[c] = "push" /\ pc'[c] # "push" /\ Outgoing(call[c]).ticket = call[c].ticket
    BY <1>0, <1>4 DEF PushRequest, Goto, Return, Outgoing
  <2>2. Outgoing(call[c]) \in OutgoingType
    BY <1>0 DEF Outgoing, OutgoingType, CallType, HasCallback
  <2>3. Fresh(call[c].ticket)
    BY <2>1 DEF TravelsOnce, UnsentIsFresh
  <2>4. Sending' = Sending \cup {call[c].ticket} /\ QueueApart'
    BY <1>0, <2>1, <2>2, <2>3, SendingMoves DEF TravelsOnce, RequestOnce, Fresh
  <2>5. \A t : Fresh(t) /\ t # call[c].ticket => Fresh(t)'
    BY <1>1, <1>2, <2>1, <2>4 DEF Fresh
  <2>6. \A d \in Threads : \A t : pc'[d] = "push" /\ t = call'[d].ticket => Fresh(t)'
    BY <1>1, <2>1, <2>5 DEF TravelsOnce, UnsentIsFresh
  <2>7. \A t : ppc' = "push" /\ t = found'.ticket => Fresh(t)'
    BY <1>1, <2>1, <2>5 DEF TravelsOnce, UnsentIsFresh
  <2>8. UnsentIsFresh'
    BY <1>1, <2>1, <2>6, <2>7 DEF TravelsOnce, UnsentIsFresh, Fresh
  <2>9. RequestOnce' /\ ReplyOnce' /\ OldTickets'
    BY <1>1, <1>2, <2>1, <2>3, <2>4 DEF TravelsOnce, RequestOnce, ReplyOnce, OldTickets, Fresh
  <2> QED BY <2>8, <2>9 DEF TravelsOnce
<1>5. CASE ~FetchIdentifier(c) /\ ~PushRequest(c)
  <2>1. /\ UNCHANGED <<issued, send_queue_>>
        /\ pc'[c] # "push"
    BY <1>0, <1>5, CallerFrame
  <2>2. UNCHANGED <<Sending, QueueApart>>
    BY <1>0, <2>1, SendingMoves
  <2> QED BY <1>1, <1>2, <2>1, <2>2, LostFrame
<1> QED BY <1>3, <1>4, <1>5

\* A reply is the first one to its request.
LEMMA FirstReply ==
  ASSUME RoutingInv, TravelsOnce, NEW t \in Replying \cup Parsed, t > 0
  PROVE  t \in answered
<1>1. PICK m \in Coming : m.origin = t
  BY DEF Replying, Parsed, Origins, Coming, Arriving, Elems
<1>2. Coming \subseteq Genuine
  BY DEF RoutingInv, KeysInv, ReplyKeys, Coming, Arriving, Elems
<1>3. m.origin \in Int
  BY <1>1, <1>2 DEF Genuine, IncomingType
<1> QED BY <1>1, <1>2, <1>3 DEF Genuine, GenuineReply

\* The steps of the send thread and of the device.
LEMMA LostTransmit ==
  ASSUME RoutingInv, TravelsOnce, Transmit, UNCHANGED lost
  PROVE  TravelsOnce'
<1> DEFINE m == Head(send_queue_)
<1>0. TypeInv /\ send_queue_ \in Seq(OutgoingType)
  BY DEF RoutingInv, TypeInv, TypeOK
<1>1. /\ UNCHANGED <<ppc, found, batch, stale, incoming, answered, pc, call, issued>>
      /\ owed' = owed \cup (IF m.expects THEN {m} ELSE {})
      /\ send_queue_ # <<>> /\ send_queue_' = Tail(send_queue_)
  BY DEF Transmit
<1>2. UNCHANGED <<Replying, RepliesApart, Parsed>>
  BY <1>0, <1>1, ReplyingMoves
<1>3. Sending = Sending' \cup {m.ticket} /\ QueueApart' /\ m.ticket \notin Sending'
  BY <1>0, <1>1, SendingMoves DEF TravelsOnce, RequestOnce
<1> HIDE DEF m
<1>4. Owed' \subseteq Owed \cup {m.ticket}
  BY <1>1 DEF Owed
<1>5. \A t : Fresh(t) => Fresh(t)'
  BY <1>1, <1>3, <1>4 DEF Fresh
<1>6. UnsentIsFresh'
  <2>1. \A c \in Threads : \A t : pc'[c] = "push" /\ t = call'[c].ticket => Fresh(t)'
    BY <1>1, <1>5 DEF TravelsOnce, UnsentIsFresh
  <2>2. \A t : ppc' = "push" /\ t = found'.ticket => Fresh(t)'
    BY <1>1, <1>5 DEF TravelsOnce, UnsentIsFresh
  <2> QED BY <1>1, <2>1, <2>2 DEF TravelsOnce, UnsentIsFresh, Fresh
<1>7. RequestOnce'
  <2>1. m.ticket \notin Owed
    BY <1>3 DEF TravelsOnce, RequestOnce
  <2>2. \A k, n \in owed' : k.ticket = n.ticket => k = n
    BY <1>1, <2>1 DEF TravelsOnce, RequestOnce, Owed
  <2> QED BY <1>1, <1>3, <1>4, <2>2 DEF TravelsOnce, RequestOnce
<1>8. ReplyOnce' /\ OldTickets'
  BY <1>1, <1>2 DEF TravelsOnce, ReplyOnce, OldTickets
<1> QED BY <1>6, <1>7, <1>8 DEF TravelsOnce

LEMMA LostReply ==
  ASSUME RoutingInv, TravelsOnce, NEW m \in owed, DeviceReply(m), UNCHANGED lost
  PROVE  TravelsOnce'
<1> DEFINE n == Incoming(m.id, m.chan, m.conv + 1, FALSE, m.ticket)
<1>0. TypeInv /\ m \in OutgoingType
  BY DEF RoutingInv, TypeInv, TypeOK
<1>1. /\ UNCHANGED <<ppc, found, batch, stale, send_queue_, pc, call, issued>>
      /\ owed' = owed \ {m} /\ incoming' = Append(incoming, n)
      /\ answered' = answered \cup {m.ticket}
  BY DEF DeviceReply
<1>2. n \in IncomingType /\ n.origin = m.ticket
  BY <1>0 DEF Incoming, IncomingType, OutgoingType
<1> HIDE DEF n
<1>3. UNCHANGED <<Sending, QueueApart, Parsed>>
  BY <1>0, <1>1, SendingMoves, ReplyingMoves
<1>4. m.ticket \in Owed /\ Owed' \subseteq Owed \ {m.ticket}
  BY <1>1 DEF TravelsOnce, RequestOnce, Owed
<1>5. m.ticket > 0 => m.ticket \notin Replying \cup Parsed \cup lost
  BY <1>4, FirstReply DEF TravelsOnce, RequestOnce
<1>6. Replying' = Replying \cup {m.ticket} /\ RepliesApart'
  BY <1>0, <1>1, <1>2, <1>5, ReplyingMoves DEF TravelsOnce, ReplyOnce
<1>7. \A t : Fresh(t) => Fresh(t)'
  BY <1>1, <1>3, <1>4 DEF Fresh
<1>8. UnsentIsFresh'
  <2>1. \A c \in Threads : \A t : pc'[c] = "push" /\ t = call'[c].ticket => Fresh(t)'
    BY <1>1, <1>7 DEF TravelsOnce, UnsentIsFresh
  <2>2. \A t : ppc' = "push" /\ t = found'.ticket => Fresh(t)'
    BY <1>1, <1>7 DEF TravelsOnce, UnsentIsFresh
  <2> QED BY <1>1, <2>1, <2>2 DEF TravelsOnce, UnsentIsFresh, Fresh
<1>9. RequestOnce' /\ OldTickets'
  BY <1>1, <1>3, <1>4 DEF TravelsOnce, RequestOnce, OldTickets
<1>10. ReplyOnce'
  BY <1>1, <1>3, <1>5, <1>6 DEF TravelsOnce, ReplyOnce
<1> QED BY <1>8, <1>9, <1>10 DEF TravelsOnce

LEMMA LostSend ==
  ASSUME RoutingInv, TravelsOnce, NEW code \in UnsolicitedCodes, NEW id \in DeviceIdentifiers,
         NEW expects \in BOOLEAN, DeviceSend(code, id, expects), UNCHANGED lost
  PROVE  TravelsOnce'
<1> DEFINE n == Incoming(id, code, 0, expects, -unsolicited')
<1>0. TypeInv /\ unsolicited \in Nat
  BY DEF RoutingInv, TypeInv, TypeOK
<1>1. /\ UNCHANGED <<ppc, found, batch, stale, send_queue_, pc, call, issued, owed, answered>>
      /\ incoming' = Append(incoming, n) /\ unsolicited' = unsolicited + 1
  BY DEF DeviceSend
<1>2. n \in IncomingType /\ n.origin \in Int /\ n.origin < 0
  BY <1>0, <1>1, ConstantsAssumption DEF Incoming, IncomingType
<1> HIDE DEF n
<1>3. UNCHANGED <<Sending, QueueApart, Parsed>>
  BY <1>0, <1>1, SendingMoves, ReplyingMoves
<1>4. Replying' = Replying \cup {n.origin} /\ RepliesApart'
  BY <1>0, <1>1, <1>2, ReplyingMoves DEF TravelsOnce, ReplyOnce
<1>5. UNCHANGED Owed /\ \A t : Fresh(t) => Fresh(t)'
  BY <1>1, <1>3 DEF Fresh, Owed
<1>6. UnsentIsFresh' /\ RequestOnce' /\ OldTickets'
  BY <1>1, <1>3, <1>5 DEF TravelsOnce, UnsentIsFresh, RequestOnce, OldTickets, Fresh
<1>7. ReplyOnce'
  BY <1>1, <1>2, <1>3, <1>4 DEF TravelsOnce, ReplyOnce
<1> QED BY <1>6, <1>7 DEF TravelsOnce

\* The steps of the parsing thread.
LEMMA LostTake ==
  ASSUME RoutingInv, TravelsOnce, NEW n \in 1..Len(incoming), TakePacket(n), UNCHANGED lost
  PROVE  TravelsOnce'
<1>0. TypeInv
  BY DEF RoutingInv
<1>1. UNCHANGED <<send_queue_, pc, call, issued, owed, answered>> /\ ppc' = "route"
  BY DEF TakePacket
<1>2. /\ RepliesApart' /\ Replying' \subseteq Replying /\ Parsed' \subseteq Parsed \cup Replying
      /\ \A t \in Replying' : t > 0 => t \notin Parsed' \ Parsed
  BY <1>0, ReplyingMoves DEF TravelsOnce, ReplyOnce
<1>3. UNCHANGED <<Sending, QueueApart, Owed>>
  BY <1>0, <1>1, SendingMoves DEF Owed
<1>4. \A t : Fresh(t) => Fresh(t)'
  BY <1>1, <1>3 DEF Fresh
<1>5. UnsentIsFresh' /\ RequestOnce' /\ OldTickets'
  BY <1>1, <1>3, <1>4 DEF TravelsOnce, UnsentIsFresh, RequestOnce, OldTickets, Fresh
<1>6. ReplyOnce'
  BY <1>2 DEF TravelsOnce, ReplyOnce
<1> QED BY <1>5, <1>6 DEF TravelsOnce

LEMMA LostParse ==
  ASSUME RoutingInv, TravelsOnce, Parse, UNCHANGED lost
  PROVE  TravelsOnce'
<1>0. TypeInv /\ send_queue_ \in Seq(OutgoingType) /\ found \in HandlerType
  BY DEF RoutingInv, TypeInv, TypeOK
<1>1. CASE FetchReplyIdentifier
  <2>1. /\ UNCHANGED <<send_queue_, pc, call, owed, answered, incoming, batch, stale>>
        /\ ppc' = "push" /\ found'.ticket = Len(issued) + 1
        /\ issued' = Append(issued, next_msg_identifier_)
    BY <1>1 DEF FetchReplyIdentifier, Handler
  <2>2. UNCHANGED <<Sending, QueueApart, Owed, Replying, RepliesApart, Parsed>>
    BY <1>0, <2>1, SendingMoves, ReplyingMoves DEF Owed
  <2>3. /\ DOMAIN issued \subseteq DOMAIN issued'
        /\ \A t : t = found'.ticket => t \notin DOMAIN issued /\ Fresh(t)'
    BY <1>0, <2>1, <2>2, NewTicket
  <2>4. \A t : Fresh(t) => Fresh(t)' /\ t # found'.ticket
    BY <2>1, <2>2, <2>3 DEF Fresh
  <2>5. \A d \in Threads : \A t : pc'[d] = "push" /\ t = call'[d].ticket =>
          Fresh(t)' /\ t # found'.ticket
    BY <2>1, <2>4 DEF TravelsOnce, UnsentIsFresh
  <2>6. UnsentIsFresh'
    BY <2>1, <2>3, <2>5 DEF TravelsOnce, UnsentIsFresh, Fresh
  <2>7. RequestOnce' /\ ReplyOnce' /\ OldTickets'
    BY <2>1, <2>2, <2>3 DEF TravelsOnce, RequestOnce, ReplyOnce, OldTickets
  <2> QED BY <2>6, <2>7 DEF TravelsOnce
<1>2. CASE PushReply
  <2> DEFINE reply == Reply(Head(batch), found.id, found.ticket)
  <2>1. /\ UNCHANGED <<pc, call, owed, answered, incoming, issued>>
        /\ ppc = "push" /\ ppc' = "route" /\ NextMessage /\ batch # <<>>
        /\ send_queue_' = Append(send_queue_, reply)
    BY <1>0, <1>2 DEF PushReply, NextMessage, TypeInv, BatchOK
  <2>2. reply \in OutgoingType /\ reply.ticket = found.ticket
    <3>1. Head(batch) \in IncomingType
      BY <1>0, <2>1, HeadComes
    <3> QED BY <1>0, <3>1 DEF Reply, OutgoingType, IncomingType, HandlerType
  <2> HIDE DEF reply
  <2>3. Fresh(found.ticket)
    BY <2>1 DEF TravelsOnce, UnsentIsFresh
  <2>4. Sending' = Sending \cup {found.ticket} /\ QueueApart'
    BY <1>0, <2>1, <2>2, <2>3, SendingMoves DEF TravelsOnce, RequestOnce, Fresh
  <2>5. UNCHANGED <<Owed, Replying, RepliesApart>> /\ Parsed' \subseteq Parsed
    BY <1>0, <2>1, ReplyingMoves DEF Owed
  <2>6. \A t : Fresh(t) /\ t # found.ticket => Fresh(t)'
    BY <2>1, <2>4, <2>5 DEF Fresh
  <2>7. \A d \in Threads : \A t : pc'[d] = "push" /\ t = call'[d].ticket => Fresh(t)'
    BY <2>1, <2>6 DEF TravelsOnce, UnsentIsFresh
  <2>8. UnsentIsFresh'
    BY <2>1, <2>7 DEF TravelsOnce, UnsentIsFresh, Fresh
  <2>9. RequestOnce' /\ ReplyOnce' /\ OldTickets'
    BY <2>1, <2>3, <2>4, <2>5 DEF TravelsOnce, RequestOnce, ReplyOnce, OldTickets, Fresh
  <2> QED BY <2>8, <2>9 DEF TravelsOnce
<1>3. CASE \/ LookupHandler \/ InvokeHandler \/ EraseHandler \/ LookupChannel
           \/ InvokeChannelHandler \/ CallbackReturns \/ FinishBatch
  <2>1. UNCHANGED <<send_queue_, pc, call, owed, answered, incoming, issued>>
    BY <1>3 DEF LookupHandler, InvokeHandler, EraseHandler, LookupChannel, InvokeChannelHandler,
       CallbackReturns, FinishBatch
  <2>2. ppc' # "push" /\ (UNCHANGED <<batch, stale>> \/ (batch # <<>> /\ NextMessage))
    <3>1. CASE LookupHandler \/ InvokeHandler \/ InvokeChannelHandler \/ FinishBatch
      BY <3>1 DEF LookupHandler, InvokeHandler, InvokeChannelHandler, FinishBatch
    <3>2. CASE EraseHandler \/ LookupChannel \/ CallbackReturns
      <4>1. batch # <<>>
        BY <1>0, <3>2 DEF EraseHandler, LookupChannel, CallbackReturns, TypeInv, BatchOK
      <4>2. Routed => ppc' # "push" /\ (UNCHANGED <<batch, stale>> \/ NextMessage)
        BY DEF Routed, NextMessage
      <4> QED BY <3>2, <4>1, <4>2 DEF EraseHandler, LookupChannel, CallbackReturns
    <3> QED BY <1>3, <3>1, <3>2
  <2>3. UNCHANGED <<Sending, QueueApart, Replying, RepliesApart>> /\ Parsed' \subseteq Parsed
    BY <1>0, <2>1, <2>2, SendingMoves, ReplyingMoves
  <2> QED BY <2>1, <2>2, <2>3, LostFrame
<1> QED BY <1>1, <1>2, <1>3, LostTake DEF Parse

\* Tickets that are issued are positive.
LEMMA IssuedTickets ==
  ASSUME TypeInv
  PROVE  \A t \in DOMAIN issued : t \in Nat /\ t > 0
<1>1. issued \in Seq(Nat)
  BY DEF TypeInv, TypeOK
<1> QED BY <1>1

\* Disconnect clears the send queue.
LEMMA LostClear ==
  ASSUME RoutingInv, TravelsOnce, ClearSendQueue
  PROVE  TravelsOnce'
<1>0. TypeInv
  BY DEF RoutingInv
<1>1. /\ UNCHANGED <<ppc, found, batch, stale, incoming, pc, call, issued, owed, answered>>
      /\ send_queue_' = <<>> /\ lost' = lost \cup Sending
  BY DEF ClearSendQueue, QueueCleared, Sending
<1>2. Sending' = {} /\ QueueApart' /\ UNCHANGED <<Owed, Replying, RepliesApart, Parsed>>
  BY <1>0, <1>1, SendingMoves, ReplyingMoves DEF Owed
<1>3. \A t : Fresh(t) => Fresh(t)'
  BY <1>1, <1>2 DEF Fresh
<1>4. UnsentIsFresh'
  <2>1. \A c \in Threads : \A t : pc'[c] = "push" /\ t = call'[c].ticket => Fresh(t)'
    BY <1>1, <1>3 DEF TravelsOnce, UnsentIsFresh
  <2>2. \A t : ppc' = "push" /\ t = found'.ticket => Fresh(t)'
    BY <1>1, <1>3 DEF TravelsOnce, UnsentIsFresh
  <2> QED BY <1>1, <2>1, <2>2 DEF TravelsOnce, UnsentIsFresh, Fresh
<1>5. RequestOnce' /\ OldTickets'
  BY <1>1, <1>2 DEF TravelsOnce, RequestOnce, OldTickets
<1>6. \A t \in Replying \cup Parsed : t > 0 => t \notin Sending
  BY FirstReply DEF TravelsOnce, RequestOnce
<1>7. ReplyOnce'
  BY <1>1, <1>2, <1>6 DEF TravelsOnce, ReplyOnce
<1> QED BY <1>4, <1>5, <1>7 DEF TravelsOnce

\* Packets and the requests of the device go with the transport.
LEMMA LostClose ==
  ASSUME RoutingInv, TravelsOnce, CloseTransport
  PROVE  TravelsOnce'
<1>0. TypeInv
  BY DEF RoutingInv
<1>1. /\ UNCHANGED <<ppc, found, batch, stale, send_queue_, pc, call, issued, answered>>
      /\ incoming' = <<>> /\ owed' = {} /\ lost' = lost \cup Replying \cup Owed
  BY DEF CloseTransport, Replying, Owed
<1>2. /\ Replying' = {} /\ RepliesApart' /\ Owed' = {}
      /\ UNCHANGED <<Sending, QueueApart, Parsed>>
  BY <1>0, <1>1, SendingMoves, ReplyingMoves DEF Owed
<1>3. \A t \in DOMAIN issued : t > 0
  BY <1>0, IssuedTickets
<1>4. \A t \in Replying \cup Parsed : t > 0 => t \in answered
  BY FirstReply
<1>5. \A t : Fresh(t) => Fresh(t)'
  BY <1>1, <1>2, <1>3, <1>4 DEF Fresh
<1>6. UnsentIsFresh'
  <2>1. \A c \in Threads : \A t : pc'[c] = "push" /\ t = call'[c].ticket => Fresh(t)'
    BY <1>1, <1>5 DEF TravelsOnce, UnsentIsFresh
  <2>2. \A t : ppc' = "push" /\ t = found'.ticket => Fresh(t)'
    BY <1>1, <1>5 DEF TravelsOnce, UnsentIsFresh
  <2> QED BY <1>1, <2>1, <2>2 DEF TravelsOnce, UnsentIsFresh, Fresh
<1>7. RequestOnce'
  <2>1. \A t \in Sending : t \notin Replying \cup Owed
    BY <1>3, <1>4 DEF TravelsOnce, RequestOnce
  <2> QED BY <1>1, <1>2, <2>1 DEF TravelsOnce, RequestOnce
<1>8. ReplyOnce'
  <2>1. \A t \in Parsed : t > 0 => t \notin Replying \cup Owed
    BY <1>4 DEF TravelsOnce, RequestOnce, ReplyOnce
  <2> QED BY <1>1, <1>2, <2>1 DEF TravelsOnce, ReplyOnce
<1>9. OldTickets'
  BY <1>1, <1>4 DEF TravelsOnce, OldTickets, RequestOnce
<1> QED BY <1>6, <1>7, <1>8, <1>9 DEF TravelsOnce

\* What Disconnect and Connect do leaves the messages that remain as they are.
LEMMA RoutingSession ==
  ASSUME RoutingInv, Disconnect \/ Connect
  PROVE  RoutingInv'
<1>1. CASE ClearSendQueue \/ CloseTransport
  <2>1. /\ UNCHANGED <<counters, handlers_by_identifier_, channels, callers, parser, issued,
                       invoked, answered, unsolicited, seen>>
        /\ send_queue_' \in {send_queue_, <<>>} /\ incoming' \in {incoming, <<>>}
        /\ owed' \in {owed, {}} /\ awaiting' \in {awaiting, {}}
        /\ deviceChannels' \in {deviceChannels, {}}
    BY <1>1 DEF ClearSendQueue, QueueCleared, CloseTransport
  <2>e. \A S : <<>> \in Seq(S)
    OBVIOUS
  <2>2. TypeInv'
    <3>1. /\ send_queue_' \in Seq(OutgoingType) /\ incoming' \in Seq(IncomingType)
          /\ owed' \subseteq OutgoingType /\ awaiting' \subseteq AwaitedType
          /\ deviceChannels' \subseteq Nat
      BY <2>1, <2>e DEF RoutingInv, TypeInv, TypeOK
    <3> QED BY <2>1, <3>1 DEF RoutingInv, TypeInv, TypeOK, BatchOK
  <2>3. IdentifierInv'
    BY <2>1 DEF RoutingInv, IdentifierInv, IdentifiersIncrease, CounterAhead
  <2>4. KeyedRequests' = KeyedRequests /\ Genuine' = Genuine /\ \A r : Keyed(r) => Keyed(r)'
    BY <2>1 DEF KeyedRequests, Genuine, GenuineReply, Keyed
  <2>5. CallKeys' /\ HandlerKeys' /\ FoundKey'
    BY <2>1 DEF RoutingInv, KeysInv, CallKeys, HandlerKeys, FoundKey, Keyed
  <2>6. RequestKeys'
    <3>1. send_queue_' \in Seq(KeyedRequests') /\ \A m \in owed' : m.expects /\ Keyed(m)
      BY <2>1, <2>4, <2>e DEF RoutingInv, KeysInv, RequestKeys
    <3> QED BY <2>4, <3>1 DEF RequestKeys
  <2>7. ReplyKeys'
    <3>1. {incoming', batch', stale'} \subseteq Seq(Genuine')
      BY <2>1, <2>4, <2>e DEF RoutingInv, KeysInv, ReplyKeys
    <3> QED BY <3>1 DEF ReplyKeys
  <2> QED BY <2>2, <2>3, <2>5, <2>6, <2>7 DEF RoutingInv, KeysInv
<1>2. CASE JoinSendThread \/ JoinReceiveThread \/ JoinParsingThread \/ Connect
  <2>1. UNCHANGED vars
    BY <1>2 DEF JoinSendThread, JoinReceiveThread, JoinParsingThread, Connect, NumbersGoOn, vars
  <2> QED BY <2>1, RoutingStep
<1> QED BY <1>1, <1>2 DEF Disconnect

LEMMA LostStep == LostInv /\ [SessionsNext]_allVars => LostInv'
<1> SUFFICES ASSUME LostInv, [SessionsNext]_allVars PROVE LostInv'
  OBVIOUS
<1>0. RoutingInv /\ TravelsOnce /\ StagesOK
  BY DEF LostInv
<1>1. CASE Work
  <2>1. Next /\ UNCHANGED <<stage, session, lost>>
    BY <1>1 DEF Work, CallerStep, DeviceSends, Next, sessionVars
  <2>2. RoutingInv'
    BY <1>0, <2>1, RoutingStep
  <2>3. TravelsOnce'
    BY <1>0, <2>1, LostCaller, LostTransmit, LostReply, LostSend, LostParse
    DEF Next, DeviceReplies
  <2> QED BY <1>0, <2>1, <2>2, <2>3 DEF LostInv, StagesOK
<1>2. CASE ClearSendQueue
  <2>1. StagesOK'
    <3>1. send_queue_ \in Seq(OutgoingType)
      BY <1>0 DEF RoutingInv, TypeInv, TypeOK
    <3>2. \A i \in DOMAIN send_queue_ : send_queue_[i] \in OutgoingType
      BY <3>1
    <3>3. Tickets(send_queue_) \subseteq Int
      BY <3>2 DEF Tickets, OutgoingType
    <3> QED BY <1>0, <1>2, <3>3 DEF ClearSendQueue, StagesOK, Stages
  <2> QED BY <1>0, <1>2, <2>1, RoutingSession, LostClear DEF LostInv, Disconnect
<1>3. CASE CloseTransport
  <2>1. StagesOK'
    <3>1. incoming \in Seq(IncomingType) /\ owed \subseteq OutgoingType
      BY <1>0 DEF RoutingInv, TypeInv, TypeOK
    <3>2. \A i \in DOMAIN incoming : incoming[i] \in IncomingType
      BY <3>1
    <3>3. Origins(incoming) \subseteq Int
      BY <3>2 DEF Origins, IncomingType
    <3>4. {m.ticket : m \in owed} \subseteq Int
      BY <3>1 DEF OutgoingType
    <3> QED BY <1>0, <1>3, <3>3, <3>4 DEF CloseTransport, StagesOK, Stages
  <2> QED BY <1>0, <1>3, <2>1, RoutingSession, LostClose DEF LostInv, Disconnect
<1>4. CASE JoinSendThread \/ JoinReceiveThread \/ JoinParsingThread \/ Connect
  <2>1. UNCHANGED <<vars, lost>> /\ StagesOK'
    <3>1. UNCHANGED <<vars, lost>>
      BY <1>4 DEF JoinSendThread, JoinReceiveThread, JoinParsingThread, Connect, NumbersGoOn, vars
    <3>2. /\ stage' \in Stages
          /\ session' = session \/ (session < MaxSessions /\ session' = session + 1)
      BY <1>4 DEF JoinSendThread, JoinReceiveThread, JoinParsingThread, Connect, Stages
    <3>3. session' \in 1..MaxSessions
      BY <1>0, <3>2, MaxSessionsAssumption DEF StagesOK
    <3> QED BY <1>0, <3>1, <3>2, <3>3 DEF StagesOK
  <2>2. UNCHANGED <<send_queue_, incoming, batch, stale, owed, answered, issued, pc, call, ppc,
                    found>>
    BY <2>1 DEF vars
  <2>3. UNCHANGED <<Sending, QueueApart, Replying, RepliesApart, Parsed>>
    BY <1>0, <2>2, SendingMoves, ReplyingMoves DEF RoutingInv
  <2>4. TravelsOnce'
    BY <1>0, <2>1, <2>2, <2>3, LostFrame
  <2> QED BY <1>0, <1>4, <2>1, <2>4, RoutingSession DEF LostInv, Disconnect
<1>5. CASE UNCHANGED allVars
  <2>1. UNCHANGED <<vars, stage, session, lost>>
    BY <1>5 DEF allVars, sessionVars
  <2>2. UNCHANGED <<send_queue_, incoming, batch, stale, owed, answered, issued, pc, call, ppc,
                    found>>
    BY <2>1 DEF vars
  <2>3. UNCHANGED <<Sending, QueueApart, Replying, RepliesApart, Parsed>>
    BY <1>0, <2>2, SendingMoves, ReplyingMoves DEF RoutingInv
  <2>4. TravelsOnce'
    BY <1>0, <2>1, <2>2, <2>3, LostFrame
  <2> QED BY <1>0, <2>1, <2>4, RoutingStep DEF LostInv, StagesOK
<1> QED BY <1>1, <1>2, <1>3, <1>4, <1>5 DEF SessionsNext, Disconnect

LEMMA LostInit == SessionsInit => LostInv
<1> SUFFICES ASSUME SessionsInit PROVE LostInv
  OBVIOUS
<1>1. RoutingInv
  BY RoutingInit DEF SessionsInit
<1>2. TravelsOnce
  BY DEF SessionsInit, Init, TravelsOnce, UnsentIsFresh, RequestOnce, QueueApart, TicketsApart,
     Sending, Tickets, Owed, ReplyOnce, RepliesApart, OriginsApart, Replying, Parsed, Origins,
     OldTickets
<1>3. StagesOK
  BY MaxSessionsAssumption DEF SessionsInit, StagesOK, Stages
<1> QED BY <1>1, <1>2, <1>3 DEF LostInv

LEMMA LostInvariant == SessionsSpec => []LostInv
  BY LostInit, LostStep, PTL DEF SessionsSpec

\* A message that is routed to a handler is not one of those that were lost.
LEMMA SessionsInOrder == SessionsSpec /\ []OwnReplyOnly => []SessionsInv
<1>1. LostInv /\ OwnReplyOnly => SessionsInv
  <2> SUFFICES ASSUME LostInv, OwnReplyOnly PROVE SessionsInv
    OBVIOUS
  <2>0. RoutingInv /\ TravelsOnce /\ StagesOK /\ TypeInv
    BY DEF LostInv, RoutingInv
  <2>1. SessionsTypeOK
    BY <2>0 DEF SessionsTypeOK, StagesOK, TypeInv
  <2>2. ASSUME ppc = "invoke" PROVE found.ticket \notin lost
    <3>1. found.ticket = Head(batch).origin /\ found.ticket \in answered
      BY <2>0, <2>2, AnsweredFirst
    <3>2. found.ticket > 0
      BY <2>0, <3>1, IssuedTickets DEF TravelsOnce, OldTickets
    <3>3. batch # <<>> /\ batch \in Seq(IncomingType)
      BY <2>0, <2>2 DEF TypeInv, BatchOK, TypeOK
    <3>4. Head(batch).origin \in Parsed
      BY <3>3 DEF Parsed, Origins
    <3> QED BY <2>0, <3>1, <3>2, <3>4 DEF TravelsOnce, ReplyOnce
  <2>3. LostRequestsStayLost
    <3>1. \A t \in Sending \cup Owed : t \notin lost
      BY <2>0 DEF TravelsOnce, RequestOnce
    <3> QED BY <3>1 DEF LostRequestsStayLost, Sending, Tickets, Owed
  <2> QED BY <2>1, <2>2, <2>3 DEF SessionsInv, LostHandlersStayQuiet
<1> QED BY <1>1, LostInvariant, PTL

\* What a Disconnect clears does not turn up again: neither the requests, in a later
\* session, nor, if the device keeps to negative codes for its own messages, their
\* handlers, which stay in the map.  Also with maps that race, replies that are early and
\* calls that give up.
THEOREM SessionsStayConsistent == NegativeCodesOnly => (SessionsSpec => []SessionsInv)
<1> SUFFICES ASSUME NegativeCodesOnly PROVE SessionsSpec => []SessionsInv
  OBVIOUS
<1>1. LostInv => OwnReplyOnly
  BY OwnReply DEF LostInv, OwnReplyOnly
<1> QED BY <1>1, LostInvariant, SessionsInOrder, PTL

-----------------------------------------------------------------------------
(* Who is stranded *)

\* Disconnect and Connect leave handlers and callers alone.
LEMMA OnceSession ==
  ASSUME OnceInv, Disconnect \/ Connect
  PROVE  OnceInv'
<1>1. UNCHANGED <<handlers_by_identifier_, callers, parser, issued, invoked, answered>>
  BY DEF Disconnect, JoinSendThread, JoinReceiveThread, JoinParsingThread, ClearSendQueue,
     CloseTransport, Connect, vars
<1>2. OneTicketEach' /\ FoundStays' /\ InvokedIsErased'
  BY <1>1 DEF OnceInv, OneTicketEach, FoundStays, InvokedIsErased
<1> QED BY <1>2, RoutingSession DEF OnceInv

\* The messages that a Disconnect takes away are lost, and no others.
LEMMA StrandedSession ==
  ASSUME ServiceInv(lost), ClearSendQueue \/ CloseTransport
  PROVE  ServiceInv(lost)'
<1>0. TypeInv /\ OnceInv'
  BY OnceSession DEF ServiceInv, OnceInv, RoutingInv, Disconnect
<1>1. /\ UNCHANGED <<handlers_by_identifier_, pc, call, ppc, batch, found, stale, issued,
                     invoked, answered>>
      /\ \/ send_queue_' = <<>> /\ UNCHANGED <<incoming, owed>>
         \/ incoming' = <<>> /\ owed' = {} /\ UNCHANGED send_queue_
      /\ lost \subseteq lost'
  BY DEF ClearSendQueue, QueueCleared, CloseTransport
<1>2. /\ Pending' \subseteq Pending /\ Arriving' \subseteq Arriving /\ Coming' \subseteq Coming
      /\ Queued' \subseteq Queued /\ owed' \subseteq owed
  <2>1. /\ Elems(send_queue_)' \subseteq Elems(send_queue_)
        /\ Elems(incoming)' \subseteq Elems(incoming)
        /\ Elems(batch)' = Elems(batch) /\ Elems(stale)' = Elems(stale)
    BY <1>1 DEF Elems
  <2> QED BY <1>1, <2>1 DEF Pending, Queued, Arriving, Coming
<1>3. /\ \A m \in Pending : m \in Pending' \/ m.ticket \in lost'
      /\ \A m \in Arriving : m \in Arriving' \/ m.origin \in lost'
  <2>1. CASE ClearSendQueue
    <3>1. UNCHANGED <<incoming, batch, owed>> /\ lost' = lost \cup Tickets(send_queue_)
      BY <2>1 DEF ClearSendQueue
    <3>2. UNCHANGED Arriving
      BY <1>0, <3>1, MessagesMove
    <3> QED BY <3>1, <3>2 DEF Pending, Queued, Elems, Tickets
  <2>2. CASE CloseTransport
    <3>1. /\ UNCHANGED <<send_queue_, batch>>
          /\ lost' = lost \cup Origins(incoming) \cup {m.ticket : m \in owed}
      BY <2>2 DEF CloseTransport
    <3>2. UNCHANGED Queued /\ Elems(batch)' = Elems(batch)
      BY <1>0, <3>1, QueueMoves DEF Elems
    <3> QED BY <3>1, <3>2 DEF Pending, Arriving, Elems, Origins
  <2> QED BY <2>1, <2>2
<1>4. SentOnce'
  <2>1. Once(send_queue_)'
    BY <1>1 DEF ServiceInv, OnTheWay, SentOnce, Once
  <2> QED BY <1>1, <1>2, <2>1 DEF ServiceInv, OnTheWay, SentOnce
<1>5. SameChannel'
  <2>1. \A t, chan : Travels(t, chan) => Travels(t, chan)'
    BY <1>2 DEF Travels
  <2>2. \A h \in handlers_by_identifier_' : Travels(h.ticket, h.chan)'
    BY <1>1, <2>1 DEF ServiceInv, OnTheWay, SameChannel
  <2>3. \A c \in Threads : \A t, chan :
          pc'[c] = "insert" /\ t = call'[c].ticket /\ chan = call'[c].chan => Travels(t, chan)'
    BY <1>1, <2>1 DEF ServiceInv, OnTheWay, SameChannel
  <2> QED BY <2>2, <2>3 DEF SameChannel, Travels
<1>6. HandlersStay'
  BY <1>1, <1>2 DEF ServiceInv, OnTheWay, HandlersStay, HasHandler, Inserting
<1>7. Served(lost)'
  <2>1. \A t : Asked(t) => Asked(t)' \/ t \in lost'
    BY <1>3 DEF Asked
  <2>2. \A t : Replied(t) => Replied(t)' \/ t \in lost'
    BY <1>3 DEF Replied
  <2>3. \A c \in Threads : \A t : pc'[c] = "insert" /\ t = call'[c].ticket =>
          Asked(t)' \/ t \in lost'
    BY <1>1, <2>1 DEF ServiceInv, OnTheWay, Served
  <2>4. \A c \in Threads : \A t : pc'[c] = "wait" /\ t = call'[c].ticket /\ t \notin invoked' =>
          Asked(t)' \/ Replied(t)' \/ t \in lost'
    BY <1>1, <2>1, <2>2 DEF ServiceInv, OnTheWay, Served
  <2> QED BY <2>3, <2>4 DEF Served, Asked, Replied
<1>8. RoutedIsDone' /\ FoundInvoked' /\ IdleIsEmpty'
  BY <1>1 DEF ServiceInv, OnTheWay, RoutedIsDone, FoundInvoked, IdleIsEmpty
<1> QED BY <1>0, <1>4, <1>5, <1>6, <1>7, <1>8 DEF ServiceInv, OnTheWay

LEMMA StrandedStep ==
  ASSUME ~MapsRace, ~PromptDevice, OwnReplyOnly, ServiceInv(lost), [SessionsNext]_allVars
  PROVE  ServiceInv(lost)'
<1>1. CASE ClearSendQueue \/ CloseTransport
  BY <1>1, StrandedSession
<1>2. CASE ~(ClearSendQueue \/ CloseTransport)
  <2>1. [Next]_vars /\ UNCHANGED lost
    <3>1. Work => Next /\ UNCHANGED lost
      BY DEF Work, CallerStep, DeviceSends, Next, sessionVars
    <3>2. JoinSendThread \/ JoinReceiveThread \/ JoinParsingThread \/ Connect =>
            UNCHANGED <<vars, lost>>
      BY DEF JoinSendThread, JoinReceiveThread, JoinParsingThread, Connect, NumbersGoOn, vars
    <3>3. UNCHANGED allVars => UNCHANGED <<vars, lost>>
      BY DEF allVars, sessionVars
    <3> QED BY <1>2, <3>1, <3>2, <3>3 DEF SessionsNext, Disconnect
  <2>2. PICK gone : gone = lost
    OBVIOUS
  <2>3. ServiceInv(gone)
    BY <2>2 DEF ServiceInv, OnTheWay, Served
  <2>4. ServiceInv(gone)'
    BY <2>1, <2>3, ServiceStep
  <2> QED BY <2>1, <2>2, <2>4 DEF ServiceInv, OnTheWay, Served
<1> QED BY <1>1, <1>2

\* Nobody waits for a message that is neither on its way nor lost with a session that a
\* Disconnect has ended, whatever the callbacks send: while accesses to the map do not go
\* wrong, replies are not early and handlers get their own replies only (as they do when
\* the device keeps to negative codes, by SessionsStayConsistent).
THEOREM OnlyADisconnectStrands ==
  ~MapsRace /\ ~PromptDevice => (SessionsSpec /\ []OwnReplyOnly => []OnlyDisconnectStrands)
<1> SUFFICES ASSUME ~MapsRace, ~PromptDevice
             PROVE  SessionsSpec /\ []OwnReplyOnly => []OnlyDisconnectStrands
  OBVIOUS
<1> DEFINE Inv == ServiceInv(lost)
<1>1. SessionsInit => Inv
  <2> SUFFICES ASSUME SessionsInit PROVE Inv
    OBVIOUS
  <2>1. PICK gone : gone = lost
    OBVIOUS
  <2>2. ServiceInv(gone)
    BY ServiceInit DEF SessionsInit
  <2> QED BY <2>1, <2>2 DEF ServiceInv, OnTheWay, Served
<1>2. Inv /\ OwnReplyOnly /\ [SessionsNext]_allVars => Inv'
  BY StrandedStep
<1>3. Inv => OnlyDisconnectStrands
  BY DEF ServiceInv, OnTheWay, Served, Asked, Replied, Pending, Queued, Arriving, Elems,
     OnlyDisconnectStrands
<1> QED
  <2> HIDE DEF Inv
  <2> QED BY <1>1, <1>2, <1>3, PTL DEF SessionsSpec

=============================================================================
