-------------------------- MODULE DTXMessageParser --------------------------
(***************************************************************************)
(* DTXMessageParser: how ParseIncomingBytes finds messages in the packets   *)
(* that the receive thread cuts out of the byte stream of the device.       *)
(*                                                                          *)
(* The stream is a sequence of cells.  Part k of fragment i of message m is *)
(* a part of the fragment's header for k <= HeaderSize, and of its payload  *)
(* for larger k.  A step is one turn of the parsing loop.                   *)
(*                                                                          *)
(* incoming_parser_ is a member of the connection: Disconnect and Connect   *)
(* leave its buffer and its open fragments as they are, and the bytes of    *)
(* the next session go behind those of the one before.                      *)
(***************************************************************************)
EXTENDS Integers, Sequences, FiniteSets, SequencesExt

CONSTANTS
  Messages,
  Identifier,    \* Identifier[m]: the identifier in the headers of m
  Pieces,        \* Pieces[m]: the sizes of the pieces of its payload, in cells
  HeaderSize,    \* kDTXMessageHeaderSize, in cells
  PacketSize,    \* kReceiveBufferSize, in cells
  MaxSessions    \* bound: how often the program connects

ASSUME ConstantsAssumption ==
  /\ Identifier \in [Messages -> Nat]
  /\ \A m \in Messages : Pieces[m] \in Seq(Nat \ {0}) /\ Pieces[m] # <<>>
  /\ HeaderSize \in Nat \ {0} /\ PacketSize \in Nat \ {0} /\ MaxSessions \in Nat \ {0}

VARIABLES
  wire,          \* cells on their way to the parser
  nextFragment,  \* nextFragment[m]: index of the fragment of m to be sent next
  parsing_buffer_, consumed_size,
  fragmented_buffers_by_identifier, parsed_message_queue_,
  pc,            \* idle, loop, pop; ParseIncomingBytes has returned false: nomem, rejected
  session,
  (* history of the session *)
  sent,          \* messages sent to their last fragment
  delivered,     \* what PopAllParsedMessages has returned
  (* history of the parser *)
  replayed,      \* a call has left cells in the buffer that it had parsed
  torn           \* a session has ended in the middle of a message that was being received

device == <<nextFragment, sent>>
returned == <<delivered, replayed>>
sessions == <<session, torn>>
vars == <<wire, parsing_buffer_, consumed_size, fragmented_buffers_by_identifier,
          parsed_message_queue_, pc, device, returned, sessions>>

-----------------------------------------------------------------------------
(* Headers, fragments, messages *)

\* One piece makes one fragment.  More pieces follow a first fragment that is
\* a header only and tells the length of them all.
FragmentCount(m) == IF Len(Pieces[m]) = 1 THEN 1 ELSE Len(Pieces[m]) + 1
PayloadCells(m) == UNION {{i} \X (1..Pieces[m][i]) : i \in DOMAIN Pieces[m]}
HeaderLength(m, i) == IF i = 0 THEN Cardinality(PayloadCells(m)) ELSE Pieces[m][i]
PayloadLength(m, i) == IF i = 0 /\ FragmentCount(m) > 1 THEN 0 ELSE HeaderLength(m, i)

Cell(m, i, k) == [msg |-> m, index |-> i, part |-> k]
Cells(m, i) == [k \in 1..(HeaderSize + PayloadLength(m, i)) |-> Cell(m, i, k)]

\* A message put together from payloads, each named by its message and index.
Payload(m, i) == [msg |-> m, index |-> i]
Parsed(m, data) == [msg |-> m, data |-> data]
Whole(m) ==
  Parsed(m, IF FragmentCount(m) = 1 THEN <<Payload(m, 0)>>
            ELSE [i \in 1..Len(Pieces[m]) |-> Payload(m, i)])

-----------------------------------------------------------------------------
Init ==
  /\ wire = <<>> /\ nextFragment = [m \in Messages |-> 0]
  /\ parsing_buffer_ = <<>> /\ consumed_size = 0
  /\ fragmented_buffers_by_identifier = <<>> /\ parsed_message_queue_ = <<>>
  /\ pc = "idle" /\ sent = <<>> /\ delivered = <<>>
  /\ replayed = FALSE /\ session = 1 /\ torn = FALSE

InProgress(m) == nextFragment[m] \in 1..(FragmentCount(m) - 1)

\* The device sends the next fragment of m.  Messages in progress at the same
\* time have identifiers of their own; messages that follow each other need not.
SendFragment(m) ==
  /\ nextFragment[m] < FragmentCount(m)
  /\ \A n \in Messages \ {m} : InProgress(n) => Identifier[n] # Identifier[m]
  /\ wire' = wire \o Cells(m, nextFragment[m])
  /\ nextFragment' = [nextFragment EXCEPT ![m] = @ + 1]
  /\ sent' = sent \o (IF nextFragment'[m] = FragmentCount(m) THEN <<Whole(m)>> ELSE <<>>)
  /\ UNCHANGED <<parsing_buffer_, consumed_size, fragmented_buffers_by_identifier,
                 parsed_message_queue_, pc, returned, sessions>>

\* BufferMemory: new cells go behind those that are there, if there is memory.
Extended(cells) == parsing_buffer_ \o cells
OutOfMemory == pc' = "nomem" /\ UNCHANGED <<parsing_buffer_, consumed_size>>

\* ParseIncomingBytes copies a packet of n cells into its buffer.
Allocate(n) ==
  /\ pc = "idle" /\ n \in 1..PacketSize /\ n <= Len(wire)
  /\ wire' = SubSeq(wire, n + 1, Len(wire))
  /\ \/ /\ parsing_buffer_' = Extended(SubSeq(wire, 1, n))
        /\ pc' = "loop" /\ consumed_size' = 0
     \/ OutOfMemory
  /\ UNCHANGED <<fragmented_buffers_by_identifier, parsed_message_queue_, device, returned,
                 sessions>>

-----------------------------------------------------------------------------
(* The loop *)

buffer_size == Len(parsing_buffer_)
HasHeader == buffer_size >= consumed_size + HeaderSize
header == parsing_buffer_[consumed_size + 1]
MagicMatches == header.part = 1

Longer(size) == buffer_size > consumed_size + size  \* mutant: `<=` for `<`
Holds(size) == buffer_size >= consumed_size + size
HasMessage ==
  HasHeader /\ MagicMatches /\ Holds(HeaderSize + HeaderLength(header.msg, header.index))

Consume(size) ==
  /\ consumed_size' = consumed_size + HeaderSize + size
  /\ UNCHANGED <<wire, parsing_buffer_, pc, device, returned, sessions>>

Stacked(message) == <<message>> \o parsed_message_queue_  \* mutant: last in, first out
Enqueued(message) == Append(parsed_message_queue_, message)

ParseSingle ==
  /\ pc = "loop" /\ HasMessage /\ FragmentCount(header.msg) = 1
  /\ parsed_message_queue_' = Enqueued(Parsed(header.msg, <<Payload(header.msg, 0)>>))
  /\ Consume(HeaderLength(header.msg, 0))
  /\ UNCHANGED fragmented_buffers_by_identifier

channelOnly == 0  \* mutant: one buffer for all the messages of a channel
identifier == Identifier[header.msg]
IsOpen == identifier \in DOMAIN fragmented_buffers_by_identifier

\* insert leaves a buffer with the same identifier alone.
ParseFirst ==
  /\ pc = "loop" /\ HasMessage /\ FragmentCount(header.msg) > 1 /\ header.index = 0
  /\ fragmented_buffers_by_identifier' =
       [id \in DOMAIN fragmented_buffers_by_identifier \cup {identifier} |->
          IF id \in DOMAIN fragmented_buffers_by_identifier
          THEN fragmented_buffers_by_identifier[id] ELSE <<>>]
  /\ Consume(0)
  /\ UNCHANGED parsed_message_queue_

\* The buffer of the message with the payload of this fragment.
Appended ==
  Append(fragmented_buffers_by_identifier[identifier], Payload(header.msg, header.index))

BuffersReleased ==
  [id \in DOMAIN fragmented_buffers_by_identifier \ {identifier} |->
     fragmented_buffers_by_identifier[id]]

IsLast == header.index = FragmentCount(header.msg) - 1

ParseFragment ==
  /\ pc = "loop" /\ HasMessage /\ FragmentCount(header.msg) > 1 /\ header.index > 0
  /\ IsOpen
  /\ IF IsLast
     THEN /\ parsed_message_queue_' = Enqueued(Parsed(header.msg, Appended))
          /\ fragmented_buffers_by_identifier' = BuffersReleased
     ELSE /\ fragmented_buffers_by_identifier' =
               [fragmented_buffers_by_identifier EXCEPT ![identifier] = Appended]
          /\ UNCHANGED parsed_message_queue_
  /\ Consume(HeaderLength(header.msg, header.index))

\* A fragment of a message whose first fragment is unknown: only its header is
\* consumed, so the loop takes its payload for the next header.
ParseUnknown ==
  /\ pc = "loop" /\ HasMessage /\ FragmentCount(header.msg) > 1 /\ header.index > 0
  /\ ~IsOpen
  /\ Consume(0)
  /\ UNCHANGED <<fragmented_buffers_by_identifier, parsed_message_queue_>>

\* "unexpected protocol header": return false.
RejectHeader ==
  /\ pc = "loop" /\ HasHeader /\ ~MagicMatches
  /\ pc' = "rejected"
  /\ UNCHANGED <<wire, parsing_buffer_, consumed_size, fragmented_buffers_by_identifier,
                 parsed_message_queue_, device, returned, sessions>>

\* The end of ParseIncomingBytes: move what is left to the front of the buffer.
\* When nothing is left, the buffer keeps its size and everything in it.
OneTooMany == SubSeq(parsing_buffer_, consumed_size, buffer_size)  \* mutant: off by one
Leftover == SubSeq(parsing_buffer_, consumed_size + 1, buffer_size)

FinishParsing ==
  /\ pc = "loop" /\ (HasHeader => MagicMatches) /\ ~HasMessage
  /\ parsing_buffer_' =
       IF consumed_size \in 1..(buffer_size - 1) THEN Leftover ELSE parsing_buffer_
  /\ pc' = "pop" /\ consumed_size' = 0
  /\ replayed' = (replayed \/ consumed_size = buffer_size)
  /\ UNCHANGED <<wire, fragmented_buffers_by_identifier, parsed_message_queue_, device,
                 delivered, sessions>>

PopAllParsedMessages ==
  /\ pc = "pop"
  /\ delivered' = delivered \o parsed_message_queue_ /\ parsed_message_queue_' = <<>>
  /\ pc' = "idle"
  /\ UNCHANGED <<wire, parsing_buffer_, consumed_size, fragmented_buffers_by_identifier,
                 device, replayed, sessions>>

-----------------------------------------------------------------------------
(* Disconnect and Connect *)

\* A part of m has been received, and the rest of it has not.
IsCut(m) ==
  /\ nextFragment[m] > 0 /\ Cell(m, 0, 1) \notin ToSet(wire)
  /\ InProgress(m) \/ \E c \in ToSet(wire) : c.msg = m

\* The parsing thread ends between two packets; what is on the wire is lost, and
\* so are the messages that the device has begun.  In the new session it sends
\* others.
Reconnect ==
  /\ pc = "idle" /\ session < MaxSessions /\ session' = session + 1
  /\ wire' = <<>>
  /\ nextFragment' = [m \in Messages |-> IF nextFragment[m] = 0 THEN 0 ELSE FragmentCount(m)]
  /\ torn' = (torn \/ \E m \in Messages : IsCut(m))
  /\ sent' = <<>> /\ delivered' = <<>>
  /\ UNCHANGED <<parsing_buffer_, consumed_size, fragmented_buffers_by_identifier,
                 parsed_message_queue_, pc, replayed>>

-----------------------------------------------------------------------------
Parse ==
  \/ \E n \in 1..PacketSize : Allocate(n)
  \/ ParseSingle \/ ParseFirst \/ ParseFragment \/ ParseUnknown
  \/ RejectHeader \/ FinishParsing \/ PopAllParsedMessages

Next == (\E m \in Messages : SendFragment(m)) \/ Parse \/ Reconnect

Spec == Init /\ [][Next]_vars

\* The receive and the parsing thread go on; the device need not send anything.
FairSpec == Spec /\ WF_vars(Parse)

-----------------------------------------------------------------------------
(* Properties *)

CellType == [msg : Messages, index : Nat, part : Nat \ {0}]
PayloadType == [msg : Messages, index : Nat]
ParsedType == [msg : Messages, data : Seq(PayloadType)]

\* Every variable has its type.
TypeOK ==
  /\ wire \in Seq(CellType) /\ parsing_buffer_ \in Seq(CellType)
  /\ nextFragment \in [Messages -> Nat] /\ consumed_size \in 0..buffer_size
  /\ \A id \in DOMAIN fragmented_buffers_by_identifier :
       fragmented_buffers_by_identifier[id] \in Seq(PayloadType)
  /\ parsed_message_queue_ \in Seq(ParsedType) /\ delivered \in Seq(ParsedType)
  /\ pc \in {"idle", "loop", "pop", "nomem", "rejected"} /\ sent \in Seq(ParsedType)
  /\ session \in 1..MaxSessions
  /\ replayed \in BOOLEAN /\ torn \in BOOLEAN

Returned(m) == \E k \in DOMAIN delivered : delivered[k].msg = m

parsed == delivered \o parsed_message_queue_

\* The parser hands on the messages of a session in the order in which they
\* end.  As long as it does not repeat itself it hands on each of them once;
\* else no message is skipped: the first time a message is returned, those that
\* the device ended before it have been.  A session that ended between two
\* messages does not disturb the next one.
MessagesInOrder ==
  ~torn =>
    /\ ~replayed => IsPrefix(parsed, sent)
    /\ \A j, i \in DOMAIN sent, k \in DOMAIN parsed :
         j < i /\ parsed[k].msg = sent[i].msg => \E h \in 1..k : parsed[h].msg = sent[j].msg

\* No two fragmented messages have the same identifier.
FragmentedByIdentifier ==
  \A m, n \in {l \in Messages : FragmentCount(l) > 1} :
    Identifier[m] = Identifier[n] => m = n

\* What is returned carries every piece of its message and none of another;
\* once the parser repeats fragments, only if their identifiers tell them apart.
OwnPiecesOnly ==
  ~torn /\ (~replayed \/ FragmentedByIdentifier) =>
    \A k \in DOMAIN parsed : ToSet(parsed[k].data) = ToSet(Whole(parsed[k].msg).data)

\* The parser is consistent, and what it puts together belongs together.
ParserInv == TypeOK /\ OwnPiecesOnly

\* b comes next after a in the bytes of a device.
Follows(a, b) ==
  IF a.part < HeaderSize + PayloadLength(a.msg, a.index)
  THEN b = Cell(a.msg, a.index, a.part + 1) ELSE b.part = 1

\* "At this point the contents `parsing_buffer` can contain": fragments one
\* behind the other, of which the last may be incomplete.
HoldsFragments ==
  pc = "loop" /\ consumed_size = 0 /\ parsing_buffer_ # <<>> =>
    /\ header.part = 1
    /\ \A k \in 1..(buffer_size - 1) : Follows(parsing_buffer_[k], parsing_buffer_[k + 1])

\* A parser that has left parsed cells in its buffer loses its place in them
\* when they are the later fragments of a message.
KeepsItsPlace ==
  replayed => \A m \in Messages : nextFragment[m] > 0 => FragmentCount(m) = 1

\* When every session so far has ended between two messages, the bytes of a new
\* one go behind whole fragments: the loop always begins at the header of a
\* fragment, and what a device sends is not taken for a malformed stream.
CleanCutKeepsPlace ==
  ~torn =>
    /\ KeepsItsPlace => HoldsFragments
    /\ pc = "rejected" => replayed

\* A first fragment, which has no payload, waits until as many cells as the pieces
\* of its message have come behind it, and everything behind it waits too.
KeptBack ==
  \E m \in Messages : InProgress(m) /\ Identifier[m] \notin DOMAIN fragmented_buffers_by_identifier

\* Every message of the device is returned some day, also when nothing comes
\* behind it, unless the parser gives up, the session ends, or it stands behind
\* the first fragment of a message that the device does not finish.
EverythingIsDelivered ==
  \A m \in Messages :
    Whole(m) \in ToSet(sent) /\ ~torn /\ ~KeptBack
      ~> Returned(m) \/ pc \in {"nomem", "rejected"} \/ Whole(m) \notin ToSet(sent)

=============================================================================
