----------------------------- MODULE DTXSending -----------------------------
(***************************************************************************)
(* A message from the program to the device: the program builds a           *)
(* DTXMessage, the transmitter cuts what SerializeTo hands out into         *)
(* fragments, and the device reads it with the rules of Deserialize.  The   *)
(* program may change the object afterwards and send it again.              *)
(***************************************************************************)
EXTENDS DTXMessage, DTXMessageTransmitter

CONSTANTS
  Primitives,      \* the values that are appended to the auxiliary
  Objects,         \* the objects, each given by the cells of its archive
  Buffers,         \* the payload buffers
  MaxArguments,    \* bound: values in the auxiliary
  MaxSends         \* bound: how often the object is sent

\* What the constructors of DTXPrimitiveValue make, and archives and buffers, which
\* are not empty.
FromProgram(value) ==
  /\ value = Value(value.type, value.data) /\ value.data \in Seq(Nat)
  /\ \/ value = Null
     \/ value.type \in Sized
     \/ value.type \in OneCell /\ Len(value.data) = 1
     \/ value.type \in TwoCells /\ Len(value.data) = 2

ASSUME SendingAssumption ==
  /\ \A value \in Primitives : FromProgram(value)
  /\ Objects \subseteq Seq(Nat) \ {<<>>} /\ Buffers \subseteq Seq(Nat) \ {<<>>}
  /\ MaxArguments \in Nat /\ MaxSends \in Nat

VARIABLE sends  \* bound: how often the object has been sent

vars == <<message, transmission, sends>>

Init == MessageInit(Objects, Buffers) /\ TransmitterInit /\ sends = 0

RoomForArgument == auxiliary_ = NoArray \/ Len(auxiliary_) < MaxArguments

Build ==
  /\ pc = "idle" /\ sends < MaxSends
  /\ \/ RoomForArgument /\ \E value \in Primitives : AppendPrimitive(value)
     \/ RoomForArgument /\ \E object \in Objects : AppendObject(object)
     \/ \E object \in Objects : SetPayloadObject(object)
     \/ \E bytes \in Buffers : SetPayloadBuffer(bytes)
  /\ UNCHANGED <<transmission, sends>>

\* TransmitMessage begins with SerializedLength, which archives the objects; the
\* chunks are those that SerializeTo hands out afterwards.
Send ==
  /\ sends < MaxSends /\ sends' = sends + 1
  /\ Archive
  /\ LET content == SerializeTo(auxiliary_', payload_buffer_')
     IN  TransmitMessage([j \in DOMAIN content |-> Len(content[j])],
                         SerializedLength(auxiliary_', payload_buffer_'))

Sent ==
  /\ pc = "done" /\ pc' = "idle"
  /\ UNCHANGED <<message, given, current, offset, buffer, this_fragment_length,
                 serialized_offset, fragment_index, transmitted, result, refused, sends>>

Next ==
  \/ Build \/ Send \/ Sent
  \/ Transmit /\ UNCHANGED <<message, sends>>

Spec == Init /\ [][Next]_vars

\* The send thread goes on with a message it has begun.
FairSpec == Spec /\ WF_vars(Transmit /\ UNCHANGED <<message, sends>>)

-----------------------------------------------------------------------------
(* Properties *)

\* What the device has got of the message: a byte of the transmitter is a cell here.
Delivered ==
  LET content == FlattenSeq(SerializeTo(auxiliary_, payload_buffer_))
  IN  [i \in DOMAIN Wire |-> IF Wire[i] = Junk THEN Unread ELSE content[Wire[i]]]

\* Every variable has its type.
TypeOK ==
  /\ TransmitterTypeOK
  /\ message_type_ \in {kInterruptionMessage, kDataMessageType, kSelectorMessageType}
  /\ payload_object_ \in Seq(Nat) /\ payload_buffer_ \in Seq(Nat)
  /\ \A entry \in auxiliary_objects_ : auxiliary_[entry[1]] = Null
  /\ as_dict_ \in BOOLEAN /\ late \in BOOLEAN /\ sends \in 0..MaxSends

\* The device reads the type, the arguments, in the order of their appending, and
\* the payload that the program has given to the message, each time the object is
\* sent: nothing is lost between placeholders, archives, the lengths in the
\* headers and the fragments (SerializeTo, TransmitMessage, Deserialize).  It
\* does not hold of empty strings and buffers, of a payload object set after the
\* message has been serialized, and of chunks that run over their fragment.
ArgumentsArrive ==
  pc = "done" /\ refused = 0 /\ ~Empties(auxiliary_) /\ ~RunsOver =>
    LET arrived == Deserialize(Delivered) IN
      /\ arrived.message_type = message_type_
      /\ arguments = IF arrived.auxiliary = NoArray THEN <<>> ELSE arrived.auxiliary
      /\ ~late => arrived.payload = payload

\* The state of a sending is consistent, and the headers of what is sent tell the truth.
SendingInv == TypeOK /\ HeadersMatchData

=============================================================================
