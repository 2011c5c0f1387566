----------------------------- MODULE DTXMessage -----------------------------
(***************************************************************************)
(* One DTXMessage: how the program builds it, how its objects are archived  *)
(* when it is first serialized, what SerializeTo hands out, and how         *)
(* Deserialize reads it.  A cell is 4 bytes; a chunk is what one call of    *)
(* the serializer gets; a number of 8 bytes is two cells.                   *)
(***************************************************************************)
EXTENDS Integers, Sequences, SequencesExt, Sums

VARIABLES
  message_type_, payload_object_, payload_buffer_,
  auxiliary_,          \* the values of the DTXPrimitiveArray, or NoArray
  auxiliary_objects_,  \* pairs <<index, object>> of the placeholders
  as_dict_,
  (* history *)
  arguments,  \* the arguments the program has appended, as the device should see them
  payload,    \* the payload it has set last
  late        \* SetPayloadObject was called when there was a payload_buffer_ already

message == <<message_type_, payload_object_, payload_buffer_, auxiliary_, auxiliary_objects_,
             as_dict_, arguments, payload, late>>


\* DTXPrimitiveValue::Type; OneCell and TwoCells are the numbers.
kNull == 0
kString == 1
kBuffer == 2
kSignedInt32 == 3
kInteger == 9
kEmptyKey == 10
Sized == {kString, kBuffer}
OneCell == {kSignedInt32, 5}
TwoCells == {4, 6, kInteger}

Value(type, data) == [type |-> type, data |-> data]
Null == Value(kNull, <<>>)

\* The null pointers.
NoArray == <<Value(-1, <<>>)>>
NoObject == <<>>
NoBuffer == <<>>

\* DTXMessage::MessageType
kInterruptionMessage == 0
kDataMessageType == 1
kSelectorMessageType == 2

\* An archive of an object: not empty, and a different one for each object.
ArchivedData(object) == object

-----------------------------------------------------------------------------
(* Building a message *)

CreateWithSelector(selector) ==
  /\ message_type_ = kSelectorMessageType
  /\ payload_object_ = selector /\ payload_buffer_ = NoBuffer
  /\ auxiliary_ = <<>> /\ payload = ArchivedData(selector)

CreateWithBuffer(buffer) ==
  /\ message_type_ = kDataMessageType
  /\ payload_object_ = NoObject /\ payload_buffer_ = buffer
  /\ auxiliary_ = <<>> /\ payload = buffer

\* A reply has neither payload nor auxiliary.
NewReply ==
  /\ message_type_ = kInterruptionMessage
  /\ payload_object_ = NoObject /\ payload_buffer_ = NoBuffer
  /\ auxiliary_ = NoArray /\ payload = <<>>

MessageInit(selectors, buffers) ==
  /\ \/ \E selector \in selectors : CreateWithSelector(selector)
     \/ \E buffer \in buffers : CreateWithBuffer(buffer)
     \/ NewReply
  /\ auxiliary_objects_ = {} /\ as_dict_ \in BOOLEAN
  /\ arguments = <<>> /\ late = FALSE

AppendPrimitive(value) ==
  /\ auxiliary_ # NoArray
  /\ auxiliary_' = Append(auxiliary_, value)
  /\ arguments' = IF value = Null THEN arguments ELSE Append(arguments, value)
  /\ UNCHANGED <<message_type_, payload_object_, payload_buffer_, auxiliary_objects_, as_dict_,
                 payload, late>>

\* An object keeps its place with a null value until it is archived.
AppendObject(object) ==
  /\ auxiliary_ # NoArray
  /\ auxiliary_' = Append(auxiliary_, Null)
  /\ auxiliary_objects_' = auxiliary_objects_ \cup {<<Len(auxiliary_) + 1, object>>}
  /\ arguments' = Append(arguments, Value(kBuffer, ArchivedData(object)))
  /\ UNCHANGED <<message_type_, payload_object_, payload_buffer_, as_dict_, payload, late>>

SetPayloadObject(object) ==
  /\ payload_object_' = object
  /\ payload' = ArchivedData(object) /\ late' = (payload_buffer_ # NoBuffer)
  /\ UNCHANGED <<message_type_, payload_buffer_, auxiliary_, auxiliary_objects_, as_dict_,
                 arguments>>

SetPayloadBuffer(buffer) ==
  /\ payload_buffer_' = buffer /\ payload' = buffer /\ late' = FALSE
  /\ UNCHANGED <<message_type_, payload_object_, auxiliary_, auxiliary_objects_, as_dict_,
                 arguments>>

-----------------------------------------------------------------------------
(* Serializing *)

WithObjects ==
  IF auxiliary_ = NoArray THEN NoArray
  ELSE [i \in DOMAIN auxiliary_ |->
         IF \E entry \in auxiliary_objects_ : entry[1] = i
         THEN LET entry == CHOOSE e \in auxiliary_objects_ : e[1] = i
              IN  Value(kBuffer, ArchivedData(entry[2]))
         ELSE auxiliary_[i]]

\* MaybeSerializeAuxiliaryObjects and MaybeSerializePayloadObject: the objects are
\* archived once; a payload that has a buffer is not archived again.
Archive ==
  /\ auxiliary_' = WithObjects /\ auxiliary_objects_' = {}
  /\ payload_buffer_' = IF payload_buffer_ = NoBuffer /\ payload_object_ # NoObject
                        THEN ArchivedData(payload_object_) ELSE payload_buffer_
  /\ UNCHANGED <<message_type_, payload_object_, as_dict_, arguments, payload, late>>

kDTXPrimitiveArrayHeaderSize == 4
kDTXMessagePayloadHeaderSize == 4

LengthWithoutKeys(value) ==  \* mutant: the empty keys are not counted
  IF value.type = kNull THEN 0
  ELSE 1 + (IF value.type \in Sized THEN 1 ELSE 0) + Len(value.data)
ItemLength(value) ==
  IF value.type = kNull THEN 0
  ELSE (IF as_dict_ THEN 1 ELSE 0)
       + 1 + (IF value.type \in Sized THEN 1 ELSE 0) + Len(value.data)

\* DTXPrimitiveArray::SerializedLength, 0 for a message without an array.
ArrayLength(array) ==
  IF array \in {NoArray, <<>>} THEN 0
  ELSE kDTXPrimitiveArrayHeaderSize
       + Total([i \in DOMAIN array |-> ItemLength(array[i])], Len(array))

\* The chunks of a value.  One of size 0 has no length word.
ItemChunks(value) ==
  IF value.type = kNull THEN <<>>
  ELSE (IF as_dict_ THEN <<<<kEmptyKey>>>> ELSE <<>>)
       \o <<<<value.type>>>>
       \o CASE value.data = <<>> -> <<>>
            [] value.data # <<>> /\ value.type \in Sized -> <<<<Len(value.data)>>, value.data>>
            [] OTHER -> <<value.data>>

\* DTXPrimitiveArray::SerializeTo.  Nobody reads the capacity.
Capacity == 0
ArrayChunks(array) ==
  <<<<Capacity, 0>>, <<ArrayLength(array) - kDTXPrimitiveArrayHeaderSize, 0>>>>
  \o FlattenSeq([i \in DOMAIN array |-> ItemChunks(array[i])])

\* The two of DTXMessage, on what Archive leaves behind.
SerializedLength(array, buffer) ==
  kDTXMessagePayloadHeaderSize + ArrayLength(array) + Len(buffer)

SerializeTo(array, buffer) ==
  <<<<message_type_>>, <<ArrayLength(array)>>, <<ArrayLength(array) + Len(buffer), 0>>>>
  \o (IF ArrayLength(array) > 0 THEN ArrayChunks(array) ELSE <<>>)
  \o (IF Len(buffer) > 0 THEN <<buffer>> ELSE <<>>)

\* Values for which the length word is counted and not written.
Empties(array) ==
  array # NoArray /\ \E i \in DOMAIN array : array[i].type \in Sized /\ array[i].data = <<>>

-----------------------------------------------------------------------------
(* Deserializing *)

\* What is behind the end of the bytes is unknown; Unread is none of the types.
Unread == -1
Cell(bytes, i) == IF i \in DOMAIN bytes THEN bytes[i] ELSE Unread
Cells(bytes, first, n) == [i \in 1..n |-> Cell(bytes, first + i - 1)]

\* The values in bytes from i on, where items[j] are those from j on; an unknown type
\* stops the program.
Read(items, bytes, i) ==
  LET type == Cell(bytes, i)
      length == Cell(bytes, i + 1)
  IN  CASE i > Len(bytes) -> <<>>
        [] i <= Len(bytes) /\ type \in Sized ->
             <<Value(type, Cells(bytes, i + 2, length))>> \o items[i + 2 + length]
        [] i <= Len(bytes) /\ type \in OneCell ->
             <<Value(type, Cells(bytes, i + 1, 1))>> \o items[i + 2]
        [] i <= Len(bytes) /\ type \in TwoCells ->
             <<Value(type, Cells(bytes, i + 1, 2))>> \o items[i + 3]
        [] i <= Len(bytes) /\ type = kEmptyKey -> items[i + 1]
        [] OTHER -> <<Value(Unread, <<>>)>>

DeserializeItems(bytes) ==
  LET items[i \in Nat] == Read(items, bytes, i)
  IN  items[1]

DeserializeArray(bytes) ==
  IF Len(bytes) < kDTXPrimitiveArrayHeaderSize
     \/ Cell(bytes, 3) + kDTXPrimitiveArrayHeaderSize # Len(bytes)
  THEN NoArray
  ELSE DeserializeItems(SubSeq(bytes, kDTXPrimitiveArrayHeaderSize + 1, Len(bytes)))

Deserialize(bytes) ==
  LET auxiliary_length == Cell(bytes, 2)
      payload_length == Cell(bytes, 3) - auxiliary_length
      auxiliary_ptr == kDTXMessagePayloadHeaderSize + 1
  IN  [message_type |-> Cell(bytes, 1),
       auxiliary |-> IF auxiliary_length > 0
                     THEN DeserializeArray(Cells(bytes, auxiliary_ptr, auxiliary_length))
                     ELSE NoArray,
       payload |-> Cells(bytes, auxiliary_ptr + auxiliary_length, payload_length)]

=============================================================================
