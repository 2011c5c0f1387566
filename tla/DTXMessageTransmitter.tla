------------------------ MODULE DTXMessageTransmitter ------------------------
(***************************************************************************)
(* DTXMessageTransmitter::TransmitMessage: how one message is cut into      *)
(* fragments.  SerializeTo hands its bytes to the transmitter in chunks;    *)
(* the bytes are numbered 1, 2, ... and a byte read behind the end of a     *)
(* chunk is Junk.  A step is one call of the serializer's callback, or one  *)
(* turn of the loop in it.                                                  *)
(***************************************************************************)
EXTENDS Integers, Sequences, SequencesExt, Sums

CONSTANTS
  fragment_length,  \* suggested_fragment_size_ - kDTXMessageHeaderSize
  MaxFragments,     \* bound: fragments a message may be cut into
  MaxRefusals       \* bound: calls that the transport refuses while it is sent

ASSUME ConstantsAssumption ==
  fragment_length \in Nat \ {0} /\ MaxFragments \in Nat /\ MaxRefusals \in Nat

VARIABLES
  chunks,                \* the sizes of the chunks of the message
  serialized_length,     \* what DTXMessage::SerializedLength says of them
  pc, current, offset,   \* the chunk that is being serialized and the place in it
  buffer, this_fragment_length, serialized_offset, fragment_index,
  transmitted,           \* fragments given to the transport: index, length, data
  result,                \* what TransmitMessage returned: none, true, false
  refused                \* history: how often the transmitter callback has returned false

given == <<chunks, serialized_length>>
transmission == <<given, pc, current, offset, buffer, this_fragment_length, serialized_offset,
                  fragment_index, transmitted, result, refused>>

Junk == 0

\* FragmentsForLength, where it does not lose bits to float.  fragment_length is not 0:
\* the count 1 of a size that has no room behind the header is left out.
FragmentsForLength(length) == (length + fragment_length - 1) \div fragment_length
number_of_pieces == FragmentsForLength(serialized_length)

Fragment(index, length, data) == [index |-> index, length |-> length, data |-> data]

\* The bytes of chunk j from its k-th byte on, n of them.
Before(j) == Total(chunks, j - 1)
Bytes(j, k, n) ==
  [b \in 1..n |-> IF k + b - 1 <= chunks[j] THEN Before(j) + k + b - 1 ELSE Junk]

\* A header that the transport refused before it took the bytes behind it.
NoHeader == -1

Least(a, b) == IF a < b THEN a ELSE b

TransmitterInit ==
  /\ chunks = <<>> /\ serialized_length = 0
  /\ pc = "idle" /\ current = 1 /\ offset = 0 /\ buffer = <<>>
  /\ this_fragment_length = fragment_length /\ serialized_offset = 0 /\ fragment_index = 0
  /\ transmitted = <<>> /\ result = "none" /\ refused = 0

-----------------------------------------------------------------------------
\* The transmitter callback returns true or false.
Accepts == UNCHANGED refused
Refuses == refused < MaxRefusals /\ refused' = refused + 1

\* TransmitMessage is called for a message; its locals are new.
TransmitMessage(sizes, length) ==
  /\ pc = "idle" /\ pc' = "start"
  /\ chunks' = sizes /\ serialized_length' = length
  /\ current' = 1 /\ offset' = 0 /\ buffer' = <<>>
  /\ this_fragment_length' = fragment_length /\ serialized_offset' = 0 /\ fragment_index' = 0
  /\ transmitted' = <<>> /\ result' = "none" /\ refused' = 0

\* A message that fits one fragment: nobody looks at the callback's results.
TransmitHeader ==
  /\ pc = "start" /\ number_of_pieces = 1 /\ pc' = "single"
  /\ \/ Accepts /\ transmitted' = <<Fragment(0, serialized_length, <<>>)>>
     \/ Refuses /\ transmitted' = <<Fragment(NoHeader, serialized_length, <<>>)>>
  /\ UNCHANGED <<given, current, offset, buffer, this_fragment_length, serialized_offset,
                 fragment_index, result>>

TransmitChunk ==
  /\ pc = "single" /\ current <= Len(chunks) /\ current' = current + 1
  /\ \/ /\ Accepts
        /\ transmitted' = [transmitted EXCEPT
                             ![1].data = @ \o Bytes(current, 1, chunks[current])]
     \/ Refuses /\ UNCHANGED transmitted
  /\ UNCHANGED <<given, pc, offset, buffer, this_fragment_length, serialized_offset,
                 fragment_index, result>>

ReturnTrue ==
  /\ pc = "single" /\ current > Len(chunks)
  /\ pc' = "done" /\ result' = "true"
  /\ UNCHANGED <<given, current, offset, buffer, this_fragment_length, serialized_offset,
                 fragment_index, transmitted, refused>>

\* The first of several fragments is only a header.
TransmitFirst ==
  /\ pc = "start" /\ number_of_pieces > 1
  /\ \/ Accepts /\ transmitted' = <<Fragment(0, serialized_length, <<>>)>>
     \/ Refuses /\ transmitted' = <<>>
  /\ pc' = "chunk"
  /\ UNCHANGED <<given, current, offset, buffer, this_fragment_length, serialized_offset,
                 fragment_index, result>>

\* Go on in the chunk at an offset, or, when the callback returns false, with
\* the next chunk: SerializeTo does not look at what the callback returns.
ContinueAt(place) == pc' = "loop" /\ offset' = place /\ UNCHANGED current
GiveUpChunk == pc' = "chunk" /\ offset' = 0 /\ current' = current + 1

IsFull(data) == Len(data) >= this_fragment_length

IndexKept == fragment_index  \* mutant: the index is not incremented
NextIndex == fragment_index + 1

LengthAfter(data) ==
  Least(fragment_length, serialized_length - serialized_offset - Len(data))

BufferKept(data) == data  \* mutant: the buffer is not emptied
BufferAfter(data) == <<>>

\* IDEVICE_TRANSMIT_FRAGMENT_IF_BUFFER_FULL on a buffer that holds data.
TransmitIfFull(data, place) ==
  IF ~IsFull(data)
  THEN /\ buffer' = data /\ ContinueAt(place) /\ Accepts
       /\ UNCHANGED <<this_fragment_length, serialized_offset, fragment_index, transmitted>>
  ELSE /\ Len(transmitted) <= MaxFragments
       /\ fragment_index' = NextIndex
       /\ \/ /\ Refuses /\ GiveUpChunk /\ buffer' = data
             /\ UNCHANGED <<this_fragment_length, serialized_offset, transmitted>>
          \/ /\ buffer' = BufferAfter(data) /\ serialized_offset' = serialized_offset + Len(data)
             /\ this_fragment_length' = LengthAfter(data)
             /\ LET sent(bytes) == Append(transmitted,
                                          Fragment(NextIndex, this_fragment_length, bytes))
                IN  \/ Accepts /\ transmitted' = sent(data) /\ ContinueAt(place)
                    \/ Refuses /\ transmitted' = sent(<<>>) /\ GiveUpChunk

EnterChunk ==
  /\ pc = "chunk" /\ current <= Len(chunks)
  /\ TransmitIfFull(buffer, 0)
  /\ UNCHANGED <<given, result>>

\* One turn of the loop.  The size is that of the whole chunk, not of the rest of it.
AllRoom == this_fragment_length - Len(buffer)  \* mutant: the size of the chunk is not looked at
consume_size ==
  Least(chunks[current], Least(this_fragment_length - Len(buffer), this_fragment_length))

ConsumeBytes ==
  /\ pc = "loop" /\ offset < chunks[current]
  /\ TransmitIfFull(buffer \o Bytes(current, offset + 1, consume_size), offset + consume_size)
  /\ UNCHANGED <<given, result>>

LeaveChunk ==
  /\ pc = "loop" /\ offset >= chunks[current]
  /\ GiveUpChunk
  /\ UNCHANGED <<given, buffer, this_fragment_length, serialized_offset, fragment_index,
                 transmitted, result, refused>>

\* After SerializeTo: the result of several fragments is always false.
ReturnFalse ==
  /\ pc = "chunk" /\ current > Len(chunks)
  /\ pc' = "done" /\ result' = "false"
  /\ UNCHANGED <<given, current, offset, buffer, this_fragment_length, serialized_offset,
                 fragment_index, transmitted, refused>>

Transmit ==
  \/ TransmitHeader \/ TransmitChunk \/ ReturnTrue
  \/ TransmitFirst \/ EnterChunk \/ ConsumeBytes \/ LeaveChunk \/ ReturnFalse

-----------------------------------------------------------------------------
(* Properties *)

\* The bytes on the wire.
Wire == FlattenSeq([i \in DOMAIN transmitted |-> transmitted[i].data])

\* A chunk in the midst of the message that goes over the end of a fragment and
\* does not end where another one ends is read behind its end, see ConsumeBytes.
RunsOver ==
  /\ number_of_pieces > 1
  /\ \E j \in 1..(Len(chunks) - 1) :
       /\ (Before(j) % fragment_length) + chunks[j] > fragment_length
       /\ Before(j + 1) % fragment_length # 0

\* Every variable has its type; the buffer never outgrows the fragment.
TransmitterTypeOK ==
  /\ chunks \in Seq(Nat \ {0}) /\ serialized_length \in Nat
  /\ pc \in {"idle", "start", "single", "chunk", "loop", "done"}
  /\ current \in 1..(Len(chunks) + 1) /\ offset \in Nat
  /\ buffer \in Seq(Nat) /\ Len(buffer) <= this_fragment_length
  /\ this_fragment_length \in 0..fragment_length
  /\ serialized_offset \in 0..serialized_length /\ fragment_index \in Nat
  /\ result \in {"none", "true", "false"} /\ refused \in 0..MaxRefusals

\* The headers tell the truth about what follows them: consecutive indices, the
\* length of the data, only the last fragment shorter than the others, and behind
\* the first, which has no data, as many fragments as the count says.
HeadersMatchData ==
  refused = 0 /\ ~RunsOver /\ Before(Len(chunks) + 1) = serialized_length =>
    \A i \in DOMAIN transmitted :
      LET f == transmitted[i] IN
        /\ f.index = i - 1
        /\ (i > 1 \/ (pc = "done" /\ number_of_pieces = 1)) => Len(f.data) = f.length
        /\ i \in 2..(Len(transmitted) - 1) => f.length = fragment_length
        /\ pc = "done" /\ number_of_pieces > 1 => Len(transmitted) = number_of_pieces + 1

\* However the transport refuses, no byte of the message is sent twice and none
\* overtakes another: a buffer that was refused is neither kept nor sent again.
NothingIsRepeated ==
  \A i, j \in DOMAIN Wire : i < j /\ Wire[j] # Junk => Wire[i] < Wire[j]

\* All bytes of the message have been announced, and the loop is still in a chunk: with
\* consume_size 0 it sends headers without data, and never comes out of it.
SendsEmptyFragments == pc = "loop" /\ offset < chunks[current] /\ this_fragment_length = 0

\* The transmission of a message comes to its end when no chunk runs over its fragment.
\* One that does is read behind its end, and what is read there is announced in place of
\* the rest of the message: such a message ends too or, which is what MaxFragments cuts
\* off, is followed by empty fragments for ever.
TransmissionEnds ==
  /\ (pc = "start" /\ ~RunsOver) ~> (pc = "done")
  /\ (pc = "start") ~> (pc = "done" \/ SendsEmptyFragments)

=============================================================================
