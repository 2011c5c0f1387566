------------------------ MODULE BufferedDTXTransport ------------------------
(***************************************************************************)
(* From DTXConnection::send_queue_ to the device: the send thread takes a   *)
(* message, SerializeTo hands it to BufferedDTXTransport::Send chunk by     *)
(* chunk, Send collects small chunks in the 8 KB buffer and passes large    *)
(* ones on, and the thread flushes what is left.  Messages are those that   *)
(* fit one fragment; the chunk that carries the header is their first.  A   *)
(* step holds at most one call of the transport.                            *)
(***************************************************************************)
EXTENDS Integers, Sequences, SequencesExt

CONSTANTS
  Messages, NoMessage,
  Chunks,          \* Chunks[m]: the sizes of the chunks of message m
  buffer_size_

ASSUME MessagesAssumption ==
  /\ NoMessage \notin Messages
  /\ \A m \in Messages : Chunks[m] \in Seq(Nat \ {0}) /\ Chunks[m] # <<>>
ASSUME BufferAssumption == buffer_size_ \in Nat \ {0}

VARIABLES
  send_queue_,
  message, chunk, offset,  \* what SerializeTo hands over, and how far Send is with it
  pc,       \* take, call (the next chunk), copy, or pass (a large chunk)
  buffer,   \* buffer_[0 .. buffer_used_)
  wire,     \* bytes the device got
  (* history *)
  handed,   \* bytes handed to Send and taken over by it
  taken,    \* messages in the order in which the thread took them
  failed    \* a call of the transport has failed

vars == <<send_queue_, message, chunk, offset, pc, buffer, wire, handed, taken, failed>>

transport == <<wire, failed>>

Byte(m, c, k) == [msg |-> m, chunk |-> c, at |-> k]
ChunkOf(m, c) == [k \in 1..Chunks[m][c] |-> Byte(m, c, k)]
BytesOf(m) == FlattenSeq([c \in DOMAIN Chunks[m] |-> ChunkOf(m, c)])

Size == Chunks[message][chunk]
\* The next n bytes of the chunk.
Data(n) == [k \in 1..n |-> Byte(message, chunk, offset + k)]

Init ==
  /\ send_queue_ = <<>> /\ taken = <<>>
  /\ message = NoMessage /\ chunk = 1 /\ offset = 0 /\ pc = "take"
  /\ buffer = <<>> /\ wire = <<>> /\ handed = <<>>
  /\ failed = FALSE

\* SendMessageAsync, called on other threads: each message once.
SendMessageAsync(m) ==
  /\ m \notin ToSet(send_queue_) \cup ToSet(taken)
  /\ send_queue_' = Append(send_queue_, m)
  /\ UNCHANGED <<message, chunk, offset, pc, buffer, handed, taken, transport>>

-----------------------------------------------------------------------------
(* The transport *)

\* All the bytes reach the device.
Delivers(bytes) == wire' = wire \o bytes /\ UNCHANGED failed

\* The call fails; some of the bytes may have reached the device before.
Fails(bytes) ==
  /\ \E n \in 0..(Len(bytes) - 1) : wire' = wire \o SubSeq(bytes, 1, n)
  /\ failed' = TRUE

-----------------------------------------------------------------------------
(* One turn of SendThread *)

TakeMessage ==
  /\ pc = "take" /\ send_queue_ # <<>>
  /\ message' = Head(send_queue_) /\ send_queue_' = Tail(send_queue_)
  /\ taken' = Append(taken, Head(send_queue_))
  /\ chunk' = 1 /\ offset' = 0 /\ buffer' = <<>> /\ pc' = "call"
  /\ UNCHANGED <<handed, transport>>

\* Send returns true or false: SerializeTo calls it for the next chunk all the same.
ReturnFromSend == chunk' = chunk + 1 /\ offset' = 0 /\ pc' = "call"
GoOnAt(place) == pc' = place /\ UNCHANGED <<chunk, offset>>

IsLarge == Size >= buffer_size_

NeverFlush == FALSE  \* mutant: what is buffered waits for the last Flush
MustFlush == buffer # <<>>

\* Send, a large chunk: what is buffered goes first, then the chunk as it is.
FlushForLarge ==
  /\ pc = "call" /\ chunk <= Len(Chunks[message]) /\ IsLarge
  /\ IF ~MustFlush
     THEN GoOnAt("pass") /\ UNCHANGED <<buffer, transport>>
     ELSE /\ buffer' = <<>>
          /\ \/ Delivers(buffer) /\ GoOnAt("pass")
             \/ Fails(buffer) /\ ReturnFromSend
  /\ UNCHANGED <<send_queue_, message, handed, taken>>

PassOn ==
  /\ pc = "pass"
  /\ handed' = handed \o Data(Size)
  /\ Delivers(Data(Size)) \/ Fails(Data(Size))
  /\ ReturnFromSend
  /\ UNCHANGED <<send_queue_, message, buffer, taken>>

\* Send, a small chunk: into the buffer, which is flushed when it is full.
EnterCopy ==
  /\ pc = "call" /\ chunk <= Len(Chunks[message]) /\ ~IsLarge
  /\ GoOnAt("copy")
  /\ UNCHANGED <<send_queue_, message, buffer, handed, taken, transport>>

IsFull(used) == used >= buffer_size_

Least(a, b) == IF a < b THEN a ELSE b
len == Least(buffer_size_ - Len(buffer), Size - offset)

Copy ==
  /\ pc = "copy" /\ offset < Size
  /\ handed' = handed \o Data(len)
  /\ LET data == buffer \o Data(len)
         goOn == offset' = offset + len /\ UNCHANGED <<pc, chunk>>
     IN  IF ~IsFull(Len(data))
         THEN buffer' = data /\ goOn /\ UNCHANGED transport
         ELSE /\ buffer' = <<>>
              /\ \/ Delivers(data) /\ goOn
                 \/ Fails(data) /\ ReturnFromSend
  /\ UNCHANGED <<send_queue_, message, taken>>

LeaveCopy ==
  /\ pc = "copy" /\ offset = Size
  /\ ReturnFromSend
  /\ UNCHANGED <<send_queue_, message, buffer, handed, taken, transport>>

\* TransmitMessage returns true; then Flush, whose result nobody looks at.  The
\* destructor would flush a full buffer: there is nothing left for it to do.
OnlyFull(data) == Len(data) >= buffer_size_  \* mutant: only the destructor flushes
HasData(data) == data # <<>>

Flush ==
  /\ pc = "call" /\ chunk > Len(Chunks[message])
  /\ IF HasData(buffer) THEN Delivers(buffer) \/ Fails(buffer) ELSE UNCHANGED transport
  /\ buffer' = <<>> /\ message' = NoMessage /\ chunk' = 1 /\ pc' = "take"
  /\ UNCHANGED <<send_queue_, offset, handed, taken>>

-----------------------------------------------------------------------------
SendThread ==
  TakeMessage \/ FlushForLarge \/ PassOn \/ EnterCopy \/ Copy \/ LeaveCopy \/ Flush

Next == (\E m \in Messages : SendMessageAsync(m)) \/ SendThread

Spec == Init /\ [][Next]_vars

\* The send thread is scheduled and the transport's Send returns.
FairSpec == Spec /\ WF_vars(SendThread)

-----------------------------------------------------------------------------
(* Properties *)

ByteType == [msg : Messages, chunk : Nat, at : Nat]

\* Every variable has its type; the buffer is full only while Send flushes it.
TypeOK ==
  /\ send_queue_ \in Seq(Messages) /\ taken \in Seq(Messages)
  /\ message \in Messages \cup {NoMessage}
  /\ chunk \in Nat \ {0} /\ offset \in Nat
  /\ pc \in {"take", "call", "copy", "pass"}
  /\ buffer \in Seq(ByteType) /\ Len(buffer) < buffer_size_
  /\ wire \in Seq(ByteType) /\ handed \in Seq(ByteType)
  /\ failed \in BOOLEAN

\* Nothing is lost between Send and the device, nothing overtakes: as long as
\* the transport does not fail, what was handed over is on the wire or behind
\* it in the buffer.
NothingOvertakes == ~failed => handed = wire \o buffer

\* When the thread looks for the next message, the previous ones are on the
\* wire to the last byte, one after the other.
Stream(messages) == FlattenSeq([i \in DOMAIN messages |-> BytesOf(messages[i])])
MessagesAreComplete == pc = "take" /\ ~failed => wire = Stream(taken)

\* The byte belongs to the i-th message that the thread has taken.
IsOf(byte, i) ==
  /\ byte.msg = taken[i]
  /\ byte.chunk \in DOMAIN Chunks[byte.msg] /\ byte.at \in 1..Chunks[byte.msg][byte.chunk]

\* a comes before b in the stream of the messages taken.
Before(a, b) ==
  \E i, j \in DOMAIN taken :
    /\ IsOf(a, i) /\ IsOf(b, j)
    /\ \/ i < j
       \/ i = j /\ (a.chunk < b.chunk \/ (a.chunk = b.chunk /\ a.at < b.at))

\* However the transport fails, what the device got is the stream with some
\* bytes left out: none arrives twice or ahead of another, and none is made up.
WireKeepsTheOrder ==
  /\ \A k \in DOMAIN wire : \E i \in DOMAIN taken : IsOf(wire[k], i)
  /\ \A k, l \in DOMAIN wire : k < l => Before(wire[k], wire[l])

\* What the device has got of the stream, with and without failures.
WireInv == MessagesAreComplete /\ WireKeepsTheOrder

\* Every message that is queued reaches the device, unless the transport fails.
EverythingIsSent ==
  \A m \in Messages :
    m \in ToSet(send_queue_) ~> (failed \/ ToSet(BytesOf(m)) \subseteq ToSet(wire))

=============================================================================
