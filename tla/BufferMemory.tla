---------------------------- MODULE BufferMemory ----------------------------
(***************************************************************************)
(* BufferMemory with the use that DTXMessageParser makes of it: room for a  *)
(* packet is allocated at the end, the packet copied there, and what is     *)
(* left of it after parsing moved to the front.  malloc and realloc may     *)
(* fail.  A cell holds the number of the byte of the stream it was filled   *)
(* with.  No size comes near the width of a size_t.                         *)
(***************************************************************************)
EXTENDS Integers, Sequences

CONSTANTS
  Alignment,    \* 128 in the code
  MaxStream,    \* bound: the bytes received
  MaxPacket,    \* bound: the bytes of a packet
  MaxFailures   \* bound: the failures of malloc and realloc

ASSUME BufferMemoryAssumption ==
  /\ Alignment \in Nat \ {0}
  /\ MaxStream \in Nat /\ MaxPacket \in Nat /\ MaxFailures \in Nat

VARIABLES
  buffer_,    \* the cells of the block, or NULL
  size_, capacity_,
  step,       \* what the parser does next: "receive", "copy" or "parse"
  ptr,        \* what Allocate returned: an offset from buffer_, and the room asked for
  failures,
  (* history *)
  received,   \* the bytes of the stream that were copied to the buffer
  wild        \* bytes were copied outside the block

buffer_vars == <<buffer_, size_, capacity_, step, ptr, failures, received, wild>>

NULL == <<>>
Stale == 0  \* a cell that was never filled
NoRoom == [offset |-> 0, room |-> 0]

BufferInit ==
  /\ buffer_ = NULL /\ size_ = 0 /\ capacity_ = 0
  /\ step = "receive" /\ ptr = NoRoom
  /\ failures = 0 /\ received = 0 /\ wild = FALSE

\* IDEVICE_MEM_ALIGN(v, a), for an a that is a power of two
MEM_ALIGN(v, a) == ((v + a - 1) \div a) * a

\* realloc keeps the cells that are there.
Resized(cells, capacity) ==
  [i \in 1..capacity |-> IF i \in DOMAIN cells THEN cells[i] ELSE Stale]

Aligned(size) == MEM_ALIGN(size, Alignment)

\* The block of a failed realloc is lost; size_ and capacity_ stay.
ReserveFails ==
  /\ failures < MaxFailures /\ failures' = failures + 1
  /\ buffer_' = NULL /\ step' = "receive"
  /\ UNCHANGED <<size_, capacity_, ptr, received, wild>>

TooLate(n) == capacity_ < n  \* mutant: the bytes that are there are forgotten
Lacks(n) == capacity_ - size_ < n

\* Allocate(n) with the Reserve it needs.  When it fails the ParsingThread disconnects, and
\* the next session goes on with the same buffer.  Packets are never empty.
AllocateMore(n) ==
  /\ step = "receive" /\ Lacks(n)
  /\ \/ /\ buffer_' = Resized(buffer_, Aligned(size_ + n))
        /\ capacity_' = Aligned(size_ + n)
        /\ ptr' = [offset |-> size_, room |-> n]
        /\ size_' = size_ + n
        /\ step' = "copy" /\ UNCHANGED <<failures, received, wild>>
     \/ ReserveFails

AllocateHere(n) ==
  /\ step = "receive" /\ ~Lacks(n)
  /\ ptr' = [offset |-> size_, room |-> n]
  /\ size_' = size_ + n
  /\ step' = "copy"
  /\ UNCHANGED <<buffer_, capacity_, failures, received, wild>>

\* memcpy(ptr, buffer, size)
Copy ==
  /\ step = "copy"
  /\ LET fits == ptr.offset + ptr.room <= Len(buffer_)
     IN  /\ buffer_' = [i \in DOMAIN buffer_ |->
                         IF i > ptr.offset /\ i <= ptr.offset + ptr.room
                         THEN received + i - ptr.offset ELSE buffer_[i]]
         /\ wild' = (wild \/ ~fits)
  /\ received' = received + ptr.room
  /\ step' = "parse"
  /\ UNCHANGED <<size_, capacity_, ptr, failures>>

\* The parser has consumed the first n bytes: it moves the others to the front.  When
\* there are no others it leaves the buffer as it is, and finds its bytes again.
Kept(n) == n > 0 /\ n < size_
ShiftOut(n) ==
  /\ step = "parse" /\ n <= size_
  /\ IF Kept(n)
     THEN /\ buffer_' = [i \in DOMAIN buffer_ |->
                          IF i + n <= size_ /\ i + n \in DOMAIN buffer_
                          THEN buffer_[i + n] ELSE buffer_[i]]
          /\ size_' = size_ - n
     ELSE UNCHANGED <<buffer_, size_>>
  /\ step' = "receive" /\ ptr' = NoRoom
  /\ UNCHANGED <<capacity_, failures, received, wild>>

BufferNext ==
  \/ \E n \in 1..MaxPacket : received + n <= MaxStream /\ (AllocateMore(n) \/ AllocateHere(n))
  \/ Copy
  \/ \E n \in 0..MaxStream : ShiftOut(n)

BufferSpec == BufferInit /\ [][BufferNext]_buffer_vars

-----------------------------------------------------------------------------
(* Properties *)

\* The buffer is null or has capacity_ cells.
BufferTypeOK ==
  /\ buffer_ \in Seq(0..MaxStream) /\ size_ \in Nat
  /\ capacity_ \in Nat /\ (buffer_ = NULL \/ Len(buffer_) = capacity_)
  /\ step \in {"receive", "copy", "parse"} /\ failures \in 0..MaxFailures
  /\ received \in 0..MaxStream /\ wild \in BOOLEAN

\* Outside of the copy the buffer ends with the last bytes of the stream, each after the
\* one before it: neither Reserve nor the shift of the parser loses or repeats a byte that
\* is not parsed yet (bytebuffer.h:33-44, dtxmessageparser.cpp:96-106).
TailOfTheStream ==
  step # "copy" /\ failures = 0 => /\ size_ <= Len(buffer_)
            /\ \A i \in 1..size_ : buffer_[i] = received - (size_ - i)

\* The pointer that Allocate returns has room for what was asked, before the first
\* realloc that fails: bytebuffer.h:28 says "Allocate a new buffer".
OnlyFailuresGoWild == failures = 0 => ~wild

\* What the parser relies on.
BufferInv == BufferTypeOK /\ TailOfTheStream /\ OnlyFailuresGoWild

=============================================================================
