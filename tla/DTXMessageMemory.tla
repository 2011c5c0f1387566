-------------------------- MODULE DTXMessageMemory --------------------------
(***************************************************************************)
(* Who frees the heap blocks of a DTXMessage and of its DTXPrimitiveValues, *)
(* which are raw pointers: a value owns its bytes, moving a value moves     *)
(* them, a message owns a payload it has copied and borrows any other, and  *)
(* the archives of the argument objects are put in the array only when the  *)
(* message is first serialized.  The program builds a message or receives   *)
(* one, may queue it, and drops its shared_ptr; the sending thread measures *)
(* the message, writes it and drops its own.  malloc always succeeds, and a *)
(* block is never given out twice, so that a use after free shows.          *)
(***************************************************************************)
EXTENDS Integers, Sequences, SequencesExt, FiniteSets

CONSTANTS
  Objects,      \* the KAValues of the program
  MaxBlocks,    \* bound: the blocks allocated
  MaxArguments  \* bound: the arguments of a list

ASSUME MemoryAssumption == MaxBlocks \in Nat /\ MaxArguments \in Nat

VARIABLES
  memory,   \* the heap: [state, data of every block; next: the first unused; faults]
  buffer,   \* the program's own buffer, or NoBlock
  value,    \* a DTXPrimitiveValue variable of the program
  message,  \* the DTXMessage, with the threads that hold a shared_ptr to it
  sender,   \* what the sending thread does next
  (* history *)
  stale,       \* a list was replaced while objects of the old one were pending
  arguments,   \* what the program gave to the places of its list, until one is stale
  faithful,    \* the lists the sending thread has written were the current ones
  overwritten, \* the blocks whose pointer an assignment has lost
  archives     \* the blocks that are archives of a payload object

vars ==
  <<memory, buffer, value, message, sender, stale, arguments, faithful, overwritten, archives>>

Bytes == "bytes"    \* what the program writes to its own buffer
Selector == "selector"  \* the payload object
Number == "number"  \* the datum of any value that has no block
None == "none"      \* the null object

NoBlock == 0
Blocks == 1..MaxBlocks

-----------------------------------------------------------------------------
(* malloc, free and the accesses, as functions of the heap *)

EmptyHeap == [state |-> [b \in Blocks |-> "unused"], data |-> [b \in Blocks |-> Number],
              next |-> 1, faults |-> {}]

Room(n) == memory.next + n - 1 <= MaxBlocks
\* The n blocks that malloc gives out next.
Fresh(n) == memory.next..(memory.next + n - 1)

\* One call of malloc for every block of the contents.
MallocAll(heap, contents) ==
  [heap EXCEPT
    !.state = [b \in Blocks |-> IF b \in DOMAIN contents THEN "live" ELSE @[b]],
    !.data = [b \in Blocks |-> IF b \in DOMAIN contents THEN contents[b] ELSE @[b]],
    !.next = @ + Cardinality(DOMAIN contents)]
Malloc(heap, datum) == MallocAll(heap, [b \in {heap.next} |-> datum])

Fault(heap, what, happens) ==
  [heap EXCEPT !.faults = @ \cup (IF happens THEN {what} ELSE {})]

\* One call of free for every pointer of a sequence.
Twice(pointers) ==
  \E i, j \in DOMAIN pointers : i # j /\ pointers[i] = pointers[j] /\ pointers[i] # NoBlock
FreeAll(heap, pointers) ==
  LET freed == {b \in Range(pointers) \ {NoBlock} : heap.state[b] = "live"}
  IN  Fault([heap EXCEPT
              !.state = [b \in Blocks |-> IF b \in freed THEN "freed" ELSE @[b]],
              !.data = [b \in Blocks |-> IF b \in freed THEN Number ELSE @[b]]],
            "double_free", Range(pointers) \ {NoBlock} # freed \/ Twice(pointers))
Free(heap, b) == FreeAll(heap, <<b>>)

AccessAll(heap, pointers) ==
  Fault(heap, "use_after_free", \E b \in pointers \ {NoBlock} : heap.state[b] # "live")
Access(heap, b) == AccessAll(heap, {b})

-----------------------------------------------------------------------------
(* DTXPrimitiveValue: strings and buffers own a block *)

kNull == [t |-> "null", b |-> NoBlock]
NumberValue == [t |-> "number", b |-> NoBlock]
BytesValue(b) == [t |-> "bytes", b |-> b]

Owned(v) == IF v.t = "bytes" THEN v.b ELSE NoBlock

Destroy(heap, v) == Free(heap, Owned(v))
DestroyAll(heap, items) == FreeAll(heap, [i \in DOMAIN items |-> Owned(items[i])])

\* The move constructor and the move assignment leave the other value null; the pointer
\* it keeps is never looked at again.
MovedFrom(v) == kNull

\* operator= forgets what the target owned.
Forgotten(target) == {Owned(target)} \ {NoBlock}

\* vector::emplace_back: a vector that grows moves the items and destroys the old ones.
Grow(heap, items) == DestroyAll(heap, [i \in DOMAIN items |-> MovedFrom(items[i])])

-----------------------------------------------------------------------------
(* DTXMessage *)

NoArray == <<[t |-> "nullptr", b |-> NoBlock]>>
NoMessage ==
  [holders |-> {}, payload_buffer_ |-> NoBlock, should_free_payload_buffer_ |-> FALSE,
   payload_object_ |-> None, auxiliary_ |-> NoArray, auxiliary_objects_ |-> <<>>]

\* ~DTXPrimitiveArray
DestroyArray(heap, array) == IF array = NoArray THEN heap ELSE DestroyAll(heap, array)

\* ~DTXMessage
KeepsPayload(heap, m) == DestroyArray(heap, m.auxiliary_)  \* mutant: nothing is freed here
DestroyMessage(heap, m) ==
  DestroyArray(IF m.should_free_payload_buffer_ THEN Free(heap, m.payload_buffer_) ELSE heap,
               m.auxiliary_)

Init ==
  /\ memory = EmptyHeap
  /\ buffer = NoBlock
  /\ value = kNull
  /\ message = NoMessage
  /\ sender = "idle"
  /\ stale = FALSE /\ arguments = <<>> /\ faithful = TRUE /\ overwritten = {} /\ archives = {}

\* A program that has queued a message leaves it alone until it has been sent.
Usable == "program" \in message.holders /\ "sender" \notin message.holders

Borrowed == /\ message.holders # {} /\ message.payload_buffer_ = buffer
            /\ ~message.should_free_payload_buffer_

Put(f, index, x) == [i \in DOMAIN f \cup {index} |-> IF i = index THEN x ELSE f[i]]

Content(v) == IF v.t = "bytes" THEN memory.data[v.b] ELSE Number

Gives(contents) == arguments' = IF stale THEN <<>> ELSE contents

-----------------------------------------------------------------------------
(* The program's own memory *)

NewBuffer ==
  /\ buffer = NoBlock /\ Room(1)
  /\ memory' = Malloc(memory, Bytes)
  /\ buffer' = memory.next
  /\ UNCHANGED <<value, message, sender, stale, arguments, faithful, overwritten, archives>>

\* The program keeps a buffer that it has lent to a message.
FreeBuffer ==
  /\ buffer # NoBlock /\ ~Borrowed
  /\ memory' = Free(memory, buffer)
  /\ buffer' = NoBlock
  /\ UNCHANGED <<value, message, sender, stale, arguments, faithful, overwritten, archives>>

Assign(v) ==
  /\ value' = v
  /\ overwritten' = overwritten \cup Forgotten(value)

NewNumber ==
  /\ Assign(NumberValue)
  /\ UNCHANGED <<memory, buffer, message, sender, stale, arguments, faithful, archives>>

\* A string, or a buffer with should_copy.
CopyBytes ==
  /\ buffer # NoBlock /\ Room(1)
  /\ memory' = Malloc(Access(memory, buffer), Bytes)
  /\ Assign(BytesValue(memory.next))
  /\ UNCHANGED <<buffer, message, sender, stale, arguments, faithful, archives>>

\* A buffer without should_copy: the value frees it from now on.
TakeBytes ==
  /\ buffer # NoBlock /\ ~Borrowed
  /\ Assign(BytesValue(buffer))
  /\ buffer' = NoBlock
  /\ UNCHANGED <<memory, message, sender, stale, arguments, faithful, archives>>

\* The variable goes out of scope.
DropValue ==
  /\ value.t # "null"
  /\ memory' = Destroy(memory, value)
  /\ value' = kNull
  /\ UNCHANGED <<buffer, message, sender, stale, arguments, faithful, overwritten, archives>>

-----------------------------------------------------------------------------
(* Building a message *)

\* The constructors of a message: a selector, a buffer that is copied or not, a reply.
CreateWithSelector ==
  /\ message' = [NoMessage EXCEPT !.holders = {"program"}, !.auxiliary_ = <<>>,
                                  !.payload_object_ = Selector]
  /\ UNCHANGED memory
CreateWithCopy ==
  /\ buffer # NoBlock /\ Room(1)
  /\ message' = [NoMessage EXCEPT !.holders = {"program"}, !.auxiliary_ = <<>>,
                                  !.payload_buffer_ = memory.next,
                                  !.should_free_payload_buffer_ = TRUE]
  /\ memory' = Malloc(Access(memory, buffer), Bytes)
CreateWithBuffer ==
  /\ buffer # NoBlock
  /\ message' = [NoMessage EXCEPT !.holders = {"program"}, !.auxiliary_ = <<>>,
                                  !.payload_buffer_ = buffer]
  /\ UNCHANGED memory
NewReply ==
  /\ message' = [NoMessage EXCEPT !.holders = {"program"}]
  /\ UNCHANGED memory

Create ==
  /\ message.holders = {}
  /\ CreateWithSelector \/ CreateWithCopy \/ CreateWithBuffer \/ NewReply
  /\ UNCHANGED <<buffer, value, sender, stale, arguments, faithful, overwritten, archives>>

\* Deserialize, on a block of the parser that is used again afterwards: the n arguments
\* and the payload, if there is one, are copies.
Receive(n, payload) ==
  /\ message.holders = {} /\ Room(n + payload + 1)
  /\ LET parsing == memory.next
         copied == MallocAll(memory, [b \in Fresh(n + payload + 1) |-> Bytes])
     IN  /\ memory' = Free(Access(copied, parsing), parsing)
         /\ message' = [holders |-> {"program"},
                        payload_buffer_ |-> IF payload = 1 THEN parsing + n + 1 ELSE NoBlock,
                        should_free_payload_buffer_ |-> payload = 1,
                        payload_object_ |-> IF payload = 1 THEN Selector ELSE None,
                        auxiliary_ |-> IF n = 0 THEN NoArray
                                       ELSE [i \in 1..n |-> BytesValue(parsing + i)],
                        auxiliary_objects_ |-> <<>>]
  /\ Gives([i \in 1..n |-> Bytes])
  /\ UNCHANGED <<buffer, value, sender, stale, faithful, overwritten, archives>>

HasRoom == message.auxiliary_ # NoArray /\ Len(message.auxiliary_) < MaxArguments

\* AppendAuxiliary(DTXPrimitiveValue&&), called with the program's value or a temporary.
AppendAuxiliary ==
  /\ Usable /\ HasRoom /\ value.t # "null"
  /\ message' = [message EXCEPT !.auxiliary_ = Append(@, value)]
  /\ memory' = Grow(memory, message.auxiliary_)
  /\ value' = MovedFrom(value)
  /\ Gives(Put(arguments, Len(message.auxiliary_) + 1, Content(value)))
  /\ UNCHANGED <<buffer, sender, stale, faithful, overwritten, archives>>

\* AppendAuxiliary(KAValue&&): a placeholder, and the object under its index unless
\* there is one already.
AppendObject(object) ==
  /\ Usable /\ HasRoom
  /\ LET index == Len(message.auxiliary_) + 1
     IN  message' = [message EXCEPT
           !.auxiliary_ = Append(@, kNull),
           !.auxiliary_objects_ = IF index \in DOMAIN @ THEN @ ELSE Put(@, index, object)]
         /\ Gives(Put(arguments, index, object))
  /\ memory' = Grow(memory, message.auxiliary_)
  /\ UNCHANGED <<buffer, value, sender, stale, faithful, overwritten, archives>>

\* The objects of the old list stay in auxiliary_objects_.
SetAuxiliary ==
  /\ Usable
  /\ message' = [message EXCEPT !.auxiliary_ = <<>>]
  /\ memory' = DestroyArray(memory, message.auxiliary_)
  /\ stale' = (stale \/ DOMAIN message.auxiliary_objects_ # {})
  /\ arguments' = <<>>
  /\ UNCHANGED <<buffer, value, sender, faithful, overwritten, archives>>

\* The program moves an argument out of the list: value = std::move(Auxiliary()->At(i)).
TakeArgument(i) ==
  /\ Usable /\ message.auxiliary_ # NoArray /\ i \in DOMAIN message.auxiliary_
  /\ message.auxiliary_[i].t # "null"
  /\ Assign(message.auxiliary_[i])
  /\ message' = [message EXCEPT !.auxiliary_[i] = MovedFrom(@)]
  /\ Gives(Restrict(arguments, DOMAIN arguments \ {i}))
  /\ UNCHANGED <<memory, buffer, sender, stale, faithful, archives>>

SetPayloadObject ==
  /\ Usable
  /\ message' = [message EXCEPT !.payload_object_ = Selector]
  /\ UNCHANGED <<memory, buffer, value, sender, stale, arguments, faithful, overwritten, archives>>

\* The pointer of an earlier payload is overwritten, not freed.
LostPayload == IF message.should_free_payload_buffer_ THEN {message.payload_buffer_} ELSE {}

CopyPayloadBuffer ==
  /\ Usable /\ buffer # NoBlock /\ Room(1)
  /\ memory' = Malloc(Access(memory, buffer), Bytes)
  /\ message' = [message EXCEPT !.payload_buffer_ = memory.next,
                                !.should_free_payload_buffer_ = TRUE]
  /\ overwritten' = overwritten \cup LostPayload
  /\ UNCHANGED <<buffer, value, sender, stale, arguments, faithful, archives>>

KeepsTheFlag ==  \* mutant: should_free_payload_buffer_ is left
  /\ Usable /\ buffer # NoBlock
  /\ message' = [message EXCEPT !.payload_buffer_ = buffer]
  /\ overwritten' = overwritten \cup LostPayload
  /\ UNCHANGED <<memory, buffer, value, sender, stale, arguments, faithful, archives>>
BorrowPayloadBuffer ==
  /\ Usable /\ buffer # NoBlock
  /\ message' = [message EXCEPT !.payload_buffer_ = buffer,
                                !.should_free_payload_buffer_ = FALSE]
  /\ overwritten' = overwritten \cup LostPayload
  /\ UNCHANGED <<memory, buffer, value, sender, stale, arguments, faithful, archives>>

-----------------------------------------------------------------------------
(* Sending and dropping *)

\* A thread lets its shared_ptr go; the last one destroys the message.
Release(heap, holder) ==
  LET last == message.holders = {holder}
  IN  /\ message' = IF last THEN NoMessage ELSE [message EXCEPT !.holders = @ \ {holder}]
      /\ memory' = IF last THEN DestroyMessage(heap, message) ELSE heap

DropMessage ==
  /\ "program" \in message.holders
  /\ Release(memory, "program")
  /\ arguments' = IF "sender" \in message.holders THEN arguments ELSE <<>>
  /\ UNCHANGED <<buffer, value, sender, stale, faithful, overwritten, archives>>

SendMessage ==
  /\ Usable
  /\ message' = [message EXCEPT !.holders = @ \cup {"sender"}]
  /\ sender' = "measure"
  /\ UNCHANGED <<memory, buffer, value, stale, arguments, faithful, overwritten, archives>>

Pending == Cardinality(DOMAIN message.auxiliary_objects_)

\* MaybeSerializeAuxiliaryObjects: the pending objects in some order of the unordered_map,
\* each archived to a block that is then assigned to its place in the array.
Orders == Bijection(DOMAIN message.auxiliary_objects_, Fresh(Pending))

Placed(array, block) ==
  [i \in DOMAIN array |-> IF i \in DOMAIN block THEN BytesValue(block[i]) ELSE array[i]]

Outside(array, block) == DOMAIN block \ DOMAIN array

\* Lost are what the places owned and the archives that are put outside the array.
Replaced(array, block) ==
  {block[i] : i \in Outside(array, block)}
    \cup (UNION {Forgotten(array[i]) : i \in DOMAIN array \cap DOMAIN block})

Archived(block) ==
  LET objects == message.auxiliary_objects_
  IN  Fault(MallocAll(memory, [b \in Fresh(Pending) |->
                                objects[Inverse(block, DOMAIN objects, Fresh(Pending))[b]]]),
            "out_of_bounds", Outside(message.auxiliary_, block) # {})

KeepsObjects(objects) == objects  \* mutant: the map is not cleared
Cleared(objects) == <<>>

\* MaybeSerializePayloadObject.  The archive is nobody's to free.
NeedsArchive == message.payload_buffer_ = NoBlock /\ message.payload_object_ # None

\* SerializedLength, the first call of the transmitter
Measure ==
  /\ sender = "measure"
  /\ Room(Pending + IF NeedsArchive THEN 1 ELSE 0)
  /\ \E block \in Orders :
       LET heap == Archived(block)
       IN  /\ memory' = IF NeedsArchive THEN Malloc(heap, Selector) ELSE heap
           /\ message' = [message EXCEPT
                !.auxiliary_ = Placed(@, block),
                !.auxiliary_objects_ = Cleared(@),
                !.payload_buffer_ = IF NeedsArchive THEN heap.next ELSE @]
           /\ overwritten' = overwritten \cup Replaced(message.auxiliary_, block)
           /\ archives' = archives \cup (IF NeedsArchive THEN {heap.next} ELSE {})
  /\ sender' = "write"
  /\ UNCHANGED <<buffer, value, stale, arguments, faithful>>

\* SerializeTo skips the null values and writes the others in the order of their places.
Written(array) == {i \in DOMAIN array : array[i].t \notin {"null", "nullptr"}}
Contents(array) == [i \in Written(array) |-> Content(array[i])]

\* SerializeTo, which finds nothing left to archive, and the sending thread's shared_ptr goes
\* out of scope.
WriteMessage ==
  /\ sender = "write"
  /\ faithful' = (faithful /\ (stale \/ arguments = Contents(message.auxiliary_)))
  /\ LET array == message.auxiliary_
         read == {message.payload_buffer_} \cup {Owned(array[i]) : i \in Written(array)}
     IN  Release(AccessAll(memory, read), "sender")
  /\ arguments' = IF "program" \in message.holders THEN arguments ELSE <<>>
  /\ sender' = "idle"
  /\ UNCHANGED <<buffer, value, stale, overwritten, archives>>

Build ==
  \/ NewBuffer \/ FreeBuffer \/ NewNumber \/ CopyBytes \/ TakeBytes \/ DropValue
  \/ Create \/ AppendAuxiliary \/ SetAuxiliary \/ SetPayloadObject
  \/ CopyPayloadBuffer \/ BorrowPayloadBuffer
  \/ \E n \in 0..MaxArguments, payload \in 0..1 : Receive(n, payload)
  \/ \E i \in 1..MaxArguments : TakeArgument(i)
  \/ \E object \in Objects : AppendObject(object)

Next == Build \/ DropMessage \/ SendMessage \/ Measure \/ WriteMessage

Spec == Init /\ [][Next]_vars
-----------------------------------------------------------------------------
(* Properties *)

Value == {kNull, NumberValue} \cup [t : {"bytes"}, b : Blocks]
Data == Objects \cup {Bytes, Number, Selector}

\* The values, the message and the heap have their types.
TypeOK ==
  /\ memory.state \in [Blocks -> {"unused", "live", "freed"}]
  /\ memory.data \in [Blocks -> Data]
  /\ memory.next \in 1..(MaxBlocks + 1)
  /\ buffer \in Blocks \cup {NoBlock} /\ value \in Value
  /\ message.holders \subseteq {"program", "sender"}
  /\ message.auxiliary_ = NoArray \/ message.auxiliary_ \in BoundedSeq(Value, MaxArguments)
  /\ \A index \in DOMAIN message.auxiliary_objects_ :
       message.auxiliary_objects_[index] \in Objects
  /\ sender \in {"idle", "measure", "write"}

Items == IF message.auxiliary_ = NoArray THEN <<>> ELSE message.auxiliary_

\* The pointers somebody will free: the program's buffer, its value, the values of the
\* message's array, and a payload the message has copied.
Owners ==
  <<buffer, Owned(value),
    IF message.should_free_payload_buffer_ THEN message.payload_buffer_ ELSE NoBlock>>
  \o [i \in DOMAIN Items |-> Owned(Items[i])]

\* Every block that somebody will free is live and has one owner, whatever has been moved
\* between the program, the array, the message and its copies (the moves of
\* dtxprimitivearray.h:77-85, the two meanings of should_copy at dtxprimitivearray.h:92 and
\* dtxmessage.cpp:180).
OneOwner ==
  \A i \in DOMAIN Owners : Owners[i] # NoBlock =>
    /\ memory.state[Owners[i]] = "live"
    /\ \A j \in DOMAIN Owners : Owners[i] = Owners[j] => i = j

\* No block is freed twice, none is read after it was freed, and the archive of an object
\* goes to a place outside the array only when its list has been replaced (dtxmessage.cpp:173).
NoFault == memory.faults \subseteq (IF stale THEN {"out_of_bounds"} ELSE {})

Reachable == Range(Owners) \cup {message.payload_buffer_}

\* A block is lost in two ways only: an assignment to a value or to a payload that owned
\* it, or as the archive of a payload object, which MaybeSerializePayloadObject leaves to
\* nobody (dtxmessage.cpp:154).  Dropping messages, lists and values loses nothing else.
LeaksAreKnown ==
  \A b \in Blocks : memory.state[b] = "live" /\ b \notin Reachable =>
    b \in overwritten \cup archives

\* The heap and the message are consistent.
MemoryInv == TypeOK /\ OneOwner /\ LeaksAreKnown

\* What the sending thread writes is the list the program has given last, every argument at
\* its place and no others: the archives have gone where their objects were put
\* (dtxmessage.cpp:160-178).
\* dtxmessage.h:170 calls it the "list of arguments of the selector(function)".  From a
\* list that is replaced while objects are pending, their archives turn up in the new one.
ListIsSent == faithful

=============================================================================
