----------------------- MODULE DTXMessageMemory_proofs -----------------------
(***************************************************************************)
(* For any objects, any number of blocks and lists of any length: every     *)
(* block that somebody will free is live and has one owner, what is lost is *)
(* known, no block is freed twice or used after it was freed, and the list  *)
(* that is sent is the one the program has given.                           *)
(***************************************************************************)
EXTENDS DTXMessageMemory, FiniteSetTheorems, SequenceTheorems, TLAPS

-----------------------------------------------------------------------------
(* The inductive invariant *)

\* malloc gives a block out once: from the next one on they are all unused.
HeapType(heap) ==
  /\ heap \in [state : [Blocks -> {"unused", "live", "freed"}], data : [Blocks -> Data],
               next : 1..(MaxBlocks + 1),
               faults : SUBSET {"double_free", "use_after_free", "out_of_bounds"}]
  /\ \A b \in Blocks : b >= heap.next => heap.state[b] = "unused"

\* A message nobody holds is gone, it owns a payload only if it has one, and an object waits
\* for a place in the list, unless a list was replaced.
Lists == {NoArray} \cup Seq(Value)
Waiting == UNION {[places -> Objects] : places \in SUBSET (1..MaxArguments)}

MessageType(m) ==
  /\ m \in [holders : SUBSET {"program", "sender"},
            payload_buffer_ : Blocks \cup {NoBlock}, should_free_payload_buffer_ : BOOLEAN,
            payload_object_ : {None, Selector},
            auxiliary_ : Lists, auxiliary_objects_ : Waiting]
  /\ m.auxiliary_ # NoArray => Len(m.auxiliary_) <= MaxArguments
  /\ m.auxiliary_ = NoArray => DOMAIN m.auxiliary_objects_ = {}
  /\ m.holders = {} => m = NoMessage
  /\ m.should_free_payload_buffer_ => m.payload_buffer_ # NoBlock

Types ==
  /\ HeapType(memory) /\ MessageType(message)
  /\ buffer \in Blocks \cup {NoBlock} /\ value \in Value
  /\ sender \in {"idle", "measure", "write"}
  /\ stale \in BOOLEAN
  /\ ~stale => DOMAIN message.auxiliary_objects_ \subseteq DOMAIN message.auxiliary_

OwnedPayload(m) == IF m.should_free_payload_buffer_ THEN m.payload_buffer_ ELSE NoBlock
Argument(m, i) == Owned(m.auxiliary_[i])

\* Who owns a block owns it alone.
Apart(buf, val, m) ==
  /\ buf # NoBlock => buf # Owned(val) /\ buf # OwnedPayload(m)
  /\ Owned(val) # NoBlock => Owned(val) # OwnedPayload(m)
  /\ \A i \in DOMAIN m.auxiliary_ : Argument(m, i) # NoBlock =>
       Argument(m, i) \notin {buf, Owned(val), OwnedPayload(m)}
  /\ \A i, j \in DOMAIN m.auxiliary_ :
       Argument(m, i) # NoBlock /\ Argument(m, i) = Argument(m, j) => i = j

OwnerOf(b, buf, val, m) ==
  \/ b \in {buf, Owned(val), OwnedPayload(m)}
  \/ \E i \in DOMAIN m.auxiliary_ : Argument(m, i) = b

OwnedIsLive(heap, buf, val, m) ==
  \A b \in Blocks : OwnerOf(b, buf, val, m) => heap.state[b] = "live"

\* A payload that the message does not own is the program's buffer, or an archive.
PayloadKnown(buf, m, arch) ==
  m.payload_buffer_ # NoBlock /\ ~m.should_free_payload_buffer_ =>
    m.payload_buffer_ \in {buf} \cup arch

\* Nobody owns an archive of a payload object, so nobody frees it.
ArchivesStay(heap, buf, val, m, arch) ==
  \A b \in arch : b \in Blocks /\ heap.state[b] = "live" /\ ~OwnerOf(b, buf, val, m)

LeaksKnown(heap, buf, val, m, lost) ==
  \A b \in Blocks : heap.state[b] = "live" =>
    OwnerOf(b, buf, val, m) \/ b = m.payload_buffer_ \/ b \in lost

\* Every place of the list holds what the program gave to it, or the object for it waits.
ContentIn(heap, v) == IF v.t = "bytes" THEN heap.data[v.b] ELSE Number

ListKept(heap, m, given) ==
  /\ given = [i \in Written(m.auxiliary_) \cup DOMAIN m.auxiliary_objects_ |-> given[i]]
  /\ \A i \in DOMAIN m.auxiliary_objects_ :
       m.auxiliary_[i] = kNull /\ given[i] = m.auxiliary_objects_[i]
  /\ \A i \in Written(m.auxiliary_) : given[i] = ContentIn(heap, m.auxiliary_[i])

\* The sending thread holds the message until it has written it, and nothing waits by then.
SenderHolds(m, doing) ==
  /\ doing # "idle" => "sender" \in m.holders
  /\ doing = "write" => DOMAIN m.auxiliary_objects_ = {}

HeapInv ==
  /\ Types
  /\ Apart(buffer, value, message)
  /\ OwnedIsLive(memory, buffer, value, message)
  /\ PayloadKnown(buffer, message, archives)
  /\ ArchivesStay(memory, buffer, value, message, archives)
  /\ LeaksKnown(memory, buffer, value, message, overwritten \cup archives)
  /\ NoFault
  /\ ~stale => ListKept(memory, message, arguments)
  /\ SenderHolds(message, sender)
  /\ ListIsSent

-----------------------------------------------------------------------------
(* What malloc, free and the accesses do to a sound heap *)

\* The blocks that have become live and those that are free now.
Changes(heap, new, live, freed) ==
  /\ HeapType(new)
  /\ \A b \in Blocks :
       new.state[b] = IF b \in live THEN "live" ELSE IF b \in freed THEN "freed" ELSE heap.state[b]
  /\ \A b \in Blocks : b \notin live \cup freed => new.data[b] = heap.data[b]

\* MaxBlocks is a number.
LEMMA BlocksAreNumbers == Blocks \subseteq Nat /\ NoBlock \notin Blocks /\ MaxBlocks \in Nat
  BY MemoryAssumption DEF Blocks, NoBlock

\* The fields of a sound heap.
LEMMA HeapFields ==
  ASSUME NEW heap, HeapType(heap)
  PROVE  /\ heap.next \in 1..(MaxBlocks + 1)
         /\ heap.state \in [Blocks -> {"unused", "live", "freed"}]
         /\ heap.data \in [Blocks -> Data]
         /\ heap.next \in Nat
         /\ heap.next >= 1
<1>1. heap.next \in 1..(MaxBlocks + 1)
  BY DEF HeapType
<1>2. heap.state \in [Blocks -> {"unused", "live", "freed"}]
  BY DEF HeapType
<1>3. heap.data \in [Blocks -> Data]
  BY DEF HeapType
<1> QED
  BY <1>1, <1>2, <1>3, BlocksAreNumbers

\* What the next n calls of malloc give out.
NextBlocks(heap, n) == heap.next..(heap.next + n - 1)

\* The next n numbers are n.
LEMMA HowMany == ASSUME NEW a \in Nat, NEW n \in Nat PROVE Cardinality(a..(a + n - 1)) = n
<1> PICK last : last = a + n - 1
  OBVIOUS
<1>1. a \in Int /\ last \in Int /\ (n = 0 <=> a > last) /\ last - a + 1 = n
  OBVIOUS
<1>2. Cardinality(a..last) = IF a > last THEN 0 ELSE last - a + 1
  BY <1>1, FS_Interval
<1> QED
  BY <1>1, <1>2

\* Several calls of malloc give out the next blocks, and nothing goes wrong.
LEMMA MallocAllGives ==
  ASSUME NEW heap, HeapType(heap), NEW n \in Nat, heap.next + n - 1 <= MaxBlocks,
         NEW new, new = NextBlocks(heap, n), NEW contents, DOMAIN contents = new,
         \A b \in new : contents[b] \in Data
  PROVE  /\ Changes(heap, MallocAll(heap, contents), new, {})
         /\ MallocAll(heap, contents).faults = heap.faults
         /\ MallocAll(heap, contents).next = heap.next + n
         /\ \A b \in new : b \in Blocks /\ heap.state[b] = "unused"
<1> DEFINE m == MallocAll(heap, contents)
<1>1. /\ heap.next \in Nat /\ heap.next >= 1 /\ MaxBlocks \in Nat
      /\ new = heap.next..(heap.next + n - 1)
  BY BlocksAreNumbers DEF HeapType, NextBlocks
<1>2. Cardinality(new) = n
  <2> PICK first \in Nat : first = heap.next
    BY <1>1
  <2>1. Cardinality(first..(first + n - 1)) = n
    BY HowMany
  <2> QED
    BY <1>1, <2>1
<1>3. \A b \in new : b \in Blocks /\ heap.state[b] = "unused"
  BY <1>1 DEF HeapType, Blocks
<1>4. /\ m.next = heap.next + n /\ m.faults = heap.faults
      /\ m.state = [b \in Blocks |-> IF b \in new THEN "live" ELSE heap.state[b]]
      /\ m.data = [b \in Blocks |-> IF b \in new THEN contents[b] ELSE heap.data[b]]
      /\ m = [state |-> m.state, data |-> m.data, next |-> m.next, faults |-> m.faults]
  <2> DEFINE st == [b \in Blocks |-> IF b \in new THEN "live" ELSE heap.state[b]]
             da == [b \in Blocks |-> IF b \in new THEN contents[b] ELSE heap.data[b]]
  <2>1. m = [heap EXCEPT !.state = st, !.data = da, !.next = heap.next + n]
    BY <1>1, <1>2 DEF MallocAll
  <2> HIDE DEF st, da, m
  <2>2. m = [state |-> st, data |-> da, next |-> heap.next + n, faults |-> heap.faults]
    BY <2>1 DEF HeapType
  <2> QED
    BY <2>2 DEF st, da
<1>5. m.next \in 1..(MaxBlocks + 1)
  BY <1>1, <1>4
<1>6. m.state \in [Blocks -> {"unused", "live", "freed"}]
  BY <1>4 DEF HeapType
<1>7. m.data \in [Blocks -> Data]
  BY <1>4 DEF HeapType
<1>8. \A b \in Blocks : b >= m.next => m.state[b] = "unused"
  <2> SUFFICES ASSUME NEW b \in Blocks, b >= m.next
               PROVE  m.state[b] = "unused"
    OBVIOUS
  <2>1. b \notin new /\ b >= heap.next
    BY <1>1, <1>4, BlocksAreNumbers
  <2> QED
    BY <2>1, <1>4 DEF HeapType
<1>9. HeapType(m)
  BY <1>4, <1>5, <1>6, <1>7, <1>8 DEF HeapType
<1> QED
  BY <1>3, <1>4, <1>9 DEF Changes

\* Every new block holds the content it was allocated for.
LEMMA MallocAllWrites ==
  ASSUME NEW heap, HeapType(heap), NEW contents, NEW b \in Blocks, b \in DOMAIN contents
  PROVE  MallocAll(heap, contents).data[b] = contents[b]
BY DEF MallocAll, HeapType

\* One call of malloc gives out the next block.
LEMMA MallocGives ==
  ASSUME NEW heap, HeapType(heap), heap.next <= MaxBlocks, NEW datum \in Data
  PROVE  /\ Changes(heap, Malloc(heap, datum), {heap.next}, {})
         /\ Malloc(heap, datum).faults = heap.faults
         /\ heap.next \in Blocks /\ heap.state[heap.next] = "unused"
<1> PICK new : new = {heap.next}
  OBVIOUS
<1> PICK one : one = 1
  OBVIOUS
<1>1. one \in Nat /\ new = NextBlocks(heap, one) /\ heap.next + one - 1 <= MaxBlocks
  BY BlocksAreNumbers DEF HeapType, NextBlocks
<1> DEFINE contents == [b \in new |-> datum]
<1>2. /\ DOMAIN contents = new /\ \A b \in new : contents[b] \in Data
      /\ Malloc(heap, datum) = MallocAll(heap, contents)
  BY DEF Malloc
<1> HIDE DEF contents
<1>3. /\ Changes(heap, MallocAll(heap, contents), new, {})
      /\ MallocAll(heap, contents).faults = heap.faults
      /\ \A b \in new : b \in Blocks /\ heap.state[b] = "unused"
  BY <1>1, <1>2, MallocAllGives
<1> QED
  BY <1>2, <1>3

\* Freeing live blocks once each goes well.
LEMMA FreeAllFrees ==
  ASSUME NEW heap, HeapType(heap), NEW pointers,
         \A i \in DOMAIN pointers :
           pointers[i] # NoBlock => pointers[i] \in Blocks /\ heap.state[pointers[i]] = "live",
         \A i, j \in DOMAIN pointers :
           pointers[i] # NoBlock /\ pointers[i] = pointers[j] => i = j
  PROVE  /\ Changes(heap, FreeAll(heap, pointers), {}, Range(pointers))
         /\ FreeAll(heap, pointers).faults = heap.faults
<1> DEFINE freed == {b \in Range(pointers) \ {NoBlock} : heap.state[b] = "live"}
           m == FreeAll(heap, pointers)
<1>1. Range(pointers) \ {NoBlock} = freed /\ freed \subseteq Blocks
  BY DEF Range
<1>2. ~Twice(pointers)
  BY DEF Twice
<1>3. /\ m.next = heap.next /\ m.faults = heap.faults
      /\ m.state = [b \in Blocks |-> IF b \in freed THEN "freed" ELSE heap.state[b]]
      /\ m.data = [b \in Blocks |-> IF b \in freed THEN Number ELSE heap.data[b]]
      /\ m = [state |-> m.state, data |-> m.data, next |-> m.next, faults |-> m.faults]
  <2> DEFINE st == [b \in Blocks |-> IF b \in freed THEN "freed" ELSE heap.state[b]]
             da == [b \in Blocks |-> IF b \in freed THEN Number ELSE heap.data[b]]
  <2>1. m = [[heap EXCEPT !.state = st, !.data = da] EXCEPT !.faults = @ \cup {}]
    BY <1>1, <1>2 DEF FreeAll, Fault
  <2> HIDE DEF st, da, m
  <2>2. m = [state |-> st, data |-> da, next |-> heap.next, faults |-> heap.faults]
    BY <2>1 DEF HeapType
  <2> QED
    BY <2>2 DEF st, da
<1>4. m.state \in [Blocks -> {"unused", "live", "freed"}]
  BY <1>3 DEF HeapType
<1>5. m.data \in [Blocks -> Data]
  BY <1>3 DEF HeapType, Data
<1>6. \A b \in Blocks : b >= m.next => m.state[b] = "unused"
  BY <1>3 DEF HeapType
<1>7. HeapType(m)
  BY <1>3, <1>4, <1>5, <1>6 DEF HeapType
<1>8. \A b \in Blocks : b \in freed <=> b \in Range(pointers)
  BY <1>1, BlocksAreNumbers
<1> QED
  BY <1>3, <1>7, <1>8 DEF Changes

\* The same of one block.
LEMMA FreeFrees ==
  ASSUME NEW heap, HeapType(heap), NEW p,
         p # NoBlock => p \in Blocks /\ heap.state[p] = "live"
  PROVE  /\ Changes(heap, Free(heap, p), {}, {p})
         /\ Free(heap, p).faults = heap.faults
<1> DEFINE pointers == <<p>>
<1>1. DOMAIN pointers = {1} /\ pointers[1] = p /\ Range(pointers) = {p}
  BY DEF Range
<1> HIDE DEF pointers
<1>2. /\ Changes(heap, FreeAll(heap, pointers), {}, Range(pointers))
      /\ FreeAll(heap, pointers).faults = heap.faults
  BY <1>1, FreeAllFrees
<1> QED
  BY <1>1, <1>2 DEF Free, pointers

\* Live blocks are accessed without a fault.
LEMMA AccessIsFine ==
  ASSUME NEW heap, HeapType(heap), NEW pointers,
         \A b \in pointers : b # NoBlock => heap.state[b] = "live"
  PROVE  AccessAll(heap, pointers) = heap
<1>1. AccessAll(heap, pointers).faults = heap.faults
  BY DEF AccessAll, Fault, HeapType
<1>2. AccessAll(heap, pointers) = [heap EXCEPT !.faults = heap.faults]
  BY DEF AccessAll, Fault
<1> QED
  BY <1>2 DEF HeapType

\* Everybody who owns a block owns a live one.
LEMMA OwnersAreLive ==
  ASSUME HeapInv
  PROVE  /\ buffer # NoBlock => buffer \in Blocks /\ memory.state[buffer] = "live"
         /\ Owned(value) # NoBlock => Owned(value) \in Blocks
              /\ memory.state[Owned(value)] = "live"
         /\ OwnedPayload(message) # NoBlock =>
              OwnedPayload(message) \in Blocks /\ memory.state[OwnedPayload(message)] = "live"
         /\ \A i \in DOMAIN message.auxiliary_ : Argument(message, i) # NoBlock =>
              /\ Argument(message, i) \in Blocks
              /\ memory.state[Argument(message, i)] = "live"
<1> USE DEF HeapInv, Types
<1>1. Owned(value) # NoBlock => Owned(value) \in Blocks
  BY DEF Owned, Value, kNull, NumberValue
<1>2. OwnedPayload(message) # NoBlock => OwnedPayload(message) \in Blocks
  BY DEF OwnedPayload, MessageType
<1>3. ASSUME NEW i \in DOMAIN message.auxiliary_, Argument(message, i) # NoBlock
      PROVE  Argument(message, i) \in Blocks
  <2>1. message.auxiliary_ # NoArray
    BY <1>3 DEF Argument, Owned, NoArray
  <2>2. message.auxiliary_[i] \in Value
    BY <2>1 DEF MessageType, Lists
  <2> QED
    BY <1>3, <2>2 DEF Argument, Owned, Value, kNull, NumberValue
<1> QED
  BY <1>1, <1>2, <1>3 DEF OwnedIsLive, OwnerOf

\* Destroying an array frees what its values own, when that is live and apart.
LEMMA DestroyArrayFrees ==
  ASSUME NEW heap, HeapType(heap), NEW array,
         \A i \in DOMAIN array : Owned(array[i]) # NoBlock =>
           Owned(array[i]) \in Blocks /\ heap.state[Owned(array[i])] = "live",
         \A i, j \in DOMAIN array :
           Owned(array[i]) # NoBlock /\ Owned(array[i]) = Owned(array[j]) => i = j
  PROVE  /\ Changes(heap, DestroyArray(heap, array), {}, {Owned(array[i]) : i \in DOMAIN array})
         /\ DestroyArray(heap, array).faults = heap.faults
<1>1. CASE array = NoArray
  <2>1. {Owned(array[i]) : i \in DOMAIN array} = {NoBlock}
    BY <1>1 DEF NoArray, Owned
  <2> QED
    BY <1>1, <2>1, BlocksAreNumbers DEF DestroyArray, Changes
<1>2. CASE array # NoArray
  <2> DEFINE pointers == [i \in DOMAIN array |-> Owned(array[i])]
  <2>1. /\ DOMAIN pointers = DOMAIN array
        /\ \A i \in DOMAIN array : pointers[i] = Owned(array[i])
        /\ Range(pointers) = {Owned(array[i]) : i \in DOMAIN array}
    BY DEF Range
  <2> HIDE DEF pointers
  <2>2. /\ Changes(heap, FreeAll(heap, pointers), {}, Range(pointers))
        /\ FreeAll(heap, pointers).faults = heap.faults
    BY <2>1, FreeAllFrees
  <2> QED
    BY <1>2, <2>1, <2>2 DEF DestroyArray, DestroyAll, pointers
<1> QED
  BY <1>1, <1>2

\* A vector that grows frees nothing: the values it has moved from are null.
LEMMA GrowFreesNothing ==
  ASSUME NEW heap, HeapType(heap), NEW items
  PROVE  Changes(heap, Grow(heap, items), {}, {}) /\ Grow(heap, items).faults = heap.faults
<1> DEFINE nulls == [i \in DOMAIN items |-> MovedFrom(items[i])]
           pointers == [i \in DOMAIN nulls |-> Owned(nulls[i])]
<1>1. \A i \in DOMAIN pointers : pointers[i] = NoBlock
  BY DEF Owned, MovedFrom, kNull
<1>2. Grow(heap, items) = FreeAll(heap, pointers)
  BY DEF Grow, DestroyAll
<1> HIDE DEF pointers
<1>3. Changes(heap, FreeAll(heap, pointers), {}, Range(pointers))
        /\ FreeAll(heap, pointers).faults = heap.faults
  BY <1>1, FreeAllFrees
<1>4. \A b \in Blocks : b \notin Range(pointers)
  BY <1>1, BlocksAreNumbers DEF Range
<1> QED
  BY <1>2, <1>3, <1>4 DEF Changes

\* The empty list and the map without objects.
LEMMA NothingWaits ==
  <<>> \in Waiting /\ DOMAIN <<>> = {} /\ <<>> \in Lists /\ Len(<<>>) = 0 /\ <<>> # NoArray
<1>1. <<>> \in [{} -> Objects] /\ DOMAIN <<>> = {} /\ <<>> # NoArray
  BY DEF NoArray
<1>2. <<>> \in Waiting
  BY <1>1 DEF Waiting
<1>3. <<>> \in Lists /\ Len(<<>>) = 0
  BY DEF Lists
<1> QED
  BY <1>1, <1>2, <1>3

\* A sound heap that is left alone.
LEMMA NothingChanges == ASSUME NEW heap, HeapType(heap) PROVE Changes(heap, heap, {}, {})
  BY DEF Changes

\* An argument keeps its content while its block is left alone.
LEMMA ContentStays ==
  ASSUME HeapInv, NEW heap, NEW live, NEW freed, Changes(memory, heap, live, freed),
         NEW i \in DOMAIN message.auxiliary_,
         Argument(message, i) # NoBlock => Argument(message, i) \notin live \cup freed
  PROVE  ContentIn(heap, message.auxiliary_[i]) = ContentIn(memory, message.auxiliary_[i])
<1>1. CASE message.auxiliary_[i].t = "bytes"
  <2>1. message.auxiliary_ # NoArray
    BY <1>1 DEF NoArray
  <2>2. message.auxiliary_[i] \in Value
    BY <2>1 DEF HeapInv, Types, MessageType, Lists
  <2>3. message.auxiliary_[i].b \in Blocks /\ Argument(message, i) = message.auxiliary_[i].b
    BY <1>1, <2>2 DEF Value, kNull, NumberValue, Argument, Owned
  <2> QED
    BY <1>1, <2>3, BlocksAreNumbers DEF Changes, ContentIn
<1> QED
  BY <1>1 DEF ContentIn

\* The list stays as it is while the blocks of its values are left alone.
LEMMA ListStays ==
  ASSUME HeapInv, NEW live, NEW freed, Changes(memory, memory', live, freed),
         \A i \in DOMAIN message.auxiliary_ :
           Argument(message, i) # NoBlock => Argument(message, i) \notin live \cup freed,
         message'.auxiliary_ = message.auxiliary_,
         message'.auxiliary_objects_ = message.auxiliary_objects_,
         UNCHANGED <<arguments, stale>>
  PROVE  ~stale' => ListKept(memory, message, arguments)'
<1>1. PICK heap : heap = memory'
  OBVIOUS
<1>2. \A i \in Written(message.auxiliary_) :
        ContentIn(heap, message.auxiliary_[i]) = ContentIn(memory, message.auxiliary_[i])
  BY <1>1, ContentStays DEF Written
<1>3. ~stale => ListKept(memory, message, arguments)
  BY DEF HeapInv
<1>4. ~stale => ListKept(heap, message, arguments)
  BY <1>2, <1>3 DEF ListKept
<1> QED
  BY <1>1, <1>4 DEF ListKept

\* A list without values and objects keeps nothing.
LEMMA NothingIsKept ==
  ASSUME NEW heap, NEW m, Written(m.auxiliary_) = {}, DOMAIN m.auxiliary_objects_ = {}
  PROVE  ListKept(heap, m, <<>>)
<1>1. <<>> = [i \in {} |-> <<>>[i]]
  OBVIOUS
<1> QED
  BY <1>1 DEF ListKept

-----------------------------------------------------------------------------
(* The program's own memory *)

\* The block of a new buffer is nobody's else.
LEMMA NewBufferKeeps == HeapInv /\ NewBuffer => HeapInv'
<1> SUFFICES ASSUME HeapInv, NewBuffer PROVE HeapInv'
  OBVIOUS
<1> USE DEF HeapInv
<1>1. /\ Changes(memory, memory', {memory.next}, {}) /\ memory'.faults = memory.faults
      /\ memory.next \in Blocks /\ memory.state[memory.next] = "unused"
      /\ buffer' = memory.next /\ buffer = NoBlock
      /\ UNCHANGED <<value, message, sender, stale, overwritten, archives, arguments, faithful>>
  <2>1. memory.next <= MaxBlocks /\ Bytes \in Data
    BY HeapFields DEF NewBuffer, Room, Types, Data
  <2> QED
    BY <2>1, MallocGives DEF NewBuffer, Types
<1>2. Types'
  BY <1>1 DEF Types, Changes
<1>3. Apart(buffer, value, message)'
  BY <1>1 DEF Apart, OwnedIsLive, OwnerOf, Types, Argument
<1>4. OwnedIsLive(memory, buffer, value, message)'
  BY <1>1 DEF OwnedIsLive, OwnerOf, Changes, Argument
<1>5. PayloadKnown(buffer, message, archives)'
  BY <1>1 DEF PayloadKnown
<1>6. ArchivesStay(memory, buffer, value, message, archives)'
  BY <1>1 DEF ArchivesStay, OwnerOf, Changes, Argument
<1>7. LeaksKnown(memory, buffer, value, message, overwritten \cup archives)'
  BY <1>1, BlocksAreNumbers DEF LeaksKnown, OwnerOf, Changes, Argument
<1>8. NoFault'
  BY <1>1 DEF NoFault
<1>9. ~stale' => ListKept(memory, message, arguments)'
  BY <1>1, ListStays, OwnersAreLive
<1>10. SenderHolds(message, sender)' /\ ListIsSent'
  BY <1>1 DEF SenderHolds, ListIsSent
<1> QED
  BY <1>2, <1>3, <1>4, <1>5, <1>6, <1>7, <1>8, <1>9, <1>10

\* A buffer that is freed is not lent to the message.
LEMMA FreeBufferKeeps == HeapInv /\ FreeBuffer => HeapInv'
<1> SUFFICES ASSUME HeapInv, FreeBuffer PROVE HeapInv'
  OBVIOUS
<1> USE DEF HeapInv
<1>1. /\ Changes(memory, memory', {}, {buffer}) /\ memory'.faults = memory.faults
      /\ buffer \in Blocks /\ buffer' = NoBlock
      /\ message.payload_buffer_ # buffer
      /\ UNCHANGED <<value, message, sender, stale, overwritten, archives, arguments, faithful>>
  <2>1. /\ Changes(memory, memory', {}, {buffer}) /\ memory'.faults = memory.faults
        /\ buffer \in Blocks
    BY FreeFrees, OwnersAreLive DEF FreeBuffer, Types
  <2>2. message.payload_buffer_ # buffer
    BY DEF FreeBuffer, Borrowed, Apart, OwnedPayload, Types, MessageType, NoMessage
  <2> QED
    BY <2>1, <2>2 DEF FreeBuffer
<1>2. Types'
  BY <1>1 DEF Types, Changes
<1>3. Apart(buffer, value, message)'
  BY <1>1 DEF Apart, OwnerOf, Argument
<1>4. OwnedIsLive(memory, buffer, value, message)'
  BY <1>1, BlocksAreNumbers DEF OwnedIsLive, OwnerOf, Changes, Argument, Apart
<1>5. PayloadKnown(buffer, message, archives)'
  BY <1>1 DEF PayloadKnown
<1>6. ArchivesStay(memory, buffer, value, message, archives)'
  BY <1>1, BlocksAreNumbers DEF ArchivesStay, OwnerOf, Changes, Argument
<1>7. LeaksKnown(memory, buffer, value, message, overwritten \cup archives)'
  BY <1>1 DEF LeaksKnown, OwnerOf, Changes, Argument
<1>8. NoFault'
  BY <1>1 DEF NoFault
<1>9. ~stale' => ListKept(memory, message, arguments)'
  BY <1>1, ListStays DEF Apart
<1>10. SenderHolds(message, sender)' /\ ListIsSent'
  BY <1>1 DEF SenderHolds, ListIsSent
<1> QED
  BY <1>2, <1>3, <1>4, <1>5, <1>6, <1>7, <1>8, <1>9, <1>10

\* The bytes of the old value are known to be lost.
LEMMA NewNumberKeeps == HeapInv /\ NewNumber => HeapInv'
<1> SUFFICES ASSUME HeapInv, NewNumber PROVE HeapInv'
  OBVIOUS
<1> USE DEF HeapInv
<1>1. /\ value' = NumberValue /\ overwritten' = overwritten \cup ({Owned(value)} \ {NoBlock})
      /\ UNCHANGED <<memory, buffer, message, sender, stale, archives, arguments, faithful>>
      /\ Owned(NumberValue) = NoBlock /\ NumberValue \in Value
  BY DEF NewNumber, Assign, Forgotten, Owned, NumberValue, Value
<1>2. Types'
  BY <1>1 DEF Types, Changes
<1>3. Apart(buffer, value, message)'
  BY <1>1 DEF Apart, OwnerOf, Argument
<1>4. OwnedIsLive(memory, buffer, value, message)'
  BY <1>1, BlocksAreNumbers DEF OwnedIsLive, OwnerOf, Changes, Argument, Apart
<1>5. PayloadKnown(buffer, message, archives)'
  BY <1>1 DEF PayloadKnown
<1>6. ArchivesStay(memory, buffer, value, message, archives)'
  BY <1>1, BlocksAreNumbers DEF ArchivesStay, OwnerOf, Changes, Argument
<1>7. LeaksKnown(memory, buffer, value, message, overwritten \cup archives)'
  BY <1>1 DEF LeaksKnown, OwnerOf, Changes, Argument
<1>8. NoFault'
  BY <1>1 DEF NoFault
<1>9. ~stale' => ListKept(memory, message, arguments)'
  BY <1>1, ListStays, NothingChanges DEF Types
<1>10. SenderHolds(message, sender)' /\ ListIsSent'
  BY <1>1 DEF SenderHolds, ListIsSent
<1> QED
  BY <1>2, <1>3, <1>4, <1>5, <1>6, <1>7, <1>8, <1>9, <1>10

\* A copy is a block of its own.
LEMMA CopyBytesKeeps == HeapInv /\ CopyBytes => HeapInv'
<1> SUFFICES ASSUME HeapInv, CopyBytes PROVE HeapInv'
  OBVIOUS
<1> USE DEF HeapInv
<1>1. /\ Changes(memory, memory', {memory.next}, {}) /\ memory'.faults = memory.faults
      /\ memory.next \in Blocks /\ memory.state[memory.next] = "unused"
      /\ value' = BytesValue(memory.next) /\ Owned(value') = memory.next /\ value' \in Value
      /\ overwritten' = overwritten \cup ({Owned(value)} \ {NoBlock})
      /\ UNCHANGED <<buffer, message, sender, stale, archives, arguments, faithful>>
  <2>1. memory.next <= MaxBlocks /\ Bytes \in Data
    BY HeapFields DEF CopyBytes, Room, Types, Data
  <2>2. Access(memory, buffer) = memory
    BY AccessIsFine, OwnersAreLive DEF Access, Types
  <2>3. /\ Changes(memory, memory', {memory.next}, {}) /\ memory'.faults = memory.faults
        /\ memory.next \in Blocks /\ memory.state[memory.next] = "unused"
    BY <2>1, <2>2, MallocGives DEF CopyBytes, Types
  <2> QED
    BY <2>3 DEF CopyBytes, Assign, Forgotten, Owned, BytesValue, Value
<1>2. Types'
  BY <1>1 DEF Types, Changes
<1>3. Apart(buffer, value, message)'
  BY <1>1, OwnersAreLive DEF Apart, OwnerOf, Argument
<1>4. OwnedIsLive(memory, buffer, value, message)'
  BY <1>1 DEF OwnedIsLive, OwnerOf, Changes, Argument, Apart
<1>5. PayloadKnown(buffer, message, archives)'
  BY <1>1 DEF PayloadKnown
<1>6. ArchivesStay(memory, buffer, value, message, archives)'
  BY <1>1 DEF ArchivesStay, OwnerOf, Changes, Argument
<1>7. LeaksKnown(memory, buffer, value, message, overwritten \cup archives)'
  BY <1>1, BlocksAreNumbers DEF LeaksKnown, OwnerOf, Changes, Argument
<1>8. NoFault'
  BY <1>1 DEF NoFault
<1>9. ~stale' => ListKept(memory, message, arguments)'
  BY <1>1, ListStays, OwnersAreLive
<1>10. SenderHolds(message, sender)' /\ ListIsSent'
  BY <1>1 DEF SenderHolds, ListIsSent
<1> QED
  BY <1>2, <1>3, <1>4, <1>5, <1>6, <1>7, <1>8, <1>9, <1>10

\* The value takes the buffer over, which the message has not borrowed.
LEMMA TakeBytesKeeps == HeapInv /\ TakeBytes => HeapInv'
<1> SUFFICES ASSUME HeapInv, TakeBytes PROVE HeapInv'
  OBVIOUS
<1> USE DEF HeapInv
<1>1. /\ value' = BytesValue(buffer) /\ Owned(value') = buffer /\ value' \in Value
      /\ overwritten' = overwritten \cup ({Owned(value)} \ {NoBlock})
      /\ buffer' = NoBlock /\ buffer \in Blocks
      /\ message.payload_buffer_ # buffer
      /\ UNCHANGED <<memory, message, sender, stale, archives, arguments, faithful>>
  <2>1. message.payload_buffer_ # buffer
    BY DEF TakeBytes, Borrowed, Apart, OwnedPayload, Types, MessageType, NoMessage
  <2> QED
    BY <2>1, OwnersAreLive DEF TakeBytes, Assign, Forgotten, Owned, BytesValue, Value
<1>2. Types'
  BY <1>1 DEF Types, Changes
<1>3. Apart(buffer, value, message)'
  BY <1>1 DEF Apart, OwnerOf, Argument
<1>4. OwnedIsLive(memory, buffer, value, message)'
  BY <1>1, BlocksAreNumbers DEF OwnedIsLive, OwnerOf, Changes, Argument, Apart
<1>5. PayloadKnown(buffer, message, archives)'
  BY <1>1 DEF PayloadKnown
<1>6. ArchivesStay(memory, buffer, value, message, archives)'
  BY <1>1, BlocksAreNumbers DEF ArchivesStay, OwnerOf, Changes, Argument
<1>7. LeaksKnown(memory, buffer, value, message, overwritten \cup archives)'
  BY <1>1 DEF LeaksKnown, OwnerOf, Changes, Argument
<1>8. NoFault'
  BY <1>1 DEF NoFault
<1>9. ~stale' => ListKept(memory, message, arguments)'
  BY <1>1, ListStays, NothingChanges DEF Types
<1>10. SenderHolds(message, sender)' /\ ListIsSent'
  BY <1>1 DEF SenderHolds, ListIsSent
<1> QED
  BY <1>2, <1>3, <1>4, <1>5, <1>6, <1>7, <1>8, <1>9, <1>10

\* What the value owned is freed, and nothing else.
LEMMA DropValueKeeps == HeapInv /\ DropValue => HeapInv'
<1> SUFFICES ASSUME HeapInv, DropValue PROVE HeapInv'
  OBVIOUS
<1> USE DEF HeapInv
<1>1. /\ Changes(memory, memory', {}, {Owned(value)}) /\ memory'.faults = memory.faults
      /\ value' = kNull /\ Owned(kNull) = NoBlock /\ kNull \in Value
      /\ UNCHANGED <<buffer, message, sender, stale, overwritten, archives, arguments, faithful>>
  <2>1. /\ Changes(memory, memory', {}, {Owned(value)}) /\ memory'.faults = memory.faults
    BY FreeFrees, OwnersAreLive DEF DropValue, Destroy, Types
  <2> QED
    BY <2>1 DEF DropValue, Owned, kNull, Value
<1>2. Types'
  BY <1>1 DEF Types, Changes
<1>3. Apart(buffer, value, message)'
  BY <1>1 DEF Apart, OwnerOf, Argument
<1>4. OwnedIsLive(memory, buffer, value, message)'
  BY <1>1, BlocksAreNumbers DEF OwnedIsLive, OwnerOf, Changes, Argument, Apart
<1>5. PayloadKnown(buffer, message, archives)'
  BY <1>1 DEF PayloadKnown
<1>6. ArchivesStay(memory, buffer, value, message, archives)'
  BY <1>1, BlocksAreNumbers DEF ArchivesStay, OwnerOf, Changes, Argument
<1>7. LeaksKnown(memory, buffer, value, message, overwritten \cup archives)'
  BY <1>1 DEF LeaksKnown, OwnerOf, Changes, Argument
<1>8. NoFault'
  BY <1>1 DEF NoFault
<1>9. ~stale' => ListKept(memory, message, arguments)'
  BY <1>1, ListStays DEF Apart
<1>10. SenderHolds(message, sender)' /\ ListIsSent'
  BY <1>1 DEF SenderHolds, ListIsSent
<1> QED
  BY <1>2, <1>3, <1>4, <1>5, <1>6, <1>7, <1>8, <1>9, <1>10

-----------------------------------------------------------------------------
(* Building a message *)

\* A new message owns at most the copy of its payload.
LEMMA CreateKeeps == HeapInv /\ Create => HeapInv'
<1> SUFFICES ASSUME HeapInv, Create PROVE HeapInv'
  OBVIOUS
<1> USE DEF HeapInv
<1>1. /\ message = NoMessage /\ OwnedPayload(message) = NoBlock
      /\ message.payload_buffer_ = NoBlock
      /\ \A i \in DOMAIN message.auxiliary_ : Argument(message, i) = NoBlock
      /\ UNCHANGED <<buffer, value, sender, stale, overwritten, archives, arguments, faithful>>
  BY DEF Create, Types, MessageType, NoMessage, OwnedPayload, Argument, NoArray, Owned
<1>2. /\ message' = [NoMessage EXCEPT
           !.holders = {"program"}, !.auxiliary_ = message'.auxiliary_,
           !.payload_object_ = message'.payload_object_,
           !.payload_buffer_ = message'.payload_buffer_,
           !.should_free_payload_buffer_ = message'.should_free_payload_buffer_]
      /\ message'.auxiliary_ \in {NoArray, <<>>} /\ message'.payload_object_ \in {None, Selector}
      /\ \/ /\ message'.payload_buffer_ \in {NoBlock, buffer}
            /\ message'.should_free_payload_buffer_ = FALSE
            /\ memory' = memory
         \/ /\ message'.payload_buffer_ = memory.next
            /\ message'.should_free_payload_buffer_ = TRUE
            /\ buffer # NoBlock /\ Room(1)
            /\ memory' = Malloc(Access(memory, buffer), Bytes)
  <2>1. CASE CreateWithSelector
    BY <2>1 DEF CreateWithSelector, NoMessage
  <2>2. CASE CreateWithCopy
    BY <2>2 DEF CreateWithCopy, NoMessage
  <2>3. CASE CreateWithBuffer
    BY <2>3 DEF CreateWithBuffer, NoMessage
  <2>4. CASE NewReply
    BY <2>4 DEF NewReply, NoMessage
  <2> QED
    BY <2>1, <2>2, <2>3, <2>4 DEF Create
<1>3. PICK new \in {{}, {memory.next}} :
        /\ Changes(memory, memory', new, {}) /\ memory'.faults = memory.faults
        /\ \A b \in new : b \in Blocks /\ memory.state[b] = "unused"
        /\ \/ new = {} /\ message'.should_free_payload_buffer_ = FALSE
              /\ message'.payload_buffer_ \in {NoBlock, buffer}
           \/ new = {message'.payload_buffer_} /\ message'.should_free_payload_buffer_ = TRUE
  <2>1. CASE memory' = memory /\ message'.should_free_payload_buffer_ = FALSE
    BY <1>2, <2>1 DEF Changes, Types
  <2>2. CASE /\ message'.payload_buffer_ = memory.next
             /\ message'.should_free_payload_buffer_ = TRUE
             /\ Room(1)
             /\ memory' = Malloc(Access(memory, buffer), Bytes)
    <3>1. memory.next <= MaxBlocks /\ Bytes \in Data
      BY <2>2, HeapFields DEF Room, Types, Data
    <3>2. Access(memory, buffer) = memory
      BY AccessIsFine, OwnersAreLive DEF Access, Types
    <3> QED
      BY <2>2, <3>1, <3>2, MallocGives DEF Types
  <2> QED
    BY <1>2, <2>1, <2>2
<1>4. /\ message'.holders = {"program"} /\ message'.auxiliary_objects_ = <<>>
      /\ OwnedPayload(message)' \in {NoBlock} \cup new
      /\ \A i \in DOMAIN message'.auxiliary_ : Argument(message, i)' = NoBlock
  <2>1. message'.holders = {"program"} /\ message'.auxiliary_objects_ = <<>>
    BY <1>2 DEF NoMessage
  <2>2. OwnedPayload(message)' \in {NoBlock} \cup new
    BY <1>3 DEF OwnedPayload
  <2>3. \A i \in DOMAIN message'.auxiliary_ : Argument(message, i)' = NoBlock
    BY <1>2 DEF Argument, NoArray, Owned
  <2> QED
    BY <2>1, <2>2, <2>3
<1>5. MessageType(message)'
  <2>1. message'.payload_buffer_ \in Blocks \cup {NoBlock}
    BY <1>3 DEF Types
  <2>2. message'.auxiliary_ \in Lists /\ message'.auxiliary_objects_ \in Waiting
    BY <1>2, <1>4, NothingWaits DEF Lists
  <2>3. message'.auxiliary_ # NoArray => Len(message'.auxiliary_) <= MaxArguments
    BY <1>2, NothingWaits, MemoryAssumption
  <2>4. message'.should_free_payload_buffer_ => message'.payload_buffer_ # NoBlock
    BY <1>3, BlocksAreNumbers
  <2> QED
    BY <1>2, <1>3, <1>4, <2>1, <2>2, <2>3, <2>4, NothingWaits DEF MessageType, NoMessage
<1>6. Types'
  BY <1>1, <1>3, <1>4, <1>5, NothingWaits DEF Types, Changes
<1>7. Apart(buffer, value, message)'
  BY <1>1, <1>3, <1>4, OwnersAreLive DEF Apart, OwnerOf, Argument
<1>8. OwnedIsLive(memory, buffer, value, message)'
  BY <1>1, <1>3, <1>4 DEF OwnedIsLive, OwnerOf, Changes, Argument, Apart
<1>9. PayloadKnown(buffer, message, archives)'
  BY <1>1, <1>3, <1>4 DEF PayloadKnown
<1>10. ArchivesStay(memory, buffer, value, message, archives)'
  <2> SUFFICES ASSUME NEW b \in archives
               PROVE  /\ b \in Blocks /\ memory'.state[b] = "live"
                      /\ ~OwnerOf(b, buffer, value, message)'
    BY <1>1 DEF ArchivesStay
  <2>1. b \in Blocks /\ memory.state[b] = "live" /\ ~OwnerOf(b, buffer, value, message)
    BY DEF ArchivesStay
  <2>2. b \notin new /\ memory'.state[b] = "live"
    BY <1>3, <2>1 DEF Changes
  <2>3. ~OwnerOf(b, buffer, value, message)'
    BY <1>1, <1>4, <2>1, <2>2, BlocksAreNumbers DEF OwnerOf
  <2> QED
    BY <2>1, <2>2, <2>3
<1>11. LeaksKnown(memory, buffer, value, message, overwritten \cup archives)'
  BY <1>1, <1>3, <1>4, BlocksAreNumbers DEF LeaksKnown, OwnerOf, Changes, Argument
<1>12. NoFault'
  BY <1>1, <1>3, <1>4 DEF NoFault
<1>13. ~stale' => ListKept(memory, message, arguments)'
  <2>1. /\ Written(message.auxiliary_) = {} /\ DOMAIN message.auxiliary_objects_ = {}
        /\ Written(message'.auxiliary_) = {} /\ DOMAIN message'.auxiliary_objects_ = {}
    BY <1>1, <1>2, <1>4, NothingWaits DEF Written, NoMessage, NoArray
  <2> QED
    BY <1>1, <2>1 DEF ListKept
<1>14. SenderHolds(message, sender)' /\ ListIsSent'
  BY <1>1, <1>4, NothingWaits DEF SenderHolds, ListIsSent, NoMessage
<1> QED
  BY <1>6, <1>7, <1>8, <1>9, <1>10, <1>11, <1>12, <1>13, <1>14

\* A list with one value more is a list.
LEMMA AppendIsAList ==
  ASSUME NEW list, list \in Lists, list # NoArray, NEW val \in Value
  PROVE  /\ Append(list, val) \in Lists /\ Append(list, val) # NoArray
         /\ Len(Append(list, val)) = Len(list) + 1
         /\ DOMAIN Append(list, val) = DOMAIN list \cup {Len(list) + 1}
         /\ Len(list) \in Nat /\ Len(list) + 1 \notin DOMAIN list
         /\ \A i \in DOMAIN list : Append(list, val)[i] = list[i]
         /\ Append(list, val)[Len(list) + 1] = val
<1>1. list \in Seq(Value) /\ Append(list, val) \in Seq(Value) /\ Len(list) \in Nat
  BY DEF Lists
<1>2. /\ Len(Append(list, val)) = Len(list) + 1
      /\ DOMAIN Append(list, val) = DOMAIN list \cup {Len(list) + 1}
      /\ Len(list) \in Nat /\ Len(list) + 1 \notin DOMAIN list
      /\ \A i \in DOMAIN list : Append(list, val)[i] = list[i]
      /\ Append(list, val)[Len(list) + 1] = val
  BY <1>1
<1>3. Append(list, val) # NoArray
  <2>1. NoArray[1] \notin Value /\ DOMAIN NoArray = {1}
    BY DEF NoArray, Value, kNull, NumberValue
  <2>2. \A i \in DOMAIN Append(list, val) : Append(list, val)[i] \in Value
    BY <1>1
  <2> QED
    BY <2>1, <2>2
<1> QED
  BY <1>1, <1>2, <1>3 DEF Lists

\* The value goes from the program to the list.
LEMMA AppendAuxiliaryKeeps == HeapInv /\ AppendAuxiliary => HeapInv'
<1> SUFFICES ASSUME HeapInv, AppendAuxiliary PROVE HeapInv'
  OBVIOUS
<1> USE DEF HeapInv
<1> PICK n : n = Len(message.auxiliary_) + 1
  OBVIOUS
<1>1. /\ Changes(memory, memory', {}, {}) /\ memory'.faults = memory.faults
      /\ value' = kNull /\ Owned(kNull) = NoBlock /\ kNull \in Value
      /\ UNCHANGED <<buffer, sender, stale, overwritten, archives, faithful>>
      /\ value.t \notin {"null", "nullptr"}
      /\ ~stale => arguments' = Put(arguments, n, Content(value))
  <2>1. value.t \notin {"null", "nullptr"}
    BY DEF AppendAuxiliary, Types, Value, kNull, NumberValue
  <2> QED
    BY <2>1, GrowFreesNothing
       DEF AppendAuxiliary, MovedFrom, Types, Owned, kNull, Value, Gives
<1>2. /\ DOMAIN message'.auxiliary_ = DOMAIN message.auxiliary_ \cup {n}
      /\ n \notin DOMAIN message.auxiliary_
      /\ \A i \in DOMAIN message.auxiliary_ : Argument(message, i)' = Argument(message, i)
      /\ Argument(message, n)' = Owned(value)
      /\ OwnedPayload(message)' = OwnedPayload(message)
      /\ message'.payload_buffer_ = message.payload_buffer_
      /\ message'.should_free_payload_buffer_ = message.should_free_payload_buffer_
      /\ MessageType(message)'
      /\ message'.auxiliary_[n] = value
      /\ \A i \in DOMAIN message.auxiliary_ : message'.auxiliary_[i] = message.auxiliary_[i]
      /\ message'.auxiliary_objects_ = message.auxiliary_objects_
  <2>1. /\ message' = [message EXCEPT !.auxiliary_ = Append(message.auxiliary_, value)]
        /\ message.auxiliary_ \in Lists /\ message.auxiliary_ # NoArray
        /\ Len(message.auxiliary_) < MaxArguments
        /\ message.holders # {} /\ value \in Value
    BY DEF AppendAuxiliary, Usable, HasRoom, Types, MessageType
  <2>2. PICK longer : longer = Append(message.auxiliary_, value)
    OBVIOUS
  <2>3. /\ longer \in Lists /\ longer # NoArray /\ Len(longer) = Len(message.auxiliary_) + 1
        /\ DOMAIN longer = DOMAIN message.auxiliary_ \cup {n}
        /\ n \notin DOMAIN message.auxiliary_
        /\ Len(message.auxiliary_) \in Nat
        /\ \A i \in DOMAIN message.auxiliary_ : longer[i] = message.auxiliary_[i]
        /\ longer[n] = value
    BY <2>1, <2>2, AppendIsAList
  <2>4. message' = [message EXCEPT !.auxiliary_ = longer]
    BY <2>1, <2>2
  <2>5. MessageType(message)'
    BY <2>1, <2>3, <2>4, MemoryAssumption, SMTT(20) DEF Types, MessageType
  <2>6. message'.auxiliary_ = longer /\ message'.auxiliary_objects_ = message.auxiliary_objects_
        /\ message'.payload_buffer_ = message.payload_buffer_
        /\ message'.should_free_payload_buffer_ = message.should_free_payload_buffer_
    BY <2>4 DEF Types, MessageType
  <2>7. /\ \A i \in DOMAIN message.auxiliary_ : Argument(message, i)' = Argument(message, i)
        /\ Argument(message, n)' = Owned(value)
    BY <2>3, <2>6 DEF Argument
  <2>8. OwnedPayload(message)' = OwnedPayload(message)
    BY <2>6 DEF OwnedPayload
  <2> QED
    BY <2>3, <2>5, <2>6, <2>7, <2>8
<1>3. Types'
  BY <1>1, <1>2, NothingWaits DEF Types, Changes
<1>4. Apart(buffer, value, message)'
  BY <1>1, <1>2 DEF Apart, OwnerOf
<1>5. OwnedIsLive(memory, buffer, value, message)'
  BY <1>1, <1>2, BlocksAreNumbers DEF OwnedIsLive, OwnerOf, Changes, Apart
<1>6. PayloadKnown(buffer, message, archives)'
  BY <1>1, <1>2 DEF PayloadKnown
<1>7. ArchivesStay(memory, buffer, value, message, archives)'
  <2> SUFFICES ASSUME NEW b \in archives
               PROVE  /\ b \in Blocks /\ memory'.state[b] = "live"
                      /\ ~OwnerOf(b, buffer, value, message)'
    BY <1>1 DEF ArchivesStay
  <2>1. b \in Blocks /\ memory.state[b] = "live" /\ ~OwnerOf(b, buffer, value, message)
    BY DEF ArchivesStay
  <2>2. memory'.state[b] = "live" /\ b # NoBlock
    BY <1>1, <2>1, BlocksAreNumbers DEF Changes
  <2> QED
    BY <1>1, <1>2, <2>1, <2>2 DEF OwnerOf
<1>8. LeaksKnown(memory, buffer, value, message, overwritten \cup archives)'
  BY <1>1, <1>2 DEF LeaksKnown, OwnerOf, Changes
<1>9. NoFault'
  BY <1>1, <1>2 DEF NoFault
<1>10. ~stale' => ListKept(memory, message, arguments)'
  <2> SUFFICES ASSUME ~stale PROVE ListKept(memory, message, arguments)'
    BY <1>1
  <2>1. Written(message.auxiliary_)' = Written(message.auxiliary_) \cup {n}
    BY <1>1, <1>2 DEF Written
  <2>2. /\ DOMAIN message.auxiliary_objects_ \subseteq DOMAIN message.auxiliary_
        /\ ListKept(memory, message, arguments)
    BY DEF Types
  <2>3. arguments' = [i \in DOMAIN arguments \cup {n} |->
                       IF i = n THEN ContentIn(memory, value) ELSE arguments[i]]
    BY <1>1 DEF Put, Content, ContentIn
  <2>4. PICK heap : heap = memory'
    OBVIOUS
  <2>5. \A i \in DOMAIN message.auxiliary_ :
          ContentIn(heap, message.auxiliary_[i]) = ContentIn(memory, message.auxiliary_[i])
    BY <1>1, <2>4, ContentStays
  <2>6. ContentIn(heap, value) = ContentIn(memory, value)
    <3>1. value.t = "bytes" => value.b \in Blocks
      BY DEF Types, Value, kNull, NumberValue
    <3> QED
      BY <1>1, <2>4, <3>1 DEF Changes, ContentIn
  <2>7. DOMAIN arguments = Written(message.auxiliary_) \cup DOMAIN message.auxiliary_objects_
    BY <2>2 DEF ListKept
  <2>8. /\ arguments' = [i \in Written(message'.auxiliary_) \cup DOMAIN message'.auxiliary_objects_
                          |-> arguments'[i]]
    BY <1>2, <2>1, <2>3, <2>7
  <2>9. \A i \in DOMAIN message'.auxiliary_objects_ :
          message'.auxiliary_[i] = kNull /\ arguments'[i] = message'.auxiliary_objects_[i]
    BY <1>2, <2>2, <2>3, <2>7 DEF ListKept
  <2>10. \A i \in Written(message'.auxiliary_) :
           arguments'[i] = ContentIn(heap, message'.auxiliary_[i])
    BY <1>2, <2>1, <2>2, <2>3, <2>5, <2>6, <2>7 DEF ListKept, Written
  <2> QED
    BY <2>4, <2>8, <2>9, <2>10 DEF ListKept
<1>11. SenderHolds(message, sender)' /\ ListIsSent'
  BY <1>1 DEF SenderHolds, ListIsSent, AppendAuxiliary, Usable
<1> QED
  BY <1>3, <1>4, <1>5, <1>6, <1>7, <1>8, <1>9, <1>10, <1>11

\* A null value goes to the list.
LEMMA AppendObjectKeeps ==
  ASSUME NEW object \in Objects PROVE  HeapInv /\ AppendObject(object) => HeapInv'
<1> SUFFICES ASSUME HeapInv, AppendObject(object) PROVE HeapInv'
  OBVIOUS
<1> USE DEF HeapInv
<1> PICK n : n = Len(message.auxiliary_) + 1
  OBVIOUS
<1>1. /\ Changes(memory, memory', {}, {}) /\ memory'.faults = memory.faults
      /\ UNCHANGED <<buffer, value, sender, stale, overwritten, archives, faithful>>
      /\ ~stale => arguments' = Put(arguments, n, object)
  BY GrowFreesNothing DEF AppendObject, Types, Gives
<1>2. /\ DOMAIN message'.auxiliary_ = DOMAIN message.auxiliary_ \cup {n}
      /\ n \notin DOMAIN message.auxiliary_
      /\ \A i \in DOMAIN message.auxiliary_ : Argument(message, i)' = Argument(message, i)
      /\ Argument(message, n)' = NoBlock
      /\ OwnedPayload(message)' = OwnedPayload(message)
      /\ message'.payload_buffer_ = message.payload_buffer_
      /\ message'.should_free_payload_buffer_ = message.should_free_payload_buffer_
      /\ MessageType(message)'
      /\ message'.auxiliary_[n] = kNull
      /\ \A i \in DOMAIN message.auxiliary_ : message'.auxiliary_[i] = message.auxiliary_[i]
      /\ n \notin DOMAIN message.auxiliary_objects_ =>
           message'.auxiliary_objects_ = Put(message.auxiliary_objects_, n, object)
      /\ DOMAIN message'.auxiliary_objects_ = DOMAIN message.auxiliary_objects_ \cup {n}
  <2>1. /\ message.auxiliary_ \in Lists /\ message.auxiliary_ # NoArray
        /\ Len(message.auxiliary_) < MaxArguments
        /\ message.holders # {} /\ kNull \in Value
    BY DEF AppendObject, Usable, HasRoom, Types, MessageType, Value
  <2>2. PICK longer : longer = Append(message.auxiliary_, kNull)
    OBVIOUS
  <2>3. /\ longer \in Lists /\ longer # NoArray /\ Len(longer) = Len(message.auxiliary_) + 1
        /\ DOMAIN longer = DOMAIN message.auxiliary_ \cup {n}
        /\ n \notin DOMAIN message.auxiliary_
        /\ Len(message.auxiliary_) \in Nat
        /\ \A i \in DOMAIN message.auxiliary_ : longer[i] = message.auxiliary_[i]
        /\ longer[n] = kNull
    BY <2>1, <2>2, AppendIsAList
  <2>4. PICK more :
          more = IF n \in DOMAIN message.auxiliary_objects_ THEN message.auxiliary_objects_
                 ELSE Put(message.auxiliary_objects_, n, object)
    OBVIOUS
  <2>5. message' = [message EXCEPT !.auxiliary_ = longer, !.auxiliary_objects_ = more]
    BY <2>2, <2>4 DEF AppendObject
  <2>6. DOMAIN more = DOMAIN message.auxiliary_objects_ \cup {n}
    BY <2>4 DEF Put
  <2>7. more \in Waiting
    <3>1. PICK places \in SUBSET (1..MaxArguments) :
            message.auxiliary_objects_ \in [places -> Objects]
      BY DEF Types, MessageType, Waiting
    <3>2. n \in 1..MaxArguments
      BY <2>1, <2>3, MemoryAssumption
    <3>3. more \in [places \cup {n} -> Objects]
      BY <2>4, <3>1 DEF Put
    <3> QED
      BY <3>1, <3>2, <3>3 DEF Waiting
  <2>8. MessageType(message)'
    <3>1. /\ message'.auxiliary_ = longer /\ message'.auxiliary_objects_ = more
          /\ message'.holders = message.holders
          /\ message'.payload_buffer_ = message.payload_buffer_
          /\ message'.should_free_payload_buffer_ = message.should_free_payload_buffer_
      BY <2>5 DEF Types, MessageType
    <3>2. Len(longer) <= MaxArguments
      BY <2>1, <2>3, MemoryAssumption
    <3> QED
      BY <2>1, <2>3, <2>5, <2>7, <3>1, <3>2 DEF Types, MessageType
  <2> QED
    BY <2>3, <2>4, <2>5, <2>6, <2>8 DEF Types, MessageType, Argument, OwnedPayload, Owned, kNull
<1>3. Types'
  BY <1>1, <1>2, NothingWaits DEF Types, Changes
<1>4. Apart(buffer, value, message)'
  BY <1>1, <1>2 DEF Apart, OwnerOf
<1>5. OwnedIsLive(memory, buffer, value, message)'
  BY <1>1, <1>2, BlocksAreNumbers DEF OwnedIsLive, OwnerOf, Changes, Apart
<1>6. PayloadKnown(buffer, message, archives)'
  BY <1>1, <1>2 DEF PayloadKnown
<1>7. ArchivesStay(memory, buffer, value, message, archives)'
  BY <1>1, <1>2, BlocksAreNumbers DEF ArchivesStay, OwnerOf, Changes
<1>8. LeaksKnown(memory, buffer, value, message, overwritten \cup archives)'
  BY <1>1, <1>2 DEF LeaksKnown, OwnerOf, Changes
<1>9. NoFault'
  BY <1>1, <1>2 DEF NoFault
<1>10. ~stale' => ListKept(memory, message, arguments)'
  <2> SUFFICES ASSUME ~stale PROVE ListKept(memory, message, arguments)'
    BY <1>1
  <2>1. /\ DOMAIN message.auxiliary_objects_ \subseteq DOMAIN message.auxiliary_
        /\ ListKept(memory, message, arguments)
    BY DEF Types
  <2>2. n \notin DOMAIN message.auxiliary_objects_
    BY <1>2, <2>1
  <2>3. Written(message'.auxiliary_) = Written(message.auxiliary_)
    BY <1>2 DEF Written, kNull
  <2>4. /\ arguments' = [i \in DOMAIN arguments \cup {n} |->
                          IF i = n THEN object ELSE arguments[i]]
        /\ message'.auxiliary_objects_ =
             [i \in DOMAIN message.auxiliary_objects_ \cup {n} |->
               IF i = n THEN object ELSE message.auxiliary_objects_[i]]
    BY <1>1, <1>2, <2>2 DEF Put
  <2>5. PICK heap : heap = memory'
    OBVIOUS
  <2>6. \A i \in DOMAIN message.auxiliary_ :
          ContentIn(heap, message.auxiliary_[i]) = ContentIn(memory, message.auxiliary_[i])
    BY <1>1, <2>5, ContentStays
  <2>7. DOMAIN arguments = Written(message.auxiliary_) \cup DOMAIN message.auxiliary_objects_
    BY <2>1 DEF ListKept
  <2>8. arguments' = [i \in Written(message'.auxiliary_) \cup DOMAIN message'.auxiliary_objects_
                       |-> arguments'[i]]
    BY <2>3, <2>4, <2>7
  <2>9. \A i \in DOMAIN message'.auxiliary_objects_ :
          message'.auxiliary_[i] = kNull /\ arguments'[i] = message'.auxiliary_objects_[i]
    BY <1>2, <2>1, <2>4, <2>7 DEF ListKept
  <2>10. \A i \in Written(message'.auxiliary_) :
           arguments'[i] = ContentIn(heap, message'.auxiliary_[i])
    BY <1>2, <2>1, <2>3, <2>4, <2>6, <2>7 DEF ListKept, Written
  <2> QED
    BY <2>5, <2>8, <2>9, <2>10 DEF ListKept
<1>11. SenderHolds(message, sender)' /\ ListIsSent'
  BY <1>1 DEF SenderHolds, ListIsSent, AppendObject, Usable
<1> QED
  BY <1>3, <1>4, <1>5, <1>6, <1>7, <1>8, <1>9, <1>10, <1>11

\* The values of the old list are destroyed with it.
LEMMA SetAuxiliaryKeeps == HeapInv /\ SetAuxiliary => HeapInv'
<1> SUFFICES ASSUME HeapInv, SetAuxiliary PROVE HeapInv'
  OBVIOUS
<1> USE DEF HeapInv
<1> DEFINE old == {Owned(message.auxiliary_[i]) : i \in DOMAIN message.auxiliary_}
<1>1. /\ Changes(memory, memory', {}, old) /\ memory'.faults = memory.faults
      /\ stale' \in BOOLEAN /\ (stale => stale')
      /\ ~stale' => DOMAIN message.auxiliary_objects_ = {}
      /\ UNCHANGED <<buffer, value, sender, overwritten, archives, faithful>>
      /\ arguments' = <<>>
  <2>1. /\ Changes(memory, DestroyArray(memory, message.auxiliary_), {}, old)
        /\ DestroyArray(memory, message.auxiliary_).faults = memory.faults
    BY DestroyArrayFrees, OwnersAreLive DEF Types, Apart, Argument
  <2> QED
    BY <2>1 DEF SetAuxiliary, Types
<1>2. /\ DOMAIN message'.auxiliary_ = {}
      /\ OwnedPayload(message)' = OwnedPayload(message)
      /\ message'.payload_buffer_ = message.payload_buffer_
      /\ message'.should_free_payload_buffer_ = message.should_free_payload_buffer_
      /\ message'.auxiliary_objects_ = message.auxiliary_objects_
      /\ MessageType(message)'
  <2>1. message' = [message EXCEPT !.auxiliary_ = <<>>] /\ message.holders # {}
    BY DEF SetAuxiliary, Usable
  <2>2. MessageType(message)'
    <3>1. /\ message'.auxiliary_ = <<>> /\ Len(message'.auxiliary_) <= MaxArguments
          /\ message'.auxiliary_ \in Lists /\ message'.auxiliary_ # NoArray
      BY <2>1, NothingWaits, MemoryAssumption DEF Types, MessageType
    <3> QED
      BY <2>1, <3>1 DEF Types, MessageType
  <2> QED
    BY <2>1, <2>2, NothingWaits DEF Types, MessageType, OwnedPayload
<1>3. \A b \in Blocks :
        b \in old <=> \E i \in DOMAIN message.auxiliary_ : Argument(message, i) = b
  BY DEF Argument
<1> HIDE DEF old
<1>4. Types'
  BY <1>1, <1>2, <1>3, NothingWaits DEF Types, Changes
<1>5. Apart(buffer, value, message)'
  BY <1>1, <1>2, <1>3 DEF Apart, OwnerOf
<1>6. OwnedIsLive(memory, buffer, value, message)'
  BY <1>1, <1>2, <1>3, BlocksAreNumbers DEF OwnedIsLive, OwnerOf, Changes, Apart
<1>7. PayloadKnown(buffer, message, archives)'
  BY <1>1, <1>2, <1>3 DEF PayloadKnown
<1>8. ArchivesStay(memory, buffer, value, message, archives)'
  BY <1>1, <1>2, <1>3 DEF ArchivesStay, OwnerOf, Changes
<1>9. LeaksKnown(memory, buffer, value, message, overwritten \cup archives)'
  BY <1>1, <1>2, <1>3 DEF LeaksKnown, OwnerOf, Changes
<1>10. NoFault'
  BY <1>1, <1>2, <1>3 DEF NoFault
<1>11. ~stale' => ListKept(memory, message, arguments)'
  BY <1>1, <1>2, NothingIsKept DEF Written
<1>12. SenderHolds(message, sender)' /\ ListIsSent'
  BY <1>1 DEF SenderHolds, ListIsSent, SetAuxiliary, Usable
<1> QED
  BY <1>4, <1>5, <1>6, <1>7, <1>8, <1>9, <1>10, <1>11, <1>12

\* A value goes from the list to the program.
LEMMA TakeArgumentKeeps ==
  ASSUME NEW k \in 1..MaxArguments PROVE  HeapInv /\ TakeArgument(k) => HeapInv'
<1> SUFFICES ASSUME HeapInv, TakeArgument(k) PROVE HeapInv'
  OBVIOUS
<1> USE DEF HeapInv
<1>1. /\ k \in DOMAIN message.auxiliary_
      /\ Owned(value') = Argument(message, k) /\ value' \in Value
      /\ overwritten' = overwritten \cup ({Owned(value)} \ {NoBlock})
      /\ UNCHANGED <<memory, buffer, sender, stale, archives, faithful>>
      /\ ~stale => arguments' = [i \in DOMAIN arguments \ {k} |-> arguments[i]]
      /\ message.auxiliary_[k] # kNull
  BY DEF TakeArgument, Assign, Forgotten, Types, MessageType, Lists, Argument, Gives, Restrict,
         kNull
<1>2. /\ DOMAIN message'.auxiliary_ = DOMAIN message.auxiliary_
      /\ \A i \in DOMAIN message.auxiliary_ :
           Argument(message, i)' = IF i = k THEN NoBlock ELSE Argument(message, i)
      /\ OwnedPayload(message)' = OwnedPayload(message)
      /\ message'.payload_buffer_ = message.payload_buffer_
      /\ message'.should_free_payload_buffer_ = message.should_free_payload_buffer_
      /\ message'.auxiliary_objects_ = message.auxiliary_objects_
      /\ MessageType(message)'
      /\ \A i \in DOMAIN message.auxiliary_ :
           message'.auxiliary_[i] = IF i = k THEN kNull ELSE message.auxiliary_[i]
  <2>1. PICK rest : rest = [message.auxiliary_ EXCEPT ![k] = kNull]
    OBVIOUS
  <2>2. message' = [message EXCEPT !.auxiliary_ = rest] /\ message.holders # {}
    BY <2>1 DEF TakeArgument, MovedFrom, Usable
  <2>3. /\ message.auxiliary_ \in Seq(Value) /\ kNull \in Value
        /\ Len(message.auxiliary_) <= MaxArguments
    BY DEF TakeArgument, Types, MessageType, Lists, Value
  <2>4. /\ rest \in Seq(Value) /\ Len(rest) = Len(message.auxiliary_)
        /\ DOMAIN rest = DOMAIN message.auxiliary_
        /\ \A i \in DOMAIN message.auxiliary_ :
             rest[i] = IF i = k THEN kNull ELSE message.auxiliary_[i]
    <3>1. /\ DOMAIN rest = 1..Len(message.auxiliary_) /\ Len(message.auxiliary_) \in Nat
          /\ DOMAIN message.auxiliary_ = 1..Len(message.auxiliary_)
          /\ \A i \in DOMAIN message.auxiliary_ : message.auxiliary_[i] \in Value
      BY <2>1, <2>3
    <3>2. \A i \in DOMAIN message.auxiliary_ :
            rest[i] = IF i = k THEN kNull ELSE message.auxiliary_[i]
      BY <2>1
    <3>3. rest \in [1..Len(message.auxiliary_) -> Value]
      BY <2>1, <2>3, <3>1
    <3> QED
      BY <3>1, <3>2, <3>3
  <2>5. rest # NoArray
    <3>1. NoArray[1] \notin Value /\ DOMAIN NoArray = {1}
      BY DEF NoArray, Value, kNull, NumberValue
    <3> QED
      BY <2>4, <3>1
  <2>6. MessageType(message)'
    BY <2>2, <2>3, <2>4, <2>5 DEF Types, MessageType, Lists
  <2> QED
    BY <2>2, <2>4, <2>6 DEF Types, MessageType, Argument, OwnedPayload, Owned, kNull
<1>3. Types'
  BY <1>1, <1>2, NothingWaits DEF Types, Changes
<1>4. Apart(buffer, value, message)'
  BY <1>1, <1>2 DEF Apart, OwnerOf
<1>5. OwnedIsLive(memory, buffer, value, message)'
  BY <1>1, <1>2, BlocksAreNumbers DEF OwnedIsLive, OwnerOf, Changes, Apart
<1>6. PayloadKnown(buffer, message, archives)'
  BY <1>1, <1>2 DEF PayloadKnown
<1>7. ArchivesStay(memory, buffer, value, message, archives)'
  BY <1>1, <1>2, BlocksAreNumbers DEF ArchivesStay, OwnerOf, Changes
<1>8. LeaksKnown(memory, buffer, value, message, overwritten \cup archives)'
  BY <1>1, <1>2 DEF LeaksKnown, OwnerOf, Changes
<1>9. NoFault'
  BY <1>1, <1>2 DEF NoFault
<1>10. ~stale' => ListKept(memory, message, arguments)'
  <2> SUFFICES ASSUME ~stale PROVE ListKept(memory, message, arguments)'
    BY <1>1
  <2>1. ListKept(memory, message, arguments)
    OBVIOUS
  <2>2. k \notin DOMAIN message.auxiliary_objects_
    BY <1>1, <2>1 DEF ListKept
  <2>3. Written(message'.auxiliary_) = Written(message.auxiliary_) \ {k}
    BY <1>2 DEF Written, kNull
  <2>4. DOMAIN arguments = Written(message.auxiliary_) \cup DOMAIN message.auxiliary_objects_
    BY <2>1 DEF ListKept
  <2>5. arguments' = [i \in Written(message'.auxiliary_) \cup DOMAIN message'.auxiliary_objects_
                       |-> arguments'[i]]
    BY <1>1, <1>2, <2>2, <2>3, <2>4
  <2>6. \A i \in DOMAIN message'.auxiliary_objects_ :
          message'.auxiliary_[i] = kNull /\ arguments'[i] = message'.auxiliary_objects_[i]
    <3> SUFFICES ASSUME NEW i \in DOMAIN message.auxiliary_objects_
                 PROVE  /\ message'.auxiliary_[i] = kNull
                        /\ arguments'[i] = message.auxiliary_objects_[i]
      BY <1>2
    <3>1. i # k /\ i \in DOMAIN arguments /\ i \in DOMAIN message.auxiliary_
      BY <2>2, <2>4 DEF Types
    <3> QED
      BY <1>1, <1>2, <2>1, <3>1 DEF ListKept
  <2>7. \A i \in Written(message'.auxiliary_) :
          arguments'[i] = ContentIn(memory, message'.auxiliary_[i])
    <3> SUFFICES ASSUME NEW i \in Written(message'.auxiliary_)
                 PROVE  arguments'[i] = ContentIn(memory, message'.auxiliary_[i])
      OBVIOUS
    <3>1. i \in Written(message.auxiliary_) /\ i # k /\ i \in DOMAIN message.auxiliary_
      BY <2>3 DEF Written
    <3>2. arguments'[i] = arguments[i] /\ message'.auxiliary_[i] = message.auxiliary_[i]
      BY <1>1, <1>2, <2>4, <3>1
    <3> QED
      BY <2>1, <3>1, <3>2 DEF ListKept
  <2> QED
    BY <1>1, <2>5, <2>6, <2>7 DEF ListKept
<1>11. SenderHolds(message, sender)' /\ ListIsSent'
  BY <1>1 DEF SenderHolds, ListIsSent, TakeArgument, Usable
<1> QED
  BY <1>3, <1>4, <1>5, <1>6, <1>7, <1>8, <1>9, <1>10, <1>11

\* The payload object owns no block.
LEMMA SetPayloadObjectKeeps == HeapInv /\ SetPayloadObject => HeapInv'
<1> SUFFICES ASSUME HeapInv, SetPayloadObject PROVE HeapInv'
  OBVIOUS
<1> USE DEF HeapInv
<1>1. UNCHANGED <<memory, buffer, value, sender, stale, overwritten, archives, arguments,
        faithful>>
  BY DEF SetPayloadObject
<1>2. /\ OwnedPayload(message)' = OwnedPayload(message)
      /\ message'.payload_buffer_ = message.payload_buffer_
      /\ message'.should_free_payload_buffer_ = message.should_free_payload_buffer_
      /\ message'.auxiliary_ = message.auxiliary_
      /\ message'.auxiliary_objects_ = message.auxiliary_objects_
      /\ \A i \in DOMAIN message.auxiliary_ : Argument(message, i)' = Argument(message, i)
      /\ MessageType(message)'
  <2>1. message' = [message EXCEPT !.payload_object_ = Selector] /\ message.holders # {}
    BY DEF SetPayloadObject, Usable
  <2>2. MessageType(message)'
    BY <2>1 DEF Types, MessageType
  <2> QED
    BY <2>1, <2>2 DEF Types, MessageType, OwnedPayload, Argument
<1>3. Types'
  BY <1>1, <1>2, NothingWaits DEF Types, Changes
<1>4. Apart(buffer, value, message)'
  BY <1>1, <1>2 DEF Apart, OwnerOf
<1>5. OwnedIsLive(memory, buffer, value, message)'
  BY <1>1, <1>2 DEF OwnedIsLive, OwnerOf, Changes, Apart
<1>6. PayloadKnown(buffer, message, archives)'
  BY <1>1, <1>2 DEF PayloadKnown
<1>7. ArchivesStay(memory, buffer, value, message, archives)'
  BY <1>1, <1>2 DEF ArchivesStay, OwnerOf, Changes
<1>8. LeaksKnown(memory, buffer, value, message, overwritten \cup archives)'
  BY <1>1, <1>2 DEF LeaksKnown, OwnerOf, Changes
<1>9. NoFault'
  BY <1>1, <1>2 DEF NoFault
<1>10. ~stale' => ListKept(memory, message, arguments)'
  BY <1>1, <1>2, ListStays, NothingChanges DEF Types
<1>11. SenderHolds(message, sender)' /\ ListIsSent'
  BY <1>1, <1>2 DEF SenderHolds, ListIsSent, SetPayloadObject
<1> QED
  BY <1>3, <1>4, <1>5, <1>6, <1>7, <1>8, <1>9, <1>10, <1>11

\* Another thread shares the message.
LEMMA SendMessageKeeps == HeapInv /\ SendMessage => HeapInv'
<1> SUFFICES ASSUME HeapInv, SendMessage PROVE HeapInv'
  OBVIOUS
<1> USE DEF HeapInv
<1>1. /\ UNCHANGED <<memory, buffer, value, stale, overwritten, archives, arguments, faithful>>
      /\ sender' = "measure"
  BY DEF SendMessage
<1>2. /\ OwnedPayload(message)' = OwnedPayload(message)
      /\ message'.payload_buffer_ = message.payload_buffer_
      /\ message'.should_free_payload_buffer_ = message.should_free_payload_buffer_
      /\ message'.auxiliary_ = message.auxiliary_
      /\ message'.auxiliary_objects_ = message.auxiliary_objects_
      /\ \A i \in DOMAIN message.auxiliary_ : Argument(message, i)' = Argument(message, i)
      /\ MessageType(message)'
  <2>1. /\ message' = [message EXCEPT !.holders = message.holders \cup {"sender"}]
        /\ message.holders # {}
    BY DEF SendMessage, Usable
  <2>2. MessageType(message)'
    BY <2>1 DEF Types, MessageType
  <2> QED
    BY <2>1, <2>2 DEF Types, MessageType, OwnedPayload, Argument
<1>3. Types'
  BY <1>1, <1>2, NothingWaits DEF Types, Changes
<1>4. Apart(buffer, value, message)'
  BY <1>1, <1>2 DEF Apart, OwnerOf
<1>5. OwnedIsLive(memory, buffer, value, message)'
  BY <1>1, <1>2 DEF OwnedIsLive, OwnerOf, Changes, Apart
<1>6. PayloadKnown(buffer, message, archives)'
  BY <1>1, <1>2 DEF PayloadKnown
<1>7. ArchivesStay(memory, buffer, value, message, archives)'
  BY <1>1, <1>2 DEF ArchivesStay, OwnerOf, Changes
<1>8. LeaksKnown(memory, buffer, value, message, overwritten \cup archives)'
  BY <1>1, <1>2 DEF LeaksKnown, OwnerOf, Changes
<1>9. NoFault'
  BY <1>1, <1>2 DEF NoFault
<1>10. ~stale' => ListKept(memory, message, arguments)'
  BY <1>1, <1>2, ListStays, NothingChanges DEF Types
<1>11. SenderHolds(message, sender)' /\ ListIsSent'
  <2>1. "sender" \in message'.holders
    BY DEF SendMessage, Types, MessageType
  <2> QED
    BY <1>1, <2>1 DEF SenderHolds, ListIsSent
<1> QED
  BY <1>3, <1>4, <1>5, <1>6, <1>7, <1>8, <1>9, <1>10, <1>11

\* A copy of the payload is a block of its own, and a copy that it replaces is lost.
LEMMA CopyPayloadBufferKeeps == HeapInv /\ CopyPayloadBuffer => HeapInv'
<1> SUFFICES ASSUME HeapInv, CopyPayloadBuffer PROVE HeapInv'
  OBVIOUS
<1> USE DEF HeapInv
<1>1. /\ Changes(memory, memory', {memory.next}, {}) /\ memory'.faults = memory.faults
      /\ memory.next \in Blocks /\ memory.state[memory.next] = "unused"
      /\ overwritten' = overwritten \cup LostPayload
      /\ UNCHANGED <<buffer, value, sender, stale, archives, arguments, faithful>>
  <2>1. memory.next <= MaxBlocks /\ Bytes \in Data
    BY HeapFields DEF CopyPayloadBuffer, Room, Types, Data
  <2>2. Access(memory, buffer) = memory
    BY AccessIsFine, OwnersAreLive DEF Access, Types
  <2> QED
    BY <2>1, <2>2, MallocGives DEF CopyPayloadBuffer, Types
<1>2. /\ OwnedPayload(message)' = memory.next /\ message'.payload_buffer_ = memory.next
      /\ message'.should_free_payload_buffer_ = TRUE
      /\ message'.auxiliary_ = message.auxiliary_
      /\ message'.auxiliary_objects_ = message.auxiliary_objects_
      /\ \A i \in DOMAIN message.auxiliary_ : Argument(message, i)' = Argument(message, i)
      /\ MessageType(message)'
  <2>1. /\ message' = [message EXCEPT !.payload_buffer_ = memory.next,
                                     !.should_free_payload_buffer_ = TRUE]
        /\ message.holders # {}
    BY DEF CopyPayloadBuffer, Usable
  <2>2. MessageType(message)'
    BY <1>1, <2>1, BlocksAreNumbers DEF Types, MessageType
  <2> QED
    BY <2>1, <2>2 DEF Types, MessageType, OwnedPayload, Argument
<1>3. /\ OwnedPayload(message) # NoBlock => OwnedPayload(message) \in LostPayload
      /\ message.payload_buffer_ # NoBlock =>
           message.payload_buffer_ \in LostPayload \cup {buffer} \cup archives
  BY DEF LostPayload, OwnedPayload, PayloadKnown, Types, MessageType
<1>4. Types'
  BY <1>1, <1>2, <1>3, NothingWaits DEF Types, Changes
<1>5. Apart(buffer, value, message)'
  BY <1>1, <1>2, <1>3, OwnersAreLive DEF Apart, OwnerOf
<1>6. OwnedIsLive(memory, buffer, value, message)'
  BY <1>1, <1>2, <1>3 DEF OwnedIsLive, OwnerOf, Changes, Apart
<1>7. PayloadKnown(buffer, message, archives)'
  BY <1>1, <1>2, <1>3 DEF PayloadKnown
<1>8. ArchivesStay(memory, buffer, value, message, archives)'
  <2> SUFFICES ASSUME NEW b \in archives
               PROVE  /\ b \in Blocks /\ memory'.state[b] = "live"
                      /\ ~OwnerOf(b, buffer, value, message)'
    BY <1>1 DEF ArchivesStay
  <2>1. b \in Blocks /\ memory.state[b] = "live" /\ ~OwnerOf(b, buffer, value, message)
    BY DEF ArchivesStay
  <2>2. b # memory.next /\ memory'.state[b] = "live"
    BY <1>1, <2>1 DEF Changes
  <2> QED
    BY <1>1, <1>2, <2>1, <2>2 DEF OwnerOf
<1>9. LeaksKnown(memory, buffer, value, message, overwritten \cup archives)'
  <2> SUFFICES ASSUME NEW b \in Blocks, memory'.state[b] = "live", b # memory.next
               PROVE  OwnerOf(b, buffer, value, message)' \/ b \in overwritten' \cup archives'
    BY <1>1, <1>2 DEF LeaksKnown
  <2>1. \/ OwnerOf(b, buffer, value, message) \/ b = message.payload_buffer_
        \/ b \in overwritten \cup archives
    BY <1>1 DEF LeaksKnown, Changes
  <2>2. b # NoBlock
    BY BlocksAreNumbers
  <2> QED
    BY <1>1, <1>2, <1>3, <2>1, <2>2 DEF OwnerOf
<1>10. NoFault'
  BY <1>1, <1>2, <1>3 DEF NoFault
<1>11. ~stale' => ListKept(memory, message, arguments)'
  BY <1>1, <1>2, ListStays, OwnersAreLive
<1>12. SenderHolds(message, sender)' /\ ListIsSent'
  BY <1>1 DEF SenderHolds, ListIsSent, CopyPayloadBuffer, Usable
<1> QED
  BY <1>4, <1>5, <1>6, <1>7, <1>8, <1>9, <1>10, <1>11, <1>12

\* A borrowed payload is not owned, and a copy that it replaces is lost.
LEMMA BorrowPayloadBufferKeeps == HeapInv /\ BorrowPayloadBuffer => HeapInv'
<1> SUFFICES ASSUME HeapInv, BorrowPayloadBuffer PROVE HeapInv'
  OBVIOUS
<1> USE DEF HeapInv
<1>1. /\ buffer # NoBlock /\ overwritten' = overwritten \cup LostPayload
      /\ UNCHANGED <<memory, buffer, value, sender, stale, archives, arguments, faithful>>
  BY DEF BorrowPayloadBuffer
<1>2. /\ OwnedPayload(message)' = NoBlock /\ message'.payload_buffer_ = buffer
      /\ message'.should_free_payload_buffer_ = FALSE
      /\ message'.auxiliary_ = message.auxiliary_
      /\ message'.auxiliary_objects_ = message.auxiliary_objects_
      /\ \A i \in DOMAIN message.auxiliary_ : Argument(message, i)' = Argument(message, i)
      /\ MessageType(message)'
  <2>1. /\ message' = [message EXCEPT !.payload_buffer_ = buffer,
                                     !.should_free_payload_buffer_ = FALSE]
        /\ message.holders # {}
    BY DEF BorrowPayloadBuffer, Usable
  <2>2. MessageType(message)'
    BY <1>1, <2>1 DEF Types, MessageType
  <2> QED
    BY <2>1, <2>2 DEF Types, MessageType, OwnedPayload, Argument
<1>3. /\ OwnedPayload(message) # NoBlock => OwnedPayload(message) \in LostPayload
      /\ message.payload_buffer_ # NoBlock =>
           message.payload_buffer_ \in LostPayload \cup {buffer} \cup archives
  BY DEF LostPayload, OwnedPayload, PayloadKnown, Types, MessageType
<1>4. Types'
  BY <1>1, <1>2, <1>3, NothingWaits DEF Types, Changes
<1>5. Apart(buffer, value, message)'
  BY <1>1, <1>2, <1>3 DEF Apart, OwnerOf
<1>6. OwnedIsLive(memory, buffer, value, message)'
  BY <1>1, <1>2, <1>3, BlocksAreNumbers DEF OwnedIsLive, OwnerOf, Changes, Apart
<1>7. PayloadKnown(buffer, message, archives)'
  BY <1>1, <1>2, <1>3 DEF PayloadKnown
<1>8. ArchivesStay(memory, buffer, value, message, archives)'
  BY <1>1, <1>2, <1>3, BlocksAreNumbers DEF ArchivesStay, OwnerOf, Changes
<1>9. LeaksKnown(memory, buffer, value, message, overwritten \cup archives)'
  <2> SUFFICES ASSUME NEW b \in Blocks, memory'.state[b] = "live"
               PROVE  OwnerOf(b, buffer, value, message)' \/ b \in overwritten' \cup archives'
    BY DEF LeaksKnown
  <2>1. \/ OwnerOf(b, buffer, value, message) \/ b = message.payload_buffer_
        \/ b \in overwritten \cup archives
    BY <1>1 DEF LeaksKnown
  <2>2. b # NoBlock
    BY BlocksAreNumbers
  <2> QED
    BY <1>1, <1>2, <1>3, <2>1, <2>2 DEF OwnerOf
<1>10. NoFault'
  BY <1>1, <1>2, <1>3 DEF NoFault
<1>11. ~stale' => ListKept(memory, message, arguments)'
  BY <1>1, <1>2, ListStays, NothingChanges DEF Types
<1>12. SenderHolds(message, sender)' /\ ListIsSent'
  BY <1>1 DEF SenderHolds, ListIsSent, BorrowPayloadBuffer, Usable
<1> QED
  BY <1>4, <1>5, <1>6, <1>7, <1>8, <1>9, <1>10, <1>11, <1>12

\* A received message owns the copies of its arguments and of its
\* payload, and the parser its block.
LEMMA ReceiveKeeps ==
  ASSUME NEW n \in 0..MaxArguments, NEW payload \in 0..1
  PROVE  HeapInv /\ Receive(n, payload) => HeapInv'
<1> SUFFICES ASSUME HeapInv, Receive(n, payload) PROVE HeapInv'
  OBVIOUS
<1> USE DEF HeapInv
<1> PICK parsing : parsing = memory.next
  OBVIOUS
<1> DEFINE copies == (parsing + 1)..(parsing + n + payload)
<1>1. parsing \in Nat /\ parsing >= 1 /\ n \in Nat /\ payload \in Nat
  BY HeapFields, MemoryAssumption DEF Types
<1>2. /\ Changes(memory, memory', copies, {parsing}) /\ memory'.faults = memory.faults
      /\ parsing \in Blocks /\ memory.state[parsing] = "unused"
      /\ \A b \in copies : b \in Blocks /\ memory.state[b] = "unused"
      /\ \A b \in copies : memory'.data[b] = Bytes
      /\ UNCHANGED <<buffer, value, sender, stale, overwritten, archives, faithful>>
      /\ ~stale => arguments' = [i \in 1..n |-> Bytes]
  <2> DEFINE new == parsing..(parsing + (n + payload + 1) - 1)
             contents == [b \in new |-> Bytes]
             copied == MallocAll(memory, contents)
  <2>1. /\ contents \in [new -> Data] /\ n + payload + 1 \in Nat
        /\ parsing + (n + payload + 1) - 1 <= MaxBlocks
    BY <1>1 DEF Receive, Room, Data
  <2>11. \A b \in new : contents[b] = Bytes
    OBVIOUS
  <2>2. memory' = Free(Access(copied, parsing), parsing)
    BY DEF Receive, Fresh
  <2> HIDE DEF contents, copied
  <2>3. /\ Changes(memory, copied, new, {}) /\ copied.faults = memory.faults
        /\ \A b \in new :
             b \in Blocks /\ memory.state[b] = "unused" /\ copied.data[b] = contents[b]
    <3>1. PICK count : count = n + payload + 1
      OBVIOUS
    <3>2. HeapType(memory) /\ parsing = memory.next
      BY DEF Types
    <3>3. /\ count \in Nat /\ memory.next + count - 1 <= MaxBlocks
          /\ DOMAIN contents = new /\ \A b \in new : contents[b] \in Data
          /\ new = NextBlocks(memory, count)
      BY <2>1, <3>1, <3>2 DEF NextBlocks
    <3> HIDE DEF new, HeapInv
    <3>4. /\ Changes(memory, MallocAll(memory, contents), new, {})
          /\ MallocAll(memory, contents).faults = memory.faults
          /\ \A b \in new : b \in Blocks /\ memory.state[b] = "unused"
      BY <3>2, <3>3, MallocAllGives
    <3>5. \A b \in new : MallocAll(memory, contents).data[b] = contents[b]
      BY <3>2, <3>3, <3>4, MallocAllWrites
    <3> QED
      BY <3>4, <3>5 DEF copied
  <2>4. parsing \in new /\ new = {parsing} \cup copies /\ parsing \notin copies
    BY <1>1
  <2> HIDE DEF new
  <2>5. HeapType(copied) /\ parsing \in Blocks /\ copied.state[parsing] = "live"
    BY <2>3, <2>4 DEF Changes
  <2>6. Access(copied, parsing) = copied
    BY <2>5, AccessIsFine DEF Access
  <2>7. Changes(copied, memory', {}, {parsing}) /\ memory'.faults = copied.faults
    BY <2>2, <2>5, <2>6, FreeFrees
  <2>8. Changes(memory, memory', copies, {parsing})
    BY <2>3, <2>4, <2>7 DEF Changes
  <2>10. \A b \in copies : memory'.data[b] = Bytes
    <3> SUFFICES ASSUME NEW b \in copies PROVE memory'.data[b] = Bytes
      OBVIOUS
    <3>1. b \in new /\ b # parsing
      BY <2>4
    <3> QED
      BY <2>3, <2>7, <2>11, <3>1 DEF Changes
  <2> QED
    BY <2>3, <2>4, <2>5, <2>7, <2>8, <2>10 DEF Receive, Gives
<1>3. /\ message = NoMessage /\ OwnedPayload(message) = NoBlock
      /\ message.payload_buffer_ = NoBlock
      /\ \A i \in DOMAIN message.auxiliary_ : Argument(message, i) = NoBlock
  BY DEF Receive, Types, MessageType, NoMessage, OwnedPayload, Argument, NoArray, Owned
<1>4. message' = [holders |-> {"program"},
                  payload_buffer_ |-> IF payload = 1 THEN parsing + n + 1 ELSE NoBlock,
                  should_free_payload_buffer_ |-> payload = 1,
                  payload_object_ |-> IF payload = 1 THEN Selector ELSE None,
                  auxiliary_ |-> IF n = 0 THEN NoArray
                                 ELSE [i \in 1..n |-> BytesValue(parsing + i)],
                  auxiliary_objects_ |-> <<>>]
  BY DEF Receive
<1>5. /\ message'.payload_buffer_ = IF payload = 1 THEN parsing + n + 1 ELSE NoBlock
      /\ message'.should_free_payload_buffer_ = (payload = 1)
      /\ OwnedPayload(message)' = message'.payload_buffer_
      /\ payload = 1 => parsing + n + 1 \in copies
      /\ message'.auxiliary_objects_ = <<>>
  <2>1. payload = 1 => parsing + n + 1 \in copies
    BY <1>1
  <2>2. /\ message'.payload_buffer_ = IF payload = 1 THEN parsing + n + 1 ELSE NoBlock
        /\ message'.should_free_payload_buffer_ = (payload = 1)
        /\ message'.auxiliary_objects_ = <<>>
    BY <1>4
  <2>3. OwnedPayload(message)' = message'.payload_buffer_
    BY <2>2 DEF OwnedPayload
  <2> QED
    BY <2>1, <2>2, <2>3
<1>6. /\ \A i \in DOMAIN message'.auxiliary_ :
           \/ Argument(message, i)' = NoBlock
           \/ i \in 1..n /\ Argument(message, i)' = parsing + i
      /\ \A i \in 1..n : i \in DOMAIN message'.auxiliary_ /\ Argument(message, i)' = parsing + i
  <2>1. CASE n = 0
    <3>1. message'.auxiliary_ = NoArray /\ 1..n = {}
      BY <1>4, <2>1
    <3> QED
      BY <3>1 DEF Argument, NoArray, Owned
  <2>2. CASE n # 0
    <3>1. message'.auxiliary_ = [i \in 1..n |-> BytesValue(parsing + i)]
      BY <1>4, <2>2
    <3> QED
      BY <3>1 DEF Argument, BytesValue, Owned
  <2> QED
    BY <2>1, <2>2
<1>7. /\ \A i \in 1..n : parsing + i \in copies /\ parsing + i # parsing + n + 1
      /\ \A i, j \in 1..n : parsing + i = parsing + j => i = j
      /\ \A b \in copies : \/ payload = 1 /\ b = parsing + n + 1
                          \/ \E i \in 1..n : b = parsing + i
  <2>1. ASSUME NEW b \in copies, ~(payload = 1 /\ b = parsing + n + 1)
        PROVE  \E i \in 1..n : b = parsing + i
    <3>1. b - parsing \in 1..n /\ b = parsing + (b - parsing)
      BY <1>1, <2>1
    <3> QED
      BY <3>1
  <2> QED
    BY <1>1, <2>1
<1>8. MessageType(message)'
  <2>1. /\ message'.auxiliary_ \in Lists
        /\ message'.auxiliary_ # NoArray => Len(message'.auxiliary_) <= MaxArguments
    <3>1. CASE n = 0
      BY <1>4, <3>1 DEF Lists
    <3>2. CASE n # 0
      <4> DEFINE list == [i \in 1..n |-> BytesValue(parsing + i)]
      <4>1. \A i \in 1..n : BytesValue(parsing + i) \in Value
        BY <1>2, <1>7 DEF BytesValue, Value
      <4>2. list \in Seq(Value) /\ Len(list) = n
        BY <1>1, <4>1
      <4>3. message'.auxiliary_ = list /\ n <= MaxArguments
        BY <1>4, <3>2, MemoryAssumption
      <4> QED
        BY <4>2, <4>3 DEF Lists
    <3> QED
      BY <3>1, <3>2
  <2>2. message'.payload_buffer_ \in Blocks \cup {NoBlock}
    BY <1>2, <1>5
  <2> QED
    BY <1>2, <1>4, <1>5, <2>1, <2>2, NothingWaits, BlocksAreNumbers DEF MessageType
<1> HIDE DEF copies
<1>9. Types'
  BY <1>2, <1>3, <1>5, <1>6, <1>7, <1>8, NothingWaits DEF Types, Changes
<1>10. Apart(buffer, value, message)'
  BY <1>2, <1>3, <1>5, <1>6, <1>7, OwnersAreLive DEF Apart, OwnerOf
<1>11. OwnedIsLive(memory, buffer, value, message)'
  BY <1>2, <1>3, <1>5, <1>6, <1>7 DEF OwnedIsLive, OwnerOf, Changes, Apart
<1>12. PayloadKnown(buffer, message, archives)'
  BY <1>2, <1>3, <1>5, <1>6, <1>7 DEF PayloadKnown
<1>13. ArchivesStay(memory, buffer, value, message, archives)'
  BY <1>2, <1>3, <1>5, <1>6, <1>7 DEF ArchivesStay, OwnerOf, Changes
<1>14. LeaksKnown(memory, buffer, value, message, overwritten \cup archives)'
  BY <1>2, <1>3, <1>5, <1>6, <1>7, BlocksAreNumbers, SMTT(20) DEF LeaksKnown, OwnerOf, Changes
<1>15. NoFault'
  BY <1>2, <1>3, <1>5, <1>6, <1>7 DEF NoFault
<1>16. ~stale' => ListKept(memory, message, arguments)'
  <2> SUFFICES ASSUME ~stale PROVE ListKept(memory, message, arguments)'
    BY <1>2
  <2>1. /\ Written(message'.auxiliary_) = 1..n
        /\ \A i \in 1..n : message'.auxiliary_[i] = BytesValue(parsing + i)
    <3>1. CASE n = 0
      <4>1. message'.auxiliary_ = NoArray /\ 1..n = {}
        BY <1>4, <3>1
      <4> QED
        BY <4>1 DEF Written, NoArray
    <3>2. CASE n # 0
      <4>1. message'.auxiliary_ = [i \in 1..n |-> BytesValue(parsing + i)]
        BY <1>4, <3>2
      <4> QED
        BY <4>1 DEF Written, BytesValue
    <3> QED
      BY <3>1, <3>2
  <2>2. arguments' = [i \in 1..n |-> Bytes] /\ DOMAIN message'.auxiliary_objects_ = {}
    BY <1>2, <1>5, NothingWaits
  <2>3. PICK heap : heap = memory'
    OBVIOUS
  <2>4. \A i \in 1..n : ContentIn(heap, BytesValue(parsing + i)) = Bytes
    BY <1>2, <1>7, <2>3 DEF ContentIn, BytesValue
  <2>5. \A i \in Written(message'.auxiliary_) :
          arguments'[i] = ContentIn(heap, message'.auxiliary_[i])
    BY <2>1, <2>2, <2>4
  <2>6. arguments' = [i \in Written(message'.auxiliary_) \cup DOMAIN message'.auxiliary_objects_
                       |-> arguments'[i]]
    BY <2>1, <2>2
  <2> QED
    BY <2>2, <2>3, <2>5, <2>6 DEF ListKept
<1>17. SenderHolds(message, sender)' /\ ListIsSent'
  BY <1>2, <1>3 DEF SenderHolds, ListIsSent, NoMessage
<1> QED
  BY <1>9, <1>10, <1>11, <1>12, <1>13, <1>14, <1>15, <1>16, <1>17

-----------------------------------------------------------------------------
(* Sending and dropping *)

\* The last holder destroys the message: what it owned is freed, once.
LEMMA ReleaseKeeps ==
  ASSUME HeapInv, NEW holder, Release(memory, holder), sender' \in {"idle", "measure", "write"},
         UNCHANGED <<buffer, value, stale, overwritten, archives>>,
         sender' # "idle" => sender' = sender /\ holder # "sender",
         arguments' = IF message.holders = {holder} THEN <<>> ELSE arguments,
         ListIsSent'
  PROVE  HeapInv'
<1> USE DEF HeapInv
<1>1. CASE message.holders = {holder}
  <2> DEFINE old == {Owned(message.auxiliary_[i]) : i \in DOMAIN message.auxiliary_}
             heap == IF message.should_free_payload_buffer_
                     THEN Free(memory, message.payload_buffer_) ELSE memory
  <2>1. Changes(memory, heap, {}, {OwnedPayload(message)}) /\ heap.faults = memory.faults
    <3>1. CASE message.should_free_payload_buffer_
      BY <3>1, FreeFrees, OwnersAreLive DEF OwnedPayload, Types
    <3>2. CASE ~message.should_free_payload_buffer_
      BY <3>2, BlocksAreNumbers DEF OwnedPayload, Types, Changes
    <3> QED
      BY <3>1, <3>2
  <2>2. memory' = DestroyArray(heap, message.auxiliary_) /\ message' = NoMessage
    BY <1>1 DEF Release, DestroyMessage
  <2> HIDE DEF heap
  <2>3. /\ HeapType(heap)
        /\ \A i \in DOMAIN message.auxiliary_ : Owned(message.auxiliary_[i]) # NoBlock =>
             /\ Owned(message.auxiliary_[i]) \in Blocks
             /\ heap.state[Owned(message.auxiliary_[i])] = "live"
        /\ \A i, j \in DOMAIN message.auxiliary_ :
             Owned(message.auxiliary_[i]) # NoBlock
               /\ Owned(message.auxiliary_[i]) = Owned(message.auxiliary_[j]) => i = j
    <3>1. HeapType(heap)
      BY <2>1 DEF Changes
    <3>2. ASSUME NEW i \in DOMAIN message.auxiliary_, Owned(message.auxiliary_[i]) # NoBlock
          PROVE  /\ Owned(message.auxiliary_[i]) \in Blocks
                 /\ heap.state[Owned(message.auxiliary_[i])] = "live"
      <4>1. /\ Argument(message, i) \in Blocks /\ memory.state[Argument(message, i)] = "live"
            /\ Argument(message, i) # OwnedPayload(message)
        BY <3>2, OwnersAreLive DEF Apart, Argument
      <4> QED
        BY <2>1, <4>1 DEF Changes, Argument
    <3>3. \A i, j \in DOMAIN message.auxiliary_ :
            Owned(message.auxiliary_[i]) # NoBlock
              /\ Owned(message.auxiliary_[i]) = Owned(message.auxiliary_[j]) => i = j
      BY DEF Apart, Argument
    <3> QED
      BY <3>1, <3>2, <3>3
  <2>4. Changes(heap, memory', {}, old) /\ memory'.faults = heap.faults
    BY <2>2, <2>3, DestroyArrayFrees
  <2>5. \A b \in Blocks :
          b \in old <=> \E i \in DOMAIN message.auxiliary_ : Argument(message, i) = b
    BY DEF Argument
  <2>6. /\ Changes(memory, memory', {}, old \cup {OwnedPayload(message)})
        /\ memory'.faults = memory.faults
    BY <2>1, <2>4 DEF Changes
  <2> HIDE DEF old
  <2>7. /\ MessageType(message)' /\ OwnedPayload(message)' = NoBlock
        /\ message'.payload_buffer_ = NoBlock /\ DOMAIN message'.auxiliary_objects_ = {}
        /\ \A i \in DOMAIN message'.auxiliary_ : Argument(message, i)' = NoBlock
    <3>1. MessageType(message)'
      BY <2>2, NothingWaits DEF MessageType, NoMessage, Lists
    <3>2. /\ OwnedPayload(message)' = NoBlock
          /\ message'.payload_buffer_ = NoBlock /\ DOMAIN message'.auxiliary_objects_ = {}
      BY <2>2, NothingWaits DEF NoMessage, OwnedPayload
    <3>3. \A i \in DOMAIN message'.auxiliary_ : Argument(message, i)' = NoBlock
      BY <2>2 DEF NoMessage, NoArray, Argument, Owned
    <3> QED
      BY <3>1, <3>2, <3>3
  <2>8. message.payload_buffer_ # NoBlock =>
          message.payload_buffer_ \in {OwnedPayload(message), buffer} \cup archives
    BY DEF OwnedPayload, PayloadKnown
  <2>9. Types'
    BY <2>5, <2>6, <2>7, <2>8 DEF Types, Changes
  <2>10. Apart(buffer, value, message)'
    BY <2>5, <2>6, <2>7, <2>8 DEF Apart, OwnerOf
  <2>11. OwnedIsLive(memory, buffer, value, message)'
    BY <2>5, <2>6, <2>7, <2>8, BlocksAreNumbers DEF OwnedIsLive, OwnerOf, Changes, Apart
  <2>12. PayloadKnown(buffer, message, archives)'
    BY <2>5, <2>6, <2>7, <2>8 DEF PayloadKnown
  <2>13. ArchivesStay(memory, buffer, value, message, archives)'
    <3> SUFFICES ASSUME NEW b \in archives
                 PROVE  /\ b \in Blocks /\ memory'.state[b] = "live"
                        /\ ~OwnerOf(b, buffer, value, message)'
      BY DEF ArchivesStay
    <3>1. b \in Blocks /\ memory.state[b] = "live" /\ ~OwnerOf(b, buffer, value, message)
      BY DEF ArchivesStay
    <3>2. b \notin old /\ b # OwnedPayload(message) /\ b # NoBlock
      BY <2>5, <3>1, BlocksAreNumbers DEF OwnerOf
    <3>3. memory'.state[b] = "live"
      BY <2>6, <3>1, <3>2 DEF Changes
    <3>4. ~OwnerOf(b, buffer, value, message)'
      BY <2>7, <3>1, <3>2 DEF OwnerOf
    <3> QED
      BY <3>1, <3>3, <3>4
  <2>14. LeaksKnown(memory, buffer, value, message, overwritten \cup archives)'
    BY <2>5, <2>6, <2>7, <2>8 DEF LeaksKnown, OwnerOf, Changes
  <2>15. NoFault'
    BY <2>5, <2>6, <2>7, <2>8 DEF NoFault
  <2>16. ~stale' => ListKept(memory, message, arguments)'
    <3> PICK after : after = memory'
      OBVIOUS
    <3>1. Written(message'.auxiliary_) = {} /\ arguments' = <<>>
      BY <1>1, <2>2 DEF NoMessage, NoArray, Written
    <3>2. ListKept(after, message', <<>>)
      BY <2>7, <3>1, NothingIsKept
    <3> QED
      BY <3>1, <3>2
  <2>17. SenderHolds(message, sender)'
    <3>1. sender' = "idle"
      BY <1>1 DEF SenderHolds
    <3> QED
      BY <3>1 DEF SenderHolds
  <2> QED
    BY <2>9, <2>10, <2>11, <2>12, <2>13, <2>14, <2>15, <2>16, <2>17
<1>2. CASE message.holders # {holder}
  <2>1. message' = [message EXCEPT !.holders = message.holders \ {holder}] /\ memory' = memory
    BY <1>2 DEF Release
  <2>2. /\ message'.payload_buffer_ = message.payload_buffer_
        /\ message'.should_free_payload_buffer_ = message.should_free_payload_buffer_
        /\ OwnedPayload(message)' = OwnedPayload(message)
        /\ message'.auxiliary_ = message.auxiliary_
        /\ message'.auxiliary_objects_ = message.auxiliary_objects_
        /\ \A i \in DOMAIN message.auxiliary_ : Argument(message, i)' = Argument(message, i)
    BY <2>1 DEF Types, MessageType, OwnedPayload, Argument
  <2>3. MessageType(message)'
    <3>1. message'.holders = {} => message' = NoMessage
      <4> SUFFICES ASSUME message'.holders = {} PROVE message' = NoMessage
        OBVIOUS
      <4>1. message.holders = {}
        BY <1>2, <2>1 DEF Types, MessageType
      <4>2. message = NoMessage
        BY <4>1 DEF Types, MessageType
      <4> QED
        BY <2>1, <4>2 DEF NoMessage
    <3> QED
      BY <2>1, <2>2, <3>1 DEF Types, MessageType
  <2>4. Types'
    BY <2>1, <2>2, <2>3 DEF Types, Changes
  <2>5. Apart(buffer, value, message)'
    BY <2>2 DEF Apart
  <2>6. OwnedIsLive(memory, buffer, value, message)'
    BY <2>1, <2>2, <2>3 DEF OwnedIsLive, OwnerOf, Changes, Apart
  <2>7. PayloadKnown(buffer, message, archives)'
    BY <2>1, <2>2, <2>3 DEF PayloadKnown
  <2>8. ArchivesStay(memory, buffer, value, message, archives)'
    BY <2>1, <2>2, <2>3 DEF ArchivesStay, OwnerOf, Changes
  <2>9. LeaksKnown(memory, buffer, value, message, overwritten \cup archives)'
    BY <2>1, <2>2, <2>3 DEF LeaksKnown, OwnerOf, Changes
  <2>10. NoFault'
    BY <2>1, <2>2, <2>3 DEF NoFault
  <2>11. ~stale' => ListKept(memory, message, arguments)'
    <3>1. Changes(memory, memory', {}, {})
      BY <2>1, NothingChanges DEF Types
    <3>2. arguments' = arguments
      BY <1>2
    <3> QED
      BY <2>2, <3>1, <3>2, ListStays
  <2>12. SenderHolds(message, sender)'
    <3>1. message'.holders = message.holders \ {holder}
      BY <2>1 DEF Types, MessageType
    <3> QED
      BY <2>2, <3>1 DEF SenderHolds
  <2> QED
    BY <2>4, <2>5, <2>6, <2>7, <2>8, <2>9, <2>10, <2>11, <2>12
<1> QED
  BY <1>1, <1>2

\* The program lets a message go.
LEMMA DropMessageKeeps == HeapInv /\ DropMessage => HeapInv'
<1> SUFFICES ASSUME HeapInv, DropMessage PROVE HeapInv'
  OBVIOUS
<1>1. /\ Release(memory, "program") /\ sender' \in {"idle", "measure", "write"}
      /\ sender' = sender /\ UNCHANGED <<buffer, value, stale, overwritten, archives>>
  BY DEF DropMessage, HeapInv, Types
<1>2. message.holders = {"program"} <=> "sender" \notin message.holders
  BY DEF DropMessage, HeapInv, Types, MessageType
<1>3. arguments' = IF message.holders = {"program"} THEN <<>> ELSE arguments
  BY <1>2 DEF DropMessage
<1>4. ListIsSent'
  BY DEF DropMessage, HeapInv, ListIsSent
<1> QED
  BY <1>1, <1>3, <1>4, ReleaseKeeps

\* What the sending thread writes is live, a borrowed payload and an archive too.
LEMMA WriteMessageKeeps == HeapInv /\ WriteMessage => HeapInv'
<1> SUFFICES ASSUME HeapInv, WriteMessage PROVE HeapInv'
  OBVIOUS
<1> DEFINE array == message.auxiliary_
           read == {message.payload_buffer_} \cup {Owned(array[i]) : i \in Written(array)}
<1>1. \A b \in read : b # NoBlock => memory.state[b] = "live"
  <2>1. message.payload_buffer_ # NoBlock => memory.state[message.payload_buffer_] = "live"
    <3>1. message.payload_buffer_ # NoBlock =>
            message.payload_buffer_ \in {OwnedPayload(message), buffer} \cup archives
      BY DEF HeapInv, OwnedPayload, PayloadKnown
    <3> QED
      BY <3>1, OwnersAreLive DEF HeapInv, ArchivesStay
  <2>2. ASSUME NEW i \in Written(array), Owned(array[i]) # NoBlock
        PROVE  memory.state[Owned(array[i])] = "live"
    BY <2>2, OwnersAreLive DEF Argument, Written
  <2> QED
    BY <2>1, <2>2
<1>2. AccessAll(memory, read) = memory
  BY <1>1, AccessIsFine DEF HeapInv, Types
<1>3. /\ Release(memory, "sender") /\ sender' = "idle"
      /\ UNCHANGED <<buffer, value, stale, overwritten, archives>>
  BY <1>2 DEF WriteMessage
<1>4. message.holders = {"sender"} <=> "program" \notin message.holders
  BY DEF WriteMessage, HeapInv, Types, MessageType, SenderHolds
<1>5. arguments' = IF message.holders = {"sender"} THEN <<>> ELSE arguments
  BY <1>4 DEF WriteMessage
<1>6. stale \/ arguments = Contents(array)
  <2> SUFFICES ASSUME ~stale PROVE arguments = Contents(array)
    OBVIOUS
  <2>1. ListKept(memory, message, arguments) /\ DOMAIN message.auxiliary_objects_ = {}
    BY DEF HeapInv, SenderHolds, WriteMessage
  <2>2. /\ arguments = [i \in Written(array) |-> arguments[i]]
        /\ \A i \in Written(array) : arguments[i] = Content(array[i])
    BY <2>1 DEF ListKept, ContentIn, Content
  <2> QED
    BY <2>2 DEF Contents
<1>7. ListIsSent'
  BY <1>6 DEF ListIsSent, HeapInv, WriteMessage
<1> QED
  BY <1>3, <1>5, <1>7, ReleaseKeeps

\* The pending objects are archived to the next blocks, and only an object of a list that
\* was replaced goes outside the array.
LEMMA ArchivingGives ==
  ASSUME HeapInv, NEW n, n = Pending, memory.next + n - 1 <= MaxBlocks,
         NEW new, new = NextBlocks(memory, n), NEW block \in Orders
  PROVE  /\ n \in Nat
         /\ Changes(memory, Archived(block), new, {})
         /\ Archived(block).next = memory.next + n
         /\ \/ Archived(block).faults = memory.faults
            \/ stale /\ Archived(block).faults = memory.faults \cup {"out_of_bounds"}
         /\ \A b \in new : b \in Blocks /\ memory.state[b] = "unused"
         /\ DOMAIN block = DOMAIN message.auxiliary_objects_
         /\ \A i \in DOMAIN block :
              /\ block[i] \in new
              /\ Archived(block).data[block[i]] = message.auxiliary_objects_[i]
         /\ \A i, j \in DOMAIN block : block[i] = block[j] => i = j
         /\ \A b \in new : \E i \in DOMAIN block : block[i] = b
<1> USE DEF HeapInv
<1> DEFINE objects == message.auxiliary_objects_
           object == Inverse(block, DOMAIN objects, new)
           contents == [b \in new |-> objects[object[b]]]
<1>1. n \in Nat
  <2>1. DOMAIN objects \subseteq 1..MaxArguments
    BY DEF Types, MessageType, Waiting
  <2>2. IsFiniteSet(1..MaxArguments)
    BY FS_Interval, MemoryAssumption
  <2> QED
    BY <2>1, <2>2, FS_Subset, FS_CardinalityType DEF Pending
<1>2. Fresh(Pending) = new
  BY DEF Fresh, NextBlocks
<1>3. /\ block \in [DOMAIN objects -> new]
      /\ \A i, j \in DOMAIN block : block[i] = block[j] => i = j
      /\ \A b \in new : \E i \in DOMAIN objects : block[i] = b
  BY <1>2 DEF Orders, Bijection, Injection, Surjection, IsInjective
<1>4. ASSUME NEW b \in new
      PROVE  object[b] \in DOMAIN objects /\ block[object[b]] = b
  <2>1. b \in Range(block)
    BY <1>3 DEF Range
  <2>2. object[b] = CHOOSE i \in DOMAIN objects : b \in Range(block) => block[i] = b
    BY DEF Inverse
  <2> QED
    BY <1>3, <2>1, <2>2
<1>5. /\ DOMAIN contents = new
      /\ \A b \in new : contents[b] \in Data
      /\ \A i \in DOMAIN block : contents[block[i]] = objects[i]
  <2>1. \A i \in DOMAIN objects : objects[i] \in Objects
    BY DEF Types, MessageType, Waiting
  <2>2. \A i \in DOMAIN block : block[i] \in new /\ object[block[i]] = i
    BY <1>3, <1>4
  <2> HIDE DEF object
  <2> QED
    BY <1>4, <2>1, <2>2 DEF Data
<1> DEFINE heap == MallocAll(memory, contents)
<1>6. Archived(block) = Fault(heap, "out_of_bounds", Outside(message.auxiliary_, block) # {})
  BY <1>2 DEF Archived
<1> HIDE DEF contents
<1>7. /\ Changes(memory, heap, new, {}) /\ heap.faults = memory.faults
      /\ heap.next = memory.next + n
      /\ \A b \in new : b \in Blocks /\ memory.state[b] = "unused"
  BY <1>1, <1>5, MallocAllGives DEF Types
<1>8. \A i \in DOMAIN block : block[i] \in new /\ heap.data[block[i]] = objects[i]
  <2> SUFFICES ASSUME NEW i \in DOMAIN block
               PROVE  block[i] \in new /\ heap.data[block[i]] = objects[i]
    OBVIOUS
  <2> PICK b : b = block[i]
    OBVIOUS
  <2>1. b \in new /\ b \in Blocks /\ b \in DOMAIN contents /\ HeapType(memory)
    BY <1>3, <1>5, <1>7 DEF Types
  <2>2. heap.data[b] = contents[b]
    BY <2>1, MallocAllWrites
  <2> QED
    BY <1>5, <2>1, <2>2
<1> HIDE DEF heap
<1>9. Outside(message.auxiliary_, block) # {} => stale
  BY <1>3 DEF Outside, Types
<1>10. /\ Archived(block).state = heap.state /\ Archived(block).next = heap.next
       /\ Archived(block).data = heap.data
       /\ \/ Archived(block).faults = heap.faults
          \/ stale /\ Archived(block).faults = heap.faults \cup {"out_of_bounds"}
       /\ HeapType(Archived(block))
  <2>1. HeapType(heap)
    BY <1>7 DEF Changes
  <2> QED
    BY <1>6, <1>9, <2>1 DEF Fault, HeapType
<1>11. Changes(memory, Archived(block), new, {})
  BY <1>7, <1>10 DEF Changes
<1> QED
  BY <1>1, <1>3, <1>7, <1>8, <1>10, <1>11

\* Every archive goes to its place or is lost, and what it replaces is lost too.
LEMMA MeasureKeeps == HeapInv /\ Measure => HeapInv'
<1> SUFFICES ASSUME HeapInv, Measure PROVE HeapInv'
  OBVIOUS
<1> USE DEF HeapInv
<1> PICK n : n = Pending
  OBVIOUS
<1> PICK first : first = memory.next
  OBVIOUS
<1> DEFINE new == NextBlocks(memory, n)
<1>1. PICK block \in Orders :
        /\ memory' = IF NeedsArchive THEN Malloc(Archived(block), Selector) ELSE Archived(block)
        /\ message' = [message EXCEPT
             !.auxiliary_ = Placed(message.auxiliary_, block),
             !.auxiliary_objects_ = <<>>,
             !.payload_buffer_ = IF NeedsArchive THEN Archived(block).next
                                 ELSE message.payload_buffer_]
        /\ overwritten' = overwritten \cup Replaced(message.auxiliary_, block)
        /\ archives' = archives \cup (IF NeedsArchive THEN {Archived(block).next} ELSE {})
  BY Zenon DEF Measure, Cleared
<1>2. /\ UNCHANGED <<buffer, value, stale, arguments, faithful>>
      /\ sender = "measure" /\ sender' = "write"
      /\ Room(n + IF NeedsArchive THEN 1 ELSE 0)
  BY DEF Measure
<1>3. first \in Nat /\ MaxBlocks \in Nat
  BY HeapFields, MemoryAssumption DEF Types
<1>4. n \in Nat
  <2>1. DOMAIN message.auxiliary_objects_ \subseteq 1..MaxArguments
    BY DEF Types, MessageType, Waiting
  <2>2. IsFiniteSet(1..MaxArguments)
    BY FS_Interval, MemoryAssumption
  <2> QED
    BY <2>1, <2>2, FS_Subset, FS_CardinalityType DEF Pending
<1>5. first + n - 1 <= MaxBlocks /\ (NeedsArchive => first + n <= MaxBlocks)
  BY <1>2, <1>3, <1>4 DEF Room
<1> DEFINE heap == Archived(block)
<1>6. /\ Changes(memory, heap, new, {})
      /\ heap.next = first + n
      /\ \/ heap.faults = memory.faults
         \/ stale /\ heap.faults = memory.faults \cup {"out_of_bounds"}
      /\ \A b \in new : b \in Blocks /\ memory.state[b] = "unused"
      /\ DOMAIN block = DOMAIN message.auxiliary_objects_
      /\ \A i \in DOMAIN block :
           block[i] \in new /\ heap.data[block[i]] = message.auxiliary_objects_[i]
      /\ \A i, j \in DOMAIN block : block[i] = block[j] => i = j
      /\ \A b \in new : \E i \in DOMAIN block : block[i] = b
  BY <1>5, ArchivingGives
<1> HIDE DEF heap
<1> DEFINE archive == IF NeedsArchive THEN {first + n} ELSE {}
<1>7. /\ Changes(memory, memory', new \cup archive, {})
      /\ memory'.faults = heap.faults
      /\ \A b \in archive : b \in Blocks /\ memory.state[b] = "unused" /\ b \notin new
      /\ archives' = archives \cup archive
      /\ \A b \in new : memory'.data[b] = heap.data[b]
  <2>1. archives' = archives \cup archive
    BY <1>1, <1>6 DEF heap
  <2>2. CASE NeedsArchive
    <3>1. Selector \in Data /\ HeapType(heap) /\ heap.next <= MaxBlocks
      BY <1>5, <1>6, <2>2 DEF Data, Changes
    <3>2. /\ Changes(heap, memory', {first + n}, {}) /\ memory'.faults = heap.faults
          /\ first + n \in Blocks /\ heap.state[first + n] = "unused"
      <4>1. memory' = Malloc(heap, Selector)
        BY <1>1, <2>2 DEF heap
      <4>2. /\ Changes(heap, Malloc(heap, Selector), {heap.next}, {})
            /\ Malloc(heap, Selector).faults = heap.faults
            /\ heap.next \in Blocks /\ heap.state[heap.next] = "unused"
        BY <3>1, MallocGives
      <4> QED
        BY <1>6, <4>1, <4>2
    <3>3. first + n \notin new
      BY <1>3, <1>4 DEF NextBlocks
    <3> HIDE DEF new
    <3> QED
      BY <1>6, <2>1, <2>2, <3>2, <3>3 DEF Changes
  <2>3. CASE ~NeedsArchive
    BY <1>1, <1>6, <2>1, <2>3 DEF heap
  <2> QED
    BY <2>2, <2>3
<1>8. /\ DOMAIN message'.auxiliary_ = DOMAIN message.auxiliary_
      /\ \A i \in DOMAIN message.auxiliary_ : message'.auxiliary_[i] =
           IF i \in DOMAIN block THEN BytesValue(block[i]) ELSE message.auxiliary_[i]
      /\ \A i \in DOMAIN message.auxiliary_ :
           Argument(message, i)' = IF i \in DOMAIN block THEN block[i] ELSE Argument(message, i)
  <2>1. message'.auxiliary_ = [i \in DOMAIN message.auxiliary_ |->
          IF i \in DOMAIN block THEN BytesValue(block[i]) ELSE message.auxiliary_[i]]
    BY <1>1 DEF Types, MessageType, Placed
  <2> QED
    BY <2>1 DEF Argument, Owned, BytesValue
<1>9. /\ message'.should_free_payload_buffer_ = message.should_free_payload_buffer_
      /\ message'.holders = message.holders
      /\ message'.auxiliary_objects_ = <<>>
      /\ message'.payload_buffer_ = IF NeedsArchive THEN first + n ELSE message.payload_buffer_
      /\ NeedsArchive => message.payload_buffer_ = NoBlock /\ message.holders # {}
      /\ OwnedPayload(message)' = OwnedPayload(message)
  <2>1. NeedsArchive => message.payload_buffer_ = NoBlock /\ message.holders # {}
    BY DEF NeedsArchive, Types, MessageType, NoMessage
  <2>2. /\ message'.should_free_payload_buffer_ = message.should_free_payload_buffer_
        /\ message'.holders = message.holders
        /\ message'.auxiliary_objects_ = <<>>
        /\ message'.payload_buffer_ = IF NeedsArchive THEN first + n ELSE message.payload_buffer_
    BY <1>1, <1>6 DEF Types, MessageType, heap
  <2> QED
    BY <2>1, <2>2 DEF OwnedPayload, Types, MessageType
<1>10. /\ \A i \in DOMAIN message.auxiliary_ : i \in DOMAIN block
            /\ Argument(message, i) # NoBlock =>
            Argument(message, i) \in overwritten'
       /\ \A i \in DOMAIN block : i \notin DOMAIN message.auxiliary_ => block[i] \in overwritten'
       /\ overwritten \subseteq overwritten'
  <2>1. ASSUME NEW i \in DOMAIN message.auxiliary_, i \in DOMAIN block,
               Argument(message, i) # NoBlock
        PROVE  Argument(message, i) \in overwritten'
    <3>1. Argument(message, i) \in Forgotten(message.auxiliary_[i])
      BY <2>1 DEF Forgotten, Argument
    <3> QED
      BY <1>1, <2>1, <3>1 DEF Replaced
  <2>2. ASSUME NEW i \in DOMAIN block, i \notin DOMAIN message.auxiliary_
        PROVE  block[i] \in overwritten'
    <3>1. i \in Outside(message.auxiliary_, block)
      BY <2>2 DEF Outside
    <3>2. block[i] \in {block[k] : k \in Outside(message.auxiliary_, block)}
      BY <3>1
    <3>3. block[i] \in Replaced(message.auxiliary_, block)
      BY <3>2, Zenon DEF Replaced
    <3> QED
      BY <1>1, <3>3
  <2>3. overwritten \subseteq overwritten'
    BY <1>1
  <2> QED
    BY <2>1, <2>2, <2>3
<1>11. MessageType(message)'
  <2> PICK list : list = Placed(message.auxiliary_, block)
    OBVIOUS
  <2>3. message' = [holders |-> message.holders,
                    payload_buffer_ |-> IF NeedsArchive THEN first + n
                                        ELSE message.payload_buffer_,
                    should_free_payload_buffer_ |-> message.should_free_payload_buffer_,
                    payload_object_ |-> message.payload_object_,
                    auxiliary_ |-> list, auxiliary_objects_ |-> <<>>]
    <3>1. message = [holders |-> message.holders, payload_buffer_ |-> message.payload_buffer_,
                     should_free_payload_buffer_ |-> message.should_free_payload_buffer_,
                     payload_object_ |-> message.payload_object_,
                     auxiliary_ |-> message.auxiliary_,
                     auxiliary_objects_ |-> message.auxiliary_objects_]
      BY DEF Types, MessageType
    <3>2. message' = [message EXCEPT !.auxiliary_ = list, !.auxiliary_objects_ = <<>>,
            !.payload_buffer_ = IF NeedsArchive THEN first + n ELSE message.payload_buffer_]
      BY <1>1, <1>6 DEF heap
    <3> QED
      BY <3>1, <3>2
  <2>4. /\ message.holders \in SUBSET {"program", "sender"}
        /\ message'.payload_buffer_ \in Blocks \cup {NoBlock}
        /\ message.should_free_payload_buffer_ \in BOOLEAN
        /\ message.payload_object_ \in {None, Selector}
        /\ message'.should_free_payload_buffer_ => message'.payload_buffer_ # NoBlock
    BY <1>7, <1>9, BlocksAreNumbers DEF Types, MessageType, archive
  <2>1. CASE message.auxiliary_ = NoArray
    <3>1. DOMAIN block = {}
      BY <1>6, <2>1 DEF Types, MessageType
    <3>2. list = NoArray
      <4>1. list = [i \in DOMAIN NoArray |-> NoArray[i]]
        BY <2>1, <3>1 DEF Placed
      <4> QED
        BY <4>1 DEF NoArray
    <3>3. message'.holders = {} => message' = NoMessage
      <4> SUFFICES ASSUME message'.holders = {} PROVE message' = NoMessage
        OBVIOUS
      <4>1. message = NoMessage
        BY <1>9 DEF Types, MessageType
      <4> QED
        BY <1>9, <2>3, <3>2, <4>1 DEF NoMessage
    <3> QED
      BY <2>3, <2>4, <3>2, <3>3, NothingWaits DEF MessageType, Lists
  <2>2. CASE message.auxiliary_ # NoArray
    <3>1. /\ message.auxiliary_ \in Seq(Value) /\ Len(message.auxiliary_) <= MaxArguments
          /\ message.holders # {}
      BY <2>2 DEF Types, MessageType, Lists, NoMessage
    <3>2. \A i \in DOMAIN block : BytesValue(block[i]) \in Value
      BY <1>6 DEF BytesValue, Value
    <3>3. list \in [1..Len(message.auxiliary_) -> Value] /\ Len(message.auxiliary_) \in Nat
      BY <3>1, <3>2 DEF Placed
    <3>4. list \in Seq(Value) /\ Len(list) = Len(message.auxiliary_)
      BY <3>3
    <3>5. list # NoArray
      <4>1. NoArray[1] \notin Value /\ DOMAIN NoArray = {1}
        BY DEF NoArray, Value, kNull, NumberValue
      <4> QED
        BY <3>3, <4>1
    <3> QED
      BY <2>3, <2>4, <3>1, <3>4, <3>5, NothingWaits DEF MessageType, Lists
  <2> QED
    BY <2>1, <2>2
<1> HIDE DEF new
<1>12. Types'
  BY <1>2, <1>6, <1>7, <1>8, <1>9, <1>10, <1>11, NothingWaits DEF Types, Changes
<1>13. Apart(buffer, value, message)'
  BY <1>2, <1>6, <1>7, <1>8, <1>9, <1>10, OwnersAreLive DEF Apart, OwnerOf
<1>14. OwnedIsLive(memory, buffer, value, message)'
  BY <1>2, <1>6, <1>7, <1>8, <1>9, <1>10 DEF OwnedIsLive, OwnerOf, Changes, Apart
<1>15. PayloadKnown(buffer, message, archives)'
  BY <1>2, <1>6, <1>7, <1>8, <1>9, <1>10 DEF PayloadKnown
<1>16. ArchivesStay(memory, buffer, value, message, archives)'
  <2> SUFFICES ASSUME NEW b \in archives'
               PROVE  /\ b \in Blocks /\ memory'.state[b] = "live"
                      /\ ~OwnerOf(b, buffer, value, message)'
    BY DEF ArchivesStay
  <2>1. CASE b \in archives
    <3>1. b \in Blocks /\ memory.state[b] = "live" /\ ~OwnerOf(b, buffer, value, message)
      BY <2>1 DEF ArchivesStay
    <3>2. b \notin new /\ memory'.state[b] = "live"
      BY <1>6, <1>7, <3>1 DEF Changes
    <3> QED
      BY <1>2, <1>6, <1>8, <1>9, <3>1, <3>2 DEF OwnerOf
  <2>2. CASE b \in archive
    <3>1. b \in Blocks /\ memory.state[b] = "unused" /\ b \notin new /\ b # NoBlock
      BY <1>7, <2>2, BlocksAreNumbers
    <3>2. memory'.state[b] = "live"
      BY <1>7, <2>2, <3>1 DEF Changes
    <3>3. /\ b # buffer /\ b # Owned(value) /\ b # OwnedPayload(message)
          /\ \A i \in DOMAIN message.auxiliary_ : b # Argument(message, i)
      BY <3>1, OwnersAreLive
    <3> QED
      BY <1>2, <1>6, <1>8, <1>9, <3>1, <3>2, <3>3 DEF OwnerOf
  <2> QED
    BY <1>7, <2>1, <2>2
<1>17. LeaksKnown(memory, buffer, value, message, overwritten \cup archives)'
  BY <1>2, <1>6, <1>7, <1>8, <1>9, <1>10, BlocksAreNumbers DEF LeaksKnown, OwnerOf, Changes
<1>18. NoFault'
  BY <1>2, <1>6, <1>7, <1>8, <1>9, <1>10 DEF NoFault
<1>19. ~stale' => ListKept(memory, message, arguments)'
  <2> SUFFICES ASSUME ~stale PROVE ListKept(memory, message, arguments)'
    BY <1>2
  <2>1. /\ ListKept(memory, message, arguments)
        /\ DOMAIN block \subseteq DOMAIN message.auxiliary_
    BY <1>6 DEF Types
  <2>2. Written(message'.auxiliary_) = Written(message.auxiliary_) \cup DOMAIN block
    <3>1. ASSUME NEW i \in DOMAIN block
          PROVE  i \in DOMAIN message'.auxiliary_ /\ message'.auxiliary_[i].t = "bytes"
      <4>1. message'.auxiliary_[i] = BytesValue(block[i]) /\ i \in DOMAIN message'.auxiliary_
        BY <1>8, <2>1
      <4> QED
        BY <4>1 DEF BytesValue
    <3>2. \A i \in DOMAIN message.auxiliary_ : i \notin DOMAIN block =>
            message'.auxiliary_[i] = message.auxiliary_[i]
      BY <1>8
    <3> QED
      BY <1>8, <2>1, <3>1, <3>2 DEF Written
  <2>3. /\ arguments' = arguments /\ DOMAIN message'.auxiliary_objects_ = {}
        /\ DOMAIN arguments = Written(message.auxiliary_) \cup DOMAIN block
    BY <1>2, <1>6, <1>9, <2>1, NothingWaits DEF ListKept
  <2>4. PICK after : after = memory'
    OBVIOUS
  <2>5. \A i \in Written(message'.auxiliary_) :
          arguments[i] = ContentIn(after, message'.auxiliary_[i])
    <3> SUFFICES ASSUME NEW i \in Written(message'.auxiliary_)
                 PROVE  arguments[i] = ContentIn(after, message'.auxiliary_[i])
      OBVIOUS
    <3>1. CASE i \in DOMAIN block
      <4>1. message'.auxiliary_[i] = BytesValue(block[i])
        BY <1>8, <2>1, <3>1
      <4>2. after.data[block[i]] = message.auxiliary_objects_[i]
        BY <1>6, <1>7, <2>4, <3>1
      <4> QED
        <5>1. ContentIn(after, BytesValue(block[i])) = after.data[block[i]]
          BY DEF ContentIn, BytesValue
        <5>2. arguments[i] = message.auxiliary_objects_[i]
          BY <1>6, <2>1, <3>1 DEF ListKept
        <5> QED
          BY <4>1, <4>2, <5>1, <5>2
    <3>2. CASE i \notin DOMAIN block
      <4>1. /\ i \in Written(message.auxiliary_) /\ i \in DOMAIN message.auxiliary_
            /\ message'.auxiliary_[i] = message.auxiliary_[i]
        BY <1>8, <2>2, <3>2 DEF Written
      <4>2. Argument(message, i) # NoBlock => Argument(message, i) \notin new \cup archive
        BY <1>6, <1>7, <4>1, OwnersAreLive
      <4>3. ContentIn(after, message.auxiliary_[i]) = ContentIn(memory, message.auxiliary_[i])
        BY <1>7, <2>4, <4>1, <4>2, ContentStays
      <4> QED
        BY <2>1, <4>1, <4>3 DEF ListKept
    <3> QED
      BY <3>1, <3>2
  <2>6. arguments' = [i \in Written(message'.auxiliary_) \cup DOMAIN message'.auxiliary_objects_
                       |-> arguments'[i]]
    BY <2>1, <2>2, <2>3, <1>6 DEF ListKept
  <2> QED
    BY <2>3, <2>4, <2>5, <2>6 DEF ListKept
<1>20. SenderHolds(message, sender)' /\ ListIsSent'
  BY <1>2, <1>9, NothingWaits DEF SenderHolds, ListIsSent
<1> QED
  BY <1>12, <1>13, <1>14, <1>15, <1>16, <1>17, <1>18, <1>19, <1>20

-----------------------------------------------------------------------------
(* The theorems *)

LEMMA HeapInit == Init => HeapInv
<1> SUFFICES ASSUME Init PROVE HeapInv
  OBVIOUS
<1> USE DEF Init
<1>1. HeapType(memory)
  <2>1. /\ memory.state \in [Blocks -> {"unused", "live", "freed"}]
        /\ memory.data \in [Blocks -> Data] /\ memory.next = 1 /\ memory.faults = {}
        /\ \A b \in Blocks : memory.state[b] = "unused"
    BY DEF EmptyHeap, Data
  <2>2. 1 \in 1..(MaxBlocks + 1)
    BY BlocksAreNumbers
  <2> QED
    BY <2>1, <2>2 DEF HeapType, EmptyHeap
<1>2. MessageType(message)
  BY NothingWaits DEF MessageType, NoMessage, Lists
<1>3. /\ buffer = NoBlock /\ Owned(value) = NoBlock /\ OwnedPayload(message) = NoBlock
      /\ message.payload_buffer_ = NoBlock
      /\ \A i \in DOMAIN message.auxiliary_ : Argument(message, i) = NoBlock
  BY DEF NoMessage, kNull, Owned, OwnedPayload, Argument, NoArray
<1>4. Types
  BY <1>1, <1>2, NothingWaits DEF Types, Value, NoMessage
<1>5. \A b \in Blocks : memory.state[b] = "unused" /\ ~OwnerOf(b, buffer, value, message)
  BY <1>3, BlocksAreNumbers DEF EmptyHeap, OwnerOf
<1>6. Apart(buffer, value, message) /\ PayloadKnown(buffer, message, archives) /\ NoFault
  BY <1>3 DEF Apart, PayloadKnown, NoFault, EmptyHeap
<1>7. OwnedIsLive(memory, buffer, value, message)
  BY <1>5 DEF OwnedIsLive
<1>8. /\ ArchivesStay(memory, buffer, value, message, archives)
      /\ LeaksKnown(memory, buffer, value, message, overwritten \cup archives)
  BY <1>5 DEF ArchivesStay, LeaksKnown
<1>9. ListKept(memory, message, arguments)
  <2>1. Written(message.auxiliary_) = {} /\ DOMAIN message.auxiliary_objects_ = {}
    BY NothingWaits DEF NoMessage, NoArray, Written
  <2> QED
    BY <2>1, NothingIsKept
<1>10. SenderHolds(message, sender) /\ ListIsSent
  BY DEF SenderHolds, ListIsSent
<1> QED
  BY <1>4, <1>6, <1>7, <1>8, <1>9, <1>10 DEF HeapInv

\* Every operation of the program and every step of the sending thread keeps the heap sound.
LEMMA HeapStep == HeapInv /\ [Next]_vars => HeapInv'
<1> SUFFICES ASSUME HeapInv, [Next]_vars PROVE HeapInv'
  OBVIOUS
<1>1. CASE UNCHANGED vars
  BY <1>1 DEF vars, HeapInv, Types, Apart, OwnedIsLive, OwnerOf, PayloadKnown, ArchivesStay,
              LeaksKnown, NoFault, Argument, OwnedPayload, ListKept, Written, ContentIn,
              SenderHolds, ListIsSent
<1>2. CASE Build
  <2>1. CASE \E n \in 0..MaxArguments, payload \in 0..1 : Receive(n, payload)
    BY <2>1, ReceiveKeeps
  <2>2. CASE \E i \in 1..MaxArguments : TakeArgument(i)
    BY <2>2, TakeArgumentKeeps
  <2>3. CASE \E object \in Objects : AppendObject(object)
    BY <2>3, AppendObjectKeeps
  <2> QED
    BY <1>2, <2>1, <2>2, <2>3,
       NewBufferKeeps, FreeBufferKeeps, NewNumberKeeps, CopyBytesKeeps, TakeBytesKeeps,
       DropValueKeeps, CreateKeeps, AppendAuxiliaryKeeps, SetAuxiliaryKeeps,
       SetPayloadObjectKeeps, CopyPayloadBufferKeeps, BorrowPayloadBufferKeeps
       DEF Build
<1>3. CASE DropMessage
  BY <1>3, DropMessageKeeps
<1>4. CASE SendMessage
  BY <1>4, SendMessageKeeps
<1>5. CASE Measure
  BY <1>5, MeasureKeeps
<1>6. CASE WriteMessage
  BY <1>6, WriteMessageKeeps
<1> QED
  BY <1>1, <1>2, <1>3, <1>4, <1>5, <1>6 DEF Next

\* The heap stays sound.
LEMMA HeapStaysSound == Spec => []HeapInv
BY HeapInit, HeapStep, PTL DEF Spec

\* The owners of blocks, one after another, as OneOwner lists them.
LEMMA OwnersAre ==
  ASSUME HeapInv
  PROVE  /\ DOMAIN Owners = 1..(3 + Len(Items)) /\ Len(Items) \in Nat
         /\ Owners[1] = buffer /\ Owners[2] = Owned(value) /\ Owners[3] = OwnedPayload(message)
         /\ \A k \in 4..(3 + Len(Items)) :
              /\ k - 3 \in DOMAIN message.auxiliary_
              /\ Owners[k] = Argument(message, k - 3)
         /\ \A i \in DOMAIN message.auxiliary_ : Argument(message, i) # NoBlock =>
              \E k \in DOMAIN Owners : Owners[k] = Argument(message, i)
<1>1. Items \in Seq(Value) /\ Len(Items) \in Nat /\ DOMAIN Items = 1..Len(Items)
  <2>1. message.auxiliary_ = NoArray \/ message.auxiliary_ \in Seq(Value)
    BY DEF HeapInv, Types, MessageType, Lists
  <2> QED
    BY <2>1 DEF Items
<1> DEFINE three == <<buffer, Owned(value), OwnedPayload(message)>>
           rest == [i \in DOMAIN Items |-> Owned(Items[i])]
<1>2. Owners = three \o rest
  BY DEF Owners, OwnedPayload
<1>3. three \in Seq(Blocks \cup {NoBlock}) /\ Len(three) = 3
  BY OwnersAreLive
<1>4. rest \in Seq(Blocks \cup {NoBlock}) /\ Len(rest) = Len(Items)
  <2>1. \A v \in Value : Owned(v) \in Blocks \cup {NoBlock}
    BY DEF Owned, Value, kNull, NumberValue
  <2>2. \A i \in 1..Len(Items) : Owned(Items[i]) \in Blocks \cup {NoBlock}
    BY <1>1, <2>1
  <2> QED
    BY <1>1, <2>2
<1>5. /\ three[1] = buffer /\ three[2] = Owned(value) /\ three[3] = OwnedPayload(message)
      /\ \A i \in 1..Len(Items) : rest[i] = Owned(Items[i])
  BY <1>1
<1> HIDE DEF three, rest
<1>6. /\ DOMAIN Owners = 1..(3 + Len(Items))
      /\ \A k \in 1..3 : Owners[k] = three[k]
      /\ \A k \in 4..(3 + Len(Items)) : Owners[k] = rest[k - 3]
  <2> DEFINE Pointer == Blocks \cup {NoBlock}
  <2>1. three \in Seq(Pointer) /\ rest \in Seq(Pointer)
    BY <1>3, <1>4
  <2> HIDE DEF Pointer
  <2>2. /\ three \o rest \in Seq(Pointer) /\ Len(three \o rest) = Len(three) + Len(rest)
        /\ \A k \in 1..(Len(three) + Len(rest)) :
             (three \o rest)[k] = IF k <= Len(three) THEN three[k] ELSE rest[k - Len(three)]
    BY <2>1, ConcatProperties
  <2>3. /\ Owners \in Seq(Pointer) /\ Len(Owners) = 3 + Len(Items)
        /\ \A k \in 1..(3 + Len(Items)) : Owners[k] = IF k <= 3 THEN three[k] ELSE rest[k - 3]
    BY <1>2, <1>3, <1>4, <2>2
  <2> QED
    BY <1>1, <2>3
<1>7. ASSUME NEW k \in 4..(3 + Len(Items))
      PROVE  k - 3 \in DOMAIN message.auxiliary_ /\ Owners[k] = Argument(message, k - 3)
  <2>1. k - 3 \in 1..Len(Items)
    BY <1>1
  <2>2. Items = message.auxiliary_
    BY <1>1, <2>1 DEF Items
  <2> QED
    BY <1>1, <1>5, <1>6, <2>1, <2>2 DEF Argument
<1>8. ASSUME NEW i \in DOMAIN message.auxiliary_, Argument(message, i) # NoBlock
      PROVE  \E k \in DOMAIN Owners : Owners[k] = Argument(message, i)
  <2>1. message.auxiliary_ # NoArray
    BY <1>8 DEF Argument, Owned, NoArray
  <2>2. Items = message.auxiliary_ /\ i \in 1..Len(Items) /\ i \in Int
    BY <1>1, <2>1 DEF Items
  <2>3. i + 3 \in 4..(3 + Len(Items)) /\ (i + 3) - 3 = i
    BY <1>1, <2>2
  <2>4. i + 3 \in DOMAIN Owners /\ Owners[i + 3] = Argument(message, i)
    BY <1>1, <1>6, <1>7, <2>3
  <2> QED
    BY <2>4
<1> QED
  BY <1>1, <1>5, <1>6, <1>7, <1>8

\* Every block that somebody will free is live and has one owner, a block is lost only when an
\* assignment overwrites its pointer or as the archive of a payload object, and the types hold
\* (the moves, copies and destructors of DTXPrimitiveValue, DTXPrimitiveArray and DTXMessage),
\* for any objects, any number of blocks and lists of any length.
THEOREM HeapIsConsistent == Spec => []MemoryInv
<1>1. HeapInv => TypeOK
  <2> SUFFICES ASSUME HeapInv PROVE TypeOK
    OBVIOUS
  <2> USE DEF HeapInv, Types
  <2>1. /\ memory.state \in [Blocks -> {"unused", "live", "freed"}]
        /\ memory.data \in [Blocks -> Data] /\ memory.next \in 1..(MaxBlocks + 1)
    BY HeapFields
  <2>2. \A index \in DOMAIN message.auxiliary_objects_ :
          message.auxiliary_objects_[index] \in Objects
    BY DEF MessageType, Waiting
  <2>3. message.auxiliary_ = NoArray \/ message.auxiliary_ \in BoundedSeq(Value, MaxArguments)
    <3> SUFFICES ASSUME message.auxiliary_ # NoArray
                 PROVE  message.auxiliary_ \in BoundedSeq(Value, MaxArguments)
      OBVIOUS
    <3>1. message.auxiliary_ \in Seq(Value) /\ Len(message.auxiliary_) <= MaxArguments
      BY DEF MessageType, Lists
    <3>2. PICK n : n = Len(message.auxiliary_)
      OBVIOUS
    <3>3. n \in 0..MaxArguments /\ message.auxiliary_ \in [1..n -> Value]
      BY <3>1, <3>2, MemoryAssumption
    <3> QED
      BY <3>3 DEF BoundedSeq, SeqOf
  <2> QED
    BY <2>1, <2>2, <2>3 DEF TypeOK, MessageType
<1>2. HeapInv => OneOwner
  <2> SUFFICES ASSUME HeapInv, NEW i \in DOMAIN Owners, Owners[i] # NoBlock
               PROVE  /\ memory.state[Owners[i]] = "live"
                      /\ \A j \in DOMAIN Owners : Owners[i] = Owners[j] => i = j
    BY DEF OneOwner
  <2>1. \A k \in DOMAIN Owners : k \in {1, 2, 3} \/ k \in 4..(3 + Len(Items))
    BY OwnersAre
  <2>2. memory.state[Owners[i]] = "live"
    BY <2>1, OwnersAre, OwnersAreLive
  <2>3. ASSUME NEW j \in DOMAIN Owners, Owners[i] = Owners[j] PROVE i = j
    <3>1. CASE i \in {1, 2, 3} /\ j \in {1, 2, 3}
      BY <2>3, <3>1, OwnersAre DEF HeapInv, Apart
    <3>2. CASE i \in {1, 2, 3} /\ j \in 4..(3 + Len(Items))
      BY <2>3, <3>2, OwnersAre DEF HeapInv, Apart
    <3>3. CASE j \in {1, 2, 3} /\ i \in 4..(3 + Len(Items))
      BY <2>3, <3>3, OwnersAre DEF HeapInv, Apart
    <3>4. CASE i \in 4..(3 + Len(Items)) /\ j \in 4..(3 + Len(Items))
      <4>1. i - 3 = j - 3
        BY <2>3, <3>4, OwnersAre DEF HeapInv, Apart
      <4> QED
        BY <3>4, <4>1, OwnersAre
    <3> QED
      BY <2>1, <3>1, <3>2, <3>3, <3>4
  <2> QED
    BY <2>2, <2>3
<1>3. HeapInv => LeaksAreKnown
  <2> SUFFICES ASSUME HeapInv, NEW b \in Blocks, memory.state[b] = "live", b \notin Reachable
               PROVE  b \in overwritten \cup archives
    BY DEF LeaksAreKnown
  <2>1. b \notin Range(Owners) /\ b # message.payload_buffer_
    BY DEF Reachable
  <2>2. ~OwnerOf(b, buffer, value, message)
    BY <2>1, OwnersAre, BlocksAreNumbers DEF OwnerOf, Range
  <2> QED
    BY <2>1, <2>2 DEF HeapInv, LeaksKnown
<1> QED
  BY HeapStaysSound, <1>1, <1>2, <1>3, PTL DEF MemoryInv

\* No block is freed twice and none is read after it was freed; the archive of an object goes
\* outside the array only when its list has been replaced (~DTXMessage, ~DTXPrimitiveValue,
\* SerializeTo), for any program that builds, receives, queues and drops messages.
THEOREM MemoryIsSafe == Spec => []NoFault
<1>1. HeapInv => NoFault
  BY DEF HeapInv
<1> QED
  BY HeapStaysSound, <1>1, PTL

\* Unless a list is replaced while objects of it wait, the sending thread writes the list that
\* the program has given last, every argument at its place: the archives of the objects go
\* where the objects were put, in whatever order the unordered_map gives them, and nothing
\* that happens between is lost or written over (MaybeSerializeAuxiliaryObjects, SerializeTo).
THEOREM ListReachesTheWire == Spec => []ListIsSent
<1>1. HeapInv => ListIsSent
  BY DEF HeapInv
<1> QED
  BY HeapStaysSound, <1>1, PTL

=============================================================================
