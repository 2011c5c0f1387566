-------------------- MODULE BufferedDTXTransport_proofs --------------------
(***************************************************************************)
(* Theorems about BufferedDTXTransport for every set of messages, every     *)
(* list of chunk sizes and every size of the buffer.                        *)
(***************************************************************************)
EXTENDS BufferedDTXTransport, SequenceTheorems, WellFoundedInduction, TLAPS

USE DEF transport

\* Where the thread stands in the serialization: inside Send there is a chunk,
\* and the buffer holds nothing between two messages or before a large chunk.
PlaceOK ==
  /\ pc # "take" => message \in Messages
  /\ pc \in {"copy", "pass"} => chunk \in 1..Len(Chunks[message])
  /\ pc = "copy" => offset <= Size
  /\ pc # "copy" => offset = 0
  /\ pc \in {"take", "pass"} => buffer = <<>>

TypeInv == TypeOK /\ PlaceOK

\* The size of the chunk at hand.
LEMMA SizeNat ==
  ASSUME message \in Messages, chunk \in 1..Len(Chunks[message])
  PROVE  Size \in Nat \ {0}
<1>1. Chunks[message] \in Seq(Nat \ {0})
  BY MessagesAssumption
<1> QED BY <1>1, ElementOfSeq DEF Size

\* The next bytes of a chunk are bytes, as many as were asked for.
LEMMA DataIsBytes ==
  ASSUME message \in Messages, chunk \in Nat, offset \in Nat, NEW n \in Nat
  PROVE  Data(n) \in Seq(ByteType) /\ Len(Data(n)) = n
<1>1. \A k \in 1..n : Byte(message, chunk, offset + k) \in ByteType
  <2>1. SUFFICES ASSUME NEW k \in 1..n
                 PROVE  Byte(message, chunk, offset + k) \in ByteType
    OBVIOUS
  <2>2. offset + k \in Nat
    OBVIOUS
  <2> QED BY <2>2 DEF Byte, ByteType
<1>2. Data(n) \in [1..n -> ByteType]
  BY <1>1 DEF Data
<1> QED BY <1>2

\* What one turn of the copying loop consumes fits the buffer and the chunk.
LEMMA LenFits ==
  ASSUME TypeInv, pc = "copy", offset < Size
  PROVE  /\ len \in Nat \ {0}
         /\ len <= buffer_size_ - Len(buffer) /\ offset + len <= Size
<1>1. Size \in Nat
  BY SizeNat DEF TypeInv, PlaceOK
<1>2. Len(buffer) \in Nat /\ buffer_size_ \in Nat /\ Len(buffer) < buffer_size_ /\ offset \in Nat
  BY BufferAssumption DEF TypeInv, TypeOK
<1> QED BY <1>1, <1>2 DEF len, Least

\* Whether it succeeds or fails, a call of the transport leaves bytes on the
\* wire, and it succeeds if no call has failed afterwards.
LEMMA CallOfTransport ==
  ASSUME wire \in Seq(ByteType), failed \in BOOLEAN, NEW bytes \in Seq(ByteType)
  PROVE  Delivers(bytes) \/ Fails(bytes) =>
           /\ wire' \in Seq(ByteType) /\ failed' \in BOOLEAN
           /\ ~failed' => ~failed /\ wire' = wire \o bytes
<1>1. CASE Delivers(bytes)
  BY <1>1, ConcatProperties DEF Delivers
<1>2. CASE Fails(bytes)
  <2>1. PICK n \in 0..(Len(bytes) - 1) : wire' = wire \o SubSeq(bytes, 1, n)
    BY <1>2 DEF Fails
  <2>2. SubSeq(bytes, 1, n) \in Seq(ByteType)
    <3>1. \A i \in 1..n : bytes[i] \in ByteType
      BY ElementOfSeq
    <3> QED BY <3>1
  <2> QED BY <1>2, <2>1, <2>2, ConcatProperties DEF Fails
<1> QED BY <1>1, <1>2

LEMMA TypeInit == Init => TypeInv
<1> SUFFICES ASSUME Init PROVE TypeInv
  OBVIOUS
<1>1. TypeOK
  <2>1. <<>> \in Seq(Messages) /\ <<>> \in Seq(ByteType) /\ Len(<<>>) = 0
    BY EmptySeq
  <2>2. Len(<<>>) < buffer_size_
    BY <2>1, BufferAssumption
  <2>3. send_queue_ \in Seq(Messages) /\ taken \in Seq(Messages)
    BY <2>1 DEF Init
  <2>4. buffer \in Seq(ByteType) /\ wire \in Seq(ByteType) /\ handed \in Seq(ByteType)
    BY <2>1 DEF Init
  <2>5. Len(buffer) < buffer_size_
    BY <2>2 DEF Init
  <2>6. /\ message \in Messages \cup {NoMessage} /\ chunk \in Nat \ {0} /\ offset \in Nat
        /\ pc \in {"take", "call", "copy", "pass"}
    BY DEF Init
  <2>7. failed \in BOOLEAN
    BY DEF Init
  <2> QED BY <2>3, <2>4, <2>5, <2>6, <2>7 DEF TypeOK
<1>2. PlaceOK
  BY DEF Init, PlaceOK
<1> QED BY <1>1, <1>2 DEF TypeInv

-----------------------------------------------------------------------------
\* Every step keeps the types and the place of the thread.
LEMMA TypeStep == TypeInv /\ [Next]_vars => TypeInv'
<1> SUFFICES ASSUME TypeInv, [Next]_vars PROVE TypeInv'
  OBVIOUS
<1> USE DEF TypeInv
<1>e. <<>> \in Seq(ByteType) /\ Len(<<>>) = 0 /\ 0 < buffer_size_
  BY EmptySeq, BufferAssumption
<1>1. ASSUME NEW m \in Messages, SendMessageAsync(m) PROVE TypeInv'
  <2>1. send_queue_' \in Seq(Messages)
    BY <1>1, AppendProperties DEF SendMessageAsync, TypeOK
  <2> QED BY <1>1, <2>1 DEF SendMessageAsync, TypeOK, PlaceOK, Size
<1>2. ASSUME TakeMessage PROVE TypeInv'
  <2>1. /\ message' \in Messages
        /\ send_queue_' \in Seq(Messages) /\ taken' \in Seq(Messages)
    BY <1>2, HeadTailProperties, AppendProperties DEF TakeMessage, TypeOK
  <2> QED BY <1>2, <1>e, <2>1 DEF TakeMessage, TypeOK, PlaceOK
<1>3. ASSUME FlushForLarge PROVE TypeInv'
  <2>1. message \in Messages /\ chunk \in 1..Len(Chunks[message])
    BY <1>3, MessagesAssumption DEF FlushForLarge, PlaceOK, TypeOK
  <2>2. CASE ~MustFlush
    BY <1>3, <2>1, <2>2 DEF FlushForLarge, MustFlush, GoOnAt, TypeOK, PlaceOK
  <2>3. CASE MustFlush
    <3>1. wire' \in Seq(ByteType) /\ failed' \in BOOLEAN
      BY <1>3, <2>3, CallOfTransport DEF FlushForLarge, TypeOK
    <3>2. \/ GoOnAt("pass")
          \/ ReturnFromSend
      BY <1>3, <2>3 DEF FlushForLarge
    <3>3. CASE GoOnAt("pass")
      BY <1>3, <1>e, <2>1, <2>3, <3>1, <3>3 DEF FlushForLarge, GoOnAt, TypeOK, PlaceOK
    <3>4. CASE ReturnFromSend
      BY <1>3, <1>e, <2>1, <2>3, <3>1, <3>4 DEF FlushForLarge, ReturnFromSend, TypeOK, PlaceOK
    <3> QED BY <3>2, <3>3, <3>4
  <2> QED BY <2>2, <2>3
<1>4. ASSUME PassOn PROVE TypeInv'
  <2>1. Size \in Nat
    BY <1>4, SizeNat DEF PassOn, PlaceOK
  <2>2. Data(Size) \in Seq(ByteType)
    BY <1>4, <2>1, DataIsBytes DEF PassOn, PlaceOK, TypeOK
  <2>3. wire' \in Seq(ByteType) /\ failed' \in BOOLEAN /\ handed' \in Seq(ByteType)
    BY <1>4, <2>2, CallOfTransport, ConcatProperties DEF PassOn, TypeOK
  <2> QED BY <1>4, <2>3 DEF PassOn, ReturnFromSend, TypeOK, PlaceOK
<1>5. ASSUME EnterCopy PROVE TypeInv'
  <2>1. message \in Messages /\ chunk \in 1..Len(Chunks[message])
    BY <1>5, MessagesAssumption DEF EnterCopy, PlaceOK, TypeOK
  <2>2. Size \in Nat /\ Size' = Size /\ offset' = 0
    BY <1>5, <2>1, SizeNat DEF EnterCopy, GoOnAt, PlaceOK, Size
  <2> QED BY <1>5, <2>1, <2>2 DEF EnterCopy, GoOnAt, TypeOK, PlaceOK
<1>6. ASSUME Copy PROVE TypeInv'
  <2> DEFINE data == buffer \o Data(len)
  <2>1. message \in Messages /\ chunk \in 1..Len(Chunks[message]) /\ Size \in Nat
    BY <1>6, SizeNat DEF Copy, PlaceOK
  <2>2. len \in Nat \ {0} /\ len <= buffer_size_ - Len(buffer) /\ offset + len <= Size
    BY <1>6, LenFits DEF Copy
  <2>3. Data(len) \in Seq(ByteType)
    BY <2>1, <2>2, DataIsBytes DEF TypeOK
  <2>4. data \in Seq(ByteType) /\ handed' \in Seq(ByteType)
    BY <1>6, <2>3, ConcatProperties DEF Copy, TypeOK
  <2>5. message' = message /\ send_queue_' = send_queue_ /\ taken' = taken
    BY <1>6 DEF Copy
  <2>6. \/ offset' = offset + len /\ UNCHANGED <<pc, chunk>>
        \/ ReturnFromSend
    BY <1>6 DEF Copy
  <2>7. /\ wire' \in Seq(ByteType) /\ failed' \in BOOLEAN
        /\ buffer' \in Seq(ByteType) /\ Len(buffer') < buffer_size_
    <3>1. CASE ~IsFull(Len(data))
      <4>1. Len(data) \in Nat /\ Len(data) < buffer_size_
        BY <2>4, <3>1, LenProperties, BufferAssumption DEF IsFull
      <4> QED BY <1>6, <2>4, <3>1, <4>1 DEF Copy, TypeOK
    <3>2. CASE IsFull(Len(data))
      <4>1. Delivers(data) \/ Fails(data)
        BY <1>6, <3>2 DEF Copy
      <4>2. wire' \in Seq(ByteType) /\ failed' \in BOOLEAN
        BY <2>4, <4>1, CallOfTransport DEF TypeOK
      <4>3. buffer' = <<>>
        BY <1>6, <3>2 DEF Copy
      <4> QED BY <1>e, <4>2, <4>3
    <3> QED BY <3>1, <3>2
  <2>8. CASE offset' = offset + len /\ UNCHANGED <<pc, chunk>>
    <3>1. Size' = Size /\ offset' \in Nat /\ offset' <= Size'
      BY <2>1, <2>2, <2>5, <2>8 DEF Size, TypeOK
    <3> QED BY <1>6, <2>1, <2>4, <2>5, <2>7, <2>8, <3>1 DEF Copy, TypeOK, PlaceOK
  <2>9. CASE ReturnFromSend
    BY <1>6, <2>1, <2>4, <2>5, <2>7, <2>9 DEF Copy, ReturnFromSend, TypeOK, PlaceOK
  <2> QED BY <2>6, <2>8, <2>9
<1>7. ASSUME LeaveCopy PROVE TypeInv'
  BY <1>7 DEF LeaveCopy, ReturnFromSend, TypeOK, PlaceOK
<1>8. ASSUME Flush PROVE TypeInv'
  <2>1. wire' \in Seq(ByteType) /\ failed' \in BOOLEAN
    BY <1>8, CallOfTransport DEF Flush, TypeOK
  <2> QED BY <1>8, <1>e, <2>1 DEF Flush, TypeOK, PlaceOK
<1>9. ASSUME UNCHANGED vars PROVE TypeInv'
  BY <1>9 DEF vars, TypeOK, PlaceOK, Size
<1> QED BY <1>1, <1>2, <1>3, <1>4, <1>5, <1>6, <1>7, <1>8, <1>9 DEF Next, SendThread

\* The types of the wire end of the send queue, and with them that a chunk
\* never fills the buffer without being flushed (BufferedDTXTransport::Send).
THEOREM TypeCorrect == Spec => []TypeOK
<1>1. TypeInv => TypeOK
  BY DEF TypeInv
<1> QED BY TypeInit, TypeStep, <1>1, PTL DEF Spec

-----------------------------------------------------------------------------
\* NothingOvertakes is inductive with the types and places: a flush moves the
\* buffer to the end of the wire, and a large chunk is passed on behind it.
LEMMA OvertakeStep == TypeInv /\ NothingOvertakes /\ [Next]_vars => NothingOvertakes'
<1> SUFFICES ASSUME TypeInv, NothingOvertakes, [Next]_vars, ~failed'
             PROVE  handed' = wire' \o buffer'
  BY DEF NothingOvertakes
<1> USE DEF TypeInv
<1>b. /\ wire \in Seq(ByteType) /\ buffer \in Seq(ByteType) /\ <<>> \in Seq(ByteType)
      /\ handed \in Seq(ByteType) /\ failed \in BOOLEAN
  BY DEF TypeOK
<1>e. ~failed => handed = wire \o buffer
  BY DEF NothingOvertakes
<1>1. ASSUME NEW m \in Messages, SendMessageAsync(m) PROVE handed' = wire' \o buffer'
  BY <1>1, <1>e DEF SendMessageAsync
<1>2. ASSUME TakeMessage PROVE handed' = wire' \o buffer'
  BY <1>2, <1>e DEF TakeMessage, PlaceOK
<1>3. ASSUME FlushForLarge PROVE handed' = wire' \o buffer'
  <2>1. CASE ~MustFlush
    BY <1>3, <1>e, <2>1 DEF FlushForLarge
  <2>2. CASE MustFlush
    <3>1. Delivers(buffer) \/ Fails(buffer)
      BY <1>3, <2>2 DEF FlushForLarge
    <3>2. ~failed /\ wire' = wire \o buffer
      BY <1>b, <3>1, CallOfTransport
    <3>3. handed' = handed /\ buffer' = <<>>
      BY <1>3, <2>2 DEF FlushForLarge
    <3>4. wire \o buffer \in Seq(ByteType)
      BY <1>b, ConcatProperties
    <3> QED BY <1>e, <3>2, <3>3, <3>4, ConcatEmptySeq
  <2> QED BY <2>1, <2>2
<1>4. ASSUME PassOn PROVE handed' = wire' \o buffer'
  <2>1. Size \in Nat
    BY <1>4, SizeNat DEF PassOn, PlaceOK
  <2>2. Data(Size) \in Seq(ByteType)
    BY <1>4, <2>1, DataIsBytes DEF PassOn, PlaceOK, TypeOK
  <2>3. ~failed /\ wire' = wire \o Data(Size)
    BY <1>4, <1>b, <2>2, CallOfTransport DEF PassOn
  <2>4. buffer = <<>> /\ buffer' = <<>> /\ handed' = handed \o Data(Size)
    BY <1>4 DEF PassOn, PlaceOK
  <2>5. handed = wire /\ wire' \o <<>> = wire'
    BY <1>b, <1>e, <2>2, <2>3, <2>4, ConcatProperties, ConcatEmptySeq
  <2> QED BY <2>3, <2>4, <2>5
<1>5. ASSUME EnterCopy PROVE handed' = wire' \o buffer'
  BY <1>5, <1>e DEF EnterCopy
<1>6. ASSUME Copy PROVE handed' = wire' \o buffer'
  <2> DEFINE data == buffer \o Data(len)
  <2>1. Data(len) \in Seq(ByteType)
    <3>1. len \in Nat /\ message \in Messages
      BY <1>6, LenFits DEF Copy, PlaceOK
    <3> QED BY <3>1, DataIsBytes DEF TypeOK
  <2>2. data \in Seq(ByteType) /\ wire \o data \in Seq(ByteType)
    BY <1>b, <2>1, ConcatProperties
  <2>3. handed' = handed \o Data(len)
    BY <1>6 DEF Copy
  <2>4. (wire \o buffer) \o Data(len) = wire \o data
    BY <1>b, <2>1, ConcatAssociative, SMTT(20)
  <2>5. ~failed /\ wire' \o buffer' = wire \o data
    <3>1. CASE ~IsFull(Len(data))
      BY <1>6, <3>1 DEF Copy
    <3>2. CASE IsFull(Len(data))
      <4>1. Delivers(data) \/ Fails(data)
        BY <1>6, <3>2 DEF Copy
      <4>2. ~failed /\ wire' = wire \o data
        BY <1>b, <2>2, <4>1, CallOfTransport
      <4>3. buffer' = <<>>
        BY <1>6, <3>2 DEF Copy
      <4> HIDE DEF data
      <4> QED BY <2>2, <4>2, <4>3, ConcatEmptySeq
    <3> QED BY <3>1, <3>2
  <2> QED BY <1>e, <2>3, <2>4, <2>5
<1>7. ASSUME LeaveCopy PROVE handed' = wire' \o buffer'
  BY <1>7, <1>e DEF LeaveCopy
<1>8. ASSUME Flush PROVE handed' = wire' \o buffer'
  <2>1. handed' = handed /\ buffer' = <<>>
    BY <1>8 DEF Flush
  <2>2. CASE HasData(buffer)
    <3>1. ~failed /\ wire' = wire \o buffer
      BY <1>8, <1>b, <2>2, CallOfTransport DEF Flush
    <3>2. wire \o buffer \in Seq(ByteType)
      BY <1>b, ConcatProperties
    <3> QED BY <1>e, <2>1, <3>1, <3>2, ConcatEmptySeq
  <2>3. CASE ~HasData(buffer)
    BY <1>8, <1>e, <2>1, <2>3 DEF Flush, HasData
  <2> QED BY <2>2, <2>3
<1>9. ASSUME UNCHANGED vars PROVE handed' = wire' \o buffer'
  BY <1>9, <1>e DEF vars
<1> QED BY <1>1, <1>2, <1>3, <1>4, <1>5, <1>6, <1>7, <1>8, <1>9 DEF Next, SendThread

\* Nothing is lost between BufferedDTXTransport::Send and the device and nothing
\* overtakes, whatever the sizes of the chunks and of the buffer, as long as no
\* call of the transport has failed.
THEOREM NothingOvertaken == Spec => []NothingOvertakes
<1>1. Init => NothingOvertakes
  <2> SUFFICES ASSUME Init PROVE NothingOvertakes
    OBVIOUS
  <2>1. <<>> \o <<>> = <<>>
    BY EmptySeq, ConcatEmptySeq
  <2> QED BY <2>1 DEF Init, NothingOvertakes
<1> QED BY TypeInit, TypeStep, <1>1, OvertakeStep, PTL DEF Spec

-----------------------------------------------------------------------------
(* Least counterexamples, and with them what FlattenSeq computes *)

\* A set of naturals that is not empty has a least element.
LEMMA LeastNumber ==
  ASSUME NEW S \in SUBSET Nat, S # {}
  PROVE  \E least \in S : \A n \in S : least <= n
<1> DEFINE lt == {pair \in Nat \X Nat : pair[1] < pair[2]}
<1>1. IsWellFoundedOn(lt, Nat)
  BY NatLessThanWellFounded DEF OpToRel
<1>2. PICK least \in S : \A n \in S : ~ (<<n, least>> \in lt)
  BY <1>1, WFMin
<1>3. ASSUME NEW n \in S, n < least PROVE FALSE
  BY <1>2, <1>3
<1> HIDE DEF lt
<1> QED BY <1>3

\* Induction over a set of naturals.
LEMMA NatSetInduction ==
  ASSUME NEW S, 0 \in S, \A n \in Nat : n \in S => n + 1 \in S
  PROVE  Nat \subseteq S
<1>1. SUFFICES ASSUME Nat \ S # {} PROVE FALSE
  OBVIOUS
<1>2. PICK m \in Nat \ S : \A k \in Nat \ S : m <= k
  BY <1>1, LeastNumber
<1>3. m # 0 /\ m - 1 \in Nat /\ m - 1 \in S
  BY <1>2
<1> QED BY <1>3

\* g[i] is the concatenation of the first i sequences of seqs.
Flattens(g, seqs) ==
  g = [i \in 1..Len(seqs) |-> IF i = 1 THEN seqs[i] ELSE g[i - 1] \o seqs[i]]

Joined(g, i, seqs) == IF i = 1 THEN seqs[i] ELSE g[i - 1] \o seqs[i]

LEMMA FlattensAt ==
  ASSUME NEW g, NEW seqs, Flattens(g, seqs), NEW i \in 1..Len(seqs)
  PROVE  g[i] = Joined(g, i, seqs)
<1> DEFINE f == [j \in 1..Len(seqs) |-> Joined(g, j, seqs)]
<1>1. g = f
  BY Zenon DEF Flattens, Joined
<1>2. f[i] = Joined(g, i, seqs)
  OBVIOUS
<1> HIDE DEF f
<1>3. g[i] = f[i]
  BY <1>1
<1> QED BY <1>2, <1>3

LEMMA FlattensIf ==
  ASSUME NEW S, NEW seqs \in Seq(Seq(S)), NEW g \in [1..Len(seqs) -> Seq(S)],
         \A i \in 1..Len(seqs) : g[i] = Joined(g, i, seqs)
  PROVE  Flattens(g, seqs)
<1> DEFINE f == [j \in 1..Len(seqs) |-> Joined(g, j, seqs)]
<1>1. g = [j \in 1..Len(seqs) |-> g[j]]
  OBVIOUS
<1>2. \A j \in 1..Len(seqs) : f[j] = g[j]
  OBVIOUS
<1>3. f = g
  BY <1>1, <1>2
<1> QED BY <1>3, Zenon DEF Flattens, Joined

LEMMA FlattenExists ==
  ASSUME NEW S, NEW seqs \in Seq(Seq(S))
  PROVE  \E g \in [1..Len(seqs) -> Seq(S)] : Flattens(g, seqs)
<1> DEFINE Some(n) == \E g \in [1..n -> Seq(S)] : \A i \in 1..n : g[i] = Joined(g, i, seqs)
           Done == {n \in Nat : n <= Len(seqs) => Some(n)}
<1>1. 0 \in Done
  <2>1. [i \in 1..0 |-> <<>>] \in [1..0 -> Seq(S)]
    OBVIOUS
  <2>2. \A i \in 1..0 : FALSE
    OBVIOUS
  <2>3. Some(0)
    BY <2>1, <2>2, Zenon
  <2> QED BY <2>3
<1>2. ASSUME NEW n \in Nat, n \in Done PROVE n + 1 \in Done
  <2>1. SUFFICES ASSUME n + 1 <= Len(seqs) PROVE Some(n + 1)
    <3> HIDE DEF Some
    <3> QED OBVIOUS
  <2>2. PICK h \in [1..n -> Seq(S)] : \A i \in 1..n : h[i] = Joined(h, i, seqs)
    <3>1. Some(n)
      <4> HIDE DEF Some
      <4> QED BY <1>2, <2>1
    <3> QED BY <3>1
  <2>3. seqs[n + 1] \in Seq(S)
    BY <2>1, ElementOfSeq
  <2> DEFINE next == IF n = 0 THEN seqs[n + 1] ELSE h[n] \o seqs[n + 1]
  <2>4. next \in Seq(S)
    <3>1. CASE n = 0
      BY <2>3, <3>1
    <3>2. CASE n # 0
      <4>1. h[n] \in Seq(S)
        BY <2>2, <3>2
      <4> QED BY <2>3, <3>2, <4>1, ConcatProperties
    <3> QED BY <3>1, <3>2
  <2> DEFINE g == [i \in 1..(n + 1) |-> IF i = n + 1 THEN next ELSE h[i]]
  <2>5. g \in [1..(n + 1) -> Seq(S)]
    <3> HIDE DEF next
    <3> QED BY <2>2, <2>4
  <2>6. ASSUME NEW i \in 1..(n + 1)
        PROVE  g[i] = Joined(g, i, seqs)
    <3>1. CASE i = n + 1
      <4>1. i # 1 => g[i - 1] = h[n] /\ n # 0
        BY <3>1
      <4>2. g[i] = next
        BY <3>1
      <4> HIDE DEF g
      <4> QED BY <3>1, <4>1, <4>2 DEF Joined
    <3>2. CASE i # n + 1
      <4>1. i \in 1..n /\ g[i] = h[i]
        BY <3>2
      <4>2. i # 1 => g[i - 1] = h[i - 1]
        BY <3>2
      <4> HIDE DEF g
      <4> QED BY <2>2, <4>1, <4>2 DEF Joined
    <3> QED BY <3>1, <3>2
  <2> HIDE DEF g
  <2> QED BY <2>5, <2>6
<1>3. Some(Len(seqs))
  <2> HIDE DEF Some
  <2>1. Len(seqs) \in Nat
    BY LenProperties
  <2>2. Nat \subseteq Done
    <3> HIDE DEF Done
    <3> QED BY <1>1, <1>2, NatSetInduction
  <2> QED BY <2>1, <2>2
<1>4. PICK g \in [1..Len(seqs) -> Seq(S)] :
        \A i \in 1..Len(seqs) : g[i] = Joined(g, i, seqs)
  BY <1>3
<1> QED BY <1>4, FlattensIf

LEMMA FlattenUnique ==
  ASSUME NEW ss, NEW tt, NEW g, NEW h, NEW n \in Nat,
         Len(ss) \in Nat, Len(tt) \in Nat, n <= Len(ss), n <= Len(tt),
         \A i \in 1..n : ss[i] = tt[i],
         Flattens(g, ss), Flattens(h, tt)
  PROVE  \A i \in 1..n : g[i] = h[i]
<1> DEFINE differ == {i \in 1..n : g[i] # h[i]}
<1> SUFFICES ASSUME differ # {} PROVE FALSE
  OBVIOUS
<1>1. PICK i \in differ : \A k \in differ : i <= k
  <2>1. differ \in SUBSET Nat
    OBVIOUS
  <2> HIDE DEF differ
  <2> QED BY <2>1, LeastNumber
<1>2. g[i] = Joined(g, i, ss) /\ h[i] = Joined(h, i, tt)
  BY <1>1, FlattensAt
<1>3. i # 1 => g[i - 1] = h[i - 1]
  BY <1>1
<1>4. ss[i] = tt[i] /\ g[i] # h[i]
  BY <1>1
<1> QED BY <1>2, <1>3, <1>4 DEF Joined

\* FlattenSeq is the last of the functions that Flattens describes.
LEMMA FlattenSeqIs ==
  ASSUME NEW S, NEW seqs \in Seq(Seq(S)), seqs # <<>>
  PROVE  \E g \in [1..Len(seqs) -> Seq(S)] :
           Flattens(g, seqs) /\ FlattenSeq(seqs) = g[Len(seqs)]
<1> DEFINE chosen == CHOOSE g : Flattens(g, seqs)
<1>0. Len(seqs) \in Nat \ {0}
  BY EmptySeq
<1>1. PICK g \in [1..Len(seqs) -> Seq(S)] : Flattens(g, seqs)
  BY FlattenExists
<1>2. Flattens(chosen, seqs)
  BY <1>1
<1>3. FlattenSeq(seqs) = chosen[Len(seqs)]
  BY <1>0 DEF FlattenSeq, Flattens
<1>4. \A i \in 1..Len(seqs) : chosen[i] = g[i]
  <2> HIDE DEF chosen
  <2> QED BY <1>0, <1>1, <1>2, FlattenUnique
<1>5. FlattenSeq(seqs) = g[Len(seqs)]
  <2> HIDE DEF chosen
  <2> QED BY <1>0, <1>3, <1>4
<1> QED BY <1>1, <1>5

LEMMA FlattenEmpty == FlattenSeq(<<>>) = <<>>
  BY EmptySeq DEF FlattenSeq

LEMMA FlattenIsSeq ==
  ASSUME NEW S, NEW seqs \in Seq(Seq(S))
  PROVE  FlattenSeq(seqs) \in Seq(S)
<1>1. CASE seqs = <<>>
  BY <1>1, FlattenEmpty, EmptySeq
<1>2. CASE seqs # <<>>
  <2>1. Len(seqs) \in 1..Len(seqs)
    BY <1>2, EmptySeq
  <2>2. PICK g \in [1..Len(seqs) -> Seq(S)] : FlattenSeq(seqs) = g[Len(seqs)]
    BY <1>2, FlattenSeqIs
  <2> QED BY <2>1, <2>2
<1> QED BY <1>1, <1>2

LEMMA FlattenAppend ==
  ASSUME NEW S, NEW seqs \in Seq(Seq(S)), NEW s \in Seq(S)
  PROVE  FlattenSeq(Append(seqs, s)) = FlattenSeq(seqs) \o s
<1> DEFINE more == Append(seqs, s)
<1>1. /\ more \in Seq(Seq(S)) /\ Len(more) = Len(seqs) + 1 /\ more # <<>>
      /\ \A i \in 1..Len(seqs) : more[i] = seqs[i]
      /\ more[Len(seqs) + 1] = s
  BY AppendProperties
<1> HIDE DEF more
<1>2. PICK h \in [1..Len(more) -> Seq(S)] :
        Flattens(h, more) /\ FlattenSeq(more) = h[Len(more)]
  BY <1>1, FlattenSeqIs
<1>3. CASE seqs = <<>>
  <2>1. Len(more) = 1 /\ h[1] = s
    BY <1>1, <1>2, <1>3 DEF Flattens
  <2> QED BY <1>2, <1>3, <2>1, FlattenEmpty, ConcatEmptySeq DEF more
<1>4. CASE seqs # <<>>
  <2>1. PICK g \in [1..Len(seqs) -> Seq(S)] :
          Flattens(g, seqs) /\ FlattenSeq(seqs) = g[Len(seqs)]
    BY <1>4, FlattenSeqIs
  <2>2. Len(seqs) \in Nat \ {0} /\ Len(more) \in Nat /\ Len(seqs) <= Len(more)
    BY <1>1, <1>4, EmptySeq
  <2>3. \A i \in 1..Len(seqs) : h[i] = g[i]
    <3>1. Flattens(h, more) /\ Flattens(g, seqs)
      BY <1>2, <2>1
    <3>2. PICK n \in Nat : n = Len(seqs)
      BY <2>2
    <3>3. n <= Len(seqs) /\ n <= Len(more)
      BY <2>2, <3>2
    <3>4. \A i \in 1..n : more[i] = seqs[i]
      BY <1>1, <3>2
    <3>5. \A i \in 1..n : h[i] = g[i]
      BY <2>2, <3>1, <3>3, <3>4, FlattenUnique
    <3> QED BY <3>2, <3>5
  <2>4. h[Len(seqs) + 1] = h[Len(seqs)] \o s
    <3>1. h[Len(seqs) + 1] = Joined(h, Len(seqs) + 1, more)
      BY <1>1, <1>2, FlattensAt
    <3> QED BY <1>1, <2>2, <3>1 DEF Joined
  <2>5. h[Len(seqs)] = g[Len(seqs)]
    BY <2>2, <2>3
  <2> QED BY <1>1, <1>2, <2>1, <2>4, <2>5 DEF more
<1> QED BY <1>3, <1>4

-----------------------------------------------------------------------------
(* The stream of the messages that the thread has taken *)

ChunksDone(m, c) == FlattenSeq([j \in 1..(c - 1) |-> ChunkOf(m, j)])
Begun(m, c, n) == [k \in 1..n |-> Byte(m, c, k)]

LEMMA ChunkIsBytes ==
  ASSUME NEW m \in Messages, NEW c \in 1..Len(Chunks[m])
  PROVE  /\ Chunks[m][c] \in Nat \ {0}
         /\ ChunkOf(m, c) \in Seq(ByteType) /\ ChunkOf(m, c) = Begun(m, c, Chunks[m][c])
<1>1. Chunks[m] \in Seq(Nat \ {0})
  BY MessagesAssumption
<1>2. Chunks[m][c] \in Nat \ {0}
  BY <1>1, ElementOfSeq
<1>3. \A k \in 1..Chunks[m][c] : Byte(m, c, k) \in ByteType
  BY <1>2 DEF Byte, ByteType
<1> QED BY <1>2, <1>3 DEF ChunkOf, Begun

LEMMA ChunksAreCounted ==
  ASSUME NEW m \in Messages
  PROVE  Len(Chunks[m]) \in Nat \ {0} /\ DOMAIN Chunks[m] = 1..Len(Chunks[m])
  BY MessagesAssumption, EmptySeq, LenProperties

LEMMA ListOfChunks ==
  ASSUME NEW m \in Messages, NEW n \in Nat, n <= Len(Chunks[m])
  PROVE  [j \in 1..n |-> ChunkOf(m, j)] \in Seq(Seq(ByteType))
<1>1. \A j \in 1..n : ChunkOf(m, j) \in Seq(ByteType)
  BY ChunkIsBytes, ChunksAreCounted
<1> QED BY <1>1, IsASeq

\* The chunks that have been handed over grow by the chunk at hand, and the last
\* of them completes the message.
LEMMA ChunksDoneGrow ==
  ASSUME NEW m \in Messages, NEW c \in 1..Len(Chunks[m])
  PROVE  /\ ChunksDone(m, c) \in Seq(ByteType)
         /\ ChunksDone(m, c + 1) = ChunksDone(m, c) \o ChunkOf(m, c)
<1> DEFINE list == [j \in 1..(c - 1) |-> ChunkOf(m, j)]
           more == [j \in 1..(c + 1 - 1) |-> ChunkOf(m, j)]
<1>1. c - 1 \in Nat /\ c - 1 <= Len(Chunks[m])
  BY ChunksAreCounted
<1>2. list \in Seq(Seq(ByteType)) /\ Len(list) = c - 1
  BY <1>1, ListOfChunks, LenProperties
<1>3. ChunkOf(m, c) \in Seq(ByteType)
  BY ChunkIsBytes
<1>4. more = Append(list, ChunkOf(m, c))
  <2> DEFINE appended == Append(list, ChunkOf(m, c))
  <2>1. /\ appended \in Seq(Seq(ByteType)) /\ Len(appended) = c
        /\ \A j \in 1..(c - 1) : appended[j] = list[j]
        /\ appended[c] = ChunkOf(m, c)
    <3> HIDE DEF list
    <3> QED BY <1>1, <1>2, <1>3, AppendProperties
  <2>2. appended = [j \in 1..c |-> appended[j]]
    <3> HIDE DEF appended
    <3> QED BY <2>1
  <2>3. \A j \in 1..c : appended[j] = ChunkOf(m, j)
    <3> SUFFICES ASSUME NEW j \in 1..c PROVE appended[j] = ChunkOf(m, j)
      OBVIOUS
    <3>1. CASE j = c
      BY <2>1, <3>1
    <3>2. CASE j # c
      <4>1. j \in 1..(c - 1)
        BY <3>2
      <4> HIDE DEF appended
      <4> QED BY <2>1, <4>1
    <3> QED BY <3>1, <3>2
  <2>4. c + 1 - 1 = c
    OBVIOUS
  <2> HIDE DEF appended
  <2>5. more = [j \in 1..c |-> appended[j]]
    BY <2>3, <2>4
  <2> QED BY <2>2, <2>5 DEF appended
<1> HIDE DEF list, more
<1>5. FlattenSeq(more) = FlattenSeq(list) \o ChunkOf(m, c) /\ FlattenSeq(list) \in Seq(ByteType)
  BY <1>2, <1>3, <1>4, FlattenAppend, FlattenIsSeq
<1>6. ChunksDone(m, c) = FlattenSeq(list)
  BY DEF ChunksDone, list
<1>7. ChunksDone(m, c + 1) = FlattenSeq(more)
  BY DEF ChunksDone, more
<1> QED BY <1>5, <1>6, <1>7

LEMMA ChunksDoneEnds ==
  ASSUME NEW m \in Messages
  PROVE  /\ ChunksDone(m, 1) = <<>>
         /\ ChunksDone(m, Len(Chunks[m]) + 1) = BytesOf(m) /\ BytesOf(m) \in Seq(ByteType)
<1>1. [j \in 1..(1 - 1) |-> ChunkOf(m, j)] = <<>>
  OBVIOUS
<1>2. Len(Chunks[m]) \in Nat /\ Len(Chunks[m]) + 1 - 1 = Len(Chunks[m])
  BY ChunksAreCounted
<1>3. [j \in 1..Len(Chunks[m]) |-> ChunkOf(m, j)] \in Seq(Seq(ByteType))
  BY <1>2, ListOfChunks
<1>4. ChunksDone(m, 1) = <<>>
  BY <1>1, FlattenEmpty DEF ChunksDone
<1>5. ChunksDone(m, Len(Chunks[m]) + 1) = FlattenSeq([j \in 1..Len(Chunks[m]) |-> ChunkOf(m, j)])
  BY <1>2 DEF ChunksDone
<1>6. BytesOf(m) = FlattenSeq([j \in 1..Len(Chunks[m]) |-> ChunkOf(m, j)])
  BY ChunksAreCounted, Zenon DEF BytesOf
<1>7. BytesOf(m) \in Seq(ByteType)
  BY <1>3, <1>6, FlattenIsSeq
<1> QED BY <1>4, <1>5, <1>6, <1>7

LEMMA BegunGrows ==
  ASSUME NEW m \in Messages, NEW c \in Nat, NEW o \in Nat, NEW n \in Nat
  PROVE  /\ Begun(m, c, 0) = <<>> /\ Begun(m, c, o) \in Seq(ByteType)
         /\ Begun(m, c, o) \o [k \in 1..n |-> Byte(m, c, o + k)] = Begun(m, c, o + n)
<1> DEFINE next == [k \in 1..n |-> Byte(m, c, o + k)]
<1>1. \A k \in Nat : Byte(m, c, k) \in ByteType
  BY DEF Byte, ByteType
<1>2. Begun(m, c, o) \in Seq(ByteType) /\ Len(Begun(m, c, o)) = o
  <2>1. Begun(m, c, o) \in [1..o -> ByteType]
    BY <1>1 DEF Begun
  <2> QED BY <2>1
<1>3. next \in Seq(ByteType) /\ Len(next) = n
  <2>1. \A k \in 1..n : o + k \in Nat
    OBVIOUS
  <2>2. next \in [1..n -> ByteType]
    BY <1>1, <2>1
  <2> HIDE DEF next
  <2> QED BY <2>2
<1>4. Begun(m, c, o + n) \in Seq(ByteType) /\ Len(Begun(m, c, o + n)) = o + n
  <2>1. Begun(m, c, o + n) \in [1..(o + n) -> ByteType]
    BY <1>1 DEF Begun
  <2> QED BY <2>1
<1> DEFINE both == Begun(m, c, o) \o next
<1>5. both \in Seq(ByteType) /\ Len(both) = o + n
  <2> HIDE DEF next
  <2> QED BY <1>2, <1>3, ConcatProperties
<1>6. ASSUME NEW k \in 1..(o + n) PROVE both[k] = Begun(m, c, o + n)[k]
  <2>1. CASE k <= o
    <3>1. both[k] = Begun(m, c, o)[k]
      <4> HIDE DEF next
      <4> QED BY <1>2, <1>3, <2>1, ConcatProperties
    <3> QED BY <2>1, <3>1 DEF Begun
  <2>2. CASE k > o
    <3>1. both[k] = next[k - o]
      <4> DEFINE begun == Begun(m, c, o)
      <4>1. begun \in Seq(ByteType) /\ Len(begun) = o
        BY <1>2
      <4> HIDE DEF next, begun
      <4>2. \A i \in 1..(Len(begun) + Len(next)) :
              (begun \o next)[i] = IF i <= Len(begun) THEN begun[i] ELSE next[i - Len(begun)]
        BY <1>3, <4>1, ConcatProperties, Zenon
      <4>3. k \in 1..(Len(begun) + Len(next)) /\ ~ (k <= Len(begun)) /\ Len(begun) = o
        BY <1>3, <2>2, <4>1
      <4>4. (begun \o next)[k] = next[k - Len(begun)]
        BY <4>2, <4>3
      <4> QED BY <4>3, <4>4 DEF begun
    <3>2. next[k - o] = Byte(m, c, k)
      <4>1. k - o \in 1..n /\ o + (k - o) = k
        BY <2>2
      <4>2. next[k - o] = Byte(m, c, o + (k - o))
        BY <4>1
      <4> QED BY <4>1, <4>2
    <3>3. Begun(m, c, o + n)[k] = Byte(m, c, k)
      BY DEF Begun
    <3> QED BY <3>1, <3>2, <3>3, Zenon
  <2> HIDE DEF both
  <2> QED BY <2>1, <2>2
<1>7. both = Begun(m, c, o + n)
  <2> HIDE DEF both
  <2> QED BY <1>4, <1>5, <1>6, SeqEqual
<1>8. Begun(m, c, 0) = <<>>
  BY DEF Begun
<1> QED BY <1>2, <1>7, <1>8

\* The stream grows by the bytes of the message that is taken.
LEMMA StreamGrows ==
  ASSUME NEW messages \in Seq(Messages), NEW m \in Messages
  PROVE  /\ Stream(messages) \in Seq(ByteType)
         /\ Stream(Append(messages, m)) = Stream(messages) \o BytesOf(m)
<1> DEFINE list == [i \in DOMAIN messages |-> BytesOf(messages[i])]
           all == Append(messages, m)
           more == [i \in DOMAIN all |-> BytesOf(all[i])]
<1>1. Len(messages) \in Nat /\ DOMAIN messages = 1..Len(messages)
  BY LenProperties
<1>2. list \in Seq(Seq(ByteType)) /\ Len(list) = Len(messages)
  <2>1. \A i \in 1..Len(messages) : BytesOf(messages[i]) \in Seq(ByteType)
    BY ElementOfSeq, ChunksDoneEnds
  <2>2. list \in [1..Len(messages) -> Seq(ByteType)]
    BY <1>1, <2>1
  <2> HIDE DEF list
  <2> QED BY <1>1, <2>2
<1>3. BytesOf(m) \in Seq(ByteType)
  BY ChunksDoneEnds
<1>4. more = Append(list, BytesOf(m))
  <2> DEFINE appended == Append(list, BytesOf(m))
  <2>1. /\ appended \in Seq(Seq(ByteType)) /\ Len(appended) = Len(messages) + 1
        /\ \A i \in 1..Len(messages) : appended[i] = list[i]
        /\ appended[Len(messages) + 1] = BytesOf(m)
    <3> HIDE DEF list
    <3> QED BY <1>2, <1>3, AppendProperties
  <2>2. /\ all \in Seq(Messages) /\ Len(all) = Len(messages) + 1
        /\ \A i \in 1..Len(messages) : all[i] = messages[i]
        /\ all[Len(messages) + 1] = m
    BY AppendProperties
  <2> DEFINE last == Len(messages) + 1
  <2>3. appended = [i \in 1..last |-> appended[i]] /\ DOMAIN all = 1..last
    <3> HIDE DEF appended, all
    <3> QED BY <1>1, <2>1, <2>2
  <2>4. ASSUME NEW i \in 1..last PROVE appended[i] = BytesOf(all[i])
    <3>1. CASE i = last
      <4> HIDE DEF appended, all
      <4> QED BY <2>1, <2>2, <3>1
    <3>2. CASE i # last
      <4>1. i \in 1..Len(messages)
        BY <1>1, <3>2
      <4>2. appended[i] = list[i] /\ all[i] = messages[i]
        <5> HIDE DEF appended, all
        <5> QED BY <2>1, <2>2, <4>1
      <4>3. list[i] = BytesOf(messages[i])
        BY <1>1, <4>1
      <4> HIDE DEF appended, all, list
      <4> QED BY <4>2, <4>3
    <3> QED BY <3>1, <3>2
  <2> HIDE DEF appended, all
  <2>5. more = [i \in 1..last |-> appended[i]]
    BY <2>3, <2>4
  <2> QED BY <2>3, <2>5 DEF appended
<1> HIDE DEF list, more
<1>5. FlattenSeq(more) = FlattenSeq(list) \o BytesOf(m) /\ FlattenSeq(list) \in Seq(ByteType)
  BY <1>2, <1>3, <1>4, FlattenAppend, FlattenIsSeq
<1> QED BY <1>5 DEF Stream, list, more

LEMMA StreamEmpty == Stream(<<>>) = <<>>
<1>1. [i \in DOMAIN <<>> |-> BytesOf(<<>>[i])] = <<>>
  OBVIOUS
<1> QED BY <1>1, FlattenEmpty DEF Stream

-----------------------------------------------------------------------------
(* The bytes that were handed over are the stream, as far as it has been read *)

\* The thread serializes the message it has taken last, chunk after chunk.
TakenOK ==
  pc # "take" =>
    /\ taken # <<>> /\ message = taken[Len(taken)]
    /\ chunk <= Len(Chunks[message]) + 1

\* As long as no call has failed, Send was given the messages taken, the last of
\* them up to the place where the thread stands.
HandedOK ==
  ~failed =>
    IF pc = "take" THEN handed = Stream(taken)
    ELSE \E earlier \in Seq(Messages) :
           /\ taken = Append(earlier, message)
           /\ handed = Stream(earlier)
                       \o (ChunksDone(message, chunk) \o Begun(message, chunk, offset))

LEMMA TakenStep == TypeInv /\ TakenOK /\ [Next]_vars => TakenOK'
<1> SUFFICES ASSUME TypeInv, TakenOK, [Next]_vars PROVE TakenOK'
  OBVIOUS
<1> USE DEF TypeInv
<1>1. ASSUME NEW m \in Messages, SendMessageAsync(m) PROVE TakenOK'
  BY <1>1 DEF SendMessageAsync, TakenOK
<1>2. ASSUME TakeMessage PROVE TakenOK'
  <2>1. message' \in Messages
    BY <1>2, HeadTailProperties DEF TakeMessage, TypeOK
  <2>2. /\ taken' # <<>> /\ Len(taken') = Len(taken) + 1 /\ taken'[Len(taken) + 1] = message'
        /\ chunk' = 1
    <3>1. taken' = Append(taken, message') /\ chunk' = 1 /\ taken \in Seq(Messages)
      BY <1>2 DEF TakeMessage, TypeOK
    <3> QED BY <2>1, <3>1, AppendProperties, SMTT(20)
  <2>3. \A m \in Messages : 1 <= Len(Chunks[m]) + 1
    BY ChunksAreCounted
  <2> QED BY <2>1, <2>2, <2>3 DEF TakenOK
<1>3. ASSUME FlushForLarge PROVE TakenOK'
  <2>1. chunk' \in {chunk, chunk + 1} /\ taken' = taken /\ message' = message
    BY <1>3 DEF FlushForLarge, GoOnAt, ReturnFromSend
  <2>2. pc = "call" /\ message \in Messages /\ chunk <= Len(Chunks[message]) /\ chunk \in Nat
    BY <1>3 DEF FlushForLarge, PlaceOK, TypeOK
  <2>3. Len(Chunks[message]) \in Nat
    BY <2>2, ChunksAreCounted
  <2>4. chunk + 1 <= Len(Chunks[message]) + 1 /\ chunk <= Len(Chunks[message]) + 1
    BY <2>2, <2>3
  <2> QED BY <2>1, <2>2, <2>4 DEF TakenOK
<1>4. ASSUME PassOn PROVE TakenOK'
  <2>1. chunk' = chunk + 1 /\ taken' = taken /\ message' = message
    BY <1>4 DEF PassOn, ReturnFromSend
  <2>2. pc = "pass" /\ message \in Messages /\ chunk \in 1..Len(Chunks[message])
    BY <1>4 DEF PassOn, PlaceOK
  <2>3. chunk + 1 <= Len(Chunks[message]) + 1
    BY <2>2, ChunksAreCounted
  <2> QED BY <2>1, <2>2, <2>3 DEF TakenOK
<1>5. ASSUME EnterCopy PROVE TakenOK'
  BY <1>5 DEF EnterCopy, GoOnAt, TakenOK
<1>6. ASSUME Copy PROVE TakenOK'
  <2>1. chunk' \in {chunk, chunk + 1} /\ taken' = taken /\ message' = message
    BY <1>6 DEF Copy, ReturnFromSend
  <2>2. pc = "copy" /\ message \in Messages /\ chunk \in 1..Len(Chunks[message])
    BY <1>6 DEF Copy, PlaceOK
  <2>3. chunk + 1 <= Len(Chunks[message]) + 1
    BY <2>2, ChunksAreCounted
  <2> QED BY <2>1, <2>2, <2>3 DEF TakenOK
<1>7. ASSUME LeaveCopy PROVE TakenOK'
  <2>1. chunk' = chunk + 1 /\ taken' = taken /\ message' = message
    BY <1>7 DEF LeaveCopy, ReturnFromSend
  <2>2. pc = "copy" /\ message \in Messages /\ chunk \in 1..Len(Chunks[message])
    BY <1>7 DEF LeaveCopy, PlaceOK
  <2>3. chunk + 1 <= Len(Chunks[message]) + 1
    BY <2>2, ChunksAreCounted
  <2> QED BY <2>1, <2>2, <2>3 DEF TakenOK
<1>8. ASSUME Flush PROVE TakenOK'
  BY <1>8 DEF Flush, TakenOK
<1>9. ASSUME UNCHANGED vars PROVE TakenOK'
  BY <1>9 DEF vars, TakenOK
<1> QED BY <1>1, <1>2, <1>3, <1>4, <1>5, <1>6, <1>7, <1>8, <1>9 DEF Next, SendThread

\* Behind the last byte of a chunk comes the next chunk.
LEMMA ChunkIsDone ==
  ASSUME NEW m \in Messages, NEW c \in 1..Len(Chunks[m]), NEW o, o = Chunks[m][c]
  PROVE  ChunksDone(m, c) \o Begun(m, c, o) = ChunksDone(m, c + 1) \o Begun(m, c + 1, 0)
<1>1. ChunksDone(m, c) \o Begun(m, c, o) = ChunksDone(m, c + 1)
  BY ChunkIsBytes, ChunksDoneGrow
<1>2. Begun(m, c + 1, 0) = <<>>
  BY DEF Begun
<1>3. ChunksDone(m, c + 1) \in Seq(ByteType)
  <2>1. ChunksDone(m, c) \in Seq(ByteType) /\ ChunkOf(m, c) \in Seq(ByteType)
    BY ChunkIsBytes, ChunksDoneGrow
  <2> QED BY <2>1, ChunksDoneGrow, ConcatProperties
<1> QED BY <1>1, <1>2, <1>3, ConcatEmptySeq

\* What is handed over next follows on what has been handed over of the message.
LEMMA HandedGrows ==
  ASSUME NEW earlier \in Seq(Messages), NEW m \in Messages, NEW c \in 1..Len(Chunks[m]),
         NEW o \in Nat, NEW n \in Nat
  PROVE  (Stream(earlier) \o (ChunksDone(m, c) \o Begun(m, c, o)))
           \o [k \in 1..n |-> Byte(m, c, o + k)]
         = Stream(earlier) \o (ChunksDone(m, c) \o Begun(m, c, o + n))
<1> DEFINE next == [k \in 1..n |-> Byte(m, c, o + k)]
<1>1. /\ Stream(earlier) \in Seq(ByteType) /\ ChunksDone(m, c) \in Seq(ByteType)
      /\ Begun(m, c, o) \in Seq(ByteType)
      /\ ChunksDone(m, c) \o Begun(m, c, o) \in Seq(ByteType)
  <2>1. Stream(earlier) \in Seq(ByteType)
    BY StreamGrows
  <2>2. ChunksDone(m, c) \in Seq(ByteType)
    BY ChunksDoneGrow
  <2>3. c \in Nat
    BY ChunksAreCounted
  <2>4. Begun(m, c, o) \in Seq(ByteType)
    BY <2>3, BegunGrows
  <2> QED BY <2>1, <2>2, <2>4, ConcatProperties
<1>2. next \in Seq(ByteType) /\ Begun(m, c, o) \o next = Begun(m, c, o + n)
  <2>1. \A k \in 1..n : Byte(m, c, o + k) \in ByteType
    <3>1. \A k \in 1..n : o + k \in Nat
      OBVIOUS
    <3>2. c \in Nat
      BY ChunksAreCounted
    <3> QED BY <3>1, <3>2 DEF Byte, ByteType
  <2>2. next \in Seq(ByteType)
    BY <2>1
  <2>3. Begun(m, c, o) \o next = Begun(m, c, o + n)
    <3>1. c \in Nat
      BY ChunksAreCounted
    <3> QED BY <3>1, BegunGrows
  <2> QED BY <2>2, <2>3
<1>3. (Stream(earlier) \o (ChunksDone(m, c) \o Begun(m, c, o))) \o next
        = Stream(earlier) \o (ChunksDone(m, c) \o (Begun(m, c, o) \o next))
  <2> DEFINE a == Stream(earlier)
             b == ChunksDone(m, c)
             d == Begun(m, c, o)
  <2>1. a \in Seq(ByteType) /\ b \in Seq(ByteType) /\ d \in Seq(ByteType)
          /\ b \o d \in Seq(ByteType)
    BY <1>1
  <2>2. next \in Seq(ByteType)
    BY <1>2
  <2> HIDE DEF a, b, d, next
  <2>3. ASSUME NEW bd \in Seq(ByteType) PROVE (a \o bd) \o next = a \o (bd \o next)
    BY <2>1, <2>2, <2>3, ConcatAssociative, SMTT(20)
  <2>4. (b \o d) \o next = b \o (d \o next)
    BY <2>1, <2>2, ConcatAssociative, SMTT(20)
  <2>5. (a \o (b \o d)) \o next = a \o (b \o (d \o next))
    BY <2>1, <2>3, <2>4, Zenon
  <2> QED BY <2>5 DEF a, b, d
<1> HIDE DEF next
<1>4. (Stream(earlier) \o (ChunksDone(m, c) \o Begun(m, c, o))) \o next
        = Stream(earlier) \o (ChunksDone(m, c) \o Begun(m, c, o + n))
  BY <1>2, <1>3
<1> QED BY <1>4 DEF next

\* A step that neither takes nor gives up a message: what it hands over is the next
\* n bytes of the chunk, and it stays in the chunk or leaves it at its end.
LEMMA HandedGoesOn ==
  ASSUME TypeInv, HandedOK, pc # "take", pc' # "take",
         ~failed' => ~failed, taken' = taken, message' = message,
         chunk \in 1..Len(Chunks[message]), NEW n \in Nat,
         handed' = handed \o [k \in 1..n |-> Byte(message, chunk, offset + k)],
         \/ chunk' = chunk /\ offset' = offset + n
         \/ chunk' = chunk + 1 /\ offset' = 0 /\ offset + n = Chunks[message][chunk]
  PROVE  HandedOK'
<1> SUFFICES ASSUME ~failed'
             PROVE  \E earlier \in Seq(Messages) :
                      /\ taken' = Append(earlier, message')
                      /\ handed' = Stream(earlier)
                           \o (ChunksDone(message', chunk') \o Begun(message', chunk', offset'))
  BY DEF HandedOK
<1>1. message \in Messages /\ offset \in Nat
  BY DEF TypeInv, TypeOK, PlaceOK
<1>2. PICK earlier \in Seq(Messages) :
        /\ taken = Append(earlier, message)
        /\ handed = Stream(earlier)
                    \o (ChunksDone(message, chunk) \o Begun(message, chunk, offset))
  BY DEF HandedOK
<1>p. PICK m \in Messages : m = message
  BY <1>1
<1>3. PICK c \in 1..Len(Chunks[m]), o \in Nat : m = message /\ c = chunk /\ o = offset
  BY <1>1, <1>p
<1>4. handed' = Stream(earlier) \o (ChunksDone(m, c) \o Begun(m, c, o + n))
  <2>1. /\ handed = Stream(earlier) \o (ChunksDone(m, c) \o Begun(m, c, o))
        /\ handed' = handed \o [k \in 1..n |-> Byte(m, c, o + k)]
    BY <1>2, <1>3
  <2> QED BY <2>1, HandedGrows
<1>5. CASE chunk' = chunk /\ offset' = offset + n
  BY <1>2, <1>3, <1>4, <1>5
<1>6. CASE chunk' = chunk + 1 /\ offset' = 0 /\ offset + n = Chunks[message][chunk]
  <2>1. PICK e \in Nat : e = o + n
    OBVIOUS
  <2>2. e = Chunks[m][c]
    BY <1>3, <1>6, <2>1
  <2>3. handed' = Stream(earlier) \o (ChunksDone(m, c) \o Begun(m, c, e))
    BY <1>4, <2>1
  <2>4. ChunksDone(m, c) \o Begun(m, c, e) = ChunksDone(m, c + 1) \o Begun(m, c + 1, 0)
    BY <2>2, ChunkIsDone
  <2>5. handed' = Stream(earlier) \o (ChunksDone(m, c + 1) \o Begun(m, c + 1, 0))
    BY <2>3, <2>4, Zenon
  <2> QED BY <1>2, <1>3, <1>6, <2>5
<1> QED BY <1>5, <1>6

LEMMA HandedStep ==
  TypeInv /\ TakenOK /\ HandedOK /\ [Next]_vars => HandedOK'
<1> SUFFICES ASSUME TypeInv, TakenOK, HandedOK, [Next]_vars PROVE HandedOK'
  OBVIOUS
<1> USE DEF TypeInv
<1>t. taken \in Seq(Messages) /\ failed \in BOOLEAN /\ handed \in Seq(ByteType)
  BY DEF TypeOK
<1>1. ASSUME NEW m \in Messages, SendMessageAsync(m) PROVE HandedOK'
  BY <1>1 DEF SendMessageAsync, HandedOK
<1>2. ASSUME TakeMessage PROVE HandedOK'
  <2>1. message' \in Messages
    BY <1>2, HeadTailProperties DEF TakeMessage, TypeOK
  <2>2. /\ pc' = "call" /\ chunk' = 1 /\ offset' = 0 /\ failed' = failed /\ handed' = handed
        /\ taken' = Append(taken, message') /\ pc = "take"
    BY <1>2 DEF TakeMessage
  <2>3. Stream(taken) \in Seq(ByteType)
    BY <1>t, <2>1, StreamGrows
  <2>4. \A m \in Messages : ChunksDone(m, 1) \o Begun(m, 1, 0) = <<>>
    <3> SUFFICES ASSUME NEW m \in Messages PROVE ChunksDone(m, 1) \o Begun(m, 1, 0) = <<>>
      OBVIOUS
    <3>1. ChunksDone(m, 1) = <<>> /\ Begun(m, 1, 0) = <<>>
      BY ChunksDoneEnds DEF Begun
    <3>2. <<>> \o <<>> = <<>>
      BY EmptySeq, ConcatEmptySeq
    <3> QED BY <3>1, <3>2
  <2>5. Stream(taken) = Stream(taken) \o <<>>
    BY <2>3, ConcatEmptySeq
  <2>6. ~failed => handed' = Stream(taken)
                     \o (ChunksDone(message', chunk') \o Begun(message', chunk', offset'))
    <3>1. \A m : m \in Messages => ChunksDone(m, 1) \o Begun(m, 1, 0) = <<>>
      BY <2>4
    <3>2. ChunksDone(message', chunk') \o Begun(message', chunk', offset') = <<>>
      BY <2>1, <2>2, <3>1, Zenon
    <3>3. ~failed => handed = Stream(taken)
      BY <2>2 DEF HandedOK
    <3> QED BY <2>2, <2>5, <3>2, <3>3
  <2> QED BY <1>t, <2>2, <2>6 DEF HandedOK
<1>3. ASSUME FlushForLarge PROVE HandedOK'
  <2>1. \/ failed' = TRUE
        \/ /\ pc' = "pass" /\ failed' = failed /\ UNCHANGED <<chunk, offset, message, taken,
                handed>>
    BY <1>3 DEF FlushForLarge, GoOnAt, ReturnFromSend, Delivers, Fails
  <2>2. pc = "call"
    BY <1>3 DEF FlushForLarge
  <2> QED BY <2>1, <2>2 DEF HandedOK
<1>4. ASSUME PassOn PROVE HandedOK'
  <2>1. /\ pc = "pass" /\ pc' = "call" /\ taken' = taken /\ message' = message
        /\ chunk' = chunk + 1 /\ offset' = 0 /\ offset = 0
        /\ handed' = handed \o Data(Size)
    BY <1>4 DEF PassOn, ReturnFromSend, PlaceOK
  <2>2. Size \in Nat /\ offset + Size = Chunks[message][chunk]
    BY <1>4, <2>1, SizeNat DEF PassOn, PlaceOK, Size
  <2>3. ~failed' => ~failed
    BY <1>4, <1>t DEF PassOn, Delivers, Fails
  <2>4. chunk \in 1..Len(Chunks[message])
    BY <2>1 DEF PlaceOK
  <2> QED BY <2>1, <2>2, <2>3, <2>4, HandedGoesOn DEF Data
<1>5. ASSUME EnterCopy PROVE HandedOK'
  BY <1>5 DEF EnterCopy, GoOnAt, HandedOK
<1>6. ASSUME Copy PROVE HandedOK'
  <2>1. /\ pc = "copy" /\ pc' # "take" /\ taken' = taken /\ message' = message
        /\ handed' = handed \o Data(len)
    BY <1>6 DEF Copy, ReturnFromSend
  <2>2. len \in Nat
    BY <1>6, LenFits DEF Copy
  <2>3. \/ failed' = TRUE
        \/ failed' = failed /\ chunk' = chunk /\ offset' = offset + len
    BY <1>6 DEF Copy, Delivers, Fails
  <2>4. chunk \in 1..Len(Chunks[message])
    BY <2>1 DEF PlaceOK
  <2>5. CASE failed' = TRUE
    BY <2>5 DEF HandedOK
  <2>6. CASE failed' = failed /\ chunk' = chunk /\ offset' = offset + len
    BY <2>1, <2>2, <2>4, <2>6, HandedGoesOn DEF Data
  <2> QED BY <2>3, <2>5, <2>6
<1>7. ASSUME LeaveCopy PROVE HandedOK'
  <2>1. /\ pc = "copy" /\ pc' = "call" /\ taken' = taken /\ message' = message /\ failed' = failed
        /\ chunk' = chunk + 1 /\ offset' = 0 /\ offset + 0 = Chunks[message][chunk]
        /\ handed' = handed
    <3>1. offset = Size /\ offset \in Nat
      BY <1>7 DEF LeaveCopy, TypeOK
    <3> QED BY <1>7, <3>1 DEF LeaveCopy, ReturnFromSend, Size
  <2>2. handed = handed \o <<>> /\ [k \in 1..0 |-> Byte(message, chunk, offset + k)] = <<>>
    BY <1>t, ConcatEmptySeq
  <2>3. chunk \in 1..Len(Chunks[message])
    BY <2>1 DEF PlaceOK
  <2>4. handed' = handed \o [k \in 1..0 |-> Byte(message, chunk, offset + k)] /\ 0 \in Nat
    BY <2>1, <2>2
  <2> QED BY <2>1, <2>3, <2>4, HandedGoesOn
<1>8. ASSUME Flush PROVE HandedOK'
  <2> SUFFICES ASSUME ~failed' PROVE handed' = Stream(taken')
    BY <1>8 DEF Flush, HandedOK
  <2>1. /\ pc = "call" /\ chunk > Len(Chunks[message]) /\ offset = 0 /\ ~failed
        /\ handed' = handed /\ taken' = taken
    BY <1>8, <1>t DEF Flush, Delivers, Fails, PlaceOK
  <2>2. message \in Messages /\ chunk \in Nat
    BY <2>1 DEF PlaceOK, TypeOK
  <2>3. chunk = Len(Chunks[message]) + 1
    BY <2>1, <2>2, ChunksAreCounted DEF TakenOK
  <2>4. PICK earlier \in Seq(Messages) :
          /\ taken = Append(earlier, message)
          /\ handed = Stream(earlier)
                      \o (ChunksDone(message, chunk) \o Begun(message, chunk, offset))
    BY <2>1 DEF HandedOK
  <2>5. PICK m \in Messages : m = message
    BY <2>2
  <2>6. /\ ChunksDone(m, Len(Chunks[m]) + 1) = BytesOf(m) /\ BytesOf(m) \in Seq(ByteType)
        /\ Begun(m, Len(Chunks[m]) + 1, 0) = <<>>
    BY ChunksDoneEnds DEF Begun
  <2>7. BytesOf(m) \o <<>> = BytesOf(m)
    BY <2>6, ConcatEmptySeq
  <2>8. handed = Stream(earlier) \o BytesOf(m)
    BY <2>1, <2>3, <2>4, <2>5, <2>6, <2>7
  <2> QED BY <2>1, <2>4, <2>5, <2>8, StreamGrows
<1>9. ASSUME UNCHANGED vars PROVE HandedOK'
  BY <1>9 DEF vars, HandedOK
<1> QED BY <1>1, <1>2, <1>3, <1>4, <1>5, <1>6, <1>7, <1>8, <1>9 DEF Next, SendThread

-----------------------------------------------------------------------------
(* Nothing on the wire or in the buffer is ahead of another byte, whatever fails *)

\* A byte of the i-th message taken has been handed over.
Passed(byte, i) ==
  \/ i < Len(taken) \/ pc = "take" \/ byte.chunk < chunk
  \/ byte.chunk = chunk /\ byte.at <= offset

InPlace(byte) == \E i \in DOMAIN taken : IsOf(byte, i) /\ Passed(byte, i)

\* What has left Send is in the order of the stream, and behind it comes the place
\* where the thread stands.
OrderOK ==
  LET out == wire \o buffer IN
    /\ \A k \in DOMAIN out : InPlace(out[k])
    /\ \A k, l \in DOMAIN out : k < l => Before(out[k], out[l])

\* A step that adds bytes of the chunk at hand to what has left Send, and keeps a
\* first part of it all.
LEMMA OrderGoesOn ==
  ASSUME TypeInv, TakenOK, OrderOK, [Next]_vars,
         wire' \in Seq(ByteType), buffer' \in Seq(ByteType), offset' \in Nat,
         NEW n \in Nat,
         n # 0 => /\ pc # "take" /\ taken' = taken /\ chunk \in 1..Len(Chunks[message])
                  /\ offset + n <= Chunks[message][chunk]
                  /\ \/ pc' = "take" \/ chunk < chunk'
                     \/ chunk' = chunk /\ offset + n <= offset',
         \A i \in DOMAIN taken : i \in DOMAIN taken' /\ taken'[i] = taken[i],
         \A byte \in ByteType, i \in DOMAIN taken : Passed(byte, i) => Passed(byte, i)',
         Len(wire' \o buffer') <= Len((wire \o buffer) \o Data(n)),
         \A k \in 1..Len(wire' \o buffer') :
           (wire' \o buffer')[k] = ((wire \o buffer) \o Data(n))[k]
  PROVE  OrderOK'
<1> DEFINE out == wire \o buffer
           new == Data(n)
           next == wire' \o buffer'
<1>1. /\ out \in Seq(ByteType) /\ Len(out) \in Nat /\ DOMAIN out = 1..Len(out)
      /\ next \in Seq(ByteType) /\ Len(next) \in Nat /\ DOMAIN next = 1..Len(next)
  BY ConcatProperties, LenProperties DEF TypeInv, TypeOK
<1>2. new \in Seq(ByteType) /\ Len(new) = n
  <2>1. CASE n = 0
    BY <2>1, EmptySeq DEF Data
  <2>2. CASE n # 0
    <3>1. message \in Messages /\ chunk \in Nat /\ offset \in Nat
      BY <2>2 DEF TypeInv, TypeOK, PlaceOK
    <3> QED BY <3>1, DataIsBytes
  <2> QED BY <2>1, <2>2
<1>3. \A k \in 1..Len(next) : /\ k <= Len(out) => next[k] = out[k]
                              /\ k > Len(out) => k - Len(out) \in 1..n
                                   /\ next[k] = new[k - Len(out)]
  <2> HIDE DEF out, new, next
  <2>1. Len(out \o new) = Len(out) + n
    BY <1>1, <1>2, ConcatProperties
  <2>2. \A k \in 1..(Len(out) + n) :
          (out \o new)[k] = IF k <= Len(out) THEN out[k] ELSE new[k - Len(out)]
    BY <1>1, <1>2, ConcatProperties
  <2>3. Len(next) <= Len(out) + n /\ \A k \in 1..Len(next) : next[k] = (out \o new)[k]
    BY <2>1 DEF out, new, next
  <2>4. \A k \in 1..Len(next) : k \in 1..(Len(out) + n)
    BY <1>1, <2>3
  <2>5. ASSUME NEW k \in 1..Len(next)
        PROVE  /\ k <= Len(out) => next[k] = out[k]
               /\ k > Len(out) => k - Len(out) \in 1..n /\ next[k] = new[k - Len(out)]
    <3>1. next[k] = IF k <= Len(out) THEN out[k] ELSE new[k - Len(out)]
      BY <2>2, <2>3, <2>4
    <3>2. k \in 1..(Len(out) + n)
      BY <2>4
    <3> QED BY <1>1, <3>1, <3>2
  <2> QED BY <2>5
<1>4. DOMAIN taken = 1..Len(taken) /\ Len(taken) \in Nat
  BY LenProperties DEF TypeInv, TypeOK
<1>5. \A byte \in ByteType, i \in DOMAIN taken : IsOf(byte, i) => IsOf(byte, i)'
  BY DEF IsOf
<1>6. \A k \in DOMAIN out : out[k] \in ByteType /\ InPlace(out[k])
  <2>1. \A k \in DOMAIN out : InPlace(out[k])
    BY DEF OrderOK
  <2>2. \A k \in DOMAIN out : out[k] \in ByteType
    <3> HIDE DEF out
    <3> QED BY <1>1, ElementOfSeq
  <2> QED BY <2>1, <2>2
<1>7. ASSUME n # 0, NEW k \in 1..n, NEW byte, byte = new[k], NEW last, last = Len(taken)
      PROVE  /\ byte.chunk = chunk /\ byte.at = offset + k /\ byte \in ByteType
             /\ last \in DOMAIN taken /\ last \in DOMAIN taken'
             /\ IsOf(byte, last)' /\ Passed(byte, last)'
  <2>1. /\ message \in Messages /\ offset \in Nat /\ chunk \in DOMAIN Chunks[message]
        /\ Chunks[message][chunk] \in Nat
    BY <1>7, ChunkIsBytes, ChunksAreCounted DEF TypeInv, TypeOK, PlaceOK
  <2>2. byte = Byte(message, chunk, offset + k)
    BY <1>7 DEF Data
  <2>3. byte \in ByteType
    <3> HIDE DEF new
    <3> QED BY <1>2, <1>7, ElementOfSeq
  <2>4. byte.chunk = chunk /\ byte.at = offset + k /\ byte.msg = message
    <3> HIDE DEF new
    <3>1. \A place : /\ Byte(message, chunk, place).chunk = chunk
                     /\ Byte(message, chunk, place).at = place
                     /\ Byte(message, chunk, place).msg = message
      BY DEF Byte
    <3> QED BY <2>2, <3>1, Zenon
  <2>5. last \in DOMAIN taken /\ taken[last] = message /\ taken' = taken
    BY <1>4, <1>7, EmptySeq, SMTT(20) DEF TakenOK, TypeInv, TypeOK
  <2>6. offset + k \in 1..Chunks[message][chunk] /\ offset + k <= offset + n
    BY <1>7, <2>1
  <2>7. IsOf(byte, last)'
    BY <2>1, <2>4, <2>5, <2>6 DEF IsOf
  <2>8. Passed(byte, last)'
    <3>1. CASE pc' = "take"
      BY <3>1 DEF Passed
    <3>2. CASE chunk < chunk'
      BY <2>4, <3>2 DEF Passed
    <3>3. CASE chunk' = chunk /\ offset + n <= offset'
      <4>1. byte.at <= offset'
        BY <2>1, <2>4, <2>6, <3>3
      <4> QED BY <2>4, <3>3, <4>1 DEF Passed
    <3> QED BY <1>7, <3>1, <3>2, <3>3
  <2> QED BY <2>3, <2>4, <2>5, <2>7, <2>8
<1>8. ASSUME NEW k \in DOMAIN next, NEW byte, byte = next[k]
      PROVE  byte \in ByteType /\ InPlace(byte)'
  <2>0. byte \in ByteType
    <3> HIDE DEF out, new, next
    <3> QED BY <1>1, <1>8, ElementOfSeq
  <2>1. CASE k <= Len(out)
    <3>1. k \in DOMAIN out /\ byte = out[k]
      <4> HIDE DEF out, new, next
      <4> QED BY <1>1, <1>3, <1>8, <2>1, SMTT(20)
    <3>2. InPlace(byte)
      BY <1>6, <3>1, Zenon
    <3> QED BY <1>5, <2>0, <3>2 DEF InPlace
  <2>2. CASE k > Len(out)
    <3>1. n # 0 /\ k - Len(out) \in 1..n /\ byte = new[k - Len(out)]
      <4> HIDE DEF out, new, next
      <4> QED BY <1>1, <1>3, <1>8, <2>2, SMTT(20)
    <3>2. PICK j \in 1..n : j = k - Len(out)
      BY <3>1
    <3>3. byte = new[j]
      BY <3>1, <3>2
    <3>l. PICK last : last = Len(taken)
      OBVIOUS
    <3>4. last \in DOMAIN taken' /\ IsOf(byte, last)' /\ Passed(byte, last)'
      <4> HIDE DEF new
      <4> QED BY <1>7, <3>1, <3>3, <3>l
    <3> QED BY <2>0, <3>4 DEF InPlace
  <2>3. k <= Len(out) \/ k > Len(out)
    <3> HIDE DEF out, next
    <3> QED BY <1>1
  <2> QED BY <2>0, <2>1, <2>2, <2>3
<1>9. ASSUME NEW k \in DOMAIN next, NEW l \in DOMAIN next, k < l,
             NEW a, NEW b, a = next[k], b = next[l]
      PROVE  Before(a, b)'
  <2>1. CASE l <= Len(out)
    <3>1. k \in DOMAIN out /\ l \in DOMAIN out /\ a = out[k] /\ b = out[l]
      <4> HIDE DEF out, new, next
      <4> QED BY <1>1, <1>3, <1>9, <2>1
    <3>2. Before(a, b) /\ a \in ByteType /\ b \in ByteType
      <4>1. Before(out[k], out[l])
        BY <1>9, <3>1 DEF OrderOK
      <4> HIDE DEF out
      <4> QED BY <1>6, <3>1, <4>1
    <3> QED BY <1>5, <3>2 DEF Before
  <2>2. CASE k <= Len(out) /\ l > Len(out)
    <3>1. /\ k \in DOMAIN out /\ a = out[k]
          /\ n # 0 /\ l - Len(out) \in 1..n /\ b = new[l - Len(out)]
      <4> HIDE DEF out, new, next
      <4> QED BY <1>1, <1>3, <1>9, <2>2, SMTT(20)
    <3>2. PICK j \in 1..n : j = l - Len(out)
      BY <3>1
    <3>3. InPlace(a) /\ a \in ByteType
      BY <1>6, <3>1, Zenon
    <3>4. PICK i \in DOMAIN taken : IsOf(a, i) /\ Passed(a, i)
      BY <3>3 DEF InPlace
    <3>l. PICK last : last = Len(taken)
      OBVIOUS
    <3>5. /\ b.chunk = chunk /\ b.at = offset + j /\ last \in DOMAIN taken'
          /\ IsOf(b, last)' /\ b \in ByteType
      <4> HIDE DEF new
      <4> QED BY <1>7, <3>1, <3>2, <3>l
    <3>6. IsOf(a, i)' /\ i \in DOMAIN taken' /\ i <= last
      BY <1>4, <1>5, <3>3, <3>4, <3>l
    <3>7. pc # "take" /\ offset \in Nat /\ chunk \in Nat
      BY <3>1 DEF TypeInv, TypeOK
    <3>8. \/ i < last
          \/ i = last /\ (a.chunk < b.chunk \/ (a.chunk = b.chunk /\ a.at < b.at))
      <4>1. a.at \in Nat /\ a.chunk \in Nat /\ i \in Nat
        BY <1>4, <3>3 DEF ByteType
      <4> QED BY <1>4, <3>4, <3>5, <3>6, <3>7, <3>l, <4>1, SMTT(20) DEF Passed
    <3> QED BY <3>5, <3>6, <3>8 DEF Before
  <2>3. CASE k > Len(out)
    <3>1. /\ n # 0 /\ k - Len(out) \in 1..n /\ a = new[k - Len(out)]
          /\ l - Len(out) \in 1..n /\ b = new[l - Len(out)] /\ k - Len(out) < l - Len(out)
      <4> HIDE DEF out, new, next
      <4>1. l > Len(out)
        BY <1>1, <1>9, <2>3
      <4>2. k - Len(out) \in 1..n /\ l - Len(out) \in 1..n
        BY <1>1, <1>3, <2>3, <4>1
      <4>3. a = new[k - Len(out)] /\ b = new[l - Len(out)]
        BY <1>1, <1>3, <1>9, <2>3, <4>1
      <4> QED BY <1>1, <1>9, <4>2, <4>3
    <3>2. PICK i \in 1..n, j \in 1..n : i = k - Len(out) /\ j = l - Len(out)
      BY <3>1
    <3>3. i < j /\ a = new[i] /\ b = new[j]
      BY <3>1, <3>2
    <3>l. PICK last : last = Len(taken)
      OBVIOUS
    <3>4. /\ a.chunk = chunk /\ a.at = offset + i /\ last \in DOMAIN taken'
          /\ b.chunk = chunk /\ b.at = offset + j
          /\ IsOf(a, last)' /\ IsOf(b, last)'
      <4> HIDE DEF new
      <4> QED BY <1>7, <3>1, <3>3, <3>l
    <3>5. a.chunk = b.chunk /\ a.at < b.at
      BY <3>3, <3>4 DEF TypeInv, TypeOK
    <3> QED BY <3>4, <3>5 DEF Before
  <2>4. \/ l <= Len(out)
        \/ k <= Len(out) /\ l > Len(out)
        \/ k > Len(out)
    <3> HIDE DEF out, next
    <3> QED BY <1>1
  <2> QED BY <2>1, <2>2, <2>3, <2>4
<1>10. \A k \in DOMAIN (wire' \o buffer') : \A byte : byte = (wire' \o buffer')[k]
         => InPlace(byte)'
  BY <1>8
<1>11. \A k, l \in DOMAIN (wire' \o buffer') :
         k < l => \A a, b : a = (wire' \o buffer')[k] /\ b = (wire' \o buffer')[l]
           => Before(a, b)'
  BY <1>9
<1> QED BY <1>10, <1>11, Zenon DEF OrderOK, InPlace, Before, Passed, IsOf


\* A call of the transport leaves a first part of the bytes behind those on the wire.
LEMMA CallLeavesAPrefix ==
  ASSUME wire \in Seq(ByteType), NEW bytes \in Seq(ByteType),
         Delivers(bytes) \/ Fails(bytes), buffer' = <<>>
  PROVE  /\ Len(wire' \o buffer') <= Len(wire \o bytes)
         /\ \A k \in 1..Len(wire' \o buffer') : (wire' \o buffer')[k] = (wire \o bytes)[k]
<1>1. CASE Delivers(bytes)
  <2>1. wire' = wire \o bytes /\ wire \o bytes \in Seq(ByteType)
    BY <1>1, ConcatProperties DEF Delivers
  <2>2. wire' \o buffer' = wire \o bytes
    BY <2>1, ConcatEmptySeq
  <2>3. Len(wire \o bytes) \in Nat
    BY <2>1, LenProperties
  <2> QED BY <2>2, <2>3
<1>2. CASE Fails(bytes)
  <2>1. PICK n \in 0..(Len(bytes) - 1) : wire' = wire \o SubSeq(bytes, 1, n)
    BY <1>2 DEF Fails
  <2> DEFINE part == SubSeq(bytes, 1, n)
  <2>2. Len(bytes) \in Nat /\ n \in Nat /\ n <= Len(bytes) /\ Len(wire) \in Nat
    BY <2>1, LenProperties
  <2>3. part \in Seq(ByteType) /\ Len(part) = n /\ \A k \in 1..n : part[k] = bytes[k]
    <3>1. \A i \in 1..n : bytes[i] \in ByteType
      BY <2>2, ElementOfSeq
    <3> QED BY <2>2, <3>1
  <2> HIDE DEF part
  <2>4. wire' = wire \o part
    BY <2>1 DEF part
  <2>5. wire \o part \in Seq(ByteType) /\ Len(wire \o part) = Len(wire) + n
    BY <2>3, ConcatProperties
  <2>6. wire' \o buffer' = wire \o part
    BY <2>4, <2>5, ConcatEmptySeq
  <2>7. Len(wire \o bytes) = Len(wire) + Len(bytes)
    BY ConcatProperties
  <2>8. ASSUME NEW k \in 1..(Len(wire) + n) PROVE (wire \o part)[k] = (wire \o bytes)[k]
    <3>1. (wire \o part)[k] = IF k <= Len(wire) THEN wire[k] ELSE part[k - Len(wire)]
      BY <2>3, ConcatProperties
    <3>2. k \in 1..(Len(wire) + Len(bytes))
      BY <2>2
    <3>3. (wire \o bytes)[k] = IF k <= Len(wire) THEN wire[k] ELSE bytes[k - Len(wire)]
      BY <3>2, ConcatProperties
    <3>4. k > Len(wire) => k - Len(wire) \in 1..n
      BY <2>2
    <3> QED BY <2>2, <2>3, <3>1, <3>3, <3>4
  <2> QED BY <2>2, <2>5, <2>6, <2>7, <2>8
<1> QED BY <1>1, <1>2

LEMMA OrderStep == TypeInv /\ TakenOK /\ OrderOK /\ [Next]_vars => OrderOK'
<1> SUFFICES ASSUME TypeInv, TakenOK, OrderOK, [Next]_vars PROVE OrderOK'
  OBVIOUS
<1>t. wire' \in Seq(ByteType) /\ buffer' \in Seq(ByteType) /\ offset' \in Nat
  <2>1. TypeInv'
    BY TypeStep
  <2> QED BY <2>1 DEF TypeInv, TypeOK
<1> USE DEF TypeInv
<1>b. /\ wire \in Seq(ByteType) /\ buffer \in Seq(ByteType) /\ offset \in Nat /\ chunk \in Nat
      /\ wire \o buffer \in Seq(ByteType) /\ Len(wire \o buffer) \in Nat
      /\ DOMAIN taken = 1..Len(taken) /\ Len(taken) \in Nat
  BY ConcatProperties, LenProperties DEF TypeOK
<1>d. \A byte \in ByteType : byte.chunk \in Nat /\ byte.at \in Nat
  BY DEF ByteType
<1>z. ASSUME Len(wire' \o buffer') <= Len(wire \o buffer),
             \A k \in 1..Len(wire' \o buffer') : (wire' \o buffer')[k] = (wire \o buffer)[k],
             \A i \in DOMAIN taken : i \in DOMAIN taken' /\ taken'[i] = taken[i],
             \A byte \in ByteType, i \in DOMAIN taken : Passed(byte, i) => Passed(byte, i)'
      PROVE  OrderOK'
  <2>1. (wire \o buffer) \o Data(0) = wire \o buffer
    <3>1. Data(0) = <<>>
      BY DEF Data
    <3> QED BY <1>b, <3>1, ConcatEmptySeq
  <2>2. 0 \in Nat /\ (0 # 0 => FALSE)
    OBVIOUS
  <2> QED BY <1>t, <1>z, <2>1, <2>2, OrderGoesOn
<1>s. ASSUME UNCHANGED <<wire, buffer>>,
             \A i \in DOMAIN taken : i \in DOMAIN taken' /\ taken'[i] = taken[i],
             \A byte \in ByteType, i \in DOMAIN taken : Passed(byte, i) => Passed(byte, i)'
      PROVE  OrderOK'
  <2>1. wire' \o buffer' = wire \o buffer
    BY <1>s
  <2> QED BY <1>b, <1>s, <1>z, <2>1
<1>1. ASSUME NEW m \in Messages, SendMessageAsync(m) PROVE OrderOK'
  BY <1>1, <1>s DEF SendMessageAsync, Passed
<1>2. ASSUME TakeMessage PROVE OrderOK'
  <2>1. Head(send_queue_) \in Messages
    BY <1>2, HeadTailProperties DEF TakeMessage, TypeOK
  <2>2. /\ Len(taken') = Len(taken) + 1 /\ taken' \in Seq(Messages)
        /\ \A i \in 1..Len(taken) : taken'[i] = taken[i]
    BY <1>2, <2>1, AppendProperties DEF TakeMessage, TypeOK
  <2>3. \A i \in DOMAIN taken : i \in DOMAIN taken' /\ taken'[i] = taken[i] /\ i < Len(taken')
    BY <1>b, <2>2
  <2>4. buffer' = buffer /\ wire' = wire
    BY <1>2 DEF TakeMessage, PlaceOK
  <2> QED BY <1>s, <2>3, <2>4 DEF Passed
<1>3. ASSUME FlushForLarge PROVE OrderOK'
  <2>1. taken' = taken /\ \A byte \in ByteType, i \in DOMAIN taken : Passed(byte, i)
          => Passed(byte, i)'
    <3>1. taken' = taken /\ pc = "call"
      BY <1>3 DEF FlushForLarge
    <3>2. UNCHANGED <<chunk, offset>> \/ chunk' = chunk + 1
      BY <1>3 DEF FlushForLarge, GoOnAt, ReturnFromSend
    <3> QED BY <1>b, <1>d, <3>1, <3>2 DEF Passed
  <2>2. CASE ~MustFlush
    BY <1>3, <1>s, <2>1, <2>2 DEF FlushForLarge
  <2>3. CASE MustFlush
    <3>1. buffer' = <<>> /\ (Delivers(buffer) \/ Fails(buffer))
      BY <1>3, <2>3 DEF FlushForLarge
    <3> QED BY <1>b, <1>z, <2>1, <3>1, CallLeavesAPrefix
  <2> QED BY <2>2, <2>3
<1>4. ASSUME PassOn PROVE OrderOK'
  <2>1. /\ pc = "pass" /\ taken' = taken /\ chunk' = chunk + 1 /\ offset = 0
        /\ buffer = <<>> /\ buffer' = <<>> /\ (Delivers(Data(Size)) \/ Fails(Data(Size)))
        /\ chunk \in 1..Len(Chunks[message]) /\ message \in Messages
    BY <1>4 DEF PassOn, ReturnFromSend, PlaceOK
  <2>2. PICK n \in Nat : n = Size
    BY <2>1, SizeNat
  <2>3. Data(n) \in Seq(ByteType) /\ wire \o buffer = wire
    BY <1>b, <2>1, DataIsBytes, ConcatEmptySeq
  <2>4. /\ Len(wire' \o buffer') <= Len((wire \o buffer) \o Data(n))
        /\ \A k \in 1..Len(wire' \o buffer') :
             (wire' \o buffer')[k] = ((wire \o buffer) \o Data(n))[k]
    BY <1>b, <2>1, <2>2, <2>3, CallLeavesAPrefix
  <2>5. \A byte \in ByteType, i \in DOMAIN taken : Passed(byte, i) => Passed(byte, i)'
    BY <1>b, <1>d, <2>1 DEF Passed
  <2>6. offset + n <= Chunks[message][chunk] /\ chunk < chunk'
    BY <1>b, <2>1, <2>2 DEF Size
  <2>7. \A i \in DOMAIN taken : i \in DOMAIN taken' /\ taken'[i] = taken[i]
    BY <2>1
  <2> QED BY <1>t, <2>1, <2>4, <2>5, <2>6, <2>7, OrderGoesOn
<1>5. ASSUME EnterCopy PROVE OrderOK'
  BY <1>5, <1>s DEF EnterCopy, GoOnAt, Passed
<1>6. ASSUME Copy PROVE OrderOK'
  <2>1. /\ pc = "copy" /\ taken' = taken
        /\ chunk \in 1..Len(Chunks[message]) /\ message \in Messages
    BY <1>6 DEF Copy, PlaceOK
  <2>2. PICK n \in Nat : n = len /\ offset + n <= Size
    BY <1>6, LenFits DEF Copy
  <2>3. Data(n) \in Seq(ByteType)
    BY <1>b, <2>1, DataIsBytes
  <2> DEFINE data == buffer \o Data(n)
  <2>4. data \in Seq(ByteType) /\ wire \o data = (wire \o buffer) \o Data(n)
    <3>1. data \in Seq(ByteType)
      BY <1>b, <2>3, ConcatProperties
    <3>2. wire \o data = (wire \o buffer) \o Data(n)
      <4> DEFINE d == Data(n)
      <4>1. d \in Seq(ByteType)
        BY <2>3
      <4> HIDE DEF d
      <4>2. wire \in Seq(ByteType) /\ buffer \in Seq(ByteType)
        BY <1>b
      <4>3. wire \o (buffer \o d) = (wire \o buffer) \o d
        BY <4>1, <4>2, ConcatAssociative, SMTT(20)
      <4> QED BY <4>3 DEF d
    <3> QED BY <3>1, <3>2
  <2>5. \/ pc' = pc /\ chunk' = chunk /\ offset' = offset + n
        \/ pc' = "call" /\ chunk' = chunk + 1
    BY <1>6, <2>2 DEF Copy, ReturnFromSend
  <2>6. /\ Len(wire' \o buffer') <= Len((wire \o buffer) \o Data(n))
        /\ \A k \in 1..Len(wire' \o buffer') :
             (wire' \o buffer')[k] = ((wire \o buffer) \o Data(n))[k]
    <3>1. CASE ~IsFull(Len(data))
      <4>1. buffer' = data /\ wire' = wire
        BY <1>6, <2>2, <3>1 DEF Copy
      <4>2. wire' \o buffer' = (wire \o buffer) \o Data(n)
        BY <2>4, <4>1
      <4>3. Len((wire \o buffer) \o Data(n)) \in Nat
        BY <1>b, <2>3, ConcatProperties, LenProperties
      <4> HIDE DEF data
      <4> QED BY <4>2, <4>3
    <3>2. CASE IsFull(Len(data))
      <4>1. buffer' = <<>> /\ (Delivers(data) \/ Fails(data))
        BY <1>6, <2>2, <3>2 DEF Copy
      <4> HIDE DEF data
      <4> QED BY <1>b, <2>4, <4>1, CallLeavesAPrefix
    <3> QED BY <3>1, <3>2
  <2>7. \A byte \in ByteType, i \in DOMAIN taken : Passed(byte, i) => Passed(byte, i)'
    BY <1>b, <1>d, <2>1, <2>5 DEF Passed
  <2>8. offset + n <= Chunks[message][chunk]
    BY <2>2 DEF Size
  <2>9. chunk < chunk' \/ (chunk' = chunk /\ offset + n <= offset')
    BY <1>b, <2>5
  <2>10. \A i \in DOMAIN taken : i \in DOMAIN taken' /\ taken'[i] = taken[i]
    BY <2>1
  <2>11. pc # "take"
    BY <2>1
  <2> HIDE DEF data
  <2> QED BY <1>t, <2>1, <2>6, <2>7, <2>8, <2>9, <2>10, <2>11, OrderGoesOn
<1>7. ASSUME LeaveCopy PROVE OrderOK'
  <2>1. taken' = taken /\ chunk' = chunk + 1 /\ pc = "copy" /\ UNCHANGED <<wire, buffer>>
    BY <1>7 DEF LeaveCopy, ReturnFromSend
  <2>2. \A byte \in ByteType, i \in DOMAIN taken : Passed(byte, i) => Passed(byte, i)'
    BY <1>b, <1>d, <2>1 DEF Passed
  <2> QED BY <1>s, <2>1, <2>2
<1>8. ASSUME Flush PROVE OrderOK'
  <2>1. /\ taken' = taken /\ buffer' = <<>>
        /\ \A byte \in ByteType, i \in DOMAIN taken : Passed(byte, i) => Passed(byte, i)'
    BY <1>8 DEF Flush, Passed
  <2>2. CASE HasData(buffer)
    <3>1. Delivers(buffer) \/ Fails(buffer)
      BY <1>8, <2>2 DEF Flush
    <3> QED BY <1>b, <1>z, <2>1, <3>1, CallLeavesAPrefix
  <2>3. CASE ~HasData(buffer)
    <3>1. UNCHANGED <<wire, buffer>>
      BY <1>8, <2>1, <2>3 DEF Flush, HasData
    <3> QED BY <1>s, <2>1, <3>1
  <2> QED BY <2>2, <2>3
<1>9. ASSUME UNCHANGED vars PROVE OrderOK'
  BY <1>9, <1>s DEF vars, Passed
<1> QED BY <1>1, <1>2, <1>3, <1>4, <1>5, <1>6, <1>7, <1>8, <1>9 DEF Next, SendThread

-----------------------------------------------------------------------------
\* The inductive invariant of the send thread's place in the stream.
StreamInv == TypeInv /\ TakenOK /\ NothingOvertakes /\ HandedOK /\ OrderOK

LEMMA StreamInit == Init => StreamInv
<1> SUFFICES ASSUME Init PROVE StreamInv
  OBVIOUS
<1>1. TypeInv
  BY TypeInit
<1>2. <<>> \o <<>> = <<>>
  BY EmptySeq, ConcatEmptySeq
<1>3. TakenOK /\ NothingOvertakes
  BY <1>2 DEF Init, TakenOK, NothingOvertakes
<1>4. HandedOK
  BY StreamEmpty DEF Init, HandedOK
<1>5. OrderOK
  BY <1>2 DEF Init, OrderOK
<1> QED BY <1>1, <1>3, <1>4, <1>5 DEF StreamInv

\* What the device gets is the stream of the messages taken, complete whenever the
\* thread looks for the next message and no call has failed, and with nothing
\* repeated, swapped or made up if one has (SendThread, SerializeTo and
\* BufferedDTXTransport::Send and Flush), for any chunks and any size of the buffer.
THEOREM StreamArrives == Spec => []WireInv
<1>1. StreamInv /\ [Next]_vars => StreamInv'
  BY TypeStep, TakenStep, OvertakeStep, HandedStep, OrderStep DEF StreamInv
<1>2. StreamInv => WireInv
  <2> SUFFICES ASSUME StreamInv PROVE WireInv
    OBVIOUS
  <2> USE DEF StreamInv
  <2>1. wire \in Seq(ByteType) /\ buffer \in Seq(ByteType)
    BY DEF TypeInv, TypeOK
  <2>2. MessagesAreComplete
    <3> SUFFICES ASSUME pc = "take", ~failed PROVE wire = Stream(taken)
      BY DEF MessagesAreComplete
    <3>1. wire \o buffer = wire
      BY <2>1, ConcatEmptySeq DEF TypeInv, PlaceOK
    <3> QED BY <3>1 DEF HandedOK, NothingOvertakes
  <2>3. ASSUME NEW k \in DOMAIN wire
        PROVE  k \in DOMAIN (wire \o buffer) /\ (wire \o buffer)[k] = wire[k]
    BY <2>1, ConcatProperties, LenProperties
  <2>4. ASSUME NEW k \in DOMAIN wire PROVE \E i \in DOMAIN taken : IsOf(wire[k], i)
    <3>1. InPlace((wire \o buffer)[k])
      BY <2>3, <2>4 DEF OrderOK
    <3> QED BY <2>3, <2>4, <3>1 DEF InPlace
  <2>5. ASSUME NEW k \in DOMAIN wire, NEW l \in DOMAIN wire, k < l
        PROVE  Before(wire[k], wire[l])
    BY <2>3, <2>5 DEF OrderOK
  <2> QED BY <2>2, <2>4, <2>5 DEF WireInv, WireKeepsTheOrder
<1> QED BY StreamInit, <1>1, <1>2, PTL DEF Spec

=============================================================================
