----------------------- MODULE DTXMessageParser_proofs -----------------------
(***************************************************************************)
(* Theorems about DTXMessageParser for any messages and pieces, any sizes   *)
(* of headers and packets, any way in which fragments of messages           *)
(* interleave, and any number of sessions: the loop keeps its place in the  *)
(* stream, messages come out in the order in which the device ended them,   *)
(* and each is made of its own pieces.                                      *)
(*                                                                          *)
(* A proof looks at Stream, the cells in the buffer and those on the wire   *)
(* behind them: most steps leave it as it is and move only the place of     *)
(* the parser in it, consumed_size.                                         *)
(***************************************************************************)
EXTENDS DTXMessageParser, FiniteSetTheorems, SequenceTheorems, WellFoundedInduction, TLAPS

(***************************************************************************)
(* The invariant                                                            *)
(***************************************************************************)
Fragmented(m) == FragmentCount(m) > 1
LastIndex(m) == FragmentCount(m) - 1
FragmentSize(m, i) == HeaderSize + PayloadLength(m, i)
Size(c) == FragmentSize(c.msg, c.index)

\* What the parser has and what is on its way to it.
Stream == parsing_buffer_ \o wire

Proper(c) ==
  /\ c.msg \in Messages /\ c.index \in 0..LastIndex(c.msg) /\ c.part \in 1..Size(c)
  /\ c = Cell(c.msg, c.index, c.part)

\* Cells of fragments that have been sent.
Belong(s, next) == \A k \in 1..Len(s) : Proper(s[k]) /\ s[k].index < next[s[k].msg]

CellsOK ==
  /\ \A m \in Messages : nextFragment[m] \in 0..FragmentCount(m)
  /\ Belong(Stream, nextFragment)

ParserOK ==
  /\ pc \in {"idle", "pop", "nomem"} => consumed_size = 0
  /\ pc \in {"idle", "nomem"} => parsed_message_queue_ = <<>>

TypeInv == TypeOK /\ CellsOK /\ ParserOK

\* Sequences of cells: c stands between places j and k; whole fragments one behind
\* the other, those of a message in order and without gaps, messages with the same
\* identifier one after the other.
Between(s, j, k, c) == \E l \in 1..Len(s) : j < l /\ l < k /\ s[l] = c
Chained(s) ==
  /\ \A k \in 1..(Len(s) - 1) : Follows(s[k], s[k + 1])
  /\ Len(s) > 0 => s[1].part = 1 /\ s[Len(s)].part = Size(s[Len(s)])
Precedes(b, c) == b.index < c.index \/ (b.index = c.index /\ b.part < c.part)
InOrder(s) ==
  \A j, k \in 1..Len(s) : j < k /\ s[j].msg = s[k].msg => Precedes(s[j], s[k])
Complete(s, next) ==
  \A j \in 1..Len(s) : \A i \in 1..LastIndex(s[j].msg) :
    s[j].index < i /\ i < next[s[j].msg] => Between(s, j, Len(s) + 1, Cell(s[j].msg, i, 1))
Apart(s) ==
  \A m, n \in Messages : \A j, k \in 1..Len(s) :
    /\ m # n /\ Fragmented(m) /\ Fragmented(n) /\ Identifier[m] = Identifier[n] /\ j < k
    /\ s[j].msg = m /\ s[j].part = 1 /\ s[k].msg = n /\ s[k].part = 1
    => Between(s, j - 1, k, Cell(m, LastIndex(m), 1))
Sound(s, next) == Chained(s) /\ InOrder(s) /\ Complete(s, next) /\ Apart(s)

\* The parser has lost its place: what comes next is no header.
Lost == consumed_size < buffer_size /\ parsing_buffer_[consumed_size + 1].part # 1
OnTrack == ~torn /\ pc \in {"idle", "loop", "pop"} /\ ~Lost

\* Only a parser that has repeated itself loses its place or refuses a stream that was
\* never cut inside a message.
LostOK ==
  ~torn /\ (Lost \/ pc = "rejected") =>
    replayed /\ \E m \in Messages : Fragmented(m) /\ nextFragment[m] > 0

\* What an undisturbed parser has before it is sound.
StreamOK == OnTrack => Sound(Stream, nextFragment)

\* A header that is still to be parsed, also before another one at k.
Ahead(m, i) == Between(Stream, consumed_size, Len(Stream) + 1, Cell(m, i, 1))
AheadOf(k, m, i) == Between(Stream, consumed_size, k, Cell(m, i, 1))
HasParsed(m) == \E k \in DOMAIN parsed : parsed[k].msg = m

\* A message is sent once, and nothing else is parsed to its end.
SentOK ==
  /\ \A i \in DOMAIN sent : /\ sent[i].msg \in Messages /\ sent[i] = Whole(sent[i].msg)
                            /\ nextFragment[sent[i].msg] = FragmentCount(sent[i].msg)
  /\ \A i, j \in DOMAIN sent : sent[i].msg = sent[j].msg => i = j
  /\ \A k \in DOMAIN parsed : nextFragment[parsed[k].msg] = FragmentCount(parsed[k].msg)

\* A message that the device has sent has been parsed or will be, and after those
\* that were sent before it.
EarlierOK ==
  OnTrack =>
    /\ \A i \in DOMAIN sent :
         HasParsed(sent[i].msg) \/ Ahead(sent[i].msg, LastIndex(sent[i].msg))
    /\ \A i, j \in DOMAIN sent : \A k \in 1..Len(Stream) :
         j < i /\ Stream[k] = Cell(sent[i].msg, LastIndex(sent[i].msg), 1) =>
           HasParsed(sent[j].msg) \/ AheadOf(k, sent[j].msg, LastIndex(sent[j].msg))

\* The order of delivery, the second part of MessagesInOrder.
OrderOK ==
  ~torn =>
    \A j, i \in DOMAIN sent, k \in DOMAIN parsed :
      j < i /\ parsed[k].msg = sent[i].msg => \E h \in 1..k : parsed[h].msg = sent[j].msg

\* As long as the parser does not repeat itself: what was parsed is the beginning of what
\* was sent; a last fragment that is ahead belongs to a message that was sent and not
\* parsed; what waits in the buffer is less than a message.
OnceOK == ~torn /\ ~replayed => IsPrefix(parsed, sent)
NewOK ==
  OnTrack /\ ~replayed =>
    \A m \in Messages :
      Ahead(m, LastIndex(m)) => ~HasParsed(m) /\ \E i \in DOMAIN sent : sent[i].msg = m
WaitingOK ==
  ~torn /\ ~replayed /\ pc \in {"idle", "pop"} /\ parsing_buffer_ # <<>> =>
    buffer_size <
      HeaderSize + HeaderLength(parsing_buffer_[1].msg, parsing_buffer_[1].index)

\* The parser can tell messages apart by their identifiers.
Tell == ~replayed \/ FragmentedByIdentifier

Open(m) == Identifier[m] \in DOMAIN fragmented_buffers_by_identifier
Pending(m) == fragmented_buffers_by_identifier[Identifier[m]]
PiecesOf(m, n) == [i \in 1..n |-> Payload(m, i)]

\* The fragments of another message with the identifier of m come after those of m.
Alone(m) ==
  \A n \in Messages : \A k \in 1..Len(Stream) :
    /\ n # m /\ Fragmented(n) /\ Identifier[n] = Identifier[m]
    /\ k > consumed_size /\ Stream[k].msg = n /\ Stream[k].part = 1
    => AheadOf(k, m, LastIndex(m))

\* The open buffer of the identifier of m holds the pieces of m that were parsed.
Holder(m) ==
  /\ Fragmented(m) /\ Open(m)
  /\ nextFragment[m] > 0 /\ Cell(m, 0, 1) \notin ToSet(wire)
Collected(m) ==
  /\ \A p \in ToSet(Pending(m)) : \E i \in 1..(LastIndex(m) - 1) : p = Payload(m, i)
  /\ \A i \in 1..LastIndex(m) :
       i < nextFragment[m] => Payload(m, i) \in ToSet(Pending(m)) \/ Ahead(m, i)
  /\ ~replayed =>
       \E n \in 0..(LastIndex(m) - 1) :
         /\ n < nextFragment[m] /\ Pending(m) = PiecesOf(m, n)
         /\ \A i \in 1..n : ~Ahead(m, i)
Owner(m) == Holder(m) /\ Collected(m) /\ Alone(m)

\* Every open buffer belongs to a message that is being received.
OwnersOK ==
  OnTrack /\ Tell =>
    \A id \in DOMAIN fragmented_buffers_by_identifier :
      \E m \in Messages : Identifier[m] = id /\ Owner(m)

\* A message that has begun has a buffer, or its first fragment is to come.
BegunOK ==
  OnTrack /\ ~replayed =>
    /\ \A n \in Messages : Fragmented(n) /\ InProgress(n) => Ahead(n, 0) \/ Owner(n)
    /\ \A n \in Messages : \A k \in 1..Len(Stream) :
         /\ Fragmented(n) /\ k > consumed_size
         /\ Stream[k].msg = n /\ Stream[k].part = 1 /\ Stream[k].index > 0
         => Owner(n) \/ AheadOf(k, n, 0)

\* The inductive invariant, in the parts its steps are proved in.
PlaceOK == TypeInv /\ StreamOK /\ LostOK
DeliveryOK == SentOK /\ EarlierOK /\ OrderOK /\ OnceOK /\ NewOK /\ WaitingOK
BuffersOK == OwnersOK /\ BegunOK /\ OwnPiecesOnly
IInv == PlaceOK /\ DeliveryOK /\ BuffersOK

-----------------------------------------------------------------------------
(* Sequences *)

LEMMA JoinedIs ==
  ASSUME NEW S, NEW s \in Seq(S), NEW t \in Seq(S)
  PROVE  /\ s \o t \in Seq(S) /\ Len(s \o t) = Len(s) + Len(t)
         /\ Len(s) \in Nat /\ Len(t) \in Nat
         /\ \A k \in 1..Len(s) : (s \o t)[k] = s[k]
         /\ \A k \in 1..Len(t) : (s \o t)[Len(s) + k] = t[k]
<1>1. Len(s) \in Nat /\ Len(t) \in Nat
  OBVIOUS
<1>2. s \o t \in Seq(S) /\ Len(s \o t) = Len(s) + Len(t)
  BY ConcatProperties
<1>3. ASSUME NEW k \in 1..Len(s) PROVE (s \o t)[k] = s[k]
  <2>1. k \in 1..(Len(s) + Len(t)) /\ k <= Len(s)
    BY <1>1
  <2> QED BY <2>1, ConcatProperties
<1>4. ASSUME NEW k \in 1..Len(t) PROVE (s \o t)[Len(s) + k] = t[k]
  <2>1. Len(s) + k \in 1..(Len(s) + Len(t)) /\ ~(Len(s) + k <= Len(s))
    BY <1>1
  <2>2. Len(s) + k - Len(s) = k
    BY <1>1
  <2> QED BY <2>1, <2>2, ConcatProperties
<1> QED BY <1>1, <1>2, <1>3, <1>4

LEMMA CutBehind ==
  ASSUME NEW S, NEW s \in Seq(S), NEW n \in 0..Len(s)
  PROVE  /\ SubSeq(s, n + 1, Len(s)) \in Seq(S) /\ Len(SubSeq(s, n + 1, Len(s))) = Len(s) - n
         /\ \A k \in 1..(Len(s) - n) : SubSeq(s, n + 1, Len(s))[k] = s[n + k]
         /\ SubSeq(s, 1, n) \in Seq(S) /\ Len(SubSeq(s, 1, n)) = n
         /\ \A k \in 1..n : SubSeq(s, 1, n)[k] = s[k]
         /\ SubSeq(s, 1, n) \o SubSeq(s, n + 1, Len(s)) = s
<1>1. Len(s) \in Nat /\ n \in Nat /\ n <= Len(s)
  BY LenProperties
<1>2. \A k \in 1..Len(s) : s[k] \in S
  BY ElementOfSeq
<1> DEFINE first == SubSeq(s, 1, n)
           rest == SubSeq(s, n + 1, Len(s))
<1>3. first \in Seq(S) /\ Len(first) = n /\ \A k \in 1..n : first[k] = s[k]
  <2>1. \A k \in 1..n : s[k] \in S
    BY <1>1, <1>2
  <2>2. first \in Seq(S) /\ Len(first) = IF 1 <= n THEN n - 1 + 1 ELSE 0
    BY <1>1, <2>1, SubSeqProperties
  <2>3. \A k \in 1..(n - 1 + 1) : first[k] = s[1 + k - 1]
    BY <1>1, <2>1, SubSeqProperties
  <2>4. \A k \in 1..n : 1 + k - 1 = k /\ k \in 1..(n - 1 + 1)
    BY <1>1
  <2> HIDE DEF first
  <2> QED BY <1>1, <2>2, <2>3, <2>4
<1>4. rest \in Seq(S) /\ Len(rest) = Len(s) - n /\ \A k \in 1..(Len(s) - n) : rest[k] = s[n + k]
  <2>1. \A k \in (n + 1)..Len(s) : s[k] \in S
    BY <1>1, <1>2
  <2>2. rest \in Seq(S) /\ Len(rest) = IF n + 1 <= Len(s) THEN Len(s) - (n + 1) + 1 ELSE 0
    BY <1>1, <2>1, SubSeqProperties
  <2>3. \A k \in 1..(Len(s) - (n + 1) + 1) : rest[k] = s[(n + 1) + k - 1]
    BY <1>1, <2>1, SubSeqProperties
  <2>4. \A k \in 1..(Len(s) - n) : (n + 1) + k - 1 = n + k /\ k \in 1..(Len(s) - (n + 1) + 1)
    BY <1>1
  <2> HIDE DEF rest
  <2> QED BY <1>1, <2>2, <2>3, <2>4
<1>5. first \o rest = s
  <2> HIDE DEF first, rest
  <2>1. first \o rest \in Seq(S) /\ Len(first \o rest) = Len(s)
    BY <1>1, <1>3, <1>4, JoinedIs
  <2>2. ASSUME NEW k \in 1..Len(s) PROVE (first \o rest)[k] = s[k]
    <3>1. CASE k <= n
      <4>1. k \in 1..Len(first)
        BY <1>1, <1>3, <3>1
      <4> QED BY <1>3, <1>4, <4>1, JoinedIs
    <3>2. CASE k > n
      <4>1. k - n \in 1..Len(rest) /\ Len(first) + (k - n) = k /\ n + (k - n) = k
        BY <1>1, <1>3, <1>4, <3>2
      <4>2. (first \o rest)[Len(first) + (k - n)] = rest[k - n]
        BY <1>3, <1>4, <4>1, JoinedIs
      <4> QED BY <1>4, <4>1, <4>2
    <3>3. k <= n \/ k > n
      BY <1>1
    <3> QED BY <3>1, <3>2, <3>3
  <2> QED BY <2>1, <2>2, SeqEqual
<1> QED BY <1>3, <1>4, <1>5

LEMMA JoinedTwice ==
  \A s, t, u \in Seq(CellType) : (s \o t) \o u = s \o (t \o u)
  BY ConcatAssociative
-----------------------------------------------------------------------------
(* Sizes *)

LEMMA SizesOfMessages ==
  ASSUME NEW m \in Messages
  PROVE  /\ Len(Pieces[m]) \in Nat \ {0} /\ LastIndex(m) \in Nat
         /\ FragmentCount(m) = LastIndex(m) + 1
         /\ Fragmented(m) => LastIndex(m) = Len(Pieces[m])
         /\ ~Fragmented(m) => LastIndex(m) = 0
         /\ Fragmented(m) => LastIndex(m) > 1
         /\ \A i \in 1..Len(Pieces[m]) : Pieces[m][i] \in Nat \ {0}
<1>1. Pieces[m] \in Seq(Nat \ {0}) /\ Pieces[m] # <<>>
  BY ConstantsAssumption
<1>2. Len(Pieces[m]) \in Nat \ {0}
  BY <1>1, EmptySeq
<1>3. \A i \in 1..Len(Pieces[m]) : Pieces[m][i] \in Nat \ {0}
  BY <1>1, ElementOfSeq
<1>4. FragmentCount(m) = IF Len(Pieces[m]) = 1 THEN 1 ELSE Len(Pieces[m]) + 1
  BY DEF FragmentCount
<1>5. LastIndex(m) = FragmentCount(m) - 1 /\ (Fragmented(m) <=> FragmentCount(m) > 1)
  BY DEF LastIndex, Fragmented
<1>6. CASE Len(Pieces[m]) = 1
  BY <1>2, <1>3, <1>4, <1>5, <1>6
<1>7. CASE Len(Pieces[m]) # 1
  <2>1. FragmentCount(m) = Len(Pieces[m]) + 1 /\ Len(Pieces[m]) > 1
    <3>0. \A n \in Nat : n # 0 /\ n # 1 => n > 1
      OBVIOUS
    <3>1. Len(Pieces[m]) > 1
      BY <1>2, <1>7, <3>0
    <3> QED BY <1>4, <1>7, <3>1
  <2>2. LastIndex(m) = Len(Pieces[m]) /\ Fragmented(m)
    BY <1>2, <1>5, <2>1
  <2> QED BY <1>2, <1>3, <2>1, <2>2
<1> QED BY <1>6, <1>7

LEMMA PayloadIsFinite ==
  ASSUME NEW m \in Messages
  PROVE  /\ IsFiniteSet(PayloadCells(m)) /\ PayloadCells(m) # {}
         /\ Cardinality(PayloadCells(m)) \in Nat \ {0}
         /\ \A p \in PayloadCells(m) :
              \E i \in 1..Len(Pieces[m]) : \E k \in 1..Pieces[m][i] : p = <<i, k>>
<1> DEFINE D == 1..Len(Pieces[m])
           rows == {{i} \X (1..Pieces[m][i]) : i \in D}
           f == [i \in D |-> {i} \X (1..Pieces[m][i])]
<1>0. Len(Pieces[m]) \in Nat \ {0} /\ \A i \in D : Pieces[m][i] \in Nat \ {0}
  BY SizesOfMessages
<1>1. DOMAIN Pieces[m] = D
  <2>1. Pieces[m] \in Seq(Nat \ {0})
    BY ConstantsAssumption
  <2> QED BY <2>1
<1>2. PayloadCells(m) = UNION rows
  BY <1>1 DEF PayloadCells
<1>3. IsFiniteSet(rows)
  <2>1. IsFiniteSet(D)
    BY <1>0, FS_Interval
  <2>2. f \in Surjection(D, rows)
    BY DEF Surjection
  <2> HIDE DEF f, rows, D
  <2> QED BY <2>1, <2>2, FS_Surjection
<1>4. \A r \in rows : IsFiniteSet(r)
  <2>1. SUFFICES ASSUME NEW i \in D PROVE IsFiniteSet({i} \X (1..Pieces[m][i]))
    OBVIOUS
  <2> DEFINE S == {i}
             T == 1..Pieces[m][i]
  <2>2. IsFiniteSet({i})
    BY FS_Singleton
  <2>3. IsFiniteSet(1..Pieces[m][i])
    <3>1. 1 \in Int /\ Pieces[m][i] \in Int
      BY <1>0
    <3> QED BY <3>1, FS_Interval
  <2>4. IsFiniteSet(S \X T)
    <3> HIDE DEF S, T
    <3>1. IsFiniteSet(S) /\ IsFiniteSet(T)
      BY <2>2, <2>3 DEF S, T
    <3> QED BY <3>1, FS_Product
  <2> QED BY <2>4
<1>5. IsFiniteSet(PayloadCells(m))
  <2> HIDE DEF rows
  <2> QED BY <1>2, <1>3, <1>4, FS_UNION
<1>6. <<1, 1>> \in PayloadCells(m)
  <2>1. 1 \in D /\ 1 \in 1..Pieces[m][1]
    BY <1>0
  <2>2. <<1, 1>> \in {1} \X (1..Pieces[m][1])
    BY <2>1
  <2> HIDE DEF D
  <2> QED BY <1>2, <2>1, <2>2
<1>7. \A p \in PayloadCells(m) : \E i \in D : \E k \in 1..Pieces[m][i] : p = <<i, k>>
  BY <1>2
<1> HIDE DEF D
<1>8. Cardinality(PayloadCells(m)) \in Nat /\ Cardinality(PayloadCells(m)) # 0
  BY <1>5, <1>6, FS_CardinalityType, FS_EmptySet
<1> QED BY <1>5, <1>6, <1>7, <1>8 DEF D

LEMMA SizesOfFragments ==
  ASSUME NEW m \in Messages, NEW i \in 0..LastIndex(m)
  PROVE  /\ HeaderLength(m, i) \in Nat \ {0} /\ PayloadLength(m, i) \in Nat
         /\ HeaderSize \in Nat \ {0} /\ FragmentSize(m, i) \in Nat \ {0}
         /\ FragmentSize(m, i) = HeaderSize + PayloadLength(m, i)
         /\ i # 0 \/ ~Fragmented(m) => PayloadLength(m, i) = HeaderLength(m, i)
         /\ i = 0 /\ Fragmented(m) => PayloadLength(m, i) = 0
<1>1. HeaderSize \in Nat \ {0}
  BY ConstantsAssumption
<1>2. HeaderLength(m, i) \in Nat \ {0}
  <2>1. CASE i = 0
    BY <2>1, PayloadIsFinite DEF HeaderLength
  <2>2. CASE i # 0
    BY <2>2, SizesOfMessages DEF HeaderLength
  <2> QED BY <2>1, <2>2
<1>3. PayloadLength(m, i) \in Nat
  BY <1>2 DEF PayloadLength
<1> QED BY <1>1, <1>2, <1>3 DEF PayloadLength, Fragmented, FragmentSize

-----------------------------------------------------------------------------
(* The types *)

LEMMA ProperCells ==
  ASSUME NEW m \in Messages, NEW i \in 0..LastIndex(m)
  PROVE  /\ Cells(m, i) \in Seq(CellType)
         /\ Len(Cells(m, i)) = FragmentSize(m, i)
         /\ \A k \in 1..Len(Cells(m, i)) : Cells(m, i)[k] = Cell(m, i, k) /\ Proper(Cell(m, i, k))
<1> DEFINE N == FragmentSize(m, i)
<1>1. N \in Nat /\ i \in Nat
  BY SizesOfFragments, SizesOfMessages
<1>2. \A k \in 1..N : Cell(m, i, k) \in CellType /\ Proper(Cell(m, i, k))
  BY <1>1 DEF Cell, CellType, Proper, Size
<1>3. Cells(m, i) \in [1..N -> CellType]
  BY <1>2 DEF Cells, FragmentSize
<1>4. Cells(m, i) \in Seq(CellType) /\ Len(Cells(m, i)) = N
  <2> HIDE DEF N
  <2> QED BY <1>1, <1>3
<1> QED BY <1>2, <1>4 DEF Cells, FragmentSize

LEMMA WholeIsParsed ==
  ASSUME NEW m \in Messages
  PROVE  Whole(m) \in ParsedType /\ Whole(m).msg = m
<1>1. \A i \in Nat : Payload(m, i) \in PayloadType
  BY DEF Payload, PayloadType
<1>2. <<Payload(m, 0)>> \in Seq(PayloadType)
  BY <1>1
<1>3. [i \in 1..Len(Pieces[m]) |-> Payload(m, i)] \in Seq(PayloadType)
  BY <1>1, SizesOfMessages
<1> QED BY <1>2, <1>3 DEF Whole, Parsed, ParsedType

LEMMA StreamIs ==
  ASSUME TypeOK
  PROVE  /\ Stream \in Seq(CellType) /\ Len(Stream) = buffer_size + Len(wire)
         /\ buffer_size \in Nat /\ Len(wire) \in Nat
         /\ \A k \in 1..buffer_size : Stream[k] = parsing_buffer_[k]
         /\ \A k \in 1..Len(wire) : Stream[buffer_size + k] = wire[k]
         /\ \A k \in 1..Len(Stream) : k > buffer_size => Stream[k] = wire[k - buffer_size]
<1>1. parsing_buffer_ \in Seq(CellType) /\ wire \in Seq(CellType)
  BY DEF TypeOK
<1> QED BY <1>1, ConcatProperties DEF Stream, buffer_size


\* The header at hand is the next cell of the stream, and a header.
LEMMA HeaderIs ==
  ASSUME TypeInv, HasHeader, MagicMatches
  PROVE  /\ header.msg \in Messages /\ header.index \in 0..LastIndex(header.msg)
         /\ header = Cell(header.msg, header.index, 1)
         /\ consumed_size \in Nat /\ consumed_size + HeaderSize <= buffer_size
         /\ consumed_size + 1 \in 1..buffer_size /\ consumed_size + 1 \in 1..Len(Stream)
         /\ Stream[consumed_size + 1] = header
<1>1. HeaderSize \in Nat \ {0} /\ buffer_size \in Nat /\ consumed_size \in Nat
  BY ConstantsAssumption, StreamIs DEF TypeInv, TypeOK
<1>2. buffer_size >= consumed_size + HeaderSize
  BY DEF HasHeader
<1>3. consumed_size + 1 \in 1..buffer_size
  BY <1>1, <1>2
<1>4. consumed_size + 1 \in 1..Len(Stream) /\ Stream[consumed_size + 1] = header
  BY <1>1, <1>3, StreamIs DEF TypeInv, header
<1>5. Proper(header)
  BY <1>4 DEF TypeInv, CellsOK, Belong
<1> QED BY <1>1, <1>2, <1>3, <1>4, <1>5 DEF Proper, MagicMatches

\* What a step takes from the stream and what it puts behind it.
LEMMA StreamKept ==
  ASSUME UNCHANGED <<parsing_buffer_, wire>> PROVE Stream' = Stream /\ buffer_size' = buffer_size
  BY DEF Stream, buffer_size

LEMMA PacketIsMoved ==
  ASSUME TypeOK, NEW n \in 1..PacketSize, n <= Len(wire),
         wire' = SubSeq(wire, n + 1, Len(wire)),
         parsing_buffer_' = Extended(SubSeq(wire, 1, n))
  PROVE  /\ Stream' = Stream
         /\ wire' \in Seq(CellType) /\ parsing_buffer_' \in Seq(CellType)
         /\ buffer_size' = buffer_size + n /\ n \in Nat \ {0}
         /\ \A k \in 1..buffer_size : parsing_buffer_'[k] = parsing_buffer_[k]
<1>0. n \in Nat \ {0}
  BY ConstantsAssumption
<1>1. parsing_buffer_ \in Seq(CellType) /\ wire \in Seq(CellType) /\ Len(wire) \in Nat
  BY DEF TypeOK
<1>2. n \in 0..Len(wire)
  BY <1>0, <1>1
<1> DEFINE packet == SubSeq(wire, 1, n)
           rest == SubSeq(wire, n + 1, Len(wire))
<1>3. /\ packet \in Seq(CellType) /\ Len(packet) = n
      /\ rest \in Seq(CellType) /\ packet \o rest = wire
  BY <1>1, <1>2, CutBehind
<1> HIDE DEF packet, rest
<1>5. parsing_buffer_' = parsing_buffer_ \o packet /\ wire' = rest
  BY DEF Extended, packet, rest
<1>6. Stream' = (parsing_buffer_ \o packet) \o rest
  BY <1>5 DEF Stream
<1>7. (parsing_buffer_ \o packet) \o rest = parsing_buffer_ \o (packet \o rest)
  <2>1. parsing_buffer_ \in Seq(CellType) /\ packet \in Seq(CellType) /\ rest \in Seq(CellType)
    BY <1>1, <1>3
  <2>2. \A s, t, u \in Seq(CellType) : (s \o t) \o u = s \o (t \o u)
    BY JoinedTwice
  <2> QED BY Zenon, <2>1, <2>2
<1>8. Stream' = Stream
  BY Zenon, <1>3, <1>6, <1>7 DEF Stream
<1>9. /\ parsing_buffer_ \o packet \in Seq(CellType)
      /\ Len(parsing_buffer_ \o packet) = Len(parsing_buffer_) + n
      /\ \A k \in 1..Len(parsing_buffer_) : (parsing_buffer_ \o packet)[k] = parsing_buffer_[k]
  BY <1>1, <1>3, JoinedIs
<1> QED BY <1>0, <1>3, <1>5, <1>8, <1>9 DEF buffer_size

LEMMA LeftoverIs ==
  ASSUME TypeOK, consumed_size \in 1..(buffer_size - 1),
         parsing_buffer_' = Leftover, UNCHANGED wire
  PROVE  /\ parsing_buffer_' \in Seq(CellType) /\ buffer_size' = buffer_size - consumed_size
         /\ \A k \in 1..buffer_size' : parsing_buffer_'[k] = parsing_buffer_[consumed_size + k]
         /\ Len(Stream') = Len(Stream) - consumed_size
         /\ \A k \in 1..Len(Stream') : Stream'[k] = Stream[consumed_size + k]
         /\ Stream' \in Seq(CellType)
<1>1. parsing_buffer_ \in Seq(CellType) /\ wire \in Seq(CellType) /\ Len(wire) \in Nat
  BY DEF TypeOK
<1>2. /\ buffer_size \in Nat /\ consumed_size \in Nat \ {0} /\ consumed_size < buffer_size
      /\ consumed_size \in 0..Len(parsing_buffer_)
  BY <1>1 DEF TypeOK, buffer_size
<1>3. /\ Leftover \in Seq(CellType) /\ Len(Leftover) = buffer_size - consumed_size
      /\ \A k \in 1..(buffer_size - consumed_size) :
           Leftover[k] = parsing_buffer_[consumed_size + k]
  BY <1>1, <1>2, CutBehind DEF Leftover, buffer_size
<1>4. /\ Stream' = Leftover \o wire /\ buffer_size' = Len(Leftover)
      /\ Len(Stream) = buffer_size + Len(wire)
  BY StreamIs DEF Stream, buffer_size
<1> HIDE DEF Leftover
<1>5. Stream' \in Seq(CellType) /\ Len(Stream') = Len(Stream) - consumed_size
  <2>1. Len(Stream') = buffer_size - consumed_size + Len(wire)
    BY <1>1, <1>3, <1>4, JoinedIs
  <2> QED BY <1>1, <1>2, <1>3, <1>4, <2>1, JoinedIs
<1>6. ASSUME NEW k \in 1..Len(Stream') PROVE Stream'[k] = Stream[consumed_size + k]
  <2>1. k \in Nat
    OBVIOUS
  <2>2. CASE k <= buffer_size - consumed_size
    <3>1. k \in 1..Len(Leftover) /\ k \in 1..(buffer_size - consumed_size)
      BY <1>2, <1>3, <2>2
    <3>2. Stream'[k] = Leftover[k]
      BY <1>1, <1>3, <1>4, <3>1, JoinedIs
    <3>3. consumed_size + k \in 1..buffer_size
      BY <1>2, <2>2
    <3>4. Stream[consumed_size + k] = parsing_buffer_[consumed_size + k]
      BY <3>3, StreamIs
    <3> QED BY <1>3, <3>1, <3>2, <3>4
  <2>3. CASE k > buffer_size - consumed_size
    <3> DEFINE j == k - (buffer_size - consumed_size)
    <3>1. j \in 1..Len(wire) /\ Len(Leftover) + j = k /\ buffer_size + j = consumed_size + k
      BY <1>1, <1>2, <1>3, <1>4, <1>5, <2>3
    <3> HIDE DEF j
    <3>2. Stream'[Len(Leftover) + j] = wire[j]
      <4>1. \A q \in 1..Len(wire) : (Leftover \o wire)[Len(Leftover) + q] = wire[q]
        BY <1>1, <1>3, JoinedIs
      <4> QED BY Zenon, <1>4, <3>1, <4>1
    <3>3. Stream[buffer_size + j] = wire[j]
      BY <3>1, StreamIs
    <3> QED BY <3>1, <3>2, <3>3
  <2>4. k <= buffer_size - consumed_size \/ k > buffer_size - consumed_size
    BY <1>2, <2>1
  <2> QED BY <2>2, <2>3, <2>4
<1> QED BY <1>3, <1>4, <1>5, <1>6

-----------------------------------------------------------------------------
(* Numbers, prefixes and cells *)

\* A set of naturals that is not empty has a least element.
LEMMA LeastNumber ==
  ASSUME NEW S \in SUBSET Nat, S # {}
  PROVE  \E least \in S : \A n \in S : least <= n
<1> DEFINE lt == {pair \in Nat \X Nat : pair[1] < pair[2]}
<1>1. IsWellFoundedOn(lt, Nat)
  BY NatLessThanWellFounded DEF OpToRel
<1>2. PICK least \in S : \A n \in S : ~ (<<n, least>> \in lt)
  BY <1>1, WFMin
<1>3. ASSUME NEW n \in S, n < least PROVE FALSE
  BY <1>2, <1>3
<1> HIDE DEF lt
<1> QED BY <1>3

\* Induction over the first numbers.
LEMMA FirstNumbers ==
  ASSUME NEW N \in Nat, NEW S, 1 \in S, \A k \in 1..N : k \in S /\ k < N => k + 1 \in S
  PROVE  1..N \subseteq S
<1>1. SUFFICES ASSUME (1..N) \ S # {} PROVE FALSE
  OBVIOUS
<1>2. PICK k \in (1..N) \ S : \A l \in (1..N) \ S : k <= l
  <2> DEFINE rest == (1..N) \ S
  <2>1. rest \in SUBSET Nat /\ rest # {}
    BY <1>1
  <2> HIDE DEF rest
  <2>2. \E k \in rest : \A l \in rest : k <= l
    BY <2>1, LeastNumber
  <2> QED BY <2>2 DEF rest
<1>3. k # 1 /\ k - 1 \in 1..N /\ k - 1 < N /\ k - 1 + 1 = k
  BY <1>2
<1>4. k - 1 \in S
  BY <1>2, <1>3
<1> QED BY <1>2, <1>3, <1>4

LEMMA PrefixIs ==
  ASSUME NEW S, NEW s \in Seq(S), NEW t \in Seq(S)
  PROVE  IsPrefix(s, t) <=> Len(s) <= Len(t) /\ \A k \in 1..Len(s) : s[k] = t[k]
<1>1. Len(s) \in Nat /\ Len(t) \in Nat
  OBVIOUS
<1>2. SUFFICES ASSUME Len(s) <= Len(t)
               PROVE  SubSeq(s, 1, Len(s)) = SubSeq(t, 1, Len(s))
                        <=> \A k \in 1..Len(s) : s[k] = t[k]
  BY DEF IsPrefix
<1>3. SubSeq(s, 1, Len(s)) = s
  BY SubSeqFull
<1>4. Len(s) \in 0..Len(t)
  BY <1>1, <1>2
<1> DEFINE first == SubSeq(t, 1, Len(s))
<1>5. first \in Seq(S) /\ Len(first) = Len(s) /\ \A k \in 1..Len(s) : first[k] = t[k]
  BY <1>4, CutBehind
<1> HIDE DEF first
<1>6. (\A k \in 1..Len(s) : s[k] = t[k]) => s = first
  BY <1>5, SeqEqual
<1> QED BY <1>3, <1>5, <1>6 DEF first

LEMMA CellIs ==
  ASSUME NEW m, NEW i, NEW k
  PROVE  /\ Cell(m, i, k).msg = m /\ Cell(m, i, k).index = i /\ Cell(m, i, k).part = k
         /\ Size(Cell(m, i, k)) = FragmentSize(m, i)
  BY DEF Cell, Size

LEMMA CellsDiffer ==
  ASSUME NEW m, NEW i, NEW k, NEW n, NEW j, NEW l
  PROVE  Cell(m, i, k) = Cell(n, j, l) <=> m = n /\ i = j /\ k = l
  BY DEF Cell

\* A proper header is the first cell of its fragment.
LEMMA HeaderCell ==
  ASSUME NEW c, Proper(c), c.part = 1
  PROVE  c = Cell(c.msg, c.index, 1)
  BY DEF Proper

-----------------------------------------------------------------------------
(* The parser at a header *)

\* At the header of a fragment, its cells come next, and then another header.
LEMMA Walk ==
  ASSUME NEW s \in Seq(CellType), \A k \in 1..Len(s) : Proper(s[k]), Chained(s),
         NEW c \in Nat, c < Len(s), NEW m, NEW i, s[c + 1] = Cell(m, i, 1),
         NEW N, N = FragmentSize(m, i)
  PROVE  /\ m \in Messages /\ i \in 0..LastIndex(m)
         /\ N \in Nat \ {0} /\ c + N <= Len(s)
         /\ \A k \in 1..N : s[c + k] = Cell(m, i, k)
         /\ c + N < Len(s) => s[c + N + 1].part = 1
<1> DEFINE S == {k \in 1..N : c + k <= Len(s) /\ s[c + k] = Cell(m, i, k)}
<1>0. Len(s) \in Nat
  OBVIOUS
<1>1. m \in Messages /\ i \in 0..LastIndex(m) /\ N \in Nat \ {0}
  <2>1. Proper(Cell(m, i, 1))
    BY <1>0
  <2>2. m \in Messages /\ i \in 0..LastIndex(m)
    BY <2>1, CellIs DEF Proper
  <2> QED BY <2>2, SizesOfFragments
<1>2. 1 \in S
  BY <1>0, <1>1
<1>3. ASSUME NEW k \in 1..N, k \in S, k < N PROVE k + 1 \in S
  <2>0. c + k <= Len(s) /\ s[c + k] = Cell(m, i, k) /\ k \in Nat \ {0}
    BY <1>1, <1>3
  <2>1. s[c + k].msg = m /\ s[c + k].index = i /\ s[c + k].part = k /\ Size(s[c + k]) = N
    BY <2>0, CellIs
  <2>2. c + k # Len(s)
    BY <1>0, <1>1, <1>3, <2>0, <2>1 DEF Chained
  <2>3. c + k \in 1..(Len(s) - 1) /\ c + k + 1 <= Len(s)
    BY <1>0, <2>0, <2>2
  <2>4. Follows(s[c + k], s[c + k + 1])
    BY <2>3 DEF Chained
  <2>5. s[c + k + 1] = Cell(m, i, k + 1)
    BY <1>3, <2>1, <2>4 DEF Follows, FragmentSize
  <2>6. k + 1 \in 1..N /\ c + (k + 1) = c + k + 1
    BY <1>1, <1>3, <2>0
  <2> QED BY <2>3, <2>5, <2>6
<1>4. 1..N \subseteq S
  <2> HIDE DEF S
  <2> QED BY <1>1, <1>2, <1>3, FirstNumbers
<1>5. N \in S
  BY <1>1, <1>4
<1>6. ASSUME c + N < Len(s) PROVE s[c + N + 1].part = 1
  <2>1. s[c + N] = Cell(m, i, N) /\ c + N \in 1..(Len(s) - 1)
    BY <1>0, <1>1, <1>5, <1>6
  <2>2. s[c + N].msg = m /\ s[c + N].index = i /\ s[c + N].part = N
    BY <2>1, CellIs
  <2>3. Follows(s[c + N], s[c + N + 1])
    BY <2>1 DEF Chained
  <2> QED BY <1>1, <2>2, <2>3 DEF Follows, FragmentSize
<1> QED BY <1>1, <1>4, <1>5, <1>6

\* What is still to be parsed before and after the fragment at hand.
LEMMA HeaderPassed ==
  ASSUME NEW s \in Seq(CellType), \A k \in 1..Len(s) : Proper(s[k]), Chained(s), InOrder(s),
         NEW c \in Nat, c < Len(s), NEW m, NEW i, s[c + 1] = Cell(m, i, 1),
         NEW d, d = c + FragmentSize(m, i)
  PROVE  /\ d \in Nat /\ c < d /\ d <= Len(s) /\ i \in Nat
         /\ \A l \in 1..Len(s) : c < l /\ s[l].part = 1 => l = c + 1 \/ d < l
         /\ \A k \in Nat : \A n, j :
              /\ Between(s, c, k, Cell(n, j, 1)) /\ (n # m \/ j # i)
                   => Between(s, d, k, Cell(n, j, 1))
              /\ Between(s, d, k, Cell(n, j, 1)) => Between(s, c, k, Cell(n, j, 1))
         /\ \A l \in 1..Len(s) : c + 1 < l /\ s[l].msg = m /\ s[l].part = 1 => i < s[l].index
         /\ \A k \in Nat : \A j \in 0..i :
              ~Between(s, c + 1, k, Cell(m, j, 1)) /\ ~Between(s, d, k, Cell(m, j, 1))
<1> DEFINE N == FragmentSize(m, i)
<1>1. /\ m \in Messages /\ i \in 0..LastIndex(m) /\ N \in Nat \ {0} /\ c + N <= Len(s)
      /\ \A k \in 1..N : s[c + k] = Cell(m, i, k)
  BY Walk
<1> HIDE DEF N
<1>2. Len(s) \in Nat /\ d = c + N /\ d \in Nat /\ c < d /\ d <= Len(s) /\ i \in Nat
  <2>1. LastIndex(m) \in Nat
    BY <1>1, SizesOfMessages
  <2> QED BY <1>1, <2>1 DEF N
<1>3. ASSUME NEW l \in 1..Len(s), c < l, s[l].part = 1 PROVE l = c + 1 \/ d < l
  <2>1. SUFFICES ASSUME l <= d PROVE l = c + 1
    BY <1>2
  <2>2. l - c \in 1..N /\ c + (l - c) = l
    BY <1>1, <1>2, <1>3, <2>1
  <2>3. s[l] = Cell(m, i, l - c)
    BY <1>1, <2>2
  <2>4. l - c = 1
    BY <1>3, <2>3, CellIs
  <2> QED BY <1>2, <2>4
<1>4. ASSUME NEW k \in Nat, NEW n, NEW j, Between(s, c, k, Cell(n, j, 1)), n # m \/ j # i
      PROVE  Between(s, d, k, Cell(n, j, 1))
  <2>1. PICK l \in 1..Len(s) : c < l /\ l < k /\ s[l] = Cell(n, j, 1)
    BY <1>4 DEF Between
  <2>2. s[l].part = 1 /\ l # c + 1
    BY <1>4, <2>1, CellIs, CellsDiffer
  <2> QED BY <1>3, <2>1, <2>2 DEF Between
<1>5. ASSUME NEW k \in Nat, NEW n, NEW j, Between(s, d, k, Cell(n, j, 1))
      PROVE  Between(s, c, k, Cell(n, j, 1))
  <2>1. PICK l \in 1..Len(s) : d < l /\ l < k /\ s[l] = Cell(n, j, 1)
    BY <1>5 DEF Between
  <2>2. c < l
    BY <1>2, <2>1
  <2> QED BY <2>1, <2>2 DEF Between
<1>6. ASSUME NEW l \in 1..Len(s), c + 1 < l, s[l].msg = m, s[l].part = 1 PROVE i < s[l].index
  <2>1. c + 1 \in 1..Len(s) /\ s[c + 1].msg = m /\ s[c + 1].index = i /\ s[c + 1].part = 1
    BY <1>2, CellIs
  <2>2. Precedes(s[c + 1], s[l])
    BY <1>6, <2>1 DEF InOrder
  <2> QED BY <1>6, <2>1, <2>2 DEF Precedes
<1>7. ASSUME NEW k \in Nat, NEW j \in 0..i, NEW b \in Nat, c < b, Between(s, b, k, Cell(m, j, 1))
      PROVE  FALSE
  <2>1. PICK l \in 1..Len(s) : b < l /\ l < k /\ s[l] = Cell(m, j, 1)
    BY <1>7 DEF Between
  <2>2. c + 1 < l /\ s[l].msg = m /\ s[l].part = 1 /\ s[l].index = j
    BY <1>7, <2>1, CellIs
  <2>3. i < j
    BY <1>6, <2>2
  <2> QED BY <1>2, <1>7, <2>3
<1>8. \A k \in Nat : \A j \in 0..i :
        ~Between(s, c + 1, k, Cell(m, j, 1)) /\ ~Between(s, d, k, Cell(m, j, 1))
  <2>1. c + 1 \in Nat /\ c < c + 1
    OBVIOUS
  <2> QED BY <1>2, <1>7, <2>1
<1> QED BY <1>2, <1>3, <1>4, <1>5, <1>6, <1>8

-----------------------------------------------------------------------------
(* What the stream gains and loses *)

\* t is s with fragment i of m behind it.
Grows(s, t, m, i) ==
  /\ t \in Seq(CellType) /\ Len(t) = Len(s) + FragmentSize(m, i)
  /\ FragmentSize(m, i) \in Nat \ {0} /\ Len(s) \in Nat /\ i \in Nat
  /\ \A k \in 1..Len(s) : t[k] = s[k]
  /\ \A k \in 1..Len(t) : k > Len(s) =>
       /\ t[k] = Cell(m, i, k - Len(s)) /\ Proper(t[k])
       /\ t[k].msg = m /\ t[k].index = i /\ t[k].part = k - Len(s)

LEMMA FragmentAdded ==
  ASSUME NEW s \in Seq(CellType), NEW m \in Messages, NEW i \in 0..LastIndex(m)
  PROVE  Grows(s, s \o Cells(m, i), m, i)
<1> DEFINE more == Cells(m, i)
           t == s \o more
<1>1. /\ more \in Seq(CellType) /\ Len(more) = FragmentSize(m, i)
      /\ \A k \in 1..Len(more) : more[k] = Cell(m, i, k) /\ Proper(Cell(m, i, k))
  BY ProperCells
<1>2. FragmentSize(m, i) \in Nat \ {0} /\ Len(s) \in Nat /\ i \in Nat
  BY SizesOfFragments, SizesOfMessages
<1>t. t = s \o more
  OBVIOUS
<1> HIDE DEF more, t
<1>3. /\ t \in Seq(CellType) /\ Len(t) = Len(s) + Len(more)
      /\ \A k \in 1..Len(s) : t[k] = s[k]
      /\ \A k \in 1..Len(more) : t[Len(s) + k] = more[k]
  <2>1. t \in Seq(CellType) /\ Len(t) = Len(s) + Len(more)
    BY <1>1, <1>t, JoinedIs
  <2>2. \A k \in 1..Len(s) : t[k] = s[k]
    BY <1>1, <1>t, JoinedIs
  <2>3. \A k \in 1..Len(more) : t[Len(s) + k] = more[k]
    BY <1>1, <1>t, JoinedIs
  <2> QED BY <2>1, <2>2, <2>3
<1>4. ASSUME NEW k \in 1..Len(t), k > Len(s)
      PROVE  t[k] = Cell(m, i, k - Len(s)) /\ Proper(t[k])
  <2>1. k - Len(s) \in 1..Len(more) /\ Len(s) + (k - Len(s)) = k
    BY <1>1, <1>2, <1>3, <1>4
  <2>2. t[Len(s) + (k - Len(s))] = more[k - Len(s)]
    BY <1>3, <2>1
  <2> QED BY <1>1, <2>1, <2>2
<1>5. \A k \in 1..Len(t) : k > Len(s) =>
        /\ t[k] = Cell(m, i, k - Len(s)) /\ Proper(t[k])
        /\ t[k].msg = m /\ t[k].index = i /\ t[k].part = k - Len(s)
  BY <1>4, CellIs
<1>6. Len(t) = Len(s) + FragmentSize(m, i)
  BY <1>1, <1>3
<1>7. Grows(s, t, m, i)
  BY <1>2, <1>3, <1>5, <1>6 DEF Grows
<1> QED BY <1>7 DEF t, more

LEMMA ChainGrows ==
  ASSUME NEW s \in Seq(CellType), NEW m \in Messages, NEW i \in 0..LastIndex(m),
         NEW t, Grows(s, t, m, i), Chained(s)
  PROVE  Chained(t)
<1> DEFINE N == FragmentSize(m, i)
<1>1. /\ t \in Seq(CellType) /\ Len(t) = Len(s) + N /\ N \in Nat \ {0} /\ Len(s) \in Nat
      /\ \A k \in 1..Len(s) : t[k] = s[k]
      /\ \A k \in 1..Len(t) : k > Len(s) =>
           /\ t[k] = Cell(m, i, k - Len(s))
           /\ t[k].msg = m /\ t[k].index = i /\ t[k].part = k - Len(s)
  BY DEF Grows
<1>n. N = FragmentSize(m, i)
  OBVIOUS
<1> HIDE DEF N
<1>2. ASSUME NEW k \in 1..(Len(t) - 1) PROVE Follows(t[k], t[k + 1])
  <2>0. k \in Nat \ {0} /\ k \in 1..Len(t) /\ k + 1 \in 1..Len(t)
    BY <1>1
  <2>1. CASE k < Len(s)
    <3>1. k \in 1..(Len(s) - 1) /\ t[k] = s[k] /\ t[k + 1] = s[k + 1]
      BY <1>1, <2>0, <2>1
    <3> QED BY <3>1 DEF Chained
  <2>2. CASE k = Len(s)
    <3>1. t[k] = s[Len(s)] /\ Len(s) > 0 /\ k + 1 > Len(s)
      BY <1>1, <2>0, <2>2
    <3>2. t[k].part = Size(t[k])
      BY <3>1 DEF Chained
    <3>3. t[k + 1].part = 1
      <4>1. k + 1 - Len(s) = 1
        BY <1>1, <2>2
      <4> QED BY <1>1, <2>0, <3>1, <4>1
    <3>4. t[k].part = HeaderSize + PayloadLength(t[k].msg, t[k].index)
      BY <3>2 DEF Size, FragmentSize
    <3>5. t[k].part \in Nat
      <4>1. t[k] \in CellType
        BY <1>1, <2>0, ElementOfSeq
      <4> QED BY <4>1 DEF CellType
    <3> QED BY <3>3, <3>4, <3>5 DEF Follows
  <2>3. CASE k > Len(s)
    <3>0. k + 1 > Len(s)
      BY <1>1, <2>0, <2>3
    <3>1. /\ t[k].msg = m /\ t[k].index = i /\ t[k].part = k - Len(s)
          /\ t[k + 1] = Cell(m, i, k + 1 - Len(s))
      BY <1>1, <2>0, <2>3, <3>0
    <3>2. k - Len(s) < N /\ k + 1 - Len(s) = (k - Len(s)) + 1
      BY <1>1, <2>0, <2>3
    <3> QED BY <1>n, <3>1, <3>2 DEF Follows, FragmentSize
  <2> QED BY <1>1, <2>0, <2>1, <2>2, <2>3
<1>3. t[1].part = 1
  <2>1. CASE Len(s) > 0
    <3>1. 1 \in 1..Len(s)
      BY <1>1, <2>1
    <3> QED BY <1>1, <2>1, <3>1 DEF Chained
  <2>2. CASE Len(s) = 0
    <3>1. 1 \in 1..Len(t) /\ 1 > Len(s) /\ 1 - Len(s) = 1
      BY <1>1, <2>2
    <3> QED BY <1>1, <3>1
  <2> QED BY <1>1, <2>1, <2>2
<1>4. t[Len(t)].part = Size(t[Len(t)])
  <2>1. Len(t) \in 1..Len(t) /\ Len(t) > Len(s) /\ Len(t) - Len(s) = N
    BY <1>1
  <2>2. t[Len(t)].msg = m /\ t[Len(t)].index = i /\ t[Len(t)].part = N
    BY <1>1, <2>1
  <2> QED BY <1>n, <2>2 DEF Size
<1> QED BY <1>2, <1>3, <1>4 DEF Chained

LEMMA SoundGrows ==
  ASSUME NEW s \in Seq(CellType), NEW next \in [Messages -> Nat],
         NEW m \in Messages, next[m] < FragmentCount(m),
         Belong(s, next), Sound(s, next), \A n \in Messages : next[n] \in 0..FragmentCount(n),
         \A n \in Messages \ {m} :
           next[n] \in 1..(FragmentCount(n) - 1) => Identifier[n] # Identifier[m],
         NEW t, Grows(s, t, m, next[m]), NEW next2, next2 = [next EXCEPT ![m] = @ + 1]
  PROVE  Sound(t, next2)
<1> DEFINE i == next[m]
<1>0. i \in 0..LastIndex(m) /\ i \in Nat /\ LastIndex(m) \in Nat
  BY SizesOfMessages
<1> DEFINE N == FragmentSize(m, i)
<1>1. /\ t \in Seq(CellType) /\ Len(t) = Len(s) + N /\ N \in Nat \ {0} /\ Len(s) \in Nat
      /\ \A k \in 1..Len(s) : t[k] = s[k]
      /\ \A k \in 1..Len(t) : k > Len(s) =>
           /\ t[k] = Cell(m, i, k - Len(s))
           /\ t[k].msg = m /\ t[k].index = i /\ t[k].part = k - Len(s)
  BY DEF Grows
<1>2. next2[m] = i + 1 /\ \A n \in Messages : n # m => next2[n] = next[n]
  OBVIOUS
<1>g. Grows(s, t, m, i)
  OBVIOUS
<1> HIDE DEF N, i
<1>c. Chained(t)
  BY <1>0, <1>g, ChainGrows DEF Sound
<1>3. Len(s) + 1 \in 1..Len(t) /\ t[Len(s) + 1] = Cell(m, i, 1)
  <2>1. Len(s) + 1 \in 1..Len(t) /\ Len(s) + 1 > Len(s) /\ Len(s) + 1 - Len(s) = 1
    BY <1>1
  <2> QED BY <1>1, <2>1
<1>4. \A k \in 1..Len(t) : k <= Len(s) => k \in 1..Len(s) /\ t[k] = s[k]
  BY <1>1
<1>5. \A k \in 1..Len(s) :
        /\ s[k].msg \in Messages /\ s[k].index \in Nat /\ s[k].index < next[s[k].msg]
        /\ s[k].index \in 0..LastIndex(s[k].msg) /\ Proper(s[k])
  <2>1. \A k \in 1..Len(s) : Proper(s[k]) /\ s[k].index < next[s[k].msg]
    BY DEF Belong
  <2> QED BY <2>1, SizesOfMessages DEF Proper
<1>6. ASSUME NEW j \in Nat, NEW k \in Nat, NEW c, Between(s, j, k, c) PROVE Between(t, j, k, c)
  <2>1. PICK l \in 1..Len(s) : j < l /\ l < k /\ s[l] = c
    BY <1>6 DEF Between
  <2>2. l \in 1..Len(t) /\ t[l] = c
    BY <1>1, <2>1
  <2> QED BY <2>1, <2>2 DEF Between
<1>7. InOrder(t)
  <2>1. SUFFICES ASSUME NEW j \in 1..Len(t), NEW k \in 1..Len(t), j < k, t[j].msg = t[k].msg
                 PROVE  Precedes(t[j], t[k])
    BY DEF InOrder
  <2>2. CASE k <= Len(s)
    <3>1. k \in 1..Len(s) /\ j \in 1..Len(s) /\ t[k] = s[k] /\ t[j] = s[j]
      BY <1>1, <1>4, <2>1, <2>2
    <3> QED BY <2>1, <3>1 DEF Sound, InOrder
  <2>3. CASE k > Len(s) /\ j <= Len(s)
    <3>1. t[j] = s[j] /\ j \in 1..Len(s) /\ t[k].msg = m /\ t[k].index = i
      BY <1>1, <1>4, <2>3
    <3>2. s[j].index < i /\ s[j].msg = m
      BY <1>5, <2>1, <3>1 DEF i
    <3> QED BY <3>1, <3>2 DEF Precedes
  <2>4. CASE j > Len(s)
    <3>1. /\ t[j].index = i /\ t[k].index = i
          /\ t[j].part = j - Len(s) /\ t[k].part = k - Len(s)
      BY <1>1, <2>1, <2>4
    <3> QED BY <1>1, <2>1, <3>1 DEF Precedes
  <2> QED BY <1>1, <2>1, <2>2, <2>3, <2>4
<1>8. Complete(t, next2)
  <2>1. SUFFICES ASSUME NEW j \in 1..Len(t), NEW q \in 1..LastIndex(t[j].msg),
                        t[j].index < q, q < next2[t[j].msg]
                 PROVE  Between(t, j, Len(t) + 1, Cell(t[j].msg, q, 1))
    BY DEF Complete
  <2>2. CASE j <= Len(s)
    <3>1. t[j] = s[j] /\ j \in 1..Len(s)
      BY <1>4, <2>2
    <3>2. CASE q < next[s[j].msg]
      <4>1. Between(s, j, Len(s) + 1, Cell(s[j].msg, q, 1))
        BY <2>1, <3>1, <3>2 DEF Sound, Complete
      <4>2. PICK l \in 1..Len(s) : j < l /\ s[l] = Cell(s[j].msg, q, 1)
        BY <4>1 DEF Between
      <4>3. l \in 1..Len(t) /\ l < Len(t) + 1 /\ t[l] = s[l]
        BY <1>1
      <4> QED BY <3>1, <4>2, <4>3 DEF Between
    <3>3. CASE ~(q < next[s[j].msg])
      <4>1. s[j].msg = m /\ q = i
        <5>1. s[j].msg \in Messages /\ next[s[j].msg] \in Nat
          BY <1>5, <3>1
        <5>2. s[j].msg = m
          BY <1>2, <2>1, <3>1, <3>3, <5>1
        <5>3. q \in Int /\ LastIndex(m) \in Nat /\ q < i + 1 /\ ~(q < i)
          BY <1>0, <1>2, <2>1, <3>1, <3>3, <5>2 DEF i
        <5> QED BY <1>0, <5>2, <5>3 DEF i
      <4>2. j < Len(s) + 1 /\ Len(s) + 1 < Len(t) + 1
        BY <1>1, <3>1
      <4> QED BY <1>3, <3>1, <4>1, <4>2 DEF Between
    <3> QED BY <3>2, <3>3
  <2>3. CASE j > Len(s)
    <3>1. t[j].msg = m /\ t[j].index = i
      BY <1>1, <2>3
    <3>2. i < q /\ q < i + 1 /\ q \in Int
      BY <1>0, <1>2, <2>1, <3>1
    <3> QED BY <1>0, <3>2 DEF i
  <2> QED BY <1>1, <2>2, <2>3
<1>9. Apart(t)
  <2>1. SUFFICES ASSUME NEW a \in Messages, NEW b \in Messages, NEW j \in 1..Len(t),
                          NEW k \in 1..Len(t),
                        a # b, Fragmented(a), Fragmented(b), Identifier[a] = Identifier[b], j < k,
                        t[j].msg = a, t[j].part = 1, t[k].msg = b, t[k].part = 1
                 PROVE  Between(t, j - 1, k, Cell(a, LastIndex(a), 1))
    BY DEF Apart
  <2>0. j \in Nat /\ k \in Nat /\ j - 1 \in Nat
    BY <2>1
  <2>2. CASE k <= Len(s)
    <3>1. k \in 1..Len(s) /\ j \in 1..Len(s) /\ t[k] = s[k] /\ t[j] = s[j]
      BY <1>1, <1>4, <2>1, <2>2
    <3>2. Between(s, j - 1, k, Cell(a, LastIndex(a), 1))
      BY <2>1, <3>1 DEF Sound, Apart
    <3> QED BY <1>6, <2>0, <3>2
  <2>3. CASE k > Len(s) /\ j <= Len(s)
    <3>1. t[j] = s[j] /\ j \in 1..Len(s) /\ b = m
      BY <1>1, <1>4, <2>1, <2>3
    <3>2. next[a] = FragmentCount(a) /\ LastIndex(a) < next[a] /\ LastIndex(a) \in Nat
      <4>1. next[a] \notin 1..(FragmentCount(a) - 1)
        BY <2>1, <3>1
      <4>2. 0 < next[a] /\ next[a] \in 0..FragmentCount(a) /\ FragmentCount(a) = LastIndex(a) + 1
        <5>1. s[j].index \in Nat /\ s[j].index < next[a]
          BY <1>5, <2>1, <3>1
        <5>2. next[a] \in 0..FragmentCount(a) /\ next[a] \in Nat
          OBVIOUS
        <5>3. FragmentCount(a) = LastIndex(a) + 1
          BY SizesOfMessages
        <5> QED BY <5>1, <5>2, <5>3
      <4>3. LastIndex(a) \in Nat
        BY SizesOfMessages
      <4> QED BY <4>1, <4>2, <4>3
    <3>3. CASE s[j].index = LastIndex(a)
      <4>1. s[j] = Cell(a, LastIndex(a), 1)
        BY <1>5, <2>1, <3>1, <3>3, HeaderCell
      <4>2. j - 1 < j
        BY <2>0
      <4> QED BY <2>1, <3>1, <4>1, <4>2 DEF Between
    <3>4. CASE s[j].index # LastIndex(a)
      <4>1. s[j].index < LastIndex(a) /\ LastIndex(a) \in 1..LastIndex(a)
        BY <1>5, <2>1, <3>1, <3>2, <3>4
      <4>2. Between(s, j, Len(s) + 1, Cell(a, LastIndex(a), 1))
        BY <2>1, <3>1, <3>2, <4>1 DEF Sound, Complete
      <4>3. PICK l \in 1..Len(s) : j < l /\ s[l] = Cell(a, LastIndex(a), 1)
        BY <4>2 DEF Between
      <4>4. l \in 1..Len(t) /\ t[l] = s[l] /\ j - 1 < l /\ l < k
        BY <1>1, <2>0, <2>3, <4>3
      <4> QED BY <4>3, <4>4 DEF Between
    <3> QED BY <3>3, <3>4
  <2>4. CASE j > Len(s)
    <3>0. k > Len(s)
      BY <1>1, <2>0, <2>1, <2>4
    <3>1. t[j].msg = m /\ t[k].msg = m
      BY <1>1, <2>4, <3>0
    <3> QED BY <2>1, <3>1
  <2> QED BY <1>1, <2>0, <2>2, <2>3, <2>4
<1> QED BY <1>c, <1>7, <1>8, <1>9 DEF Sound

\* t is s without its first d cells.
Shifted(s, t, d) ==
  /\ t \in Seq(CellType) /\ d \in Nat /\ Len(s) \in Nat /\ Len(t) \in Nat
  /\ Len(s) = d + Len(t) /\ \A k \in 1..Len(t) : t[k] = s[d + k]

LEMMA BetweenShifted ==
  ASSUME NEW s, NEW t, NEW d, Shifted(s, t, d), NEW j \in Nat, NEW k \in Nat, NEW c
  PROVE  Between(s, d + j, d + k, c) <=> Between(t, j, k, c)
<1>0. /\ d \in Nat /\ Len(s) \in Nat /\ Len(t) \in Nat /\ Len(s) = d + Len(t)
      /\ \A q \in 1..Len(t) : t[q] = s[d + q]
  BY DEF Shifted
<1>1. ASSUME Between(s, d + j, d + k, c) PROVE Between(t, j, k, c)
  <2>1. PICK l \in 1..Len(s) : d + j < l /\ l < d + k /\ s[l] = c
    BY <1>1 DEF Between
  <2>2. l - d \in 1..Len(t) /\ j < l - d /\ l - d < k /\ d + (l - d) = l
    BY <1>0, <2>1
  <2>3. t[l - d] = c
    BY <1>0, <2>1, <2>2
  <2> QED BY <2>2, <2>3 DEF Between
<1>2. ASSUME Between(t, j, k, c) PROVE Between(s, d + j, d + k, c)
  <2>1. PICK l \in 1..Len(t) : j < l /\ l < k /\ t[l] = c
    BY <1>2 DEF Between
  <2>2. d + l \in 1..Len(s) /\ d + j < d + l /\ d + l < d + k /\ s[d + l] = c
    BY <1>0, <2>1
  <2> QED BY <2>2 DEF Between
<1> QED BY <1>1, <1>2

LEMMA SoundShifted ==
  ASSUME NEW s, NEW t, NEW d, Shifted(s, t, d), NEW next,
         Belong(s, next), Sound(s, next), d < Len(s) => s[d + 1].part = 1
  PROVE  Belong(t, next) /\ Sound(t, next)
<1>0. /\ d \in Nat /\ Len(s) \in Nat /\ Len(t) \in Nat /\ Len(s) = d + Len(t)
      /\ \A q \in 1..Len(t) : t[q] = s[d + q]
  BY DEF Shifted
<1>1. \A k \in 1..Len(t) : d + k \in 1..Len(s) /\ t[k] = s[d + k] /\ k \in Nat
  BY <1>0
<1>2. Belong(t, next)
  BY <1>1 DEF Belong
<1>3. Chained(t)
  <2>1. ASSUME NEW k \in 1..(Len(t) - 1) PROVE Follows(t[k], t[k + 1])
    <3>1. d + k \in 1..(Len(s) - 1) /\ k \in 1..Len(t) /\ k + 1 \in 1..Len(t)
            /\ d + (k + 1) = d + k + 1
      BY <1>0
    <3>2. t[k] = s[d + k] /\ t[k + 1] = s[d + (k + 1)]
      BY Zenon, <1>0, <3>1
    <3>3. Follows(s[d + k], s[d + k + 1])
      BY <3>1 DEF Sound, Chained
    <3> QED BY Zenon, <3>1, <3>2, <3>3
  <2>2. ASSUME Len(t) > 0 PROVE t[1].part = 1 /\ t[Len(t)].part = Size(t[Len(t)])
    <3>1. d < Len(s) /\ 1 \in 1..Len(t) /\ Len(t) \in 1..Len(t) /\ Len(s) > 0
      BY <1>0, <2>2
    <3>2. t[1] = s[d + 1] /\ t[Len(t)] = s[Len(s)]
      BY <1>0, <3>1
    <3> QED BY <3>1, <3>2 DEF Sound, Chained
  <2> QED BY <2>1, <2>2 DEF Chained
<1>4. InOrder(t)
  <2>1. SUFFICES ASSUME NEW j \in 1..Len(t), NEW k \in 1..Len(t), j < k, t[j].msg = t[k].msg
                 PROVE  Precedes(t[j], t[k])
    BY DEF InOrder
  <2>2. d + j < d + k
    BY <1>0, <2>1
  <2> QED BY <1>1, <2>1, <2>2 DEF Sound, InOrder
<1>5. Complete(t, next)
  <2>1. SUFFICES ASSUME NEW j \in 1..Len(t), NEW q \in 1..LastIndex(t[j].msg),
                        t[j].index < q, q < next[t[j].msg]
                 PROVE  Between(t, j, Len(t) + 1, Cell(t[j].msg, q, 1))
    BY DEF Complete
  <2>2. Between(s, d + j, Len(s) + 1, Cell(t[j].msg, q, 1))
    BY <1>1, <2>1 DEF Sound, Complete
  <2>3. Len(s) + 1 = d + (Len(t) + 1) /\ j \in Nat /\ Len(t) + 1 \in Nat
    BY <1>0
  <2> QED BY <2>2, <2>3, BetweenShifted
<1>6. Apart(t)
  <2>1. SUFFICES ASSUME NEW a \in Messages, NEW b \in Messages, NEW j \in 1..Len(t),
                          NEW k \in 1..Len(t),
                        a # b, Fragmented(a), Fragmented(b), Identifier[a] = Identifier[b], j < k,
                        t[j].msg = a, t[j].part = 1, t[k].msg = b, t[k].part = 1
                 PROVE  Between(t, j - 1, k, Cell(a, LastIndex(a), 1))
    BY DEF Apart
  <2>0. j \in Nat \ {0} /\ k \in Nat /\ d \in Nat /\ j < k
    BY <1>0, <2>1
  <2>2. j - 1 \in Nat /\ k \in Nat
    BY <2>0
  <2>3. PICK dj \in Nat, dk \in Nat, before \in Nat : dj = d + j /\ dk = d + k
          /\ before = d + (j - 1)
    BY <2>0, <2>2
  <2>4. /\ dj \in 1..Len(s) /\ dk \in 1..Len(s) /\ dj < dk /\ dj - 1 = before
        /\ s[dj].msg = a /\ s[dj].part = 1 /\ s[dk].msg = b /\ s[dk].part = 1
    BY <1>1, <2>0, <2>1, <2>3
  <2>5. Between(s, dj - 1, dk, Cell(a, LastIndex(a), 1))
    BY <2>1, <2>4 DEF Sound, Apart
  <2>6. Between(s, d + (j - 1), d + k, Cell(a, LastIndex(a), 1))
    BY <2>3, <2>4, <2>5
  <2> QED BY <2>2, <2>6, BetweenShifted
<1> QED BY <1>2, <1>3, <1>4, <1>5, <1>6 DEF Sound

\* s is t with w behind it.
Joins(s, t, w) ==
  /\ s \in Seq(CellType) /\ t \in Seq(CellType) /\ w \in Seq(CellType)
  /\ Len(s) \in Nat /\ Len(t) \in Nat /\ Len(t) <= Len(s)
  /\ \A k \in 1..Len(t) : t[k] = s[k]
  /\ \A k \in 1..Len(s) : k > Len(t) => s[k] \in ToSet(w)
  /\ \A c \in ToSet(w) : \E k \in 1..Len(s) : k > Len(t) /\ s[k] = c

\* t has received a part of m, and w has the rest.
CutAt(next, w, m) ==
  /\ next[m] > 0 /\ Cell(m, 0, 1) \notin ToSet(w)
  /\ next[m] \in 1..(FragmentCount(m) - 1) \/ \E c \in ToSet(w) : c.msg = m

\* A message that was received in part and is not cut was received to its end.
LEMMA ReceivedWhole ==
  ASSUME NEW s, NEW t, NEW w, Joins(s, t, w), NEW next, Belong(s, next), InOrder(s),
         \A m \in Messages : next[m] \in 0..FragmentCount(m) /\ ~CutAt(next, w, m),
         NEW j \in 1..Len(t)
  PROVE  /\ t[j].msg \in Messages /\ next[t[j].msg] = FragmentCount(t[j].msg)
         /\ \A k \in 1..Len(s) : s[k].msg = t[j].msg => k <= Len(t)
<1> DEFINE m == t[j].msg
<1>0. Len(s) \in Nat /\ Len(t) \in Nat /\ Len(t) <= Len(s) /\ j \in 1..Len(s) /\ t[j] = s[j]
  BY DEF Joins
<1>1. /\ m \in Messages /\ s[j].index \in Nat /\ s[j].part \in Nat /\ s[j].part >= 1
      /\ s[j].index < next[m]
  <2>1. Proper(s[j]) /\ s[j].index < next[s[j].msg]
    BY <1>0 DEF Belong
  <2>2. m \in Messages /\ s[j].index \in 0..LastIndex(m) /\ s[j].part \in 1..Size(s[j])
    BY <1>0, <2>1 DEF Proper
  <2>3. LastIndex(m) \in Nat
    BY <2>2, SizesOfMessages
  <2> QED BY <1>0, <2>1, <2>2, <2>3
<1> HIDE DEF m
<1>2. Cell(m, 0, 1) \notin ToSet(w)
  <2>1. SUFFICES ASSUME Cell(m, 0, 1) \in ToSet(w) PROVE FALSE
    OBVIOUS
  <2>2. PICK k \in 1..Len(s) : k > Len(t) /\ s[k] = Cell(m, 0, 1)
    BY <2>1 DEF Joins
  <2>3. j < k /\ s[j].msg = m /\ s[k].msg = m /\ s[k].index = 0 /\ s[k].part = 1
    BY <1>0, <2>2, CellIs DEF m
  <2>4. Precedes(s[j], s[k])
    BY <1>0, <2>3 DEF InOrder
  <2> QED BY <1>1, <2>3, <2>4 DEF Precedes
<1>3. next[m] \in 0..FragmentCount(m) /\ ~CutAt(next, w, m)
  BY <1>1
<1>4. next[m] > 0 /\ next[m] \in Nat /\ FragmentCount(m) \in Nat
  BY <1>1, <1>3, SizesOfMessages
<1>5. next[m] \notin 1..(FragmentCount(m) - 1) /\ ~ \E c \in ToSet(w) : c.msg = m
  BY <1>2, <1>3, <1>4 DEF CutAt
<1>6. next[m] = FragmentCount(m)
  BY <1>3, <1>4, <1>5
<1>7. ASSUME NEW k \in 1..Len(s), s[k].msg = m, k > Len(t) PROVE FALSE
  BY <1>5, <1>7 DEF Joins
<1>8. \A k \in 1..Len(s) : s[k].msg = m => k <= Len(t)
  BY <1>0, <1>7
<1> QED BY <1>1, <1>6, <1>8 DEF m

LEMMA SoundCut ==
  ASSUME NEW s, NEW t, NEW w, Joins(s, t, w), NEW next, Belong(s, next), Sound(s, next),
         \A m \in Messages : next[m] \in 0..FragmentCount(m) /\ ~CutAt(next, w, m),
         NEW next2, \A m \in Messages : next[m] > 0 => next2[m] = FragmentCount(m)
  PROVE  Belong(t, next2) /\ Sound(t, next2)
<1>0. Len(s) \in Nat /\ Len(t) \in Nat /\ Len(t) <= Len(s)
  BY DEF Joins
<1>1. \A k \in 1..Len(t) : k \in 1..Len(s) /\ t[k] = s[k]
  BY <1>0 DEF Joins
<1>2. ASSUME NEW j \in 1..Len(t)
      PROVE  /\ t[j].msg \in Messages /\ next[t[j].msg] = FragmentCount(t[j].msg)
             /\ next2[t[j].msg] = FragmentCount(t[j].msg)
             /\ \A k \in 1..Len(s) : s[k].msg = t[j].msg => k <= Len(t)
  <2>1. /\ t[j].msg \in Messages /\ next[t[j].msg] = FragmentCount(t[j].msg)
        /\ \A k \in 1..Len(s) : s[k].msg = t[j].msg => k <= Len(t)
    BY ReceivedWhole DEF Sound
  <2>2. FragmentCount(t[j].msg) > 0
    BY <2>1, SizesOfMessages
  <2> QED BY <2>1, <2>2
<1>3. Belong(t, next2)
  BY <1>1, <1>2 DEF Belong
<1>4. InOrder(t)
  BY <1>1 DEF Sound, InOrder
<1>5. Chained(t)
  <2>1. ASSUME NEW k \in 1..(Len(t) - 1) PROVE Follows(t[k], t[k + 1])
    <3>1. k \in 1..(Len(s) - 1) /\ k \in 1..Len(t) /\ k + 1 \in 1..Len(t)
      BY <1>0
    <3>2. t[k] = s[k] /\ t[k + 1] = s[k + 1]
      BY <1>1, <3>1
    <3> QED BY <3>1, <3>2 DEF Sound, Chained
  <2>2. ASSUME Len(t) > 0 PROVE t[1].part = 1 /\ t[Len(t)].part = Size(t[Len(t)])
    <3>1. 1 \in 1..Len(t) /\ Len(t) \in 1..Len(t) /\ Len(s) > 0
      BY <1>0, <2>2
    <3>2. t[1] = s[1] /\ t[Len(t)] = s[Len(t)] /\ s[1].part = 1
      BY <1>1, <3>1 DEF Sound, Chained
    <3>3. CASE Len(t) = Len(s)
      BY <3>1, <3>2, <3>3 DEF Sound, Chained
    <3>4. CASE Len(t) # Len(s)
      <4>1. Len(t) \in 1..(Len(s) - 1) /\ Len(t) + 1 \in 1..Len(s) /\ Len(t) + 1 > Len(t)
        BY <1>0, <3>1, <3>4
      <4>2. Follows(s[Len(t)], s[Len(t) + 1])
        BY <4>1 DEF Sound, Chained
      <4>3. s[Len(t) + 1].msg # s[Len(t)].msg
        BY <1>2, <3>1, <3>2, <4>1
      <4>4. ~(s[Len(t)].part < Size(s[Len(t)]))
        <5>1. SUFFICES ASSUME s[Len(t)].part < Size(s[Len(t)]) PROVE FALSE
          OBVIOUS
        <5>2. s[Len(t) + 1] = Cell(s[Len(t)].msg, s[Len(t)].index, s[Len(t)].part + 1)
          BY <4>2, <5>1 DEF Follows, Size, FragmentSize
        <5> QED BY <4>3, <5>2, CellIs
      <4>5. s[Len(t)].part = Size(s[Len(t)])
        <5>1. Proper(s[Len(t)])
          BY <1>1, <3>1 DEF Belong
        <5>2. s[Len(t)].part \in 1..Size(s[Len(t)]) /\ Size(s[Len(t)]) \in Nat
          BY <5>1, SizesOfFragments DEF Proper, Size
        <5> QED BY <4>4, <5>2
      <4> QED BY <3>2, <4>5
    <3> QED BY <3>3, <3>4
  <2> QED BY <2>1, <2>2 DEF Chained
<1>6. Complete(t, next2)
  <2>1. SUFFICES ASSUME NEW j \in 1..Len(t), NEW q \in 1..LastIndex(t[j].msg),
                        t[j].index < q, q < next2[t[j].msg]
                 PROVE  Between(t, j, Len(t) + 1, Cell(t[j].msg, q, 1))
    BY DEF Complete
  <2>2. j \in 1..Len(s) /\ t[j] = s[j] /\ q < next[s[j].msg]
    BY <1>1, <1>2, <2>1
  <2>3. Between(s, j, Len(s) + 1, Cell(s[j].msg, q, 1))
    BY <2>1, <2>2 DEF Sound, Complete
  <2>4. PICK l \in 1..Len(s) : j < l /\ s[l] = Cell(s[j].msg, q, 1)
    BY <2>3 DEF Between
  <2>5. s[l].msg = t[j].msg
    BY <2>2, <2>4, CellIs
  <2>6. l <= Len(t)
    BY <1>2, <2>5
  <2>7. l \in 1..Len(t) /\ l < Len(t) + 1 /\ t[l] = s[l]
    BY <1>0, <1>1, <2>6
  <2> QED BY <2>2, <2>4, <2>7 DEF Between
<1>7. Apart(t)
  <2>1. SUFFICES ASSUME NEW a \in Messages, NEW b \in Messages, NEW j \in 1..Len(t),
                          NEW k \in 1..Len(t),
                        a # b, Fragmented(a), Fragmented(b), Identifier[a] = Identifier[b], j < k,
                        t[j].msg = a, t[j].part = 1, t[k].msg = b, t[k].part = 1
                 PROVE  Between(t, j - 1, k, Cell(a, LastIndex(a), 1))
    BY DEF Apart
  <2>2. Between(s, j - 1, k, Cell(a, LastIndex(a), 1))
    BY <1>1, <2>1 DEF Sound, Apart
  <2>3. PICK l \in 1..Len(s) : j - 1 < l /\ l < k /\ s[l] = Cell(a, LastIndex(a), 1)
    BY <2>2 DEF Between
  <2>4. l \in 1..Len(t)
    BY <1>0, <2>3
  <2>5. t[l] = s[l]
    BY <1>1, <2>4
  <2> QED BY <2>3, <2>4, <2>5 DEF Between
<1> QED BY <1>3, <1>4, <1>5, <1>6, <1>7 DEF Sound

-----------------------------------------------------------------------------
(* The types *)

LEMMA ItJoins ==
  ASSUME NEW t \in Seq(CellType), NEW w \in Seq(CellType)
  PROVE  Joins(t \o w, t, w)
<1> DEFINE s == t \o w
<1>1. Len(t) \in Nat /\ Len(w) \in Nat /\ DOMAIN w = 1..Len(w)
  OBVIOUS
<1>2. /\ s \in Seq(CellType) /\ Len(s) = Len(t) + Len(w)
      /\ \A k \in 1..Len(t) : s[k] = t[k]
      /\ \A k \in 1..Len(w) : s[Len(t) + k] = w[k]
  BY JoinedIs
<1> HIDE DEF s
<1>4. ASSUME NEW k \in 1..Len(s), k > Len(t) PROVE s[k] \in ToSet(w)
  <2>1. k - Len(t) \in 1..Len(w) /\ Len(t) + (k - Len(t)) = k
    BY <1>1, <1>2, <1>4
  <2>2. w[k - Len(t)] \in ToSet(w)
    BY <1>1, <2>1 DEF ToSet
  <2>3. s[Len(t) + (k - Len(t))] = w[k - Len(t)]
    BY <1>2, <2>1
  <2> QED BY <2>1, <2>2, <2>3
<1>5. ASSUME NEW c \in ToSet(w)
      PROVE  \E k \in 1..Len(s) : k > Len(t) /\ s[k] = c
  <2>1. PICK q \in 1..Len(w) : c = w[q]
    BY <1>1 DEF ToSet
  <2>2. Len(t) + q \in 1..Len(s) /\ Len(t) + q > Len(t)
    BY <1>1, <1>2
  <2> QED BY <1>2, <2>1, <2>2
<1>6. Len(s) \in Nat /\ Len(t) <= Len(s)
  BY <1>1, <1>2
<1>7. Joins(s, t, w)
  BY <1>1, <1>2, <1>4, <1>5, <1>6 DEF Joins
<1> QED BY <1>7 DEF s

LEMMA StreamJoins == ASSUME TypeOK PROVE Joins(Stream, parsing_buffer_, wire)
  BY ItJoins DEF TypeOK, Stream

\* A complete message stands at the front.
LEMMA MessageIs ==
  ASSUME TypeInv, HasMessage
  PROVE  /\ HasHeader /\ MagicMatches
         /\ header.msg \in Messages /\ header.index \in 0..LastIndex(header.msg)
         /\ header = Cell(header.msg, header.index, 1)
         /\ header.index < nextFragment[header.msg]
         /\ consumed_size \in Nat /\ consumed_size < Len(Stream)
         /\ Stream[consumed_size + 1] = header
         /\ HeaderLength(header.msg, header.index) \in Nat \ {0} /\ HeaderSize \in Nat \ {0}
         /\ buffer_size \in Nat
         /\ consumed_size + (HeaderSize + HeaderLength(header.msg, header.index)) <= buffer_size
<1>1. HasHeader /\ MagicMatches /\ Holds(HeaderSize + HeaderLength(header.msg, header.index))
  BY DEF HasMessage
<1>2. /\ header.msg \in Messages /\ header.index \in 0..LastIndex(header.msg)
      /\ header = Cell(header.msg, header.index, 1)
      /\ consumed_size \in Nat /\ consumed_size + 1 \in 1..Len(Stream)
      /\ Stream[consumed_size + 1] = header
  BY <1>1, HeaderIs
<1>3. header.index < nextFragment[header.msg]
  BY <1>2 DEF TypeInv, CellsOK, Belong
<1>4. /\ HeaderLength(header.msg, header.index) \in Nat \ {0} /\ HeaderSize \in Nat \ {0}
  BY <1>2, SizesOfFragments
<1>5. buffer_size \in Nat /\ Len(Stream) \in Nat
  BY StreamIs DEF TypeInv
<1>6. consumed_size + (HeaderSize + HeaderLength(header.msg, header.index)) <= buffer_size
  BY <1>1, <1>2, <1>4, <1>5 DEF Holds
<1>7. consumed_size < Len(Stream)
  BY <1>2, <1>5
<1> QED BY <1>1, <1>2, <1>3, <1>4, <1>5, <1>6, <1>7

LEMMA TypeInit == Init => TypeInv
<1> SUFFICES ASSUME Init PROVE TypeInv
  OBVIOUS
<1>1. wire = <<>> /\ parsing_buffer_ = <<>>
  BY DEF Init
<1>2. <<>> \in Seq(CellType) /\ Len(<<>>) = 0 /\ <<>> \in Seq(ParsedType)
  OBVIOUS
<1>3. Stream = <<>>
  BY <1>1, <1>2, ConcatEmptySeq DEF Stream
<1>4. \A m \in Messages : FragmentCount(m) \in Nat /\ 0 \in 0..FragmentCount(m)
  BY SizesOfMessages
<1>5. CellsOK
  BY <1>2, <1>3, <1>4 DEF Init, CellsOK, Belong
<1>6. TypeOK
  <2>1. DOMAIN fragmented_buffers_by_identifier = {}
    BY DEF Init
  <2>2. nextFragment \in [Messages -> Nat]
    BY DEF Init
  <2>3. session \in 1..MaxSessions
    BY ConstantsAssumption DEF Init
  <2>5. replayed \in BOOLEAN /\ torn \in BOOLEAN
    BY Zenon DEF Init
  <2>4. consumed_size \in 0..buffer_size
    BY <1>1, <1>2 DEF Init, buffer_size
  <2> QED BY <1>1, <1>2, <2>1, <2>2, <2>3, <2>4, <2>5 DEF Init, TypeOK
<1> QED BY <1>5, <1>6 DEF TypeInv, ParserOK, Init

LEMMA SendStream ==
  ASSUME TypeInv, NEW m \in Messages, SendFragment(m)
  PROVE  /\ nextFragment[m] \in 0..LastIndex(m)
         /\ Grows(Stream, Stream', m, nextFragment[m])
         /\ Grows(wire, wire', m, nextFragment[m])
         /\ nextFragment' = [nextFragment EXCEPT ![m] = @ + 1]
         /\ nextFragment'[m] = nextFragment[m] + 1 /\ nextFragment'[m] \in 1..FragmentCount(m)
         /\ \A n \in Messages : n # m => nextFragment'[n] = nextFragment[n]
         /\ nextFragment' \in [Messages -> Nat]
<1>1. /\ parsing_buffer_ \in Seq(CellType) /\ wire \in Seq(CellType) /\ Stream \in Seq(CellType)
      /\ nextFragment \in [Messages -> Nat]
  BY StreamIs DEF TypeInv, TypeOK
<1>2. nextFragment[m] \in 0..LastIndex(m)
  BY <1>1, SizesOfMessages DEF SendFragment
<1>3. /\ wire' = wire \o Cells(m, nextFragment[m]) /\ UNCHANGED parsing_buffer_
      /\ nextFragment' = [nextFragment EXCEPT ![m] = @ + 1]
  BY DEF SendFragment
<1> DEFINE cells == Cells(m, nextFragment[m])
<1>4. cells \in Seq(CellType)
  BY <1>2, ProperCells
<1>5. Stream' = Stream \o cells
  <2>1. Stream' = parsing_buffer_ \o (wire \o cells)
    BY <1>3 DEF Stream
  <2> HIDE DEF cells
  <2>2. (parsing_buffer_ \o wire) \o cells = parsing_buffer_ \o (wire \o cells)
    <3>1. parsing_buffer_ \in Seq(CellType) /\ wire \in Seq(CellType) /\ cells \in Seq(CellType)
      BY <1>1, <1>4
    <3> QED BY <3>1, JoinedTwice
  <2> QED BY <2>1, <2>2 DEF Stream
<1>6. Grows(Stream, Stream \o cells, m, nextFragment[m])
        /\ Grows(wire, wire \o cells, m, nextFragment[m])
  BY <1>1, <1>2, FragmentAdded
<1>7. /\ nextFragment'[m] = nextFragment[m] + 1
      /\ \A n \in Messages : n # m => nextFragment'[n] = nextFragment[n]
      /\ nextFragment' \in [Messages -> Nat]
  BY <1>1, <1>3
<1>8. nextFragment'[m] \in 1..FragmentCount(m)
  BY <1>2, <1>7, SizesOfMessages
<1> HIDE DEF cells
<1>9. Grows(Stream, Stream', m, nextFragment[m]) /\ Grows(wire, wire', m, nextFragment[m])
  BY <1>3, <1>5, <1>6 DEF cells
<1> QED BY <1>2, <1>3, <1>7, <1>8, <1>9

LEMMA TypeSend ==
  ASSUME TypeInv, NEW m \in Messages, SendFragment(m)
  PROVE  TypeInv'
<1>0. /\ nextFragment[m] \in 0..LastIndex(m)
      /\ Grows(Stream, Stream', m, nextFragment[m])
      /\ Grows(wire, wire', m, nextFragment[m])
      /\ nextFragment'[m] = nextFragment[m] + 1 /\ nextFragment'[m] \in 1..FragmentCount(m)
      /\ \A n \in Messages : n # m => nextFragment'[n] = nextFragment[n]
      /\ nextFragment' \in [Messages -> Nat]
  BY SendStream
<1>1. wire' \in Seq(CellType)
  BY <1>0 DEF Grows
<1>2. sent' \in Seq(ParsedType)
  <2>1. sent \in Seq(ParsedType) /\ Whole(m) \in ParsedType
    BY WholeIsParsed DEF TypeInv, TypeOK
  <2>2. <<Whole(m)>> \in Seq(ParsedType) /\ <<>> \in Seq(ParsedType)
    BY <2>1
  <2> DEFINE more == IF nextFragment'[m] = FragmentCount(m) THEN <<Whole(m)>> ELSE <<>>
  <2>3. more \in Seq(ParsedType)
    BY <2>2
  <2>4. sent' = sent \o more
    BY DEF SendFragment
  <2> HIDE DEF more
  <2> QED BY <2>1, <2>3, <2>4, ConcatProperties
<1>3. TypeOK'
  BY <1>0, <1>1, <1>2 DEF SendFragment, TypeInv, TypeOK, returned, sessions, buffer_size
<1>4. CellsOK'
  <2>1. \A n \in Messages : nextFragment'[n] \in 0..FragmentCount(n)
    <3>1. SUFFICES ASSUME NEW n \in Messages PROVE nextFragment'[n] \in 0..FragmentCount(n)
      OBVIOUS
    <3>2. CASE n = m
      <4>1. nextFragment'[m] \in 1..FragmentCount(m) /\ FragmentCount(m) \in Nat
        BY <1>0, SizesOfMessages
      <4> QED BY <3>2, <4>1
    <3>3. CASE n # m
      BY <1>0, <3>3 DEF TypeInv, CellsOK
    <3> QED BY <3>2, <3>3
  <2>2. ASSUME NEW k \in 1..Len(Stream')
        PROVE  Proper(Stream'[k]) /\ Stream'[k].index < nextFragment'[Stream'[k].msg]
    <3>1. CASE k <= Len(Stream)
      <4>1. k \in 1..Len(Stream) /\ Stream'[k] = Stream[k]
        BY <1>0, <3>1 DEF Grows
      <4>2. Proper(Stream[k]) /\ Stream[k].index < nextFragment[Stream[k].msg]
        BY <4>1 DEF TypeInv, CellsOK, Belong
      <4>3. Stream[k].msg \in Messages /\ Stream[k].index \in Nat
        BY <4>2, SizesOfMessages DEF Proper
      <4>4. nextFragment \in [Messages -> Nat]
        BY DEF TypeInv, TypeOK
      <4>5. Stream[k].index < nextFragment'[Stream[k].msg]
        BY <1>0, <4>2, <4>3, <4>4
      <4> QED BY <4>1, <4>2, <4>5
    <3>2. CASE k > Len(Stream)
      <4>1. Proper(Stream'[k]) /\ Stream'[k].msg = m /\ Stream'[k].index = nextFragment[m]
        BY <1>0, <3>2 DEF Grows
      <4> QED BY <1>0, <4>1, SizesOfMessages
    <3>3. Len(Stream) \in Nat
      BY <1>0 DEF Grows
    <3> QED BY <3>1, <3>2, <3>3
  <2> QED BY <2>1, <2>2 DEF CellsOK, Belong
<1>5. ParserOK'
  BY DEF TypeInv, ParserOK, SendFragment
<1> QED BY <1>3, <1>4, <1>5 DEF TypeInv

LEMMA TypeAllocate ==
  ASSUME TypeInv, NEW n \in 1..PacketSize, Allocate(n)
  PROVE  /\ TypeInv' /\ ToSet(wire') \subseteq ToSet(wire)
         /\ pc' = "loop" => Stream' = Stream /\ consumed_size' = consumed_size
<1>0. /\ pc = "idle" /\ n <= Len(wire) /\ wire' = SubSeq(wire, n + 1, Len(wire))
      /\ \/ /\ parsing_buffer_' = Extended(SubSeq(wire, 1, n)) /\ pc' = "loop"
            /\ consumed_size' = 0
         \/ pc' = "nomem" /\ UNCHANGED <<parsing_buffer_, consumed_size>>
      /\ UNCHANGED <<fragmented_buffers_by_identifier, parsed_message_queue_, nextFragment, sent,
                     delivered, replayed, session, torn>>
  BY DEF Allocate, OutOfMemory, device, returned, sessions
<1>1. parsing_buffer_ \in Seq(CellType) /\ wire \in Seq(CellType) /\ Len(wire) \in Nat
  BY DEF TypeInv, TypeOK
<1>2. consumed_size = 0 /\ buffer_size \in Nat
  BY <1>0, StreamIs DEF TypeInv, ParserOK
<1>3. n \in 0..Len(wire) /\ n \in Nat
  BY <1>0, <1>1, ConstantsAssumption
<1>4. /\ wire' \in Seq(CellType) /\ Len(wire') = Len(wire) - n
      /\ \A k \in 1..Len(wire') : n + k \in 1..Len(wire) /\ wire'[k] = wire[n + k]
  <2>1. /\ SubSeq(wire, n + 1, Len(wire)) \in Seq(CellType)
        /\ Len(SubSeq(wire, n + 1, Len(wire))) = Len(wire) - n
        /\ \A k \in 1..(Len(wire) - n) : SubSeq(wire, n + 1, Len(wire))[k] = wire[n + k]
    BY <1>1, <1>3, CutBehind
  <2>2. /\ wire' \in Seq(CellType) /\ Len(wire') = Len(wire) - n
        /\ \A k \in 1..(Len(wire) - n) : wire'[k] = wire[n + k]
    BY <1>0, <2>1
  <2> QED BY <1>1, <1>3, <2>2
<1>5. ToSet(wire') \subseteq ToSet(wire)
  <2>1. DOMAIN wire' = 1..Len(wire') /\ DOMAIN wire = 1..Len(wire)
    BY <1>1, <1>4
  <2>2. SUFFICES ASSUME NEW k \in 1..Len(wire') PROVE wire'[k] \in ToSet(wire)
    BY <2>1 DEF ToSet
  <2> QED BY <1>4, <2>1 DEF ToSet
<1>6. CASE pc' = "loop"
  <2>1. parsing_buffer_' = Extended(SubSeq(wire, 1, n)) /\ consumed_size' = 0
    BY <1>0, <1>6
  <2>2. /\ Stream' = Stream /\ parsing_buffer_' \in Seq(CellType)
             /\ buffer_size' = buffer_size + n
    BY <1>0, <2>1, PacketIsMoved DEF TypeInv
  <2>3. consumed_size' \in 0..buffer_size'
    BY <1>2, <1>3, <2>1, <2>2
  <2>4. TypeOK'
    BY <1>0, <1>4, <1>6, <2>2, <2>3 DEF TypeInv, TypeOK
  <2>5. CellsOK'
    BY <1>0, <2>2 DEF TypeInv, CellsOK
  <2>6. ParserOK'
    BY <1>0, <1>6 DEF ParserOK
  <2> QED BY <1>2, <1>5, <2>1, <2>2, <2>4, <2>5, <2>6 DEF TypeInv
<1>7. CASE pc' = "nomem"
  <2>1. UNCHANGED <<parsing_buffer_, consumed_size>>
    BY <1>0, <1>7
  <2>2. TypeOK'
    BY <1>0, <1>4, <1>7, <2>1 DEF TypeInv, TypeOK, buffer_size
  <2>3. CellsOK'
    <3>1. Joins(Stream', parsing_buffer_', wire') /\ Joins(Stream, parsing_buffer_, wire)
      BY <1>1, <1>4, <2>1, ItJoins DEF Stream
    <3>2. ASSUME NEW k \in 1..Len(Stream') PROVE \E q \in 1..Len(Stream) : Stream'[k] = Stream[q]
      <4>0. Len(parsing_buffer_) \in Nat /\ Len(Stream) \in Nat
              /\ Len(parsing_buffer_) <= Len(Stream)
        BY <3>1 DEF Joins
      <4>1. CASE k <= Len(parsing_buffer_)
        <5>1. k \in 1..Len(parsing_buffer_') /\ k \in 1..Len(Stream)
          BY <2>1, <4>0, <4>1
        <5>2. Stream'[k] = parsing_buffer_'[k] /\ Stream[k] = parsing_buffer_[k]
          BY <2>1, <3>1, <5>1 DEF Joins
        <5> QED BY <2>1, <5>1, <5>2
      <4>2. CASE k > Len(parsing_buffer_)
        <5>1. Stream'[k] \in ToSet(wire')
          BY <2>1, <3>1, <4>2 DEF Joins
        <5>2. Stream'[k] \in ToSet(wire)
          BY <1>5, <5>1
        <5> QED BY <3>1, <5>2 DEF Joins
      <4>3. k \in Nat
        OBVIOUS
      <4> QED BY <4>0, <4>1, <4>2, <4>3
    <3>3. Belong(Stream', nextFragment)
      BY <3>2 DEF TypeInv, CellsOK, Belong
    <3> QED BY <1>0, <3>3 DEF TypeInv, CellsOK
  <2>4. ParserOK'
    BY <1>0, <1>2, <1>7, <2>1 DEF ParserOK, TypeInv
  <2> QED BY <1>5, <1>7, <2>2, <2>3, <2>4 DEF TypeInv
<1> QED BY <1>0, <1>6, <1>7

\* The parts of the state that a turn of the loop leaves alone.
LEMMA TypeConsume ==
  ASSUME TypeInv, pc = "loop", UNCHANGED <<wire, parsing_buffer_, pc, device, returned,
           sessions>>,
         consumed_size' \in 0..buffer_size, parsed_message_queue_' \in Seq(ParsedType),
         \A id \in DOMAIN fragmented_buffers_by_identifier' :
           fragmented_buffers_by_identifier'[id] \in Seq(PayloadType)
  PROVE  TypeInv' /\ Stream' = Stream /\ buffer_size' = buffer_size
<1>1. Stream' = Stream /\ buffer_size' = buffer_size
  BY StreamKept
<1>2. UNCHANGED <<nextFragment, sent, delivered, replayed, session, torn>>
  BY DEF device, returned, sessions
<1>3. TypeOK'
  BY <1>1, <1>2 DEF TypeInv, TypeOK
<1>4. CellsOK'
  BY <1>1, <1>2 DEF TypeInv, CellsOK
<1>5. ParserOK'
  BY DEF ParserOK
<1> QED BY <1>1, <1>3, <1>4, <1>5 DEF TypeInv

\* What the pieces of a message become.
LEMMA ParsedIs ==
  ASSUME NEW m \in Messages, NEW data \in Seq(PayloadType)
  PROVE  Parsed(m, data) \in ParsedType /\ Parsed(m, data).msg = m /\ Parsed(m, data).data = data
BY DEF Parsed, ParsedType

LEMMA PayloadIs ==
  ASSUME NEW m \in Messages, NEW i \in Nat PROVE Payload(m, i) \in PayloadType
BY DEF Payload, PayloadType

LEMMA TypeSingle ==
  ASSUME TypeInv, ParseSingle
  PROVE  /\ TypeInv' /\ Stream' = Stream /\ buffer_size' = buffer_size
         /\ consumed_size' = consumed_size + FragmentSize(header.msg, header.index)
<1>1. /\ header.msg \in Messages /\ header.index \in 0..LastIndex(header.msg)
      /\ consumed_size \in Nat /\ buffer_size \in Nat
      /\ HeaderLength(header.msg, header.index) \in Nat \ {0} /\ HeaderSize \in Nat \ {0}
      /\ consumed_size + (HeaderSize + HeaderLength(header.msg, header.index)) <= buffer_size
  BY MessageIs DEF ParseSingle
<1>2. ~Fragmented(header.msg) /\ header.index = 0
  BY <1>1, SizesOfMessages DEF ParseSingle, Fragmented
<1>3. /\ consumed_size' = consumed_size + HeaderSize + HeaderLength(header.msg, 0)
      /\ pc = "loop" /\ UNCHANGED <<wire, parsing_buffer_, pc, device, returned, sessions>>
      /\ UNCHANGED fragmented_buffers_by_identifier
      /\ parsed_message_queue_' = Enqueued(Parsed(header.msg, <<Payload(header.msg, 0)>>))
  BY DEF ParseSingle, Consume
<1>4. /\ FragmentSize(header.msg, header.index) = HeaderSize + PayloadLength(header.msg,
           header.index)
      /\ PayloadLength(header.msg, header.index) = HeaderLength(header.msg, header.index)
  BY <1>1, <1>2, SizesOfFragments
<1>5. /\ consumed_size' = consumed_size + FragmentSize(header.msg, header.index)
      /\ consumed_size' \in 0..buffer_size
  BY <1>1, <1>2, <1>3, <1>4
<1>6. parsed_message_queue_' \in Seq(ParsedType)
  <2>1. <<Payload(header.msg, 0)>> \in Seq(PayloadType)
    BY <1>1, PayloadIs
  <2>2. Parsed(header.msg, <<Payload(header.msg, 0)>>) \in ParsedType
    BY <1>1, <2>1, ParsedIs
  <2> QED BY <1>3, <2>2, AppendProperties DEF Enqueued, TypeInv, TypeOK
<1>7. \A id \in DOMAIN fragmented_buffers_by_identifier' :
        fragmented_buffers_by_identifier'[id] \in Seq(PayloadType)
  BY <1>3 DEF TypeInv, TypeOK
<1>8. TypeInv' /\ Stream' = Stream /\ buffer_size' = buffer_size
  BY <1>3, <1>5, <1>6, <1>7, TypeConsume
<1> QED BY <1>5, <1>8

LEMMA TypeFirst ==
  ASSUME TypeInv, ParseFirst
  PROVE  /\ TypeInv' /\ Stream' = Stream /\ buffer_size' = buffer_size
         /\ consumed_size' = consumed_size + FragmentSize(header.msg, header.index)
         /\ Fragmented(header.msg) /\ header.index = 0
<1>1. /\ header.msg \in Messages /\ header.index \in 0..LastIndex(header.msg)
      /\ consumed_size \in Nat /\ buffer_size \in Nat
      /\ HeaderLength(header.msg, header.index) \in Nat \ {0} /\ HeaderSize \in Nat \ {0}
      /\ consumed_size + (HeaderSize + HeaderLength(header.msg, header.index)) <= buffer_size
  BY MessageIs DEF ParseFirst
<1>2. Fragmented(header.msg) /\ header.index = 0
  BY DEF ParseFirst, Fragmented
<1>3. /\ consumed_size' = consumed_size + HeaderSize + 0
      /\ pc = "loop" /\ UNCHANGED <<wire, parsing_buffer_, pc, device, returned, sessions>>
      /\ UNCHANGED parsed_message_queue_
      /\ fragmented_buffers_by_identifier' =
           [id \in DOMAIN fragmented_buffers_by_identifier \cup {identifier} |->
              IF id \in DOMAIN fragmented_buffers_by_identifier
              THEN fragmented_buffers_by_identifier[id] ELSE <<>>]
  BY DEF ParseFirst, Consume
<1>4. /\ FragmentSize(header.msg, header.index) = HeaderSize + PayloadLength(header.msg,
           header.index)
      /\ PayloadLength(header.msg, header.index) = 0
  BY <1>1, <1>2, SizesOfFragments
<1>5. /\ consumed_size' = consumed_size + FragmentSize(header.msg, header.index)
      /\ consumed_size' \in 0..buffer_size
  BY <1>1, <1>2, <1>3, <1>4
<1>6. parsed_message_queue_' \in Seq(ParsedType)
  BY <1>3 DEF TypeInv, TypeOK
<1>7. \A id \in DOMAIN fragmented_buffers_by_identifier' :
        fragmented_buffers_by_identifier'[id] \in Seq(PayloadType)
  <2>1. \A id \in DOMAIN fragmented_buffers_by_identifier :
          fragmented_buffers_by_identifier[id] \in Seq(PayloadType)
    BY DEF TypeInv, TypeOK
  <2>2. <<>> \in Seq(PayloadType)
    OBVIOUS
  <2> QED BY <1>3, <2>1, <2>2
<1>8. TypeInv' /\ Stream' = Stream /\ buffer_size' = buffer_size
  BY <1>3, <1>5, <1>6, <1>7, TypeConsume
<1> QED BY <1>2, <1>5, <1>8

LEMMA TypeFragment ==
  ASSUME TypeInv, ParseFragment
  PROVE  /\ TypeInv' /\ Stream' = Stream /\ buffer_size' = buffer_size
         /\ consumed_size' = consumed_size + FragmentSize(header.msg, header.index)
         /\ Fragmented(header.msg) /\ header.index \in 1..LastIndex(header.msg)
         /\ IsLast <=> header.index = LastIndex(header.msg)
         /\ fragmented_buffers_by_identifier[identifier] \in Seq(PayloadType)
         /\ Payload(header.msg, header.index) \in PayloadType
<1>1. /\ header.msg \in Messages /\ header.index \in 0..LastIndex(header.msg)
      /\ consumed_size \in Nat /\ buffer_size \in Nat
      /\ HeaderLength(header.msg, header.index) \in Nat \ {0} /\ HeaderSize \in Nat \ {0}
      /\ consumed_size + (HeaderSize + HeaderLength(header.msg, header.index)) <= buffer_size
  BY MessageIs DEF ParseFragment
<1>2. /\ Fragmented(header.msg) /\ header.index \in 1..LastIndex(header.msg)
           /\ header.index \in Nat
      /\ header.index # 0
  BY <1>1, SizesOfMessages DEF ParseFragment, Fragmented
<1>3. /\ consumed_size' = consumed_size + HeaderSize + HeaderLength(header.msg, header.index)
      /\ pc = "loop" /\ UNCHANGED <<wire, parsing_buffer_, pc, device, returned, sessions>>
      /\ IsOpen
      /\ IF IsLast
         THEN /\ parsed_message_queue_' = Enqueued(Parsed(header.msg, Appended))
              /\ fragmented_buffers_by_identifier' = BuffersReleased
         ELSE /\ fragmented_buffers_by_identifier' =
                   [fragmented_buffers_by_identifier EXCEPT ![identifier] = Appended]
              /\ UNCHANGED parsed_message_queue_
  BY DEF ParseFragment, Consume
<1>4. /\ FragmentSize(header.msg, header.index) = HeaderSize + PayloadLength(header.msg,
           header.index)
      /\ PayloadLength(header.msg, header.index) = HeaderLength(header.msg, header.index)
  BY <1>1, <1>2, SizesOfFragments
<1>5. /\ consumed_size' = consumed_size + FragmentSize(header.msg, header.index)
      /\ consumed_size' \in 0..buffer_size
  BY <1>1, <1>2, <1>3, <1>4
<1>6. \A id \in DOMAIN fragmented_buffers_by_identifier :
        fragmented_buffers_by_identifier[id] \in Seq(PayloadType)
  BY DEF TypeInv, TypeOK
<1>7. fragmented_buffers_by_identifier[identifier] \in Seq(PayloadType)
  BY <1>3, <1>6 DEF IsOpen
<1>8. Payload(header.msg, header.index) \in PayloadType
  BY <1>1, <1>2, PayloadIs
<1>9. Appended \in Seq(PayloadType)
  BY <1>7, <1>8, AppendProperties DEF Appended
<1>10. parsed_message_queue_' \in Seq(ParsedType)
  <2>1. Parsed(header.msg, Appended) \in ParsedType /\ parsed_message_queue_ \in Seq(ParsedType)
    BY <1>1, <1>9, ParsedIs DEF TypeInv, TypeOK
  <2>2. Enqueued(Parsed(header.msg, Appended)) \in Seq(ParsedType)
    BY <2>1, AppendProperties DEF Enqueued
  <2> QED BY <1>3, <2>1, <2>2
<1>11. \A id \in DOMAIN fragmented_buffers_by_identifier' :
         fragmented_buffers_by_identifier'[id] \in Seq(PayloadType)
  <2>1. CASE IsLast
    BY <1>3, <1>6, <2>1 DEF BuffersReleased
  <2>2. CASE ~IsLast
    BY <1>3, <1>6, <1>9, <2>2
  <2> QED BY <2>1, <2>2
<1>12. TypeInv' /\ Stream' = Stream /\ buffer_size' = buffer_size
  BY <1>3, <1>5, <1>10, <1>11, TypeConsume
<1>13. IsLast <=> header.index = LastIndex(header.msg)
  BY DEF IsLast, LastIndex
<1> QED BY <1>2, <1>5, <1>7, <1>8, <1>12, <1>13

LEMMA TypeUnknown ==
  ASSUME TypeInv, ParseUnknown
  PROVE  /\ TypeInv' /\ Stream' = Stream /\ buffer_size' = buffer_size
         /\ consumed_size' = consumed_size + HeaderSize
         /\ Fragmented(header.msg) /\ header.index \in 1..LastIndex(header.msg)
         /\ HeaderSize < FragmentSize(header.msg, header.index)
         /\ consumed_size + FragmentSize(header.msg, header.index) <= buffer_size
<1>1. /\ header.msg \in Messages /\ header.index \in 0..LastIndex(header.msg)
      /\ consumed_size \in Nat /\ buffer_size \in Nat
      /\ HeaderLength(header.msg, header.index) \in Nat \ {0} /\ HeaderSize \in Nat \ {0}
      /\ consumed_size + (HeaderSize + HeaderLength(header.msg, header.index)) <= buffer_size
  BY MessageIs DEF ParseUnknown
<1>2. /\ Fragmented(header.msg) /\ header.index \in 1..LastIndex(header.msg)
      /\ header.index # 0
  BY <1>1, SizesOfMessages DEF ParseUnknown, Fragmented
<1>3. /\ consumed_size' = consumed_size + HeaderSize + 0
      /\ pc = "loop" /\ UNCHANGED <<wire, parsing_buffer_, pc, device, returned, sessions>>
      /\ UNCHANGED <<fragmented_buffers_by_identifier, parsed_message_queue_>>
  BY DEF ParseUnknown, Consume
<1>4. /\ FragmentSize(header.msg, header.index) = HeaderSize + PayloadLength(header.msg,
           header.index)
      /\ PayloadLength(header.msg, header.index) = HeaderLength(header.msg, header.index)
  BY <1>1, <1>2, SizesOfFragments
<1>5. /\ consumed_size' = consumed_size + HeaderSize /\ consumed_size' \in 0..buffer_size
      /\ HeaderSize < FragmentSize(header.msg, header.index)
      /\ consumed_size + FragmentSize(header.msg, header.index) <= buffer_size
  BY <1>1, <1>3, <1>4
<1>6. parsed_message_queue_' \in Seq(ParsedType)
  BY <1>3 DEF TypeInv, TypeOK
<1>7. \A id \in DOMAIN fragmented_buffers_by_identifier' :
        fragmented_buffers_by_identifier'[id] \in Seq(PayloadType)
  BY <1>3 DEF TypeInv, TypeOK
<1>8. TypeInv' /\ Stream' = Stream /\ buffer_size' = buffer_size
  BY <1>3, <1>5, <1>6, <1>7, TypeConsume
<1> QED BY <1>2, <1>5, <1>8

LEMMA TypeReject ==
  ASSUME TypeInv, RejectHeader
  PROVE  TypeInv' /\ Stream' = Stream /\ buffer_size' = buffer_size
<1>0. UNCHANGED <<wire, parsing_buffer_, consumed_size, fragmented_buffers_by_identifier,
                  parsed_message_queue_, nextFragment, sent, delivered, replayed, session, torn>>
      /\ pc' = "rejected"
  BY DEF RejectHeader, device, returned, sessions
<1>1. Stream' = Stream /\ buffer_size' = buffer_size
  BY <1>0, StreamKept
<1>2. TypeOK'
  BY <1>0, <1>1 DEF TypeInv, TypeOK
<1>3. CellsOK' /\ ParserOK'
  BY <1>0, <1>1 DEF TypeInv, CellsOK, ParserOK
<1> QED BY <1>1, <1>2, <1>3 DEF TypeInv

\* The end of a call leaves the buffer alone or takes what was consumed from it.
LEMMA TypeFinish ==
  ASSUME TypeInv, FinishParsing
  PROVE  /\ TypeInv' /\ consumed_size' = 0
         /\ \/ /\ Shifted(Stream, Stream', consumed_size)
               /\ Shifted(parsing_buffer_, parsing_buffer_', consumed_size)
               /\ consumed_size < buffer_size /\ replayed' = replayed
            \/ /\ UNCHANGED parsing_buffer_ /\ Stream' = Stream
               /\ consumed_size = buffer_size /\ replayed'
<1>0. /\ UNCHANGED <<wire, fragmented_buffers_by_identifier, parsed_message_queue_, nextFragment,
                     sent, delivered, session, torn>>
      /\ pc' = "pop" /\ consumed_size' = 0
      /\ replayed' = (replayed \/ consumed_size = buffer_size)
      /\ parsing_buffer_' =
           IF consumed_size \in 1..(buffer_size - 1) THEN Leftover ELSE parsing_buffer_
  BY DEF FinishParsing, device, sessions
<1>1. /\ parsing_buffer_ \in Seq(CellType) /\ wire \in Seq(CellType)
      /\ consumed_size \in 0..buffer_size /\ buffer_size \in Nat /\ consumed_size \in Nat
      /\ buffer_size = Len(parsing_buffer_)
      /\ Stream \in Seq(CellType) /\ Len(Stream) \in Nat
  BY StreamIs DEF TypeInv, TypeOK, buffer_size
<1>2. replayed' \in BOOLEAN
  BY Zenon, <1>0
<1>r. consumed_size # buffer_size => replayed' = replayed
  <2>1. replayed \in BOOLEAN
    BY DEF TypeInv, TypeOK
  <2> QED BY Zenon, <1>0, <2>1
<1>3. CASE consumed_size \in 1..(buffer_size - 1)
  <2>1. parsing_buffer_' = Leftover
    BY <1>0, <1>3
  <2>2. /\ parsing_buffer_' \in Seq(CellType) /\ buffer_size' = buffer_size - consumed_size
        /\ \A k \in 1..buffer_size' : parsing_buffer_'[k] = parsing_buffer_[consumed_size + k]
        /\ Len(Stream') = Len(Stream) - consumed_size
        /\ \A k \in 1..Len(Stream') : Stream'[k] = Stream[consumed_size + k]
        /\ Stream' \in Seq(CellType)
    BY <1>0, <1>3, <2>1, LeftoverIs DEF TypeInv
  <2>3. buffer_size' = Len(parsing_buffer_') /\ Len(parsing_buffer_') \in Nat
          /\ Len(Stream') \in Nat
    BY <2>2 DEF buffer_size
  <2>4. Shifted(Stream, Stream', consumed_size)
    <3>1. consumed_size \in Nat /\ Len(Stream) \in Nat /\ Len(Stream) = consumed_size + Len(Stream')
      BY <1>1, <2>2, <2>3
    <3> QED BY Zenon, <2>2, <2>3, <3>1 DEF Shifted
  <2>5. Shifted(parsing_buffer_, parsing_buffer_', consumed_size)
    BY <1>1, <2>2, <2>3 DEF Shifted
  <2>6. consumed_size' \in 0..buffer_size'
    BY <1>0, <2>3
  <2>7. TypeOK'
    BY <1>0, <1>2, <2>2, <2>6 DEF TypeInv, TypeOK
  <2>8. \A k \in 1..Len(Stream') : consumed_size + k \in 1..Len(Stream)
    BY <1>1, <2>2, <2>3
  <2>9. Belong(Stream', nextFragment)
    BY <2>2, <2>8 DEF TypeInv, CellsOK, Belong
  <2>10. CellsOK' /\ ParserOK'
    BY <1>0, <2>9 DEF TypeInv, CellsOK, ParserOK
  <2>11. consumed_size < buffer_size /\ consumed_size # buffer_size
    BY <1>1, <1>3
  <2>12. replayed' = replayed
    BY <1>r, <2>11
  <2> QED BY <1>0, <2>4, <2>5, <2>7, <2>10, <2>11, <2>12 DEF TypeInv
<1>4. CASE consumed_size \notin 1..(buffer_size - 1)
  <2>1. UNCHANGED parsing_buffer_ /\ Stream' = Stream /\ buffer_size' = buffer_size
    <3>1. UNCHANGED parsing_buffer_
      BY <1>0, <1>4
    <3> QED BY <1>0, <3>1, StreamKept
  <2>2. consumed_size' \in 0..buffer_size'
    BY <1>0, <1>1, <2>1
  <2>3. TypeOK'
    BY <1>0, <1>2, <2>1, <2>2 DEF TypeInv, TypeOK
  <2>4. CellsOK' /\ ParserOK'
    BY <1>0, <2>1 DEF TypeInv, CellsOK, ParserOK
  <2>5. CASE consumed_size = buffer_size
    BY <1>0, <2>1, <2>3, <2>4, <2>5 DEF TypeInv
  <2>6. CASE consumed_size # buffer_size
    <3>1. consumed_size = 0 /\ consumed_size < buffer_size
      BY <1>1, <1>4, <2>6
    <3>2. Shifted(Stream, Stream', consumed_size)
      BY <1>1, <2>1, <3>1 DEF Shifted
    <3>3. Shifted(parsing_buffer_, parsing_buffer_', consumed_size)
      BY <1>1, <2>1, <3>1 DEF Shifted
    <3>4. replayed' = replayed
      BY <1>r, <2>6
    <3> QED BY <1>0, <2>3, <2>4, <3>1, <3>2, <3>3, <3>4 DEF TypeInv
  <2> QED BY <2>5, <2>6
<1> QED BY <1>3, <1>4

\* What has been parsed is what has been returned and what has not.
LEMMA TypePop ==
  ASSUME TypeInv, PopAllParsedMessages
  PROVE  /\ TypeInv' /\ Stream' = Stream /\ buffer_size' = buffer_size /\ parsed' = parsed
<1>0. /\ UNCHANGED <<wire, parsing_buffer_, consumed_size, fragmented_buffers_by_identifier,
                     nextFragment, sent, replayed, session, torn>>
      /\ pc = "pop" /\ pc' = "idle"
      /\ delivered' = delivered \o parsed_message_queue_ /\ parsed_message_queue_' = <<>>
  BY DEF PopAllParsedMessages, device, sessions
<1>1. Stream' = Stream /\ buffer_size' = buffer_size
  BY <1>0, StreamKept
<1>2. delivered \in Seq(ParsedType) /\ parsed_message_queue_ \in Seq(ParsedType)
  BY DEF TypeInv, TypeOK
<1>3. delivered' \in Seq(ParsedType) /\ parsed_message_queue_' \in Seq(ParsedType)
  BY <1>0, <1>2, ConcatProperties
<1>4. parsed' = parsed
  <2>1. parsed' = delivered' \o <<>>
    BY <1>0 DEF parsed
  <2>2. delivered' \o <<>> = delivered'
    BY <1>3, ConcatEmptySeq
  <2> QED BY <1>0, <2>1, <2>2 DEF parsed
<1>5. TypeOK'
  BY <1>0, <1>1, <1>3 DEF TypeInv, TypeOK
<1>6. CellsOK' /\ ParserOK'
  BY <1>0, <1>1 DEF TypeInv, CellsOK, ParserOK
<1> QED BY <1>1, <1>4, <1>5, <1>6 DEF TypeInv

LEMMA TypeReconnect ==
  ASSUME TypeInv, Reconnect
  PROVE  /\ TypeInv' /\ Stream' = parsing_buffer_ /\ UNCHANGED parsing_buffer_
         /\ parsed' = <<>> /\ sent' = <<>> /\ ToSet(wire') = {}
         /\ \A m \in Messages : nextFragment[m] > 0 => nextFragment'[m] = FragmentCount(m)
         /\ \A m \in Messages : nextFragment[m] = 0 => nextFragment'[m] = 0
<1>0. /\ UNCHANGED <<parsing_buffer_, consumed_size, fragmented_buffers_by_identifier,
                     parsed_message_queue_, pc, replayed>>
      /\ pc = "idle" /\ wire' = <<>> /\ sent' = <<>> /\ delivered' = <<>>
      /\ session < MaxSessions /\ session' = session + 1
      /\ nextFragment' =
           [m \in Messages |-> IF nextFragment[m] = 0 THEN 0 ELSE FragmentCount(m)]
      /\ torn' = (torn \/ \E m \in Messages : IsCut(m))
  BY DEF Reconnect
<1>1. /\ parsing_buffer_ \in Seq(CellType) /\ wire \in Seq(CellType)
      /\ nextFragment \in [Messages -> Nat] /\ parsed_message_queue_ = <<>>
      /\ session \in 1..MaxSessions
  BY <1>0 DEF TypeInv, TypeOK, ParserOK
<1>2. <<>> \in Seq(CellType) /\ <<>> \in Seq(ParsedType) /\ ToSet(<<>>) = {}
  BY DEF ToSet
<1>3. Stream' = parsing_buffer_
  <2>1. Stream' = parsing_buffer_ \o <<>>
    BY <1>0 DEF Stream
  <2> QED BY <1>1, <2>1, ConcatEmptySeq
<1>4. parsed' = <<>>
  <2>1. parsed' = <<>> \o <<>>
    BY <1>0, <1>1 DEF parsed
  <2> QED BY <1>2, <2>1, ConcatEmptySeq
<1>5. \A m \in Messages : FragmentCount(m) \in Nat
  BY SizesOfMessages
<1>6. /\ \A m \in Messages : nextFragment[m] > 0 => nextFragment'[m] = FragmentCount(m)
      /\ \A m \in Messages : nextFragment[m] = 0 => nextFragment'[m] = 0
      /\ nextFragment' \in [Messages -> Nat]
  BY <1>0, <1>1, <1>5
<1>7. session' \in 1..MaxSessions
  BY <1>0, <1>1, ConstantsAssumption
<1>8. torn' \in BOOLEAN
  BY Zenon, <1>0
<1>9. TypeOK'
  BY <1>0, <1>2, <1>6, <1>7, <1>8 DEF TypeInv, TypeOK, buffer_size
<1>10. CellsOK'
  <2>1. \A n \in Messages : nextFragment'[n] \in 0..FragmentCount(n)
    BY <1>0, <1>5
  <2>2. Joins(Stream, parsing_buffer_, wire)
    BY StreamJoins DEF TypeInv
  <2>3. ASSUME NEW k \in 1..Len(parsing_buffer_)
        PROVE  /\ Proper(parsing_buffer_[k])
               /\ parsing_buffer_[k].index < nextFragment'[parsing_buffer_[k].msg]
    <3>1. k \in 1..Len(Stream) /\ Stream[k] = parsing_buffer_[k]
      BY <2>2 DEF Joins
    <3> DEFINE c == parsing_buffer_[k]
    <3>2. Proper(c) /\ c.index < nextFragment[c.msg]
      BY <3>1 DEF TypeInv, CellsOK, Belong
    <3> HIDE DEF c
    <3>3. c.msg \in Messages /\ c.index \in Nat /\ c.index < FragmentCount(c.msg)
      <4>1. c.msg \in Messages /\ c.index \in 0..LastIndex(c.msg)
        BY <3>2 DEF Proper
      <4>2. LastIndex(c.msg) \in Nat /\ FragmentCount(c.msg) = LastIndex(c.msg) + 1
        BY <4>1, SizesOfMessages
      <4> QED BY <4>1, <4>2
    <3>4. c.index < nextFragment'[c.msg]
      <4>1. nextFragment[c.msg] \in Nat
        BY <1>1, <3>3
      <4>2. nextFragment[c.msg] > 0
        BY <3>2, <3>3, <4>1
      <4> QED BY Zenon, <1>6, <3>3, <4>2
    <3> QED BY <3>2, <3>4 DEF c
  <2> QED BY <1>3, <2>1, <2>3 DEF CellsOK, Belong
<1>11. ParserOK'
  BY <1>0, <1>1 DEF TypeInv, ParserOK
<1> QED BY <1>0, <1>2, <1>3, <1>4, <1>6, <1>9, <1>10, <1>11 DEF TypeInv

LEMMA TypeStep == ASSUME TypeInv, [Next]_vars PROVE TypeInv'
<1>1. ASSUME NEW m \in Messages, SendFragment(m) PROVE TypeInv'
  BY <1>1, TypeSend
<1>2. ASSUME NEW n \in 1..PacketSize, Allocate(n) PROVE TypeInv'
  BY <1>2, TypeAllocate
<1>3. ASSUME ParseSingle \/ ParseFirst \/ ParseFragment \/ ParseUnknown PROVE TypeInv'
  BY <1>3, TypeSingle, TypeFirst, TypeFragment, TypeUnknown
<1>4. ASSUME RejectHeader \/ FinishParsing \/ PopAllParsedMessages \/ Reconnect PROVE TypeInv'
  BY <1>4, TypeReject, TypeFinish, TypePop, TypeReconnect
<1>5. CASE UNCHANGED vars
  <2>1. UNCHANGED <<wire, parsing_buffer_, consumed_size, fragmented_buffers_by_identifier,
                    parsed_message_queue_, pc, nextFragment, sent, delivered, replayed,
                    session, torn>>
    BY <1>5 DEF vars, device, returned, sessions
  <2>2. Stream' = Stream
    BY <2>1, StreamKept
  <2> QED BY <2>1, <2>2 DEF TypeInv, TypeOK, CellsOK, ParserOK, buffer_size
<1> QED BY <1>1, <1>2, <1>3, <1>4, <1>5 DEF Next, Parse
-----------------------------------------------------------------------------
(* The kinds of steps *)

\* What a message becomes with the fragment at hand, its last one.
Data ==
  IF FragmentCount(header.msg) = 1 THEN <<Payload(header.msg, 0)>> ELSE Appended

\* The fragment at the front is parsed.
Turn ==
  /\ Stream' = Stream
  /\ consumed_size' = consumed_size + FragmentSize(header.msg, header.index)
  /\ UNCHANGED <<wire, pc, nextFragment, sent, torn, replayed>>
  /\ parsed' = IF header.index = LastIndex(header.msg)
               THEN Append(parsed, Parsed(header.msg, Data)) ELSE parsed

\* Nothing happens that the invariant is about; what was parsed leaves the buffer;
\* it stays there, to be parsed again; the parser is on its track no more.
Quiet ==
  /\ UNCHANGED <<Stream, consumed_size, parsed, nextFragment, sent, torn, replayed,
                 fragmented_buffers_by_identifier>>
  /\ ToSet(wire') \subseteq ToSet(wire)
Move ==
  /\ Shifted(Stream, Stream', consumed_size) /\ consumed_size' = 0
  /\ UNCHANGED <<wire, parsed, nextFragment, sent, torn, replayed,
                 fragmented_buffers_by_identifier>>
Again ==
  /\ UNCHANGED <<wire, Stream, parsed, nextFragment, sent, torn,
                 fragmented_buffers_by_identifier>>
  /\ consumed_size' = 0 /\ replayed' = TRUE
Derailed ==
  /\ ~OnTrack' /\ UNCHANGED <<parsed, nextFragment, sent, torn, replayed>>

LEMMA AppendedBehind ==
  ASSUME NEW S, NEW s \in Seq(S), NEW t \in Seq(S), NEW e \in S
  PROVE  s \o Append(t, e) = Append(s \o t, e)
OBVIOUS

LEMMA ParsedIsSeq == ASSUME TypeOK PROVE parsed \in Seq(ParsedType)
BY DEF TypeOK, parsed

LEMMA TurnIs ==
  ASSUME TypeInv, ParseSingle \/ ParseFirst \/ ParseFragment
  PROVE  Turn
<1>0. HasMessage
  BY DEF ParseSingle, ParseFirst, ParseFragment
<1>1. UNCHANGED <<wire, pc, nextFragment, sent, torn, replayed, delivered>>
  BY DEF ParseSingle, ParseFirst, ParseFragment, Consume, device, returned, sessions
<1>2. Stream' = Stream /\ consumed_size' = consumed_size + FragmentSize(header.msg, header.index)
  BY TypeSingle, TypeFirst, TypeFragment
<1>3. /\ header.msg \in Messages /\ header.index \in 0..LastIndex(header.msg)
      /\ LastIndex(header.msg) \in Nat /\ FragmentCount(header.msg) = LastIndex(header.msg) + 1
  BY <1>0, MessageIs, SizesOfMessages
<1>4. delivered \in Seq(ParsedType) /\ parsed_message_queue_ \in Seq(ParsedType)
  BY DEF TypeInv, TypeOK
<1>5. ASSUME NEW x \in ParsedType, parsed_message_queue_' = Enqueued(x)
      PROVE  parsed' = Append(parsed, x)
  BY <1>1, <1>4, <1>5, AppendedBehind DEF parsed, Enqueued
<1>6. CASE ParseSingle
  <2>1. FragmentCount(header.msg) = 1 /\ header.index = LastIndex(header.msg)
    BY <1>3, <1>6 DEF ParseSingle
  <2>2. Data \in Seq(PayloadType)
    BY <1>3, <2>1, PayloadIs DEF Data
  <2>3. parsed_message_queue_' = Enqueued(Parsed(header.msg, Data))
    BY <1>6, <2>1 DEF ParseSingle, Data
  <2>4. Parsed(header.msg, Data) \in ParsedType
    BY <1>3, <2>2, ParsedIs
  <2> QED BY <1>1, <1>2, <1>5, <2>1, <2>3, <2>4 DEF Turn
<1>7. CASE ParseFirst
  <2>1. FragmentCount(header.msg) > 1 /\ header.index = 0
    BY <1>7 DEF ParseFirst
  <2>2. header.index # LastIndex(header.msg)
    BY <1>3, <2>1
  <2>3. parsed' = parsed
    BY <1>1, <1>7 DEF ParseFirst, parsed
  <2> QED BY <1>1, <1>2, <2>2, <2>3 DEF Turn
<1>8. CASE ParseFragment
  <2>1. /\ IsLast <=> header.index = LastIndex(header.msg)
        /\ fragmented_buffers_by_identifier[identifier] \in Seq(PayloadType)
        /\ Payload(header.msg, header.index) \in PayloadType
    BY <1>8, TypeFragment
  <2>2. Appended \in Seq(PayloadType)
    BY <2>1, AppendProperties DEF Appended
  <2>3. FragmentCount(header.msg) # 1
    BY <1>3, <1>8 DEF ParseFragment
  <2>4. Data = Appended
    BY <2>3 DEF Data
  <2>5. Parsed(header.msg, Data) \in ParsedType
    BY <1>3, <2>2, <2>4, ParsedIs
  <2>6. CASE IsLast
    <3>1. parsed_message_queue_' = Enqueued(Parsed(header.msg, Data))
      BY <1>8, <2>4, <2>6 DEF ParseFragment
    <3> QED BY <1>1, <1>2, <1>5, <2>1, <2>5, <2>6, <3>1 DEF Turn
  <2>7. CASE ~IsLast
    <3>1. parsed' = parsed
      BY <1>1, <1>8, <2>7 DEF ParseFragment, parsed
    <3> QED BY <1>1, <1>2, <2>1, <2>7, <3>1 DEF Turn
  <2> QED BY <2>6, <2>7
<1> QED BY <1>6, <1>7, <1>8

\* Once lost, the parser never finds its place again.
LEMMA TrackKept ==
  ASSUME TypeInv, [Next]_vars, OnTrack'
  PROVE  OnTrack
<1>0. TypeInv' /\ ~torn' /\ pc' \in {"idle", "loop", "pop"} /\ ~Lost'
  BY TypeStep DEF OnTrack
<1>t. consumed_size \in 0..buffer_size /\ buffer_size \in Nat /\ torn \in BOOLEAN
  BY StreamIs DEF TypeInv, TypeOK
<1>1. CASE \E m \in Messages : SendFragment(m)
  <2>1. UNCHANGED <<parsing_buffer_, consumed_size, pc, torn>>
    BY <1>1 DEF SendFragment, sessions
  <2> QED BY <1>0, <2>1 DEF OnTrack, Lost, buffer_size
<1>2. ASSUME NEW n \in 1..PacketSize, Allocate(n) PROVE OnTrack
  <2>1. /\ pc = "idle" /\ UNCHANGED torn /\ n <= Len(wire)
        /\ wire' = SubSeq(wire, n + 1, Len(wire))
    BY <1>2 DEF Allocate, sessions
  <2>2. pc' = "loop" /\ consumed_size' = 0 /\ parsing_buffer_' = Extended(SubSeq(wire, 1, n))
    BY <1>0, <1>2 DEF Allocate, OutOfMemory
  <2>3. buffer_size' = buffer_size + n /\ n \in Nat
    BY <2>1, <2>2, PacketIsMoved DEF TypeInv
  <2>4. \A k \in 1..buffer_size : parsing_buffer_'[k] = parsing_buffer_[k]
    BY <2>1, <2>2, PacketIsMoved DEF TypeInv
  <2>5. consumed_size = 0
    BY <2>1 DEF TypeInv, ParserOK
  <2>6. ~Lost
    BY <1>0, <1>t, <2>2, <2>3, <2>4, <2>5 DEF Lost
  <2> QED BY <1>0, <2>1, <2>6 DEF OnTrack
<1>3. CASE ParseSingle \/ ParseFirst \/ ParseFragment \/ ParseUnknown
  <2>1. pc = "loop" /\ HasMessage /\ UNCHANGED torn
    BY <1>3 DEF ParseSingle, ParseFirst, ParseFragment, ParseUnknown, Consume, sessions
  <2>2. header.part = 1
    BY <2>1 DEF HasMessage, MagicMatches
  <2> QED BY <1>0, <2>1, <2>2 DEF OnTrack, Lost, header
<1>4. CASE RejectHeader
  BY <1>0, <1>4 DEF RejectHeader
<1>5. CASE FinishParsing
  <2>1. pc = "loop" /\ UNCHANGED torn /\ consumed_size' = 0
    BY <1>5 DEF FinishParsing, sessions
  <2>2. CASE /\ Shifted(parsing_buffer_, parsing_buffer_', consumed_size)
             /\ consumed_size < buffer_size
    <3>1. buffer_size' > 0
      BY <1>t, <2>2 DEF Shifted, buffer_size
    <3>2. parsing_buffer_'[1] = parsing_buffer_[consumed_size + 1]
      BY <1>t, <2>2, <3>1 DEF Shifted, buffer_size
    <3> QED BY <1>0, <2>1, <3>1, <3>2 DEF OnTrack, Lost
  <2>3. CASE consumed_size = buffer_size
    BY <1>0, <1>t, <2>1, <2>3 DEF OnTrack, Lost
  <2> QED BY <1>5, <2>2, <2>3, TypeFinish
<1>6. CASE PopAllParsedMessages
  <2>1. pc = "pop" /\ UNCHANGED <<parsing_buffer_, consumed_size, torn>>
    BY <1>6 DEF PopAllParsedMessages, sessions
  <2> QED BY <1>0, <2>1 DEF OnTrack, Lost, buffer_size
<1>7. CASE Reconnect
  <2>1. pc = "idle" /\ UNCHANGED <<parsing_buffer_, consumed_size>>
    BY <1>7 DEF Reconnect
  <2>2. ~torn
    BY Zenon, <1>0, <1>7 DEF Reconnect
  <2> QED BY <1>0, <2>1, <2>2 DEF OnTrack, Lost, buffer_size
<1>8. CASE UNCHANGED vars
  <2>1. UNCHANGED <<parsing_buffer_, consumed_size, pc, torn>>
    BY <1>8 DEF vars, sessions
  <2> QED BY <1>0, <2>1 DEF OnTrack, Lost, buffer_size
<1> QED BY <1>1, <1>2, <1>3, <1>4, <1>5, <1>6, <1>7, <1>8 DEF Next, Parse

\* A parser on its track is at a header, and behind it comes the next one.
LEMMA AtHeader ==
  ASSUME TypeInv, StreamOK, OnTrack, HasMessage
  PROVE  /\ Sound(Stream, nextFragment) /\ Stream \in Seq(CellType)
         /\ \A k \in 1..Len(Stream) : Proper(Stream[k])
         /\ Stream[consumed_size + 1] = Cell(header.msg, header.index, 1)
         /\ header.msg \in Messages /\ header.index \in 0..LastIndex(header.msg)
         /\ header.index < nextFragment[header.msg]
         /\ consumed_size \in Nat /\ consumed_size < Len(Stream)
BY MessageIs, StreamIs DEF StreamOK, TypeInv, CellsOK, Belong

LEMMA StepIs ==
  ASSUME TypeInv, StreamOK, [Next]_vars
  PROVE  \/ \E m \in Messages : SendFragment(m)
         \/ Quiet
         \/ ParseSingle \/ ParseFirst \/ ParseFragment
         \/ FinishParsing /\ (Move \/ Again)
         \/ Derailed
         \/ Reconnect
<1>1. ASSUME NEW n \in 1..PacketSize, Allocate(n) PROVE Quiet \/ Derailed
  <2>1. UNCHANGED <<parsed, nextFragment, sent, torn, replayed, fragmented_buffers_by_identifier>>
    BY <1>1 DEF Allocate, device, returned, sessions, parsed
  <2>2. CASE pc' = "loop"
    <3>1. ToSet(wire') \subseteq ToSet(wire) /\ Stream' = Stream /\ consumed_size' = consumed_size
      BY <1>1, <2>2, TypeAllocate
    <3> QED BY <2>1, <3>1 DEF Quiet
  <2>3. CASE pc' = "nomem"
    BY <2>1, <2>3 DEF Derailed, OnTrack
  <2> QED BY <1>1, <2>2, <2>3 DEF Allocate, OutOfMemory
<1>2. ASSUME ParseUnknown PROVE Derailed
  <2>1. HasMessage /\ UNCHANGED <<parsing_buffer_, parsed, nextFragment, sent, torn, replayed>>
    BY <1>2 DEF ParseUnknown, Consume, device, returned, sessions, parsed
  <2>2. SUFFICES ASSUME OnTrack' PROVE FALSE
    BY <2>1 DEF Derailed
  <2>3. OnTrack
    BY <1>2, <2>2, TrackKept DEF Next, Parse
  <2> DEFINE m == header.msg
             i == header.index
             N == FragmentSize(m, i)
  <2>4. /\ Stream \in Seq(CellType) /\ Chained(Stream) /\ consumed_size \in Nat
        /\ consumed_size < Len(Stream) /\ \A k \in 1..Len(Stream) : Proper(Stream[k])
        /\ Stream[consumed_size + 1] = Cell(m, i, 1)
    BY <2>1, <2>3, AtHeader DEF Sound
  <2>5. /\ consumed_size' = consumed_size + HeaderSize /\ HeaderSize < N
        /\ consumed_size + N <= buffer_size /\ buffer_size' = buffer_size
    BY <1>2, TypeUnknown
  <2>6. N \in Nat \ {0} /\ \A k \in 1..N : Stream[consumed_size + k] = Cell(m, i, k)
    BY <2>4, Walk
  <2>7. HeaderSize \in Nat \ {0} /\ buffer_size \in Nat
    BY ConstantsAssumption, StreamIs DEF TypeInv
  <2> HIDE DEF m, i, N
  <2>8. /\ HeaderSize + 1 \in 1..N /\ consumed_size + (HeaderSize + 1) \in 1..buffer_size
        /\ consumed_size + (HeaderSize + 1) = consumed_size' + 1 /\ consumed_size' < buffer_size'
    BY <2>4, <2>5, <2>6, <2>7
  <2>9. parsing_buffer_[consumed_size + (HeaderSize + 1)] = Cell(m, i, HeaderSize + 1)
    <3>1. \A k \in 1..buffer_size : Stream[k] = parsing_buffer_[k]
      BY StreamIs DEF TypeInv
    <3> QED BY <2>6, <2>8, <3>1
  <2>10. parsing_buffer_'[consumed_size' + 1].part = HeaderSize + 1
    BY <2>1, <2>8, <2>9, CellIs
  <2>11. Lost'
    BY <2>7, <2>8, <2>10 DEF Lost
  <2> QED BY <2>2, <2>11 DEF OnTrack
<1>3. ASSUME RejectHeader PROVE Derailed
  BY <1>3 DEF RejectHeader, Derailed, OnTrack, device, returned, sessions, parsed
<1>4. ASSUME FinishParsing PROVE Move \/ Again
  <2>1. UNCHANGED <<wire, parsed, nextFragment, sent, torn, fragmented_buffers_by_identifier>>
    BY <1>4 DEF FinishParsing, device, sessions, parsed
  <2>2. replayed' \in BOOLEAN
    BY <1>4, TypeFinish DEF TypeInv, TypeOK
  <2>3. CASE Shifted(Stream, Stream', consumed_size) /\ replayed' = replayed
    BY <1>4, <2>1, <2>3, TypeFinish DEF Move
  <2>4. CASE Stream' = Stream /\ replayed'
    <3>1. replayed' = TRUE
      BY <2>2, <2>4
    <3> QED BY <1>4, <2>1, <2>4, <3>1, TypeFinish DEF Again
  <2> QED BY <1>4, <2>3, <2>4, TypeFinish
<1>5. ASSUME PopAllParsedMessages PROVE Quiet
  <2>1. UNCHANGED <<wire, consumed_size, nextFragment, sent, torn, replayed,
                    fragmented_buffers_by_identifier>>
    BY <1>5 DEF PopAllParsedMessages, device, sessions
  <2> QED BY <1>5, <2>1, TypePop DEF Quiet
<1>6. ASSUME UNCHANGED vars PROVE Quiet
  <2>1. UNCHANGED <<wire, parsing_buffer_, consumed_size, nextFragment, sent, torn, replayed,
          parsed,
                    fragmented_buffers_by_identifier>>
    BY <1>6 DEF vars, device, sessions, returned, parsed
  <2> QED BY <2>1, StreamKept DEF Quiet
<1> QED BY <1>1, <1>2, <1>3, <1>4, <1>5, <1>6 DEF Next, Parse
-----------------------------------------------------------------------------
(* The parser keeps its place *)

LEMMA TornKept ==
  ASSUME TypeInv, [Next]_vars, ~torn'
  PROVE  /\ ~torn /\ (replayed => replayed') /\ (Tell' => Tell)
         /\ Reconnect => \A m \in Messages : ~IsCut(m)
<1>1. ~torn
  BY Zenon DEF Next, Parse, SendFragment, Allocate, ParseSingle, ParseFirst, ParseFragment,
     ParseUnknown, Consume, RejectHeader, FinishParsing, PopAllParsedMessages, Reconnect,
     vars, sessions
<1>2. replayed => replayed'
  BY Zenon DEF Next, Parse, SendFragment, Allocate, ParseSingle, ParseFirst, ParseFragment,
     ParseUnknown, Consume, RejectHeader, FinishParsing, PopAllParsedMessages, Reconnect,
     vars, returned
<1>3. Reconnect => \A m \in Messages : ~IsCut(m)
  BY Zenon DEF Reconnect
<1>4. Tell' => Tell
  BY <1>2 DEF Tell, FragmentedByIdentifier, FragmentCount
<1> QED BY <1>1, <1>2, <1>3, <1>4

\* No message is cut, as the lemmas about sequences say it.
LEMMA NothingCut ==
  ASSUME TypeInv, \A m \in Messages : ~IsCut(m)
  PROVE  \A m \in Messages :
           nextFragment[m] \in 0..FragmentCount(m) /\ ~CutAt(nextFragment, wire, m)
BY DEF TypeInv, CellsOK, IsCut, CutAt, InProgress

LEMMA StreamStep ==
  ASSUME TypeInv, StreamOK, [Next]_vars
  PROVE  StreamOK'
<1>0. SUFFICES ASSUME OnTrack' PROVE Sound(Stream', nextFragment')
  BY DEF StreamOK
<1>1. /\ OnTrack /\ Sound(Stream, nextFragment) /\ Belong(Stream, nextFragment)
      /\ Stream \in Seq(CellType) /\ nextFragment \in [Messages -> Nat]
      /\ \A n \in Messages : nextFragment[n] \in 0..FragmentCount(n)
  BY <1>0, TrackKept, StreamIs DEF StreamOK, TypeInv, CellsOK, TypeOK
<1>2. ASSUME NEW m \in Messages, SendFragment(m) PROVE Sound(Stream', nextFragment')
  <2>1. /\ Grows(Stream, Stream', m, nextFragment[m])
        /\ nextFragment' = [nextFragment EXCEPT ![m] = @ + 1]
    BY <1>2, SendStream
  <2>2. /\ nextFragment[m] < FragmentCount(m)
        /\ \A n \in Messages \ {m} : nextFragment[n] \in 1..(FragmentCount(n) - 1) =>
             Identifier[n] # Identifier[m]
    BY <1>2 DEF SendFragment, InProgress
  <2> QED BY <1>1, <2>1, <2>2, SoundGrows
<1>3. CASE Quiet \/ Turn \/ Again
  <2>1. Stream' = Stream /\ nextFragment' = nextFragment
    BY <1>3 DEF Quiet, Turn, Again
  <2> QED BY <1>1, <2>1
<1>4. CASE FinishParsing /\ Move
  <2>1. Shifted(Stream, Stream', consumed_size) /\ nextFragment' = nextFragment
    BY <1>4 DEF Move
  <2>2. consumed_size < Len(Stream) => Stream[consumed_size + 1].part = 1
    <3>1. CASE consumed_size < buffer_size
      <4>1. consumed_size + 1 \in 1..buffer_size
        BY <3>1, StreamIs DEF TypeInv, TypeOK
      <4>2. Stream[consumed_size + 1] = parsing_buffer_[consumed_size + 1]
        BY <4>1, StreamIs DEF TypeInv
      <4> QED BY <1>1, <3>1, <4>2 DEF OnTrack, Lost
    <3>2. CASE consumed_size = buffer_size /\ Stream' = Stream
      <4>1. Len(Stream) = consumed_size + Len(Stream) /\ Len(Stream) \in Nat
        BY <2>1, <3>2 DEF Shifted
      <4>2. consumed_size = 0
        BY <2>1, <4>1 DEF Shifted
      <4> QED BY <1>1, <4>1, <4>2 DEF Sound, Chained
    <3> QED BY <1>4, <3>1, <3>2, TypeFinish
  <2> QED BY <1>1, <2>1, <2>2, SoundShifted
<1>5. CASE Reconnect
  <2>1. Stream' = parsing_buffer_
    BY <1>5, TypeReconnect
  <2>2. \A m \in Messages : nextFragment[m] > 0 => nextFragment'[m] = FragmentCount(m)
    BY <1>5, TypeReconnect
  <2>3. Joins(Stream, parsing_buffer_, wire)
    BY StreamJoins DEF TypeInv
  <2>4. \A m \in Messages :
          nextFragment[m] \in 0..FragmentCount(m) /\ ~CutAt(nextFragment, wire, m)
    <3>1. \A m \in Messages : ~IsCut(m)
      BY <1>0, <1>5, TornKept DEF OnTrack
    <3> QED BY <3>1, NothingCut
  <2>5. Sound(parsing_buffer_, nextFragment')
    BY <1>1, <2>2, <2>3, <2>4, SoundCut
  <2> QED BY <2>1, <2>5
<1> QED BY <1>0, <1>2, <1>3, <1>4, <1>5, StepIs, TurnIs DEF Derailed

\* A step that leaves the front of the buffer at a header.
LEMMA LostStep ==
  ASSUME TypeInv, StreamOK, LostOK, BegunOK, [Next]_vars
  PROVE  LostOK'
<1>0. SUFFICES ASSUME ~torn', Lost' \/ pc' = "rejected"
      PROVE  replayed' /\ \E m \in Messages : Fragmented(m) /\ nextFragment'[m] > 0
  BY DEF LostOK, Fragmented, FragmentCount
<1>1. ~torn /\ (replayed => replayed') /\ TypeInv'
  BY <1>0, TornKept, TypeStep
<1>2. /\ nextFragment \in [Messages -> Nat] /\ consumed_size \in Nat /\ buffer_size \in Nat
      /\ consumed_size <= buffer_size
  BY StreamIs DEF TypeInv, TypeOK
<1>3. ASSUME replayed, NEW m \in Messages, Fragmented(m), nextFragment[m] > 0
      PROVE  replayed' /\ \E n \in Messages : Fragmented(n) /\ nextFragment'[n] > 0
  <2>1. FragmentCount(m) > 1 /\ FragmentCount(m) \in Nat
    BY <1>3, SizesOfMessages DEF Fragmented
  <2>2. nextFragment'[m] > 0
    <3>1. CASE \E n \in Messages : SendFragment(n)
      <4>1. PICK n \in Messages : SendFragment(n)
        BY <3>1
      <4>2. nextFragment'[m] = nextFragment[m] \/ nextFragment'[m] = nextFragment[m] + 1
        BY <4>1, SendStream
      <4> QED BY <1>2, <1>3, <4>2
    <3>2. CASE Reconnect
      BY <1>3, <2>1, <3>2, TypeReconnect
    <3>3. CASE nextFragment' = nextFragment
      BY <1>3, <3>3
    <3> QED BY <3>1, <3>2, <3>3, StepIs, TurnIs DEF Quiet, Turn, Move, Again, Derailed
  <2> QED BY <1>1, <1>3, <2>2
<1>4. CASE Lost \/ pc = "rejected"
  BY <1>1, <1>3, <1>4 DEF LostOK
<1>5. ASSUME ~Lost, pc # "rejected", pc # "nomem" PROVE OnTrack
  BY <1>1, <1>5 DEF OnTrack, TypeInv, TypeOK
<1>6. ASSUME pc # "rejected", ~Lost, pc' # "rejected", UNCHANGED <<parsing_buffer_,
               consumed_size>>
      PROVE  FALSE
  BY <1>0, <1>6 DEF Lost, buffer_size
\* The front is a cell of the stream.
<1>7. ASSUME Lost' PROVE consumed_size' < Len(Stream') /\ Stream'[consumed_size' + 1].part # 1
  <2>1. /\ Len(Stream') = buffer_size' + Len(wire') /\ buffer_size' \in Nat /\ Len(wire') \in Nat
        /\ \A k \in 1..buffer_size' : Stream'[k] = parsing_buffer_'[k]
    <3>1. Joins(Stream', parsing_buffer_', wire')
      BY <1>1, ItJoins DEF TypeInv, TypeOK, Stream
    <3>2. Len(Stream') = buffer_size' + Len(wire') /\ buffer_size' \in Nat /\ Len(wire') \in Nat
      BY <1>1, JoinedIs DEF TypeInv, TypeOK, Stream, buffer_size
    <3>3. \A k \in 1..Len(parsing_buffer_') : parsing_buffer_'[k] = Stream'[k]
      BY <3>1 DEF Joins
    <3>4. buffer_size' = Len(parsing_buffer_')
      BY DEF buffer_size
    <3> QED BY <3>2, <3>3, <3>4
  <2>2. consumed_size' \in Nat /\ consumed_size' < buffer_size'
    BY <1>1, <1>7 DEF TypeInv, TypeOK, Lost
  <2>n. buffer_size' \in Nat
    BY <2>1
  <2>a. \A a, b \in Nat : a < b => a + 1 \in 1..b
    OBVIOUS
  <2>3. consumed_size' + 1 \in 1..buffer_size'
    BY Zenon, <2>2, <2>n, <2>a
  <2> QED BY <1>7, <2>1, <2>2, <2>3 DEF Lost
<1>8. CASE ~Lost /\ pc # "rejected"
  <2>1. ASSUME NEW n \in Messages, SendFragment(n) PROVE FALSE
    BY <1>6, <1>8, <2>1 DEF SendFragment
  <2>2. ASSUME NEW n \in 1..PacketSize, Allocate(n) PROVE FALSE
    <3>1. pc = "idle" /\ OnTrack
      BY <1>5, <1>8, <2>2 DEF Allocate
    <3>2. pc' = "loop"
      BY <1>6, <1>8, <2>2 DEF Allocate, OutOfMemory
    <3>3. Stream' = Stream /\ consumed_size' = consumed_size /\ consumed_size = 0
      BY <2>2, <3>1, <3>2, TypeAllocate DEF TypeInv, ParserOK
    <3>4. 0 < Len(Stream) /\ Stream[1].part # 1
      BY <1>0, <1>7, <3>2, <3>3
    <3> QED BY <3>1, <3>4 DEF StreamOK, Sound, Chained
  <2>3. ASSUME ParseSingle \/ ParseFirst \/ ParseFragment PROVE FALSE
    <3>1. HasMessage /\ pc = "loop"
      BY <2>3 DEF ParseSingle, ParseFirst, ParseFragment
    <3>2. /\ Stream' = Stream /\ pc' = pc
          /\ consumed_size' = consumed_size + FragmentSize(header.msg, header.index)
      BY <2>3, TurnIs DEF Turn
    <3>3. /\ Stream \in Seq(CellType) /\ Chained(Stream) /\ consumed_size < Len(Stream)
          /\ \A k \in 1..Len(Stream) : Proper(Stream[k])
          /\ Stream[consumed_size + 1] = Cell(header.msg, header.index, 1)
      BY <1>5, <1>8, <3>1, AtHeader DEF Sound
    <3>4. consumed_size' < Len(Stream) => Stream[consumed_size' + 1].part = 1
      BY <1>2, <3>2, <3>3, Walk
    <3> QED BY <1>0, <1>7, <3>1, <3>2, <3>4
  <2>4. ASSUME ParseUnknown
        PROVE  replayed' /\ \E m \in Messages : Fragmented(m) /\ nextFragment'[m] > 0
    <3>1. /\ HasMessage /\ pc = "loop" /\ ~IsOpen /\ UNCHANGED <<replayed, nextFragment>>
          /\ header.index > 0
      BY <2>4 DEF ParseUnknown, Consume, device, returned
    <3>2. OnTrack /\ Fragmented(header.msg)
      BY <1>5, <1>8, <2>4, <3>1, TypeUnknown
    <3>3. /\ Stream[consumed_size + 1] = Cell(header.msg, header.index, 1)
          /\ header.msg \in Messages /\ header.index < nextFragment[header.msg]
          /\ consumed_size < Len(Stream)
      BY <3>1, <3>2, AtHeader
    <3>4. replayed
      <4>1. SUFFICES ASSUME ~replayed PROVE FALSE
        OBVIOUS
      <4>2. consumed_size + 1 \in 1..Len(Stream) /\ consumed_size + 1 > consumed_size
        BY <1>2, <3>3, StreamIs DEF TypeInv
      <4>3. /\ Stream[consumed_size + 1].msg = header.msg /\ Stream[consumed_size + 1].part = 1
            /\ Stream[consumed_size + 1].index > 0
        BY <3>1, <3>3, CellIs
      <4>4. Owner(header.msg) \/ AheadOf(consumed_size + 1, header.msg, 0)
        BY <3>2, <3>3, <4>1, <4>2, <4>3 DEF BegunOK
      <4>5. ~AheadOf(consumed_size + 1, header.msg, 0)
        BY <1>2 DEF AheadOf, Between
      <4>6. IsOpen
        BY <4>4, <4>5 DEF Owner, Holder, Open, IsOpen, identifier
      <4> QED BY <3>1, <4>6
    <3>5. nextFragment[header.msg] > 0
      <4>1. header.index \in 0..LastIndex(header.msg) /\ nextFragment[header.msg] \in Nat
        BY <1>2, <3>1, <3>2, <3>3, AtHeader
      <4> QED BY <3>1, <3>3, <4>1
    <3> QED BY <3>1, <3>2, <3>3, <3>4, <3>5
  <2>5. ASSUME RejectHeader PROVE FALSE
    <3>1. HasHeader /\ ~MagicMatches
      BY <2>5 DEF RejectHeader
    <3>2. consumed_size < buffer_size
      BY <1>2, <3>1, ConstantsAssumption DEF HasHeader
    <3> QED BY <1>8, <3>1, <3>2 DEF Lost, MagicMatches, header
  <2>6. ASSUME FinishParsing PROVE FALSE
    <3>1. pc = "loop" /\ pc' = "pop" /\ consumed_size' = 0 /\ OnTrack
      BY <1>5, <1>8, <2>6 DEF FinishParsing
    <3>2. consumed_size' < Len(Stream') /\ Stream'[1].part # 1 /\ consumed_size' < buffer_size'
      BY <1>0, <1>7, <3>1 DEF Lost
    <3>3. CASE /\ Shifted(parsing_buffer_, parsing_buffer_', consumed_size)
               /\ consumed_size < buffer_size
      <4>1. buffer_size' > 0 /\ parsing_buffer_'[1] = parsing_buffer_[consumed_size + 1]
        BY <1>2, <3>3 DEF Shifted, buffer_size
      <4> QED BY <1>0, <1>8, <3>1, <3>3, <4>1 DEF Lost
    <3>4. CASE Stream' = Stream
      BY <3>1, <3>2, <3>4 DEF StreamOK, Sound, Chained
    <3> QED BY <2>6, <3>3, <3>4, TypeFinish
  <2>7. ASSUME PopAllParsedMessages PROVE FALSE
    BY <1>6, <1>8, <2>7 DEF PopAllParsedMessages
  <2>8. ASSUME Reconnect PROVE FALSE
    BY <1>6, <1>8, <2>8 DEF Reconnect
  <2>9. ASSUME UNCHANGED vars PROVE FALSE
    BY <1>6, <1>8, <2>9 DEF vars
  <2> QED BY <2>1, <2>2, <2>3, <2>4, <2>5, <2>6, <2>7, <2>8, <2>9 DEF Next, Parse
<1> QED BY <1>4, <1>8
-----------------------------------------------------------------------------
(* What is still to be parsed, step by step *)

LEMMA AheadIs == \A m, i : Ahead(m, i) <=> AheadOf(Len(Stream) + 1, m, i)
BY DEF Ahead, AheadOf

LEMMA AheadSend ==
  ASSUME TypeInv, NEW m \in Messages, SendFragment(m)
  PROVE  /\ \A n, j : Ahead(n, j) => Ahead(n, j)'
         /\ \A n, j : Ahead(n, j)' => Ahead(n, j) \/ (n = m /\ j = nextFragment[m])
         /\ \A i : i = nextFragment[m] => Ahead(m, i)'
         /\ \A k \in 1..Len(Stream) : \A n, j : AheadOf(k, n, j) => AheadOf(k, n, j)'
         /\ \A k \in 1..Len(Stream') : k > Len(Stream) =>
              \A n, j : Ahead(n, j) => AheadOf(k, n, j)'
         /\ \A k \in 1..Len(Stream) : Stream'[k] = Stream[k]
         /\ \A k \in 1..Len(Stream') : k > Len(Stream) =>
              /\ Stream'[k].msg = m /\ Stream'[k].index = nextFragment[m]
              /\ Stream'[k] = Cell(m, nextFragment[m], k - Len(Stream))
         /\ consumed_size' = consumed_size /\ Len(Stream) \in Nat /\ Len(Stream') \in Nat
         /\ Len(Stream) < Len(Stream') /\ consumed_size \in 0..Len(Stream)
<1> DEFINE i == nextFragment[m]
<1>1. Grows(Stream, Stream', m, i) /\ consumed_size' = consumed_size
  BY SendStream DEF SendFragment
<1>2. /\ Len(Stream) \in Nat /\ Len(Stream') \in Nat /\ Len(Stream) < Len(Stream')
      /\ consumed_size \in 0..Len(Stream)
  <2>1. consumed_size \in 0..buffer_size /\ buffer_size \in Nat
    BY StreamIs DEF TypeInv, TypeOK
  <2>2. Len(Stream) = buffer_size + Len(wire) /\ Len(wire) \in Nat
    BY StreamIs DEF TypeInv
  <2>3. consumed_size \in 0..Len(Stream) /\ Len(Stream) \in Nat
    BY <2>1, <2>2
  <2>4. Len(Stream') = Len(Stream) + FragmentSize(m, i) /\ FragmentSize(m, i) \in Nat \ {0}
    BY <1>1 DEF Grows
  <2> QED BY <2>3, <2>4
<1>3. /\ \A k \in 1..Len(Stream) : Stream'[k] = Stream[k]
      /\ \A k \in 1..Len(Stream') : k > Len(Stream) =>
           /\ Stream'[k].msg = m /\ Stream'[k].index = i
           /\ Stream'[k] = Cell(m, i, k - Len(Stream))
  BY <1>1 DEF Grows
<1> HIDE DEF i
<1>4. ASSUME NEW n, NEW j, NEW k \in 1..(Len(Stream) + 1), AheadOf(k, n, j)
      PROVE  AheadOf(k, n, j)' /\ \A h \in 1..Len(Stream') : h > Len(Stream) => AheadOf(h, n, j)'
  <2>1. PICK l \in 1..Len(Stream) : consumed_size < l /\ l < k /\ Stream[l] = Cell(n, j, 1)
    BY <1>4 DEF AheadOf, Between
  <2>2. l \in 1..Len(Stream') /\ Stream'[l] = Cell(n, j, 1)
    BY <1>2, <1>3, <2>1
  <2>3. \A h \in 1..Len(Stream') : h > Len(Stream) => l < h
    BY <1>2
  <2> QED BY <1>1, <2>1, <2>2, <2>3 DEF AheadOf, Between
<1>5. ASSUME NEW n, NEW j, Ahead(n, j) PROVE Ahead(n, j)'
  <2>1. PICK l \in 1..Len(Stream) : consumed_size < l /\ Stream[l] = Cell(n, j, 1)
    BY <1>5 DEF Ahead, Between
  <2>2. l \in 1..Len(Stream') /\ Stream'[l] = Cell(n, j, 1) /\ l < Len(Stream') + 1
    BY <1>2, <1>3, <2>1
  <2> QED BY <1>1, <2>1, <2>2 DEF Ahead, Between
<1>6. ASSUME NEW n, NEW j, Ahead(n, j)' PROVE Ahead(n, j) \/ (n = m /\ j = i)
  <2>1. PICK l \in 1..Len(Stream') : consumed_size < l /\ Stream'[l] = Cell(n, j, 1)
    BY <1>1, <1>6 DEF Ahead, Between
  <2>2. CASE l <= Len(Stream)
    <3>1. l \in 1..Len(Stream) /\ l < Len(Stream) + 1
      BY <1>2, <2>2
    <3> QED BY <1>3, <2>1, <3>1 DEF Ahead, Between
  <2>3. CASE l > Len(Stream)
    BY <1>3, <2>1, <2>3, CellIs
  <2> QED BY <1>2, <2>2, <2>3
<1>7. ASSUME NEW j, j = i PROVE Ahead(m, j)'
  <2>1. Len(Stream) + 1 \in 1..Len(Stream') /\ (Len(Stream) + 1) - Len(Stream) = 1
    BY <1>2
  <2>2. Stream'[Len(Stream) + 1] = Cell(m, i, 1)
    BY <1>2, <1>3, <2>1
  <2>3. consumed_size' < Len(Stream) + 1 /\ Len(Stream) + 1 < Len(Stream') + 1
    BY <1>1, <1>2
  <2>4. Between(Stream', consumed_size', Len(Stream') + 1, Cell(m, j, 1))
    BY <1>7, <2>1, <2>2, <2>3 DEF Between
  <2> QED BY <2>4 DEF Ahead
<1>8. \A k \in 1..Len(Stream) : \A n, j : AheadOf(k, n, j) => AheadOf(k, n, j)'
  <2>1. \A k \in 1..Len(Stream) : k \in 1..(Len(Stream) + 1)
    BY <1>2
  <2> QED BY <1>4, <2>1
<1>9. \A k \in 1..Len(Stream') : k > Len(Stream) => \A n, j : Ahead(n, j) => AheadOf(k, n, j)'
  <2>1. Len(Stream) + 1 \in 1..(Len(Stream) + 1)
    BY <1>2
  <2> QED BY <1>4, <2>1, AheadIs
<1>10. /\ \A n, j : Ahead(n, j) => Ahead(n, j)'
       /\ \A n, j : Ahead(n, j)' => Ahead(n, j) \/ (n = m /\ j = i)
  BY <1>5, <1>6
<1> QED BY <1>1, <1>2, <1>3, <1>7, <1>8, <1>9, <1>10 DEF i

LEMMA AheadTurn ==
  ASSUME TypeInv, StreamOK, OnTrack, HasMessage, Turn
  PROVE  /\ \A k \in Nat : \A n, j :
              /\ AheadOf(k, n, j) /\ (n # header.msg \/ j # header.index) => AheadOf(k, n, j)'
              /\ AheadOf(k, n, j)' => AheadOf(k, n, j)
         /\ \A n, j :
              /\ Ahead(n, j) /\ (n # header.msg \/ j # header.index) => Ahead(n, j)'
              /\ Ahead(n, j)' => Ahead(n, j)
         /\ \A n, j : Ahead(n, j)' => n # header.msg \/ j \notin 0..header.index
         /\ \A j \in 0..header.index : Ahead(header.msg, j) => j = header.index
         /\ Ahead(header.msg, header.index) /\ \A n, j : ~AheadOf(consumed_size + 1, n, j)
         /\ \A l \in 1..Len(Stream) :
              consumed_size' < l /\ Stream[l].msg = header.msg /\ Stream[l].part = 1 =>
                header.index < Stream[l].index
         /\ Stream' = Stream /\ consumed_size' \in Nat /\ consumed_size < consumed_size'
         /\ consumed_size + 1 \in 1..Len(Stream)
<1> DEFINE m == header.msg
           i == header.index
           c == consumed_size
           d == consumed_size'
<1>1. /\ Stream \in Seq(CellType) /\ Chained(Stream) /\ InOrder(Stream)
      /\ \A k \in 1..Len(Stream) : Proper(Stream[k])
      /\ c \in Nat /\ c < Len(Stream) /\ Stream[c + 1] = Cell(m, i, 1)
  BY AtHeader DEF Sound
<1>2. Stream' = Stream /\ d = c + FragmentSize(m, i)
  BY DEF Turn
<1>n. Len(Stream) \in Nat /\ Len(Stream) + 1 \in Nat
  BY <1>1
<1> HIDE DEF m, i, c, d
<1>3. /\ d \in Nat /\ c < d /\ d <= Len(Stream) /\ i \in Nat
      /\ \A k \in Nat : \A n, j :
           /\ Between(Stream, c, k, Cell(n, j, 1)) /\ (n # m \/ j # i)
                => Between(Stream, d, k, Cell(n, j, 1))
           /\ Between(Stream, d, k, Cell(n, j, 1)) => Between(Stream, c, k, Cell(n, j, 1))
  BY <1>1, <1>2, HeaderPassed
<1>4. \A l \in 1..Len(Stream) : c + 1 < l /\ Stream[l].msg = m /\ Stream[l].part = 1 =>
        i < Stream[l].index
  BY <1>1, <1>2, HeaderPassed
<1>5. \A k \in Nat : \A j \in 0..i :
        ~Between(Stream, c + 1, k, Cell(m, j, 1)) /\ ~Between(Stream, d, k, Cell(m, j, 1))
  BY <1>1, <1>2, HeaderPassed
<1>6. \A k \in Nat : \A n, j :
        /\ AheadOf(k, n, j) /\ (n # header.msg \/ j # header.index) => AheadOf(k, n, j)'
        /\ AheadOf(k, n, j)' => AheadOf(k, n, j)
  BY <1>2, <1>3 DEF AheadOf, m, i, c, d
<1>7. \A n, j :
        /\ Ahead(n, j) /\ (n # header.msg \/ j # header.index) => Ahead(n, j)'
        /\ Ahead(n, j)' => Ahead(n, j)
  BY <1>2, <1>3, <1>n DEF Ahead, m, i, c, d
<1>8. ASSUME NEW n, NEW j, Ahead(n, j)' PROVE n # header.msg \/ j \notin 0..header.index
  <2>1. \A h \in 0..i : ~Between(Stream, d, Len(Stream) + 1, Cell(m, h, 1))
    BY <1>5, <1>n
  <2>2. Between(Stream, d, Len(Stream) + 1, Cell(n, j, 1))
    BY <1>2, <1>8 DEF Ahead, d
  <2> QED BY <2>1, <2>2 DEF m, i
<1>9. ASSUME NEW j \in 0..i, Ahead(m, j) PROVE j = i
  <2>1. PICK l \in 1..Len(Stream) : c < l /\ l < Len(Stream) + 1 /\ Stream[l] = Cell(m, j, 1)
    BY <1>9 DEF Ahead, Between, c
  <2>2. CASE l = c + 1
    BY <1>1, <2>1, <2>2, CellsDiffer
  <2>3. CASE c + 1 < l
    BY <1>5, <1>n, <2>1, <2>3 DEF Between
  <2> QED BY <1>1, <2>1, <2>2, <2>3
<1>10. c + 1 \in 1..Len(Stream)
  BY <1>1, <1>n
<1>11. Ahead(m, i)
  <2>1. c < c + 1 /\ c + 1 < Len(Stream) + 1
    BY <1>1, <1>n
  <2> QED BY <1>1, <1>10, <2>1 DEF Ahead, Between, c
<1>12. \A n, j : ~AheadOf(c + 1, n, j)
  BY <1>1, <1>n DEF AheadOf, Between, c
<1>13. \A l \in 1..Len(Stream) : d < l /\ Stream[l].msg = m /\ Stream[l].part = 1 =>
        i < Stream[l].index
  <2>1. \A l \in 1..Len(Stream) : d < l => c + 1 < l
    BY <1>1, <1>3, <1>n
  <2> QED BY <1>4, <2>1
<1> QED BY <1>2, <1>3, <1>6, <1>7, <1>8, <1>9, <1>10, <1>11, <1>12, <1>13 DEF m, i, c, d

LEMMA AheadMove ==
  ASSUME TypeInv, Move
  PROVE  /\ \A k \in Nat : \A n, j : AheadOf(k, n, j)' <=> AheadOf(consumed_size + k, n, j)
         /\ \A n, j : Ahead(n, j)' <=> Ahead(n, j)
         /\ \A k \in 1..Len(Stream') : /\ Stream'[k] = Stream[consumed_size + k]
                                       /\ consumed_size + k \in 1..Len(Stream)
                                       /\ consumed_size + k > consumed_size
<1>1. Shifted(Stream, Stream', consumed_size) /\ consumed_size' = 0
  BY DEF Move
<1>2. /\ Len(Stream) \in Nat /\ Len(Stream') \in Nat /\ consumed_size \in Nat
      /\ Len(Stream) = consumed_size + Len(Stream')
      /\ \A k \in 1..Len(Stream') : Stream'[k] = Stream[consumed_size + k]
  BY <1>1 DEF Shifted
<1>3. ASSUME NEW k \in Nat, NEW n, NEW j
      PROVE  AheadOf(k, n, j)' <=> AheadOf(consumed_size + k, n, j)
  <2>1. Between(Stream, consumed_size + 0, consumed_size + k, Cell(n, j, 1))
          <=> Between(Stream', 0, k, Cell(n, j, 1))
    BY <1>1, BetweenShifted
  <2>2. consumed_size + 0 = consumed_size
    BY <1>2
  <2> QED BY <1>1, <2>1, <2>2 DEF AheadOf
<1>4. ASSUME NEW n, NEW j PROVE Ahead(n, j)' <=> Ahead(n, j)
  <2>1. Len(Stream') + 1 \in Nat /\ consumed_size + (Len(Stream') + 1) = Len(Stream) + 1
    BY <1>2
  <2>3. Ahead(n, j)' <=> Between(Stream', 0, Len(Stream') + 1, Cell(n, j, 1))
    BY <1>1 DEF Ahead
  <2>4. Between(Stream', 0, Len(Stream') + 1, Cell(n, j, 1))
          <=> Between(Stream, consumed_size, Len(Stream) + 1, Cell(n, j, 1))
    <3>1. Between(Stream, consumed_size + 0, consumed_size + (Len(Stream') + 1), Cell(n, j, 1))
            <=> Between(Stream', 0, Len(Stream') + 1, Cell(n, j, 1))
      BY <1>1, <2>1, BetweenShifted
    <3>2. consumed_size + 0 = consumed_size
      BY <1>2
    <3> QED BY <2>1, <3>1, <3>2
  <2> QED BY <2>3, <2>4 DEF Ahead
<1>5. \A k \in 1..Len(Stream') : /\ consumed_size + k \in 1..Len(Stream)
                                 /\ consumed_size + k > consumed_size
  BY <1>2
<1> QED BY <1>2, <1>3, <1>4, <1>5

LEMMA AheadAgain ==
  ASSUME TypeInv, Again
  PROVE  /\ \A k : \A n, j : AheadOf(k, n, j) => AheadOf(k, n, j)'
         /\ \A n, j : Ahead(n, j) => Ahead(n, j)'
<1>1. Stream' = Stream /\ consumed_size' = 0 /\ consumed_size \in Nat
  BY StreamIs DEF Again, TypeInv, TypeOK
<1>2. ASSUME NEW k, NEW c, Between(Stream, consumed_size, k, c) PROVE Between(Stream, 0, k, c)
  BY <1>1, <1>2 DEF Between
<1> QED BY <1>1, <1>2 DEF AheadOf, Ahead

\* What is parsed with the fragment at the front.
LEMMA TurnParsed ==
  ASSUME TypeInv, HasMessage, Turn
  PROVE  /\ \A m : HasParsed(m)' <=>
              HasParsed(m) \/ (header.index = LastIndex(header.msg) /\ m = header.msg)
         /\ DOMAIN parsed = 1..Len(parsed) /\ Len(parsed) \in Nat
         /\ \A k \in 1..Len(parsed) : parsed'[k] = parsed[k]
         /\ header.index = LastIndex(header.msg) =>
              /\ DOMAIN parsed' = 1..(Len(parsed) + 1) /\ Len(parsed') = Len(parsed) + 1
              /\ parsed'[Len(parsed) + 1] = Parsed(header.msg, Data)
         /\ header.index # LastIndex(header.msg) => parsed' = parsed
         /\ Parsed(header.msg, Data).msg = header.msg
<1> DEFINE x == Parsed(header.msg, Data)
<1>1. parsed \in Seq(ParsedType) /\ Len(parsed) \in Nat /\ DOMAIN parsed = 1..Len(parsed)
  BY ParsedIsSeq DEF TypeInv
<1>2. parsed' = IF header.index = LastIndex(header.msg) THEN Append(parsed, x) ELSE parsed
  BY DEF Turn
<1>3. x.msg = header.msg
  BY DEF Parsed
<1> HIDE DEF x
<1>4. CASE header.index = LastIndex(header.msg)
  <2>1. parsed' = Append(parsed, x)
    BY <1>2, <1>4
  <2>2. /\ DOMAIN parsed' = 1..(Len(parsed) + 1) /\ Len(parsed') = Len(parsed) + 1
        /\ parsed'[Len(parsed) + 1] = x /\ \A k \in 1..Len(parsed) : parsed'[k] = parsed[k]
    BY <1>1, <2>1
  <2>3. ASSUME NEW m PROVE HasParsed(m)' <=> HasParsed(m) \/ m = header.msg
    <3>1. ASSUME HasParsed(m) \/ m = header.msg PROVE HasParsed(m)'
      <4>1. CASE HasParsed(m)
        <5>1. PICK k \in 1..Len(parsed) : parsed[k].msg = m
          BY <1>1, <4>1 DEF HasParsed
        <5>2. k \in 1..(Len(parsed) + 1)
          BY <1>1
        <5> QED BY <2>2, <5>1, <5>2 DEF HasParsed
      <4>2. CASE m = header.msg
        <5>1. Len(parsed) + 1 \in 1..(Len(parsed) + 1)
          BY <1>1
        <5> QED BY <1>3, <2>2, <4>2, <5>1 DEF HasParsed
      <4> QED BY <3>1, <4>1, <4>2
    <3>2. ASSUME HasParsed(m)' PROVE HasParsed(m) \/ m = header.msg
      <4>1. PICK k \in 1..(Len(parsed) + 1) : parsed'[k].msg = m
        BY <2>2, <3>2 DEF HasParsed
      <4>2. CASE k = Len(parsed) + 1
        BY <1>3, <2>2, <4>1, <4>2
      <4>3. CASE k \in 1..Len(parsed)
        BY <1>1, <2>2, <4>1, <4>3 DEF HasParsed
      <4> QED BY <1>1, <4>2, <4>3
    <3> QED BY <3>1, <3>2
  <2> QED BY <1>1, <1>3, <1>4, <2>2, <2>3 DEF x
<1>5. CASE header.index # LastIndex(header.msg)
  <2>1. parsed' = parsed
    BY <1>2, <1>5
  <2> QED BY <1>1, <1>3, <1>5, <2>1 DEF HasParsed, x
<1> QED BY <1>4, <1>5
-----------------------------------------------------------------------------
(* What has been sent and what has been parsed *)

LEMMA SentGrows ==
  ASSUME TypeInv, NEW m \in Messages, SendFragment(m)
  PROVE  /\ DOMAIN sent = 1..Len(sent) /\ Len(sent) \in Nat
         /\ \A k \in 1..Len(sent) : sent'[k] = sent[k]
         /\ \/ /\ nextFragment[m] = LastIndex(m)
               /\ DOMAIN sent' = 1..(Len(sent) + 1) /\ sent'[Len(sent) + 1] = Whole(m)
            \/ nextFragment[m] # LastIndex(m) /\ sent' = sent
         /\ UNCHANGED <<parsed, torn, replayed, pc, parsing_buffer_,
                        fragmented_buffers_by_identifier>>
<1>1. sent \in Seq(ParsedType) /\ Len(sent) \in Nat /\ DOMAIN sent = 1..Len(sent)
  BY DEF TypeInv, TypeOK
<1>2. sent' = sent \o (IF nextFragment'[m] = FragmentCount(m) THEN <<Whole(m)>> ELSE <<>>)
  BY DEF SendFragment
<1>3. UNCHANGED <<parsed, torn, replayed, pc, parsing_buffer_, fragmented_buffers_by_identifier>>
  BY DEF SendFragment, returned, sessions, parsed
<1>4. /\ nextFragment'[m] = nextFragment[m] + 1 /\ nextFragment[m] \in 0..LastIndex(m)
      /\ LastIndex(m) \in Nat /\ FragmentCount(m) = LastIndex(m) + 1
  BY SendStream, SizesOfMessages
<1>5. CASE nextFragment[m] = LastIndex(m)
  <2>1. sent' = sent \o <<Whole(m)>>
    BY <1>2, <1>4, <1>5
  <2>2. Whole(m) \in ParsedType
    BY WholeIsParsed
  <2>3. sent' = Append(sent, Whole(m))
    BY <1>1, <2>1, <2>2
  <2>4. /\ DOMAIN sent' = 1..(Len(sent) + 1) /\ sent'[Len(sent) + 1] = Whole(m)
        /\ \A k \in 1..Len(sent) : sent'[k] = sent[k]
    BY <1>1, <2>2, <2>3
  <2> QED BY <1>1, <1>3, <1>5, <2>4
<1>6. CASE nextFragment[m] # LastIndex(m)
  <2>1. nextFragment'[m] # FragmentCount(m)
    BY <1>4, <1>6
  <2>2. sent' = sent
    BY <1>1, <1>2, <2>1, ConcatEmptySeq
  <2> QED BY <1>1, <1>3, <1>6, <2>2
<1> QED BY <1>5, <1>6

LEMMA SentStep ==
  ASSUME TypeInv, StreamOK, SentOK, [Next]_vars
  PROVE  SentOK'
<1>1. ASSUME NEW m \in Messages, SendFragment(m) PROVE SentOK'
  <2>1. /\ \A n \in Messages : n # m => nextFragment'[n] = nextFragment[n]
        /\ nextFragment'[m] = nextFragment[m] + 1 /\ nextFragment[m] \in 0..LastIndex(m)
        /\ LastIndex(m) \in Nat /\ FragmentCount(m) = LastIndex(m) + 1
    BY <1>1, SendStream, SizesOfMessages
  <2>2. /\ DOMAIN sent = 1..Len(sent) /\ Len(sent) \in Nat
        /\ \A k \in 1..Len(sent) : sent'[k] = sent[k]
        /\ \/ /\ nextFragment[m] = LastIndex(m)
              /\ DOMAIN sent' = 1..(Len(sent) + 1) /\ sent'[Len(sent) + 1] = Whole(m)
           \/ nextFragment[m] # LastIndex(m) /\ sent' = sent
        /\ parsed' = parsed
    BY <1>1, SentGrows
  <2>3. nextFragment[m] # FragmentCount(m)
    BY <2>1
  <2>4. \A i \in 1..Len(sent) : sent'[i].msg # m /\ sent'[i].msg \in Messages
    BY <2>2, <2>3 DEF SentOK
  <2>5. \A i \in 1..Len(sent) :
          /\ sent'[i] = Whole(sent'[i].msg)
          /\ nextFragment'[sent'[i].msg] = FragmentCount(sent'[i].msg)
    BY <2>1, <2>2, <2>4 DEF SentOK
  <2>6. \A k \in DOMAIN parsed' :
          nextFragment'[parsed'[k].msg] = FragmentCount(parsed'[k].msg)
    <3>1. ASSUME NEW k \in DOMAIN parsed
          PROVE  nextFragment'[parsed[k].msg] = FragmentCount(parsed[k].msg)
      <4>1. nextFragment[parsed[k].msg] = FragmentCount(parsed[k].msg)
        BY DEF SentOK
      <4>2. parsed[k].msg \in Messages /\ parsed[k].msg # m
        <5>1. parsed[k] \in ParsedType
          BY ParsedIsSeq DEF TypeInv
        <5> QED BY <2>3, <4>1, <5>1 DEF ParsedType
      <4> QED BY <2>1, <4>1, <4>2
    <3> QED BY <2>2, <3>1
  <2>7. CASE sent' = sent
    BY <2>2, <2>4, <2>5, <2>6, <2>7 DEF SentOK
  <2>8. CASE /\ nextFragment[m] = LastIndex(m)
             /\ DOMAIN sent' = 1..(Len(sent) + 1) /\ sent'[Len(sent) + 1] = Whole(m)
    <3>1. sent'[Len(sent) + 1].msg = m
      BY <2>8, WholeIsParsed
    <3>2. \A i \in DOMAIN sent' : i \in 1..Len(sent) \/ i = Len(sent) + 1
      BY <2>2, <2>8
    <3>3. ASSUME NEW i \in DOMAIN sent'
          PROVE  /\ sent'[i].msg \in Messages /\ sent'[i] = Whole(sent'[i].msg)
                 /\ nextFragment'[sent'[i].msg] = FragmentCount(sent'[i].msg)
      BY <2>1, <2>4, <2>5, <2>8, <3>1, <3>2
    <3>4. ASSUME NEW i \in DOMAIN sent', NEW j \in DOMAIN sent', sent'[i].msg = sent'[j].msg
          PROVE  i = j
      <4>1. CASE i \in 1..Len(sent) /\ j \in 1..Len(sent)
        BY <2>2, <3>4, <4>1 DEF SentOK
      <4>2. CASE i = Len(sent) + 1 \/ j = Len(sent) + 1
        BY <2>4, <3>1, <3>2, <3>4, <4>2
      <4> QED BY <3>2, <4>1, <4>2
    <3> QED BY <2>6, <3>3, <3>4 DEF SentOK
  <2> QED BY <2>2, <2>7, <2>8
<1>2. CASE Quiet \/ Move \/ Again \/ Derailed
  <2>1. UNCHANGED <<sent, parsed, nextFragment>>
    BY <1>2 DEF Quiet, Move, Again, Derailed
  <2> QED BY <2>1 DEF SentOK
<1>3. CASE ParseSingle \/ ParseFirst \/ ParseFragment
  <2>1. HasMessage /\ Turn
    BY <1>3, TurnIs DEF ParseSingle, ParseFirst, ParseFragment
  <2>2. UNCHANGED <<sent, nextFragment>>
    BY <2>1 DEF Turn
  <2>3. CASE header.index = LastIndex(header.msg)
    <3>1. nextFragment[header.msg] = FragmentCount(header.msg)
      <4>1. /\ header.msg \in Messages /\ header.index < nextFragment[header.msg]
            /\ nextFragment[header.msg] \in 0..FragmentCount(header.msg)
            /\ LastIndex(header.msg) \in Nat
            /\ FragmentCount(header.msg) = LastIndex(header.msg) + 1
        BY <2>1, MessageIs, SizesOfMessages DEF TypeInv, CellsOK
      <4> QED BY <2>3, <4>1
    <3>2. /\ DOMAIN parsed' = 1..(Len(parsed) + 1) /\ DOMAIN parsed = 1..Len(parsed)
          /\ Len(parsed) \in Nat /\ parsed'[Len(parsed) + 1].msg = header.msg
          /\ \A k \in 1..Len(parsed) : parsed'[k] = parsed[k]
      BY <2>1, <2>3, TurnParsed
    <3>3. ASSUME NEW k \in DOMAIN parsed'
          PROVE  nextFragment'[parsed'[k].msg] = FragmentCount(parsed'[k].msg)
      <4>1. CASE k = Len(parsed) + 1
        BY <2>2, <3>1, <3>2, <4>1
      <4>2. CASE k \in 1..Len(parsed)
        BY <2>2, <3>2, <4>2 DEF SentOK
      <4> QED BY <3>2, <4>1, <4>2
    <3> QED BY <2>2, <3>3 DEF SentOK
  <2>4. CASE header.index # LastIndex(header.msg)
    <3>1. parsed' = parsed
      BY <2>1, <2>4, TurnParsed
    <3> QED BY <2>2, <3>1 DEF SentOK
  <2> QED BY <2>3, <2>4
<1>4. CASE Reconnect
  <2>1. sent' = <<>> /\ parsed' = <<>>
    BY <1>4, TypeReconnect
  <2> QED BY <2>1 DEF SentOK
<1> QED BY <1>1, <1>2, <1>3, <1>4, StepIs

\* A message whose last header is on its way has been sent.
LEMMA LastIsSent ==
  ASSUME TypeInv, NEW k \in 1..Len(Stream), NEW m, Stream[k] = Cell(m, LastIndex(m), 1)
  PROVE  m \in Messages /\ nextFragment[m] = FragmentCount(m)
<1>1. Proper(Stream[k]) /\ Stream[k].index < nextFragment[Stream[k].msg]
  BY DEF TypeInv, CellsOK, Belong
<1>2. m \in Messages /\ LastIndex(m) < nextFragment[m]
  BY <1>1, CellIs DEF Proper
<1>3. /\ nextFragment[m] \in 0..FragmentCount(m) /\ LastIndex(m) \in Nat
      /\ FragmentCount(m) = LastIndex(m) + 1
  BY <1>2, SizesOfMessages DEF TypeInv, CellsOK
<1> QED BY <1>2, <1>3

-----------------------------------------------------------------------------
(* In the order in which they end *)

\* EarlierOK, of any state.
Has(p, m) == \E k \in DOMAIN p : p[k].msg = m
Final(m) == Cell(m, LastIndex(m), 1)
EarlierAt(snt, p, s, c) ==
  /\ \A i \in DOMAIN snt : Has(p, snt[i].msg) \/ Between(s, c, Len(s) + 1, Final(snt[i].msg))
  /\ \A i, j \in DOMAIN snt : \A k \in 1..Len(s) :
       j < i /\ s[k] = Final(snt[i].msg) => Has(p, snt[j].msg)
         \/ Between(s, c, k, Final(snt[j].msg))

LEMMA EarlierKept ==
  ASSUME NEW snt, NEW p, NEW s, NEW c, EarlierAt(snt, p, s, c),
         NEW p2, NEW s2, NEW c2, NEW d \in Nat,
         \A m : Has(p, m) => Has(p2, m),
         \A m : Between(s, c, Len(s) + 1, Final(m)) =>
                  Has(p2, m) \/ Between(s2, c2, Len(s2) + 1, Final(m)),
         \A k \in 1..Len(s2) : d + k \in 1..Len(s) /\ s2[k] = s[d + k],
         \A k \in 1..Len(s2) : \A m :
           Between(s, c, d + k, Final(m)) => Has(p2, m) \/ Between(s2, c2, k, Final(m))
  PROVE  EarlierAt(snt, p2, s2, c2)
<1>1. ASSUME NEW i \in DOMAIN snt
      PROVE  Has(p2, snt[i].msg) \/ Between(s2, c2, Len(s2) + 1, Final(snt[i].msg))
  <2>1. Has(p, snt[i].msg) \/ Between(s, c, Len(s) + 1, Final(snt[i].msg))
    BY DEF EarlierAt
  <2> QED BY <2>1
<1>2. ASSUME NEW i \in DOMAIN snt, NEW j \in DOMAIN snt, NEW k \in 1..Len(s2),
             j < i, s2[k] = Final(snt[i].msg)
      PROVE  Has(p2, snt[j].msg) \/ Between(s2, c2, k, Final(snt[j].msg))
  <2>1. d + k \in 1..Len(s) /\ s[d + k] = Final(snt[i].msg)
    BY <1>2
  <2>2. Has(p, snt[j].msg) \/ Between(s, c, d + k, Final(snt[j].msg))
    BY <1>2, <2>1 DEF EarlierAt
  <2> QED BY <2>2
<1> QED BY <1>1, <1>2 DEF EarlierAt

LEMMA EarlierStep ==
  ASSUME TypeInv, StreamOK, SentOK, EarlierOK, [Next]_vars
  PROVE  EarlierOK'
<1>0. SUFFICES ASSUME OnTrack' PROVE EarlierAt(sent', parsed', Stream', consumed_size')
  BY DEF EarlierOK, EarlierAt, Ahead, AheadOf, HasParsed, Has, Final
<1>1. OnTrack
  BY <1>0, TrackKept
<1>2. EarlierAt(sent, parsed, Stream, consumed_size)
  BY <1>1 DEF EarlierOK, EarlierAt, Ahead, AheadOf, HasParsed, Has, Final
<1>3. ASSUME NEW m \in Messages, SendFragment(m)
      PROVE  EarlierAt(sent', parsed', Stream', consumed_size')
  <2> DEFINE c == consumed_size
             s == Stream
             t == Stream'
  <2>1. /\ DOMAIN sent = 1..Len(sent) /\ Len(sent) \in Nat
        /\ \A k \in 1..Len(sent) : sent'[k] = sent[k]
        /\ \/ /\ nextFragment[m] = LastIndex(m)
              /\ DOMAIN sent' = 1..(Len(sent) + 1) /\ sent'[Len(sent) + 1] = Whole(m)
           \/ nextFragment[m] # LastIndex(m) /\ sent' = sent
        /\ parsed' = parsed
    BY <1>3, SentGrows
  <2>2. /\ Len(s) \in Nat /\ Len(t) \in Nat /\ Len(s) < Len(t) /\ c \in 0..Len(s)
        /\ consumed_size' = c /\ \A k \in 1..Len(s) : t[k] = s[k]
        /\ \A k \in 1..Len(t) : k > Len(s) =>
             t[k] = Cell(m, nextFragment[m], k - Len(s)) /\ t[k].msg = m
    BY <1>3, AheadSend
  <2>3. ASSUME NEW n, Between(s, c, Len(s) + 1, Final(n))
        PROVE  /\ Between(t, c, Len(t) + 1, Final(n))
               /\ \A k \in 1..Len(t) : k > Len(s) => Between(t, c, k, Final(n))
    <3>1. PICK l \in 1..Len(s) : c < l /\ s[l] = Final(n)
      BY <2>3 DEF Between
    <3>2. l \in 1..Len(t) /\ t[l] = Final(n) /\ l < Len(t) + 1
      BY <2>2, <3>1
    <3>3. \A k \in 1..Len(t) : k > Len(s) => l < k
      BY <2>2, <3>1
    <3> QED BY <3>1, <3>2, <3>3 DEF Between
  <2>4. ASSUME NEW n, NEW k \in 1..Len(s), Between(s, c, k, Final(n))
        PROVE  Between(t, c, k, Final(n))
    <3>1. PICK l \in 1..Len(s) : c < l /\ l < k /\ s[l] = Final(n)
      BY <2>4 DEF Between
    <3>2. l \in 1..Len(t) /\ t[l] = Final(n)
      BY <2>2, <3>1
    <3> QED BY <3>1, <3>2 DEF Between
  <2>5. /\ nextFragment[m] # FragmentCount(m)
        /\ \A i \in 1..Len(sent) : sent[i].msg # m
    <3>1. nextFragment[m] # FragmentCount(m)
      BY <1>3, SendStream, SizesOfMessages
    <3> QED BY <2>1, <3>1 DEF SentOK
  <2>6. ASSUME nextFragment[m] = LastIndex(m) PROVE Between(t, c, Len(t) + 1, Final(m))
    <3>1. Ahead(m, LastIndex(m))'
      BY <1>3, <2>6, AheadSend
    <3> QED BY <2>2, <3>1 DEF Ahead, Final
  <2>7. Whole(m).msg = m
    BY WholeIsParsed
  <2>8. \A i \in DOMAIN sent' : i \in 1..Len(sent) \/
          (i = Len(sent) + 1 /\ sent'[i].msg = m /\ nextFragment[m] = LastIndex(m))
    BY <2>1, <2>7
  <2>9. ASSUME NEW i \in DOMAIN sent'
        PROVE  Has(parsed', sent'[i].msg) \/ Between(t, c, Len(t) + 1, Final(sent'[i].msg))
    <3>1. CASE i \in 1..Len(sent)
      <4>1. /\ sent'[i] = sent[i]
            /\ Has(parsed, sent[i].msg) \/ Between(s, c, Len(s) + 1, Final(sent[i].msg))
        BY <1>2, <2>1, <3>1 DEF EarlierAt
      <4> QED BY <2>1, <2>3, <4>1
    <3>2. CASE i \notin 1..Len(sent)
      BY <2>6, <2>8, <3>2
    <3> QED BY <3>1, <3>2
  <2>10. ASSUME NEW i \in DOMAIN sent', NEW j \in DOMAIN sent', NEW k \in 1..Len(t), j < i,
                t[k] = Final(sent'[i].msg)
         PROVE  Has(parsed', sent'[j].msg) \/ Between(t, c, k, Final(sent'[j].msg))
    <3>1. j \in 1..Len(sent)
      BY <2>1, <2>8, <2>10
    <3>2. sent'[j] = sent[j]
      BY <2>1, <3>1
    <3>3. CASE k > Len(s)
      <4>1. Has(parsed, sent[j].msg) \/ Between(s, c, Len(s) + 1, Final(sent[j].msg))
        BY <1>2, <2>1, <3>1 DEF EarlierAt
      <4> QED BY <2>1, <2>3, <3>2, <3>3, <4>1
    <3>4. CASE k <= Len(s)
      <4>1. k \in 1..Len(s) /\ s[k] = Final(sent'[i].msg)
        BY <2>2, <2>10, <3>4
      <4>2. nextFragment[sent'[i].msg] = FragmentCount(sent'[i].msg)
        BY <4>1, LastIsSent DEF Final
      <4>3. i \in 1..Len(sent) /\ sent'[i] = sent[i]
        BY <2>1, <2>5, <2>8, <4>2
      <4>4. Has(parsed, sent[j].msg) \/ Between(s, c, k, Final(sent[j].msg))
        BY <1>2, <2>1, <2>10, <3>1, <4>1, <4>3 DEF EarlierAt
      <4> QED BY <2>1, <2>4, <3>2, <4>1, <4>4
    <3> QED BY <2>2, <3>3, <3>4
  <2> QED BY <2>2, <2>9, <2>10 DEF EarlierAt
<1>4. CASE Quiet
  BY <1>2, <1>4 DEF Quiet
<1>5. ASSUME ParseSingle \/ ParseFirst \/ ParseFragment
      PROVE  EarlierAt(sent', parsed', Stream', consumed_size')
  <2>1. HasMessage /\ Turn
    BY <1>5, TurnIs DEF ParseSingle, ParseFirst, ParseFragment
  <2>2. sent' = sent /\ Stream' = Stream
    BY <2>1 DEF Turn
  <2>3. \A m : Has(parsed, m) => Has(parsed', m)
    BY <2>1, TurnParsed DEF HasParsed, Has
  <2>4. ASSUME NEW m, m = header.msg, LastIndex(m) = header.index PROVE Has(parsed', m)
    BY <2>1, <2>4, TurnParsed DEF HasParsed, Has
  <2>5. \A m : Between(Stream, consumed_size, Len(Stream) + 1, Final(m)) =>
          Has(parsed', m) \/ Between(Stream, consumed_size', Len(Stream) + 1, Final(m))
    <3>1. ASSUME NEW m, Ahead(m, LastIndex(m)), m # header.msg \/ LastIndex(m) # header.index
          PROVE  Ahead(m, LastIndex(m))'
      BY <1>1, <2>1, <3>1, AheadTurn
    <3> QED BY <2>2, <2>4, <3>1 DEF Ahead, Final
  <2>6. \A k \in Nat : \A m : Between(Stream, consumed_size, k, Final(m)) =>
          Has(parsed', m) \/ Between(Stream, consumed_size', k, Final(m))
    <3>1. ASSUME NEW k \in Nat, NEW m, AheadOf(k, m, LastIndex(m)),
                 m # header.msg \/ LastIndex(m) # header.index
          PROVE  AheadOf(k, m, LastIndex(m))'
      BY <1>1, <2>1, <3>1, AheadTurn
    <3> QED BY <2>2, <2>4, <3>1 DEF AheadOf, Final
  <2>7. /\ \A k \in 1..Len(Stream) : 0 + k \in 1..Len(Stream) /\ Stream[k] = Stream[0 + k]
        /\ \A k \in 1..Len(Stream) : \A m : Between(Stream, consumed_size, 0 + k, Final(m)) =>
             Has(parsed', m) \/ Between(Stream, consumed_size', k, Final(m))
    <3>1. \A k \in 1..Len(Stream) : k \in Nat /\ 0 + k = k
      OBVIOUS
    <3> QED BY <2>6, <3>1
  <2>8. EarlierAt(sent, parsed', Stream, consumed_size')
    <3>1. 0 \in Nat
      OBVIOUS
    <3> QED BY <1>2, <2>3, <2>5, <2>7, <3>1, EarlierKept
  <2> QED BY <2>2, <2>8
<1>6. CASE Move
  <2>1. sent' = sent /\ parsed' = parsed /\ consumed_size' = 0 /\ consumed_size \in Nat
    BY <1>6, StreamIs DEF Move, TypeInv, TypeOK
  <2>2. \A k \in 1..Len(Stream') : /\ Stream'[k] = Stream[consumed_size + k]
                                   /\ consumed_size + k \in 1..Len(Stream) /\ k \in Nat
    BY <1>6, AheadMove
  <2>3. \A k \in Nat : \A m : Between(Stream, consumed_size, consumed_size + k, Final(m)) =>
          Between(Stream', consumed_size', k, Final(m))
    <3>1. ASSUME NEW k \in Nat, NEW m, AheadOf(consumed_size + k, m, LastIndex(m))
          PROVE  AheadOf(k, m, LastIndex(m))'
      BY <1>6, <3>1, AheadMove
    <3> QED BY <3>1 DEF AheadOf, Final
  <2>4. \A m : Between(Stream, consumed_size, Len(Stream) + 1, Final(m)) =>
          Between(Stream', consumed_size', Len(Stream') + 1, Final(m))
    <3>1. ASSUME NEW m, Ahead(m, LastIndex(m)) PROVE Ahead(m, LastIndex(m))'
      BY <1>6, <3>1, AheadMove
    <3> QED BY <3>1 DEF Ahead, Final
  <2>5. EarlierAt(sent, parsed, Stream', consumed_size')
    BY <1>2, <2>1, <2>2, <2>3, <2>4, EarlierKept
  <2> QED BY <2>1, <2>5
<1>7. CASE Again
  <2>1. /\ sent' = sent /\ parsed' = parsed /\ Stream' = Stream /\ consumed_size' = 0
        /\ consumed_size \in Nat
    BY <1>7, StreamIs DEF Again, TypeInv, TypeOK
  <2>2. \A k, m : Between(Stream, consumed_size, k, Final(m)) =>
                    Between(Stream, consumed_size', k, Final(m))
    BY <2>1 DEF Between
  <2>3. \A k \in 1..Len(Stream) : 0 + k = k
    OBVIOUS
  <2>4. EarlierAt(sent, parsed, Stream, consumed_size')
    BY <1>2, <2>2, <2>3, EarlierKept
  <2> QED BY <2>1, <2>4
<1>8. CASE Reconnect
  BY <1>8, TypeReconnect DEF EarlierAt
<1> QED BY <1>0, <1>3, <1>4, <1>5, <1>6, <1>7, <1>8, StepIs DEF Derailed
\* A first fragment waits for as many cells as the whole message has: when a
\* session ends between two messages, the parser has no part of one.
LEMMA NothingWaits ==
  ASSUME TypeInv, StreamOK, LostOK, WaitingOK, Reconnect, ~torn', ~replayed
  PROVE  parsing_buffer_ = <<>>
<1> DEFINE s == Stream
           t == parsing_buffer_
<1>0. SUFFICES ASSUME parsing_buffer_ # <<>> PROVE FALSE
  OBVIOUS
<1>1. /\ pc = "idle" /\ ~torn /\ consumed_size = 0
      /\ \A m \in Messages : ~IsCut(m)
  <2>1. Next
    BY DEF Next
  <2> QED BY <2>1, TornKept DEF Reconnect, TypeInv, ParserOK
<1>2. OnTrack
  BY <1>1 DEF OnTrack, LostOK
<1>3. /\ s \in Seq(CellType) /\ Belong(s, nextFragment) /\ Sound(s, nextFragment)
      /\ \A k \in 1..Len(s) : Proper(s[k])
  BY <1>2, StreamIs DEF StreamOK, TypeInv, CellsOK, Belong
<1>4. Joins(s, t, wire)
  BY StreamJoins DEF TypeInv
<1>5. /\ Len(t) \in Nat \ {0} /\ Len(s) \in Nat /\ Len(t) <= Len(s) /\ buffer_size = Len(t)
      /\ \A k \in 1..Len(t) : t[k] = s[k]
  <2>1. t \in Seq(CellType)
    BY DEF TypeInv, TypeOK
  <2>2. Len(t) \in Nat \ {0}
    BY <1>0, <2>1, EmptySeq
  <2> QED BY <1>4, <2>2 DEF Joins, buffer_size
<1>6. \A n \in Messages :
        nextFragment[n] \in 0..FragmentCount(n) /\ ~CutAt(nextFragment, wire, n)
  BY <1>1, NothingCut
<1> HIDE DEF s, t
<1> DEFINE m == s[1].msg
           i == s[1].index
           H == HeaderLength(m, i)
<1>7. 1 \in 1..Len(t) /\ 1 \in 1..Len(s) /\ 0 < Len(s) /\ s[1].part = 1
  <2>1. 1 \in 1..Len(t) /\ 1 \in 1..Len(s) /\ 0 < Len(s)
    BY <1>5
  <2> QED BY <1>3, <2>1 DEF Sound, Chained
<1>8. s[0 + 1] = Cell(m, i, 1) /\ s[1] = Cell(m, i, 1)
  BY <1>3, <1>7, HeaderCell
<1>9. /\ m \in Messages /\ i \in 0..LastIndex(m)
      /\ \A k \in 1..FragmentSize(m, i) : s[0 + k] = Cell(m, i, k)
      /\ 0 + FragmentSize(m, i) <= Len(s)
  <2> HIDE DEF m, i
  <2>1. 0 \in Nat /\ Chained(s)
    BY <1>3 DEF Sound
  <2> QED BY <1>3, <1>7, <1>8, <2>1, Walk
<1>10. nextFragment[m] = FragmentCount(m) /\ \A k \in 1..Len(s) : s[k].msg = m => k <= Len(t)
  <2>1. InOrder(s) /\ t[1] = s[1]
    BY <1>3, <1>5, <1>7 DEF Sound
  <2> QED BY <1>3, <1>4, <1>6, <1>7, <2>1, ReceivedWhole
<1>11. Len(t) < HeaderSize + H
  BY <1>0, <1>1, <1>5, <1>7 DEF WaitingOK, t
<1> HIDE DEF m, i, H
<1>12. /\ H \in Nat \ {0} /\ HeaderSize \in Nat \ {0} /\ FragmentSize(m, i) \in Nat \ {0}
       /\ FragmentSize(m, i) = HeaderSize + PayloadLength(m, i)
       /\ i # 0 \/ ~Fragmented(m) => PayloadLength(m, i) = H
       /\ i = 0 /\ Fragmented(m) => PayloadLength(m, i) = 0
  BY <1>9, SizesOfFragments DEF H
<1>13. FragmentSize(m, i) <= Len(t)
  <2>1. FragmentSize(m, i) \in 1..FragmentSize(m, i) /\ FragmentSize(m, i) \in 1..Len(s)
        /\ 0 + FragmentSize(m, i) = FragmentSize(m, i)
    BY <1>5, <1>9, <1>12
  <2>2. s[FragmentSize(m, i)].msg = m
    BY <1>9, <2>1, CellIs
  <2> QED BY <1>10, <2>1, <2>2
<1>14. i = 0 /\ Fragmented(m) /\ FragmentSize(m, i) = HeaderSize
  BY <1>5, <1>11, <1>12, <1>13
<1>15. H = Cardinality(PayloadCells(m))
  BY <1>14 DEF H, HeaderLength
<1>16. /\ LastIndex(m) = Len(Pieces[m]) /\ LastIndex(m) \in Nat
       /\ FragmentCount(m) = LastIndex(m) + 1
       /\ \A j \in 1..Len(Pieces[m]) : Pieces[m][j] \in Nat \ {0}
  BY <1>9, <1>14, SizesOfMessages
<1> DEFINE T == (HeaderSize + 1)..Len(t)
\* Every cell of the payload has its place behind the header.
<1>17. ASSUME NEW p \in PayloadCells(m)
       PROVE  \E l \in T : s[l] = Cell(m, p[1], HeaderSize + p[2])
  <2>0. PICK j \in 1..Len(Pieces[m]) : \E k \in 1..Pieces[m][j] : p = <<j, k>>
    BY <1>9, PayloadIsFinite
  <2>1. PICK k \in 1..Pieces[m][j] : p = <<j, k>>
    BY <2>0
  <2>2. /\ j \in 1..LastIndex(m) /\ j \in 0..LastIndex(m) /\ j # 0
        /\ s[1].index < j /\ j < nextFragment[m] /\ k \in Nat \ {0}
        /\ Pieces[m][j] \in Nat
    BY <1>10, <1>14, <1>16, <2>1 DEF i
  <2>3. Between(s, 1, Len(s) + 1, Cell(m, j, 1))
    BY <1>3, <1>7, <2>2 DEF Sound, Complete, m
  <2>4. PICK h \in 1..Len(s) : s[h] = Cell(m, j, 1)
    BY <2>3 DEF Between
  <2>5. h - 1 \in Nat /\ h - 1 < Len(s) /\ (h - 1) + 1 = h
    BY <1>5
  <2>6. /\ \A q \in 1..FragmentSize(m, j) : s[(h - 1) + q] = Cell(m, j, q)
        /\ (h - 1) + FragmentSize(m, j) <= Len(s)
    <3>1. Chained(s) /\ s[(h - 1) + 1] = Cell(m, j, 1)
      BY <1>3, <2>4, <2>5 DEF Sound
    <3> QED BY <1>3, <2>5, <3>1, Walk
  <2>7. FragmentSize(m, j) = HeaderSize + Pieces[m][j]
    BY <1>9, <2>2, SizesOfFragments DEF HeaderLength
  <2>8. /\ HeaderSize + k \in 1..FragmentSize(m, j)
        /\ (h - 1) + (HeaderSize + k) \in 1..Len(s)
        /\ HeaderSize + 1 <= (h - 1) + (HeaderSize + k)
    <3>1. k <= Pieces[m][j] /\ k \in Nat \ {0} /\ HeaderSize \in Nat \ {0} /\ h - 1 \in Nat
      BY <1>12, <2>1, <2>2, <2>5
    <3>2. HeaderSize + k \in 1..FragmentSize(m, j)
      BY <2>2, <2>7, <3>1
    <3>3. (h - 1) + (HeaderSize + k) <= Len(s)
      <4>1. (h - 1) + (HeaderSize + Pieces[m][j]) <= Len(s)
        BY <2>6, <2>7
      <4>2. \A a, b, q, l \in Nat : a + (b + q) <= l /\ k <= q => a + (b + k) <= l
        BY <3>1
      <4>3. Len(s) \in Nat /\ HeaderSize \in Nat
        BY <1>5, <3>1
      <4> QED BY Zenon, <2>2, <3>1, <4>1, <4>2, <4>3
    <3>4. HeaderSize + 1 <= (h - 1) + (HeaderSize + k) /\ (h - 1) + (HeaderSize + k) \in Nat \ {0}
      BY <3>1
    <3> QED BY <1>5, <3>2, <3>3, <3>4
  <2>9. s[(h - 1) + (HeaderSize + k)] = Cell(m, j, HeaderSize + k)
    BY <2>6, <2>8
  <2>10. (h - 1) + (HeaderSize + k) <= Len(t)
    BY <1>10, <2>8, <2>9, CellIs
  <2>11. (h - 1) + (HeaderSize + k) \in T
    BY <1>5, <1>12, <2>8, <2>10
  <2> QED BY <2>1, <2>9, <2>11
<1> DEFINE f == [p \in PayloadCells(m) |->
                   CHOOSE l \in T : s[l] = Cell(m, p[1], HeaderSize + p[2])]
<1>18. f \in [PayloadCells(m) -> T]
  BY <1>17
<1>19. \A p \in PayloadCells(m) : s[f[p]] = Cell(m, p[1], HeaderSize + p[2])
  BY <1>17
<1>20. IsFiniteSet(T) /\ Cardinality(T) = Len(t) - HeaderSize
  <2>1. HeaderSize + 1 \in Int /\ Len(t) \in Int /\ HeaderSize + 1 <= Len(t) + 1
    BY <1>5, <1>12, <1>13, <1>14
  <2>2. Cardinality(T) = IF HeaderSize + 1 > Len(t) THEN 0 ELSE Len(t) - (HeaderSize + 1) + 1
    BY <2>1, FS_Interval
  <2>3. IsFiniteSet(T)
    BY <2>1, FS_Interval
  <2> HIDE DEF T
  <2> QED BY <1>5, <1>12, <2>1, <2>2, <2>3
<1>21. Cardinality(T) < Cardinality(PayloadCells(m)) /\ IsFiniteSet(PayloadCells(m))
  <2> HIDE DEF T
  <2>1. Len(t) - HeaderSize < H
    BY <1>5, <1>11, <1>12
  <2> QED BY <1>9, <1>15, <1>20, <2>1, PayloadIsFinite
<1> HIDE DEF f, T
<1>22. PICK p \in PayloadCells(m), q \in PayloadCells(m) : p # q /\ f[p] = f[q]
  BY <1>18, <1>20, <1>21, FS_PigeonHole
<1>23. /\ \E j \in 1..Len(Pieces[m]) : \E k \in 1..Pieces[m][j] : p = <<j, k>>
       /\ \E j \in 1..Len(Pieces[m]) : \E k \in 1..Pieces[m][j] : q = <<j, k>>
  BY <1>9, PayloadIsFinite
<1>24. Cell(m, p[1], HeaderSize + p[2]) = Cell(m, q[1], HeaderSize + q[2])
  BY <1>19, <1>22
<1>25. p[1] = q[1] /\ HeaderSize + p[2] = HeaderSize + q[2]
  BY <1>24, CellsDiffer
<1>26. /\ p = <<p[1], p[2]>> /\ q = <<q[1], q[2]>> /\ p[2] \in Nat /\ q[2] \in Nat
  BY <1>16, <1>23
<1>27. p[2] = q[2]
  BY <1>12, <1>25, <1>26
<1> QED BY <1>22, <1>25, <1>26, <1>27

LEMMA WaitingStep ==
  ASSUME TypeInv, StreamOK, LostOK, WaitingOK, [Next]_vars
  PROVE  WaitingOK'
<1>0. SUFFICES ASSUME ~torn', ~replayed', pc' \in {"idle", "pop"}, parsing_buffer_' # <<>>
      PROVE  buffer_size' <
               HeaderSize + HeaderLength(parsing_buffer_'[1].msg, parsing_buffer_'[1].index)
  BY DEF WaitingOK, HeaderLength, PayloadCells
<1>1. ~torn /\ ~replayed
  BY <1>0, TornKept
<1>2. ASSUME UNCHANGED parsing_buffer_, pc \in {"idle", "pop"}
      PROVE  buffer_size' <
               HeaderSize + HeaderLength(parsing_buffer_'[1].msg, parsing_buffer_'[1].index)
  BY <1>0, <1>1, <1>2 DEF WaitingOK, buffer_size
<1>3. ASSUME NEW m \in Messages, SendFragment(m)
      PROVE  UNCHANGED parsing_buffer_ /\ pc \in {"idle", "pop"}
  BY <1>0, <1>3 DEF SendFragment
<1>4. ASSUME NEW n \in 1..PacketSize, Allocate(n) PROVE FALSE
  BY <1>0, <1>4 DEF Allocate, OutOfMemory
<1>5. ASSUME ParseSingle \/ ParseFirst \/ ParseFragment \/ ParseUnknown
               \/ RejectHeader PROVE FALSE
  BY <1>0, <1>5 DEF ParseSingle, ParseFirst, ParseFragment, ParseUnknown, Consume, RejectHeader
<1>6. ASSUME FinishParsing
      PROVE  buffer_size' <
               HeaderSize + HeaderLength(parsing_buffer_'[1].msg, parsing_buffer_'[1].index)
  <2>1. Shifted(parsing_buffer_, parsing_buffer_', consumed_size) /\ consumed_size < buffer_size
    BY <1>0, <1>6, TypeFinish
  <2>2. pc = "loop" /\ ~HasMessage
    BY <1>6 DEF FinishParsing
  <2>3. ~Lost
    BY <1>1 DEF LostOK
  <2>4. /\ buffer_size \in Nat /\ consumed_size \in Nat /\ buffer_size' \in Nat
        /\ buffer_size <= consumed_size + buffer_size'
             /\ consumed_size + buffer_size' <= buffer_size
    BY <2>1 DEF Shifted, buffer_size
  <2>5. parsing_buffer_'[1] = header
    <3>0. \A a, b, c \in Nat : c < a /\ a <= c + b => b > 0
      OBVIOUS
    <3>1. buffer_size' > 0
      BY Zenon, <2>1, <2>4, <3>0
    <3>2. 1 \in 1..Len(parsing_buffer_')
      BY <2>4, <3>1 DEF buffer_size
    <3> QED BY <2>1, <3>2 DEF Shifted, header
  <2>6. header.part = 1
    BY <2>1, <2>3 DEF Lost, header
  <2>7. /\ HeaderLength(header.msg, header.index) \in Nat \ {0} /\ HeaderSize \in Nat \ {0}
    <3>1. consumed_size + 1 \in 1..buffer_size
      BY <2>1, <2>4
    <3>2. Proper(header)
      <4>1. header = Stream[consumed_size + 1] /\ consumed_size + 1 \in 1..Len(Stream)
        BY <3>1, StreamIs DEF header, TypeInv
      <4> QED BY <4>1 DEF TypeInv, CellsOK, Belong
    <3> QED BY <3>2, SizesOfFragments DEF Proper
  <2>8. buffer_size < consumed_size + (HeaderSize + HeaderLength(header.msg, header.index))
    <3>1. CASE ~HasHeader
      BY <2>4, <2>7, <3>1 DEF HasHeader
    <3>2. CASE HasHeader
      <4>1. ~Holds(HeaderSize + HeaderLength(header.msg, header.index))
        BY <2>2, <2>6, <3>2 DEF HasMessage, MagicMatches
      <4> QED BY <2>4, <2>7, <4>1 DEF Holds
    <3> QED BY <3>1, <3>2
  <2>9. buffer_size' < HeaderSize + HeaderLength(header.msg, header.index)
    <3>1. \A a, b, c, d \in Nat : a < c + d /\ c + b <= a => b < d
      OBVIOUS
    <3>2. HeaderSize + HeaderLength(header.msg, header.index) \in Nat
      BY <2>7
    <3> QED BY Zenon, <2>4, <2>8, <3>1, <3>2
  <2> QED BY <2>5, <2>9
<1>7. ASSUME PopAllParsedMessages PROVE UNCHANGED parsing_buffer_ /\ pc \in {"idle", "pop"}
  BY <1>7 DEF PopAllParsedMessages
<1>8. ASSUME Reconnect PROVE UNCHANGED parsing_buffer_ /\ pc \in {"idle", "pop"}
  BY <1>8 DEF Reconnect
<1>9. ASSUME UNCHANGED vars PROVE UNCHANGED parsing_buffer_ /\ pc \in {"idle", "pop"}
  BY <1>0, <1>9 DEF vars
<1> QED BY <1>2, <1>3, <1>4, <1>5, <1>6, <1>7, <1>8, <1>9 DEF Next, Parse

LEMMA OrderStep ==
  ASSUME TypeInv, StreamOK, SentOK, EarlierOK, OrderOK, [Next]_vars
  PROVE  OrderOK'
<1>0. SUFFICES ASSUME ~torn', NEW j \in DOMAIN sent', NEW i \in DOMAIN sent',
                        NEW k \in DOMAIN parsed',
                      j < i, parsed'[k].msg = sent'[i].msg
               PROVE  \E h \in 1..k : parsed'[h].msg = sent'[j].msg
  BY DEF OrderOK
<1>1. ~torn
  BY <1>0, TornKept
<1>2. CASE UNCHANGED <<sent, parsed>>
  BY <1>0, <1>1, <1>2 DEF OrderOK
<1>3. ASSUME NEW m \in Messages, SendFragment(m)
      PROVE  \E h \in 1..k : parsed'[h].msg = sent'[j].msg
  <2>1. /\ DOMAIN sent = 1..Len(sent) /\ Len(sent) \in Nat /\ parsed' = parsed
        /\ \A l \in 1..Len(sent) : sent'[l] = sent[l]
        /\ \/ /\ nextFragment[m] = LastIndex(m)
              /\ DOMAIN sent' = 1..(Len(sent) + 1) /\ sent'[Len(sent) + 1] = Whole(m)
           \/ nextFragment[m] # LastIndex(m) /\ sent' = sent
    BY <1>3, SentGrows
  <2>2. CASE sent' = sent
    BY <1>2, <2>1, <2>2
  <2>3. CASE DOMAIN sent' = 1..(Len(sent) + 1) /\ sent'[Len(sent) + 1] = Whole(m)
    <3>1. nextFragment[m] # FragmentCount(m)
      BY <1>3, SendStream, SizesOfMessages
    <3>2. nextFragment[parsed[k].msg] = FragmentCount(parsed[k].msg)
      BY <2>1 DEF SentOK
    <3>3. parsed[k].msg # m
      BY <3>1, <3>2
    <3>4. i # Len(sent) + 1
      BY <1>0, <2>1, <2>3, <3>3, WholeIsParsed
    <3>5. i \in 1..Len(sent) /\ j \in 1..Len(sent)
      BY <1>0, <2>1, <2>3, <3>4
    <3> QED BY <1>0, <1>1, <2>1, <3>5 DEF OrderOK
  <2> QED BY <2>1, <2>2, <2>3
<1>4. ASSUME ParseSingle \/ ParseFirst \/ ParseFragment
      PROVE  \E h \in 1..k : parsed'[h].msg = sent'[j].msg
  <2>1. HasMessage /\ Turn /\ OnTrack
    <3>1. HasMessage /\ pc = "loop"
      BY <1>4 DEF ParseSingle, ParseFirst, ParseFragment
    <3> QED BY <1>1, <1>4, <3>1, TurnIs DEF OnTrack, Lost, HasMessage, MagicMatches, header
  <2>2. sent' = sent
    BY <2>1 DEF Turn
  <2>3. CASE header.index # LastIndex(header.msg)
    BY <1>2, <2>1, <2>2, <2>3, TurnParsed
  <2>4. CASE header.index = LastIndex(header.msg)
    <3>1. /\ DOMAIN parsed' = 1..(Len(parsed) + 1) /\ DOMAIN parsed = 1..Len(parsed)
          /\ Len(parsed) \in Nat /\ parsed'[Len(parsed) + 1].msg = header.msg
          /\ \A l \in 1..Len(parsed) : parsed'[l] = parsed[l]
      BY <2>1, <2>4, TurnParsed
    <3>2. CASE k \in 1..Len(parsed)
      <4>1. \E h \in 1..k : parsed[h].msg = sent[j].msg
        BY <1>0, <1>1, <2>2, <3>1, <3>2 DEF OrderOK
      <4>2. \A h \in 1..k : h \in 1..Len(parsed)
        BY <3>1, <3>2
      <4> QED BY <2>2, <3>1, <4>1, <4>2
    <3>3. CASE k = Len(parsed) + 1
      <4>1. sent[i].msg = header.msg
        BY <1>0, <2>2, <3>1, <3>3
      <4>2. /\ Stream[consumed_size + 1] = Cell(sent[i].msg, LastIndex(sent[i].msg), 1)
            /\ consumed_size + 1 \in 1..Len(Stream)
        BY <2>1, <2>4, <4>1, AtHeader, AheadTurn
      <4>3. \/ HasParsed(sent[j].msg)
            \/ AheadOf(consumed_size + 1, sent[j].msg, LastIndex(sent[j].msg))
        BY <1>0, <2>1, <2>2, <4>2 DEF EarlierOK
      <4>4. HasParsed(sent[j].msg)
        BY <2>1, <4>3, AheadTurn
      <4>5. PICK h \in 1..Len(parsed) : parsed[h].msg = sent[j].msg
        BY <3>1, <4>4 DEF HasParsed
      <4>6. h \in 1..k /\ parsed'[h].msg = sent'[j].msg
        BY <2>2, <3>1, <3>3, <4>5
      <4> QED BY <4>6
    <3> QED BY <3>1, <3>2, <3>3
  <2> QED BY <2>3, <2>4
<1>5. CASE Reconnect
  BY <1>0, <1>5, TypeReconnect
<1> QED BY <1>2, <1>3, <1>4, <1>5, StepIs DEF Quiet, Move, Again, Derailed
LEMMA NewStep ==
  ASSUME TypeInv, StreamOK, LostOK, SentOK, WaitingOK, NewOK, [Next]_vars
  PROVE  NewOK'
<1>0. SUFFICES ASSUME OnTrack', ~replayed', NEW m \in Messages, Ahead(m, LastIndex(m))'
               PROVE  ~HasParsed(m)' /\ \E i \in DOMAIN sent' : sent'[i].msg = m
  BY DEF NewOK, LastIndex, FragmentCount
<1>1. OnTrack /\ ~torn' /\ ~replayed
  BY <1>0, TrackKept, TornKept DEF OnTrack
<1>2. ASSUME Ahead(m, LastIndex(m)) PROVE ~HasParsed(m) /\ \E i \in DOMAIN sent : sent[i].msg = m
  BY <1>1, <1>2 DEF NewOK
<1>3. ASSUME NEW x \in Messages, SendFragment(x)
      PROVE  ~HasParsed(m)' /\ \E i \in DOMAIN sent' : sent'[i].msg = m
  <2>1. /\ DOMAIN sent = 1..Len(sent) /\ Len(sent) \in Nat /\ parsed' = parsed
        /\ \A l \in 1..Len(sent) : sent'[l] = sent[l]
        /\ \/ /\ nextFragment[x] = LastIndex(x)
              /\ DOMAIN sent' = 1..(Len(sent) + 1) /\ sent'[Len(sent) + 1] = Whole(x)
           \/ nextFragment[x] # LastIndex(x) /\ sent' = sent
    BY <1>3, SentGrows
  <2>2. HasParsed(m)' <=> HasParsed(m)
    BY <2>1 DEF HasParsed
  <2>3. CASE Ahead(m, LastIndex(m))
    <3>1. PICK i \in 1..Len(sent) : sent[i].msg = m
      BY <1>2, <2>1, <2>3
    <3>2. i \in DOMAIN sent' /\ sent'[i].msg = m
      BY <2>1, <3>1
    <3> QED BY <1>2, <2>2, <2>3, <3>2
  <2>4. CASE m = x /\ LastIndex(m) = nextFragment[x]
    <3>1. nextFragment[m] # FragmentCount(m)
      BY <1>3, <2>4, SendStream, SizesOfMessages
    <3>2. ~HasParsed(m)
      BY <3>1 DEF HasParsed, SentOK
    <3>3. Len(sent) + 1 \in DOMAIN sent' /\ sent'[Len(sent) + 1].msg = m
      BY <2>1, <2>4, WholeIsParsed
    <3> QED BY <2>2, <3>2, <3>3
  <2> QED BY <1>0, <1>3, <2>3, <2>4, AheadSend
<1>4. CASE Quiet
  <2>1. Ahead(m, LastIndex(m)) /\ (HasParsed(m)' <=> HasParsed(m)) /\ sent' = sent
    BY <1>0, <1>4 DEF Quiet, Ahead, HasParsed
  <2> QED BY <1>2, <2>1
<1>5. CASE ParseSingle \/ ParseFirst \/ ParseFragment
  <2>1. HasMessage /\ Turn
    BY <1>5, TurnIs DEF ParseSingle, ParseFirst, ParseFragment
  <2>2. sent' = sent
    BY <2>1 DEF Turn
  <2>3. Ahead(m, LastIndex(m)) /\ (m # header.msg \/ LastIndex(m) \notin 0..header.index)
    BY <1>0, <1>1, <2>1, AheadTurn
  <2>4. header.index \in 0..header.index
    BY <2>1, MessageIs, SizesOfMessages
  <2>5. ~HasParsed(m)'
    BY <1>2, <2>1, <2>3, <2>4, TurnParsed
  <2> QED BY <1>2, <2>2, <2>3, <2>5
<1>6. CASE Move
  <2>1. Ahead(m, LastIndex(m))
    BY <1>0, <1>6, AheadMove
  <2>2. (HasParsed(m)' <=> HasParsed(m)) /\ sent' = sent
    BY <1>6 DEF Move, HasParsed
  <2> QED BY <1>2, <2>1, <2>2
<1>7. CASE Again
  BY <1>0, <1>7 DEF Again
<1>8. ASSUME Reconnect PROVE FALSE
  <2>1. parsing_buffer_ = <<>>
    BY <1>1, <1>8, NothingWaits
  <2>2. Stream' = <<>>
    BY <1>8, <2>1, TypeReconnect
  <2> QED BY <1>0, <2>2 DEF Ahead, Between
<1> QED BY <1>0, <1>3, <1>4, <1>5, <1>6, <1>7, <1>8, StepIs DEF Derailed
-----------------------------------------------------------------------------
(* The buffers of messages that have begun *)

LEMMA CollectedKept ==
  ASSUME NEW m \in Messages, Holder(m), Collected(m), Open(m)', Pending(m)' = Pending(m),
         nextFragment[m] \in Nat, nextFragment'[m] \in Nat, nextFragment[m] <= nextFragment'[m],
         Cell(m, 0, 1) \notin ToSet(wire'), replayed => replayed',
         \A i \in 1..LastIndex(m) : i < nextFragment'[m] =>
           (i < nextFragment[m] /\ (Ahead(m, i) => Ahead(m, i)')) \/ Ahead(m, i)',
         ~replayed' => \A i \in 1..LastIndex(m) :
                         Ahead(m, i)' => Ahead(m, i) \/ nextFragment[m] <= i
  PROVE  Holder(m)' /\ Collected(m)'
<1>0. LastIndex(m) \in Nat /\ nextFragment[m] > 0
  BY SizesOfMessages DEF Holder
<1>1. Holder(m)'
  <2>1. nextFragment'[m] > 0
    BY <1>0
  <2> QED BY <2>1 DEF Holder, Fragmented, FragmentCount
<1>2. \A p \in ToSet(Pending(m)) : \E i \in 1..(LastIndex(m) - 1) : p = Payload(m, i)
  BY DEF Collected
<1>3. ASSUME NEW i \in 1..LastIndex(m), i < nextFragment'[m]
      PROVE  Payload(m, i) \in ToSet(Pending(m)) \/ Ahead(m, i)'
  <2>1. ASSUME i < nextFragment[m] PROVE Payload(m, i) \in ToSet(Pending(m)) \/ Ahead(m, i)
    BY <2>1 DEF Collected
  <2> QED BY <1>3, <2>1
<1>4. ASSUME ~replayed'
      PROVE  \E n \in 0..(LastIndex(m) - 1) :
               /\ n < nextFragment'[m] /\ Pending(m) = PiecesOf(m, n)
               /\ \A i \in 1..n : ~Ahead(m, i)'
  <2>1. ~replayed
    BY <1>4
  <2>2. PICK n \in 0..(LastIndex(m) - 1) :
          /\ n < nextFragment[m] /\ Pending(m) = PiecesOf(m, n)
          /\ \A i \in 1..n : ~Ahead(m, i)
    BY <2>1 DEF Collected
  <2>3. n < nextFragment'[m] /\ \A i \in 1..n : i \in 1..LastIndex(m) /\ i < nextFragment[m]
    BY <1>0, <2>2
  <2>4. \A i \in 1..n : ~Ahead(m, i)'
    BY <1>0, <1>4, <2>2, <2>3
  <2> QED BY <2>2, <2>3, <2>4
<1>5. Collected(m)'
  <2> DEFINE P == Pending(m)'
  <2>1. P = Pending(m)
    OBVIOUS
  <2>2. \A p \in ToSet(P) : \E i \in 1..(LastIndex(m) - 1) : p = Payload(m, i)
    BY <1>2, <2>1
  <2>3. \A i \in 1..LastIndex(m) : i < nextFragment'[m]
          => Payload(m, i) \in ToSet(P) \/ Ahead(m, i)'
    BY <1>3, <2>1
  <2>4. ~replayed' => \E n \in 0..(LastIndex(m) - 1) :
                        /\ n < nextFragment'[m] /\ P = PiecesOf(m, n)
                        /\ \A i \in 1..n : ~Ahead(m, i)'
    BY <1>4, <2>1
  <2> QED BY <2>2, <2>3, <2>4 DEF Collected, PiecesOf, Payload, LastIndex, FragmentCount
<1> QED BY <1>1, <1>5

LEMMA NextIs ==
  ASSUME TypeInv, NEW m \in Messages
  PROVE  nextFragment[m] \in Nat /\ nextFragment[m] \in 0..FragmentCount(m)
BY DEF TypeInv, TypeOK, CellsOK

LEMMA OwnerQuiet ==
  ASSUME TypeInv, Quiet, NEW m \in Messages, Owner(m)
  PROVE  Owner(m)'
<1>1. /\ UNCHANGED <<Stream, consumed_size, nextFragment, replayed,
           fragmented_buffers_by_identifier>>
      /\ ToSet(wire') \subseteq ToSet(wire)
  BY DEF Quiet
<1>2. /\ \A i : Ahead(m, i)' <=> Ahead(m, i)
      /\ Open(m)' <=> Open(m)
      /\ Pending(m)' = Pending(m)
  BY <1>1 DEF Ahead, Open, Pending
<1>3. Alone(m)'
  BY <1>1 DEF Owner, Alone, AheadOf, Fragmented, FragmentCount, LastIndex
<1>4. nextFragment[m] \in Nat /\ nextFragment[m] <= nextFragment[m]
  BY NextIs
<1>5. Holder(m) /\ Collected(m) /\ Open(m) /\ Cell(m, 0, 1) \notin ToSet(wire')
  BY <1>1 DEF Owner, Holder
<1>6. Holder(m)' /\ Collected(m)'
  BY <1>1, <1>2, <1>4, <1>5, CollectedKept
<1> QED BY <1>3, <1>6 DEF Owner

LEMMA OwnerSend ==
  ASSUME TypeInv, NEW x \in Messages, SendFragment(x), NEW m \in Messages, Owner(m)
  PROVE  Owner(m)'
<1>1. /\ UNCHANGED <<replayed, fragmented_buffers_by_identifier>>
           /\ consumed_size' = consumed_size
      /\ nextFragment'[x] = nextFragment[x] + 1
      /\ \A n \in Messages : n # x => nextFragment'[n] = nextFragment[n]
  BY SendStream, SentGrows, AheadSend
<1>2. Holder(m) /\ Collected(m) /\ Open(m) /\ nextFragment[m] > 0
        /\ Cell(m, 0, 1) \notin ToSet(wire)
  BY DEF Owner, Holder
<1>3. Open(m)' /\ Pending(m)' = Pending(m)
  BY <1>1, <1>2 DEF Open, Pending
<1>4. nextFragment[m] \in Nat /\ nextFragment'[m] \in Nat /\ nextFragment[m] <= nextFragment'[m]
  <2>1. nextFragment[m] \in Nat
    BY NextIs
  <2> QED BY <1>1, <2>1
<1>5. Cell(m, 0, 1) \notin ToSet(wire')
  <2>1. Grows(wire, wire', x, nextFragment[x])
    BY SendStream
  <2>2. SUFFICES ASSUME NEW k \in 1..Len(wire'), wire'[k] = Cell(m, 0, 1) PROVE FALSE
    <3>1. DOMAIN wire' = 1..Len(wire')
      BY <2>1 DEF Grows
    <3> QED BY <3>1 DEF ToSet
  <2>3. CASE k <= Len(wire)
    <3>1. wire \in Seq(CellType)
      BY DEF TypeInv, TypeOK
    <3>2. k \in 1..Len(wire) /\ wire'[k] = wire[k]
      BY <2>1, <2>3 DEF Grows
    <3>3. wire[k] \in ToSet(wire)
      BY <3>1, <3>2 DEF ToSet
    <3> QED BY <1>2, <2>2, <3>2, <3>3
  <2>4. CASE k > Len(wire)
    <3>1. wire'[k].msg = x /\ wire'[k].index = nextFragment[x]
      BY <2>1, <2>4 DEF Grows
    <3>2. x = m /\ nextFragment[x] = 0
      BY <2>2, <3>1, CellIs
    <3> QED BY <1>2, <3>2
  <2>5. Len(wire) \in Nat /\ k \in Nat
    BY <2>1 DEF Grows
  <2> QED BY <2>3, <2>4, <2>5
<1>6. ASSUME NEW i \in 1..LastIndex(m), i < nextFragment'[m]
      PROVE  (i < nextFragment[m] /\ (Ahead(m, i) => Ahead(m, i)')) \/ Ahead(m, i)'
  <2>1. Ahead(m, i) => Ahead(m, i)'
    BY AheadSend
  <2>2. CASE i < nextFragment[m]
    BY <2>1, <2>2
  <2>3. CASE ~(i < nextFragment[m])
    <3>1. m = x /\ i = nextFragment[x]
      BY <1>1, <1>4, <1>6, <2>3
    <3> QED BY <3>1, AheadSend
  <2> QED BY <2>2, <2>3
<1>7. \A i \in 1..LastIndex(m) : Ahead(m, i)' => Ahead(m, i) \/ nextFragment[m] <= i
  <2>1. \A i \in 1..LastIndex(m) : Ahead(m, i)' => Ahead(m, i) \/ i = nextFragment[m]
    BY AheadSend
  <2> QED BY <1>4, <2>1
<1>8. Holder(m)' /\ Collected(m)'
  BY <1>1, <1>2, <1>3, <1>4, <1>5, <1>6, <1>7, CollectedKept
\* The device begins another message with this identifier when it has sent all of m.
<1>9. ASSUME NEW n \in Messages, NEW k \in 1..Len(Stream'), n # m, Fragmented(n),
             Identifier[n] = Identifier[m], k > consumed_size, Stream'[k].msg = n,
             Stream'[k].part = 1
      PROVE  AheadOf(k, m, LastIndex(m))'
  <2>1. CASE k <= Len(Stream)
    <3>1. k \in 1..Len(Stream) /\ Stream'[k] = Stream[k]
      BY <2>1, AheadSend
    <3>2. AheadOf(k, m, LastIndex(m))
      BY <1>9, <3>1 DEF Owner, Alone
    <3> QED BY <3>1, <3>2, AheadSend
  <2>2. CASE k > Len(Stream)
    <3>1. n = x
      BY <1>9, <2>2, AheadSend
    <3>2. ~InProgress(m)
      BY <1>9, <3>1 DEF SendFragment
    <3>3. LastIndex(m) \in 1..LastIndex(m) /\ LastIndex(m) < nextFragment[m]
      <4>1. /\ LastIndex(m) \in Nat /\ LastIndex(m) > 1 /\ FragmentCount(m) = LastIndex(m) + 1
            /\ nextFragment[m] \in 0..FragmentCount(m) /\ nextFragment[m] \in Nat
        BY SizesOfMessages, NextIs DEF Owner, Holder
      <4> QED BY <1>2, <3>2, <4>1 DEF InProgress
    <3>4. Payload(m, LastIndex(m)) \in ToSet(Pending(m)) \/ Ahead(m, LastIndex(m))
      BY <1>2, <3>3 DEF Collected
    <3>5. Payload(m, LastIndex(m)) \notin ToSet(Pending(m))
      <4>1. \A i \in 1..(LastIndex(m) - 1) : Payload(m, i) # Payload(m, LastIndex(m))
        BY <3>3 DEF Payload
      <4> QED BY <1>2, <4>1 DEF Collected
    <3> QED BY <2>2, <3>4, <3>5, AheadSend
  <2>3. k \in Nat /\ Len(Stream) \in Nat
    BY AheadSend
  <2> QED BY <2>1, <2>2, <2>3
<1>10. Alone(m)'
  BY <1>1, <1>9 DEF Alone, Fragmented, FragmentCount, LastIndex
<1> QED BY <1>8, <1>10 DEF Owner

LEMMA OwnerMove ==
  ASSUME TypeInv, Move, NEW m \in Messages, Owner(m)
  PROVE  Owner(m)'
<1>1. /\ UNCHANGED <<wire, nextFragment, replayed, fragmented_buffers_by_identifier>>
      /\ consumed_size' = 0
  BY DEF Move
<1>2. /\ \A i : Ahead(m, i)' <=> Ahead(m, i)
      /\ Open(m)' <=> Open(m)
      /\ Pending(m)' = Pending(m)
  BY <1>1, AheadMove DEF Open, Pending
<1>3. nextFragment[m] \in Nat /\ nextFragment[m] <= nextFragment[m]
  BY NextIs
<1>4. Holder(m) /\ Collected(m) /\ Open(m) /\ Cell(m, 0, 1) \notin ToSet(wire')
  BY <1>1 DEF Owner, Holder
<1>5. Holder(m)' /\ Collected(m)'
  BY <1>1, <1>2, <1>3, <1>4, CollectedKept
<1>6. ASSUME NEW n \in Messages, NEW k \in 1..Len(Stream'), n # m, Fragmented(n),
             Identifier[n] = Identifier[m], Stream'[k].msg = n, Stream'[k].part = 1
      PROVE  AheadOf(k, m, LastIndex(m))'
  <2>1. /\ consumed_size + k \in 1..Len(Stream) /\ consumed_size + k > consumed_size
        /\ Stream'[k] = Stream[consumed_size + k]
    BY AheadMove
  <2>2. AheadOf(consumed_size + k, m, LastIndex(m))
    BY <1>6, <2>1 DEF Owner, Alone
  <2>3. k \in Nat
    OBVIOUS
  <2> QED BY <2>2, <2>3, AheadMove
<1>7. Alone(m)'
  BY <1>6 DEF Alone, Fragmented, FragmentCount, LastIndex
<1> QED BY <1>5, <1>7 DEF Owner

LEMMA OwnerAgain ==
  ASSUME TypeInv, Again, FragmentedByIdentifier, NEW m \in Messages, Owner(m)
  PROVE  Owner(m)'
<1>1. UNCHANGED <<wire, nextFragment, fragmented_buffers_by_identifier>> /\ replayed'
  BY DEF Again
<1>2. /\ \A i : Ahead(m, i) => Ahead(m, i)'
      /\ Open(m)' <=> Open(m)
      /\ Pending(m)' = Pending(m)
  BY <1>1, AheadAgain DEF Open, Pending
<1>3. nextFragment[m] \in Nat /\ nextFragment[m] <= nextFragment[m]
  BY NextIs
<1>4. Holder(m) /\ Collected(m) /\ Open(m) /\ Cell(m, 0, 1) \notin ToSet(wire') /\ Fragmented(m)
  BY <1>1 DEF Owner, Holder
<1>5. Holder(m)' /\ Collected(m)'
  BY <1>1, <1>2, <1>3, <1>4, CollectedKept
<1>6. \A n \in Messages : n # m /\ Fragmented(n) => Identifier[n] # Identifier[m]
  BY <1>4 DEF FragmentedByIdentifier, Fragmented
<1>7. Alone(m)'
  BY <1>6 DEF Alone, Fragmented, FragmentCount, LastIndex
<1> QED BY <1>5, <1>7 DEF Owner

LEMMA OwnerReconnect ==
  ASSUME TypeInv, Reconnect, \A n \in Messages : ~IsCut(n), NEW m \in Messages, Owner(m)
  PROVE  Owner(m)'
<1>1. /\ UNCHANGED <<replayed, fragmented_buffers_by_identifier, consumed_size, parsing_buffer_>>
      /\ ToSet(wire') = {} /\ Stream' = parsing_buffer_
  BY TypeReconnect DEF Reconnect
<1>2. Holder(m) /\ Collected(m) /\ Open(m) /\ nextFragment[m] > 0
        /\ Cell(m, 0, 1) \notin ToSet(wire)
  BY DEF Owner, Holder
<1>3. Open(m)' /\ Pending(m)' = Pending(m) /\ Cell(m, 0, 1) \notin ToSet(wire')
  BY <1>1, <1>2 DEF Open, Pending
<1>4. /\ nextFragment[m] \in Nat /\ nextFragment'[m] = nextFragment[m]
      /\ \A c \in ToSet(wire) : c.msg # m
  <2>1. /\ nextFragment[m] \in 0..FragmentCount(m) /\ nextFragment[m] \in Nat
        /\ FragmentCount(m) \in Nat
    BY NextIs, SizesOfMessages
  <2>2. ~InProgress(m) /\ \A c \in ToSet(wire) : c.msg # m
    BY <1>2 DEF IsCut
  <2>3. nextFragment[m] = FragmentCount(m)
    BY <1>2, <2>1, <2>2 DEF InProgress
  <2> QED BY <1>2, <2>1, <2>2, <2>3, TypeReconnect
<1>5. /\ Joins(Stream, parsing_buffer_, wire)
      /\ Len(parsing_buffer_) \in Nat /\ Len(Stream) \in Nat
           /\ Len(parsing_buffer_) <= Len(Stream)
      /\ \A k \in 1..Len(parsing_buffer_) : parsing_buffer_[k] = Stream[k]
      /\ \A k \in 1..Len(Stream) : k > Len(parsing_buffer_) => Stream[k] \in ToSet(wire)
  BY StreamJoins DEF TypeInv, Joins
<1>6. ASSUME NEW k \in Nat, NEW i, AheadOf(k, m, i)
      PROVE  AheadOf(k, m, i)' /\ Ahead(m, i)'
  <2>1. PICK l \in 1..Len(Stream) : consumed_size < l /\ l < k /\ Stream[l] = Cell(m, i, 1)
    BY <1>6 DEF AheadOf, Between
  <2>2. Stream[l] \notin ToSet(wire)
    BY <1>4, <2>1, CellIs
  <2>3. l <= Len(parsing_buffer_)
    BY <1>5, <2>2
  <2>4. l \in 1..Len(parsing_buffer_) /\ l < Len(parsing_buffer_) + 1
    BY <1>5, <2>3
  <2> QED BY <1>1, <1>5, <2>1, <2>4 DEF AheadOf, Ahead, Between
<1>7. ASSUME NEW i, Ahead(m, i)' PROVE Ahead(m, i)
  <2>1. PICK l \in 1..Len(parsing_buffer_) : consumed_size < l
          /\ parsing_buffer_[l] = Cell(m, i, 1)
    BY <1>1, <1>7 DEF Ahead, Between
  <2>2. l \in 1..Len(Stream) /\ Stream[l] = Cell(m, i, 1) /\ l < Len(Stream) + 1
    BY <1>5, <2>1
  <2> QED BY <2>1, <2>2 DEF Ahead, Between
<1>8. \A i : Ahead(m, i) => Ahead(m, i)'
  BY <1>5, <1>6, AheadIs
<1>9. Holder(m)' /\ Collected(m)'
  <2>1. nextFragment[m] <= nextFragment'[m] /\ nextFragment'[m] \in Nat
    BY <1>4
  <2> QED BY <1>1, <1>2, <1>3, <1>4, <1>7, <1>8, <2>1, CollectedKept
<1>10. ASSUME NEW n \in Messages, NEW k \in 1..Len(parsing_buffer_), n # m, Fragmented(n),
              Identifier[n] = Identifier[m], k > consumed_size, parsing_buffer_[k].msg = n,
              parsing_buffer_[k].part = 1
       PROVE  AheadOf(k, m, LastIndex(m))'
  <2>1. k \in 1..Len(Stream) /\ Stream[k] = parsing_buffer_[k] /\ k \in Nat
    BY <1>5
  <2>2. AheadOf(k, m, LastIndex(m))
    BY <1>10, <2>1 DEF Owner, Alone
  <2> QED BY <1>6, <2>1, <2>2
<1>11. Alone(m)'
  BY <1>1, <1>10 DEF Alone, Fragmented, FragmentCount, LastIndex
<1> QED BY <1>9, <1>11 DEF Owner

LEMMA BufferStays ==
  ASSUME ParseSingle \/ ParseFirst \/ ParseFragment, NEW m, Open(m),
         ~(ParseFragment /\ Identifier[m] = identifier)
  PROVE  Open(m)' /\ Pending(m)' = Pending(m)
<1>1. CASE ParseSingle
  BY <1>1 DEF ParseSingle, Open, Pending
<1>2. CASE ParseFirst
  BY <1>2 DEF ParseFirst, Open, Pending
<1>3. CASE ParseFragment
  <2>1. Identifier[m] # identifier
    BY <1>3
  <2>2. CASE IsLast
    BY <1>3, <2>1, <2>2 DEF ParseFragment, BuffersReleased, Open, Pending
  <2>3. CASE ~IsLast
    BY <1>3, <2>1, <2>3 DEF ParseFragment, Open, Pending
  <2> QED BY <2>2, <2>3
<1> QED BY <1>1, <1>2, <1>3

LEMMA TurnKeeps ==
  ASSUME TypeInv, ParseSingle \/ ParseFirst \/ ParseFragment
  PROVE  Turn /\ HasMessage /\ UNCHANGED <<wire, nextFragment, replayed, torn, sent>>
<1>1. HasMessage
  BY DEF ParseSingle, ParseFirst, ParseFragment
<1> QED BY <1>1, TurnIs DEF Turn

LEMMA AloneTurn ==
  ASSUME TypeInv, StreamOK, OnTrack, HasMessage, Turn, NEW m \in Messages, Alone(m),
         m # header.msg \/ LastIndex(m) # header.index
  PROVE  Alone(m)'
<1>1. /\ Stream' = Stream /\ consumed_size' \in Nat /\ consumed_size < consumed_size'
      /\ \A k \in Nat : \A n, j :
           AheadOf(k, n, j) /\ (n # header.msg \/ j # header.index) => AheadOf(k, n, j)'
  BY AheadTurn
<1>2. ASSUME NEW n \in Messages, NEW k \in 1..Len(Stream), n # m, Fragmented(n),
             Identifier[n] = Identifier[m], k > consumed_size', Stream[k].msg = n,
             Stream[k].part = 1
      PROVE  AheadOf(k, m, LastIndex(m))'
  <2>1. k > consumed_size /\ k \in Nat
    <3>1. consumed_size \in Nat
      BY AtHeader
    <3> QED BY <1>1, <1>2, <3>1
  <2>2. AheadOf(k, m, LastIndex(m))
    BY <1>2, <2>1 DEF Alone
  <2> QED BY <1>1, <2>1, <2>2
<1> QED BY <1>1, <1>2 DEF Alone, Fragmented, FragmentCount, LastIndex

\* The buffer of the identifier at the front belongs to the message at the front.
LEMMA OwnerOfHeader ==
  ASSUME TypeInv, StreamOK, OnTrack, HasMessage, Fragmented(header.msg),
         NEW m \in Messages, Owner(m), Identifier[m] = identifier
  PROVE  m = header.msg
<1>1. /\ Stream[consumed_size + 1] = Cell(header.msg, header.index, 1) /\ header.msg \in Messages
      /\ consumed_size \in Nat /\ consumed_size < Len(Stream) /\ Stream \in Seq(CellType)
  BY AtHeader
<1>2. /\ Stream[consumed_size + 1].msg = header.msg /\ Stream[consumed_size + 1].part = 1
      /\ consumed_size + 1 \in 1..Len(Stream) /\ consumed_size + 1 > consumed_size
  BY <1>1, CellIs
<1>3. ~AheadOf(consumed_size + 1, m, LastIndex(m))
  BY <1>1 DEF AheadOf, Between
<1>4. Alone(m) /\ Identifier[header.msg] = Identifier[m]
  BY DEF Owner, identifier
<1> QED BY <1>1, <1>2, <1>3, <1>4 DEF Alone

LEMMA OwnerTurn ==
  ASSUME TypeInv, StreamOK, OnTrack, ParseSingle \/ ParseFirst \/ ParseFragment,
         NEW m \in Messages, Owner(m), m # header.msg \/ header.index = 0
  PROVE  Owner(m)'
<1>1. Turn /\ HasMessage /\ UNCHANGED <<wire, nextFragment, replayed>>
  BY TurnKeeps
<1>2. /\ Holder(m) /\ Collected(m) /\ Alone(m) /\ Open(m) /\ Cell(m, 0, 1) \notin ToSet(wire)
      /\ Fragmented(m)
  BY DEF Owner, Holder
<1>3. LastIndex(m) \in Nat /\ LastIndex(m) > 1
  BY <1>2, SizesOfMessages
<1>4. ~(ParseFragment /\ Identifier[m] = identifier)
  <2>1. SUFFICES ASSUME ParseFragment, Identifier[m] = identifier PROVE FALSE
    OBVIOUS
  <2>2. Fragmented(header.msg) /\ header.index > 0
    BY <2>1 DEF ParseFragment, Fragmented
  <2>3. m = header.msg
    BY <1>1, <2>1, <2>2, OwnerOfHeader
  <2> QED BY <2>2, <2>3
<1>5. Open(m)' /\ Pending(m)' = Pending(m)
  BY <1>2, <1>4, BufferStays
<1>6. nextFragment[m] \in Nat /\ nextFragment[m] <= nextFragment[m]
  BY NextIs
<1>7. ASSUME NEW i \in 1..LastIndex(m)
      PROVE  (Ahead(m, i) => Ahead(m, i)') /\ (Ahead(m, i)' => Ahead(m, i))
  <2>1. m # header.msg \/ i # header.index
    BY <1>7
  <2> QED BY <1>1, <2>1, AheadTurn
<1>8. Holder(m)' /\ Collected(m)'
  BY <1>1, <1>2, <1>5, <1>6, <1>7, CollectedKept
<1>9. m # header.msg \/ LastIndex(m) # header.index
  BY <1>3
<1>10. Alone(m)'
  BY <1>1, <1>2, <1>9, AloneTurn
<1> QED BY <1>8, <1>10 DEF Owner

LEMMA SetOfAppended ==
  ASSUME NEW S, NEW s \in Seq(S), NEW e \in S
  PROVE  ToSet(Append(s, e)) = ToSet(s) \cup {e}
<1>1. /\ Append(s, e) \in Seq(S) /\ DOMAIN s = 1..Len(s) /\ Len(s) \in Nat
      /\ DOMAIN Append(s, e) = 1..(Len(s) + 1)
      /\ \A k \in 1..Len(s) : Append(s, e)[k] = s[k]
      /\ Append(s, e)[Len(s) + 1] = e
  OBVIOUS
<1> DEFINE t == Append(s, e)
<1> HIDE DEF t
<1>2. ASSUME NEW x \in ToSet(t) PROVE x \in ToSet(s) \cup {e}
  <2>1. PICK k \in 1..(Len(s) + 1) : x = t[k]
    BY <1>1, <1>2 DEF ToSet, t
  <2>2. k \in 1..Len(s) \/ k = Len(s) + 1
    BY <1>1
  <2> QED BY <1>1, <2>1, <2>2 DEF ToSet, t
<1>3. ASSUME NEW x \in ToSet(s) \cup {e} PROVE x \in ToSet(t)
  <2>1. CASE x = e
    <3>1. Len(s) + 1 \in 1..(Len(s) + 1)
      BY <1>1
    <3> QED BY <1>1, <2>1, <3>1 DEF ToSet, t
  <2>2. CASE x \in ToSet(s)
    <3>1. PICK k \in 1..Len(s) : x = s[k]
      BY <1>1, <2>2 DEF ToSet
    <3>2. k \in 1..(Len(s) + 1)
      BY <1>1
    <3> QED BY <1>1, <3>1, <3>2 DEF ToSet, t
  <2> QED BY <1>3, <2>1, <2>2
<1> QED BY <1>2, <1>3 DEF t

LEMMA PiecesAre ==
  ASSUME NEW m \in Messages, NEW n \in Nat
  PROVE  /\ PiecesOf(m, n) \in Seq(PayloadType) /\ Len(PiecesOf(m, n)) = n
         /\ \A k \in 1..n : PiecesOf(m, n)[k] = Payload(m, k)
         /\ \A i \in Nat : Payload(m, i) \in ToSet(PiecesOf(m, n)) <=> i \in 1..n
         /\ Append(PiecesOf(m, n), Payload(m, n + 1)) = PiecesOf(m, n + 1)
<1>1. \A k \in Nat : Payload(m, k) \in PayloadType
  BY PayloadIs
<1>2. ASSUME NEW h \in Nat
      PROVE  /\ PiecesOf(m, h) \in Seq(PayloadType) /\ Len(PiecesOf(m, h)) = h
             /\ DOMAIN PiecesOf(m, h) = 1..h
             /\ \A k \in 1..h : PiecesOf(m, h)[k] = Payload(m, k)
  BY <1>1 DEF PiecesOf
<1>3. ASSUME NEW i \in Nat PROVE Payload(m, i) \in ToSet(PiecesOf(m, n)) <=> i \in 1..n
  <2>1. \A k : Payload(m, i) = Payload(m, k) <=> i = k
    BY DEF Payload
  <2>2. /\ DOMAIN PiecesOf(m, n) = 1..n
        /\ \A k \in 1..n : PiecesOf(m, n)[k] = Payload(m, k)
    BY <1>2
  <2>3. Payload(m, i) \in ToSet(PiecesOf(m, n)) <=>
          \E k \in 1..n : PiecesOf(m, n)[k] = Payload(m, i)
    BY Zenon, <2>2 DEF ToSet
  <2> QED BY Zenon, <2>1, <2>2, <2>3
<1>4. Append(PiecesOf(m, n), Payload(m, n + 1)) = PiecesOf(m, n + 1)
  <2> DEFINE s == PiecesOf(m, n)
             t == PiecesOf(m, n + 1)
             e == Payload(m, n + 1)
  <2>1. /\ s \in Seq(PayloadType) /\ Len(s) = n /\ e \in PayloadType
        /\ \A k \in 1..n : s[k] = Payload(m, k)
    BY <1>1, <1>2
  <2>2. /\ t \in Seq(PayloadType) /\ Len(t) = n + 1
        /\ \A k \in 1..(n + 1) : t[k] = Payload(m, k)
    BY <1>2
  <2> HIDE DEF s, t
  <2>3. /\ Append(s, e) \in Seq(PayloadType) /\ Len(Append(s, e)) = n + 1
        /\ Append(s, e)[n + 1] = e /\ \A k \in 1..n : Append(s, e)[k] = s[k]
    BY <2>1, AppendProperties
  <2>4. ASSUME NEW k \in 1..(n + 1) PROVE Append(s, e)[k] = t[k]
    <3>1. k \in 1..n \/ k = n + 1
      OBVIOUS
    <3>2. k = n + 1 => Append(s, e)[k] = t[k]
      BY <2>2, <2>3
    <3>3. k \in 1..n => Append(s, e)[k] = t[k]
      BY <2>1, <2>2, <2>3
    <3> QED BY <3>1, <3>2, <3>3
  <2>5. Append(s, e) = t
    BY <2>2, <2>3, <2>4, SeqEqual
  <2> QED BY <2>5 DEF s, t
<1> QED BY <1>2, <1>3, <1>4

\* A fragment that is not the last one of its message goes into its buffer.
LEMMA OwnerPiece ==
  ASSUME TypeInv, StreamOK, OnTrack, ParseFragment, ~IsLast,
         NEW m, m = header.msg, Owner(m)
  PROVE  Owner(m)'
<1> DEFINE i == header.index
           P == Pending(m)
           Q == Pending(m)'
<1>1. Turn /\ HasMessage /\ UNCHANGED <<wire, nextFragment, replayed>>
  BY TurnKeeps
<1>2. /\ Holder(m) /\ Collected(m) /\ Alone(m) /\ Open(m) /\ Cell(m, 0, 1) \notin ToSet(wire)
      /\ Fragmented(m) /\ nextFragment[m] > 0
  BY DEF Owner, Holder
<1>3. m \in Messages /\ i < nextFragment[m] /\ nextFragment[m] \in Nat
  BY <1>1, AtHeader, NextIs
<1>4. LastIndex(m) \in Nat /\ i \in 1..(LastIndex(m) - 1) /\ i \in 1..LastIndex(m) /\ i \in Nat
  <2>1. LastIndex(m) \in Nat
    BY <1>3, SizesOfMessages
  <2>2. i \in 1..LastIndex(m) /\ i # LastIndex(m)
    BY TypeFragment
  <2> QED BY <2>1, <2>2
<1>5. P \in Seq(PayloadType) /\ Payload(m, i) \in PayloadType
  BY TypeFragment DEF Pending, identifier
<1>6. Open(m)' /\ Q = Append(P, Payload(m, i))
  <2>1. /\ fragmented_buffers_by_identifier' =
             [fragmented_buffers_by_identifier EXCEPT ![identifier] = Appended]
        /\ identifier \in DOMAIN fragmented_buffers_by_identifier
        /\ identifier = Identifier[m] /\ Appended = Append(P, Payload(m, i))
    BY DEF ParseFragment, IsOpen, identifier, Appended, Pending
  <2> QED BY <2>1 DEF Open, Pending
<1>7. ToSet(Q) = ToSet(P) \cup {Payload(m, i)}
  BY <1>5, <1>6, SetOfAppended
<1>8. /\ \A n, j : Ahead(n, j) /\ (n # m \/ j # i) => Ahead(n, j)'
      /\ \A n, j : Ahead(n, j)' => n # m \/ j \notin 0..i
      /\ \A j \in 0..i : Ahead(m, j) => j = i
      /\ Ahead(m, i)
  BY <1>1, AheadTurn
<1>9. Holder(m)'
  BY <1>1, <1>2, <1>6 DEF Holder, Fragmented, FragmentCount
<1> HIDE DEF i, P, Q
<1>10. ASSUME NEW p \in ToSet(Q) PROVE \E h \in 1..(LastIndex(m) - 1) : p = Payload(m, h)
  <2>1. \A q \in ToSet(P) : \E h \in 1..(LastIndex(m) - 1) : q = Payload(m, h)
    BY <1>2 DEF Collected, P
  <2> QED BY <1>4, <1>7, <1>10, <2>1
<1>11. ASSUME NEW j \in 1..LastIndex(m), j < nextFragment[m]
       PROVE  Payload(m, j) \in ToSet(Q) \/ Ahead(m, j)'
  <2>1. Payload(m, j) \in ToSet(P) \/ Ahead(m, j)
    BY <1>2, <1>11 DEF Collected, P
  <2>2. CASE j = i
    BY <1>7, <2>2
  <2>3. CASE j # i
    BY <1>7, <1>8, <2>1, <2>3
  <2> QED BY <2>2, <2>3
<1>12. ASSUME ~replayed
       PROVE  \E n \in 0..(LastIndex(m) - 1) :
                /\ n < nextFragment[m] /\ Q = PiecesOf(m, n) /\ \A j \in 1..n : ~Ahead(m, j)'
  <2>1. PICK n \in 0..(LastIndex(m) - 1) :
          n < nextFragment[m] /\ P = PiecesOf(m, n) /\ \A j \in 1..n : ~Ahead(m, j)
    BY <1>2, <1>12 DEF Collected, P
  <2>2. n < i
    BY <1>4, <1>8, <2>1
  <2>3. n + 1 = i
    <3>1. SUFFICES ASSUME n + 1 < i PROVE FALSE
      BY <1>4, <2>2
    <3>2. n + 1 \in 1..LastIndex(m) /\ n + 1 < nextFragment[m] /\ n + 1 \in 0..i /\ n + 1 # i
          /\ n \in Nat /\ n + 1 \notin 1..n /\ n + 1 \in Nat
      BY <1>3, <1>4, <2>1, <3>1
    <3>3. Payload(m, n + 1) \notin ToSet(P)
      BY <1>3, <2>1, <3>2, PiecesAre
    <3>4. ~Ahead(m, n + 1)
      BY <1>8, <3>2
    <3> QED BY <1>2, <3>2, <3>3, <3>4 DEF Collected, P
  <2>4. Q = PiecesOf(m, i)
    <3>1. n \in Nat
      BY <1>4, <2>1
    <3>2. Append(PiecesOf(m, n), Payload(m, n + 1)) = PiecesOf(m, n + 1)
      BY <1>3, <3>1, PiecesAre
    <3> QED BY Zenon, <1>6, <2>1, <2>3, <3>2
  <2>5. i \in 0..(LastIndex(m) - 1) /\ \A j \in 1..i : j \in 0..i
    BY <1>4
  <2>6. \A j \in 1..i : ~Ahead(m, j)'
    BY <1>8, <2>5
  <2> QED BY <1>3, <2>4, <2>5, <2>6
<1>13. Collected(m)'
  BY <1>1, <1>10, <1>11, <1>12 DEF Collected, PiecesOf, Payload, LastIndex, FragmentCount, Q
<1>14. Alone(m)'
  <2>1. LastIndex(m) # header.index
    BY <1>4 DEF i
  <2> QED BY <1>1, <1>2, <1>3, <2>1, AloneTurn
<1> QED BY <1>9, <1>13, <1>14 DEF Owner

\* The first fragment of a message opens a buffer for it.
LEMMA OwnerFirst ==
  ASSUME TypeInv, StreamOK, OnTrack, ParseFirst, ~IsOpen, NEW m, m = header.msg
  PROVE  Owner(m)'
<1> DEFINE c == consumed_size
<1>1. Turn /\ HasMessage /\ UNCHANGED <<wire, nextFragment, replayed>>
  BY TurnKeeps
<1>2. Fragmented(m) /\ header.index = 0
  BY TypeFirst
<1>3. /\ Sound(Stream, nextFragment) /\ m \in Messages /\ nextFragment[m] > 0
      /\ Stream \in Seq(CellType) /\ Stream[c + 1] = Cell(m, 0, 1)
      /\ c \in Nat /\ c < Len(Stream)
  BY <1>1, <1>2, AtHeader
<1>4. c + 1 \in 1..Len(Stream) /\ Len(Stream) \in Nat /\ c + 1 \in 1..buffer_size
  BY <1>1, <1>3, HeaderIs DEF HasMessage
<1>5. LastIndex(m) \in Nat /\ LastIndex(m) > 1
  BY <1>2, <1>3, SizesOfMessages
<1>6. Open(m)' /\ Pending(m)' = <<>>
  <2>1. Identifier[m] \notin DOMAIN fragmented_buffers_by_identifier /\ identifier = Identifier[m]
    BY DEF IsOpen, identifier
  <2> QED BY <2>1 DEF ParseFirst, Open, Pending
<1>7. Cell(m, 0, 1) \notin ToSet(wire)
  <2>1. Joins(Stream, parsing_buffer_, wire)
    BY StreamJoins DEF TypeInv
  <2>2. SUFFICES ASSUME Cell(m, 0, 1) \in ToSet(wire) PROVE FALSE
    OBVIOUS
  <2>3. PICK k \in 1..Len(Stream) : k > buffer_size /\ Stream[k] = Cell(m, 0, 1)
    BY <2>1, <2>2 DEF Joins, buffer_size
  <2>4. c + 1 < k
    <3>1. buffer_size \in Nat
      BY StreamIs DEF TypeInv
    <3> QED BY <1>3, <1>4, <2>3, <3>1
  <2>5. Precedes(Cell(m, 0, 1), Cell(m, 0, 1))
    BY <1>3, <1>4, <2>3, <2>4 DEF Sound, InOrder
  <2> QED BY <2>5, CellIs DEF Precedes
<1>8. Holder(m)'
  BY <1>1, <1>2, <1>3, <1>6, <1>7 DEF Holder, Fragmented, FragmentCount
<1>9. /\ \A k \in Nat : \A n, j :
           AheadOf(k, n, j) /\ (n # m \/ j # 0) => AheadOf(k, n, j)'
      /\ \A n, j : Ahead(n, j) /\ (n # m \/ j # 0) => Ahead(n, j)'
      /\ Stream' = Stream /\ consumed_size' \in Nat /\ c < consumed_size'
      /\ \A l \in 1..Len(Stream) :
           consumed_size' < l /\ Stream[l].msg = m /\ Stream[l].part = 1 => 0 < Stream[l].index
  BY <1>1, <1>2, AheadTurn
<1>10. ASSUME NEW i \in 1..LastIndex(m), i < nextFragment[m] PROVE Ahead(m, i)'
  <2>1. Stream[c + 1].msg = m /\ Stream[c + 1].index = 0 /\ i # 0 /\ 0 < i
    BY <1>3, <1>5, CellIs
  <2>2. Between(Stream, c + 1, Len(Stream) + 1, Cell(m, i, 1))
    BY <1>3, <1>4, <1>10, <2>1 DEF Sound, Complete
  <2>3. Ahead(m, i)
    BY <1>3, <2>2 DEF Ahead, Between
  <2> QED BY <1>9, <2>1, <2>3
<1>11. Collected(m)'
  <2>1. ToSet(<<>>) = {}
    BY DEF ToSet
  <2>2. PiecesOf(m, 0) = <<>>
    <3>1. PiecesOf(m, 0) \in Seq(PayloadType) /\ Len(PiecesOf(m, 0)) = 0
      BY <1>3, PiecesAre
    <3> QED BY <3>1, EmptySeq
  <2>3. 0 \in 0..(LastIndex(m) - 1) /\ \A i \in 1..0 : FALSE
    BY <1>5
  <2> DEFINE Q == Pending(m)'
  <2>4. Q = <<>>
    BY <1>6
  <2> HIDE DEF Q
  <2>5. \A p \in ToSet(Q) : \E i \in 1..(LastIndex(m) - 1) : p = Payload(m, i)
    BY <2>1, <2>4
  <2>6. \A i \in 1..LastIndex(m) : i < nextFragment'[m]
          => Payload(m, i) \in ToSet(Q) \/ Ahead(m, i)'
    BY <1>1, <1>10
  <2>7. \E n \in 0..(LastIndex(m) - 1) :
          n < nextFragment'[m] /\ Q = PiecesOf(m, n) /\ \A i \in 1..n : ~Ahead(m, i)'
    BY <1>1, <1>3, <2>2, <2>3, <2>4
  <2> QED BY <2>5, <2>6, <2>7 DEF Collected, PiecesOf, Payload, LastIndex, FragmentCount, Q
<1>12. ASSUME NEW n \in Messages, NEW k \in 1..Len(Stream), n # m, Fragmented(n),
              Identifier[n] = Identifier[m], k > consumed_size', Stream[k].msg = n,
              Stream[k].part = 1
       PROVE  AheadOf(k, m, LastIndex(m))'
  <2>1. c + 1 < k /\ k \in Nat /\ c + 1 - 1 = c /\ LastIndex(m) # 0
    BY <1>3, <1>5, <1>9, <1>12
  <2>2. Stream[c + 1].msg = m /\ Stream[c + 1].part = 1
    BY <1>3, CellIs
  <2>3. Between(Stream, c + 1 - 1, k, Cell(m, LastIndex(m), 1))
    BY <1>2, <1>3, <1>4, <1>12, <2>1, <2>2 DEF Sound, Apart
  <2>4. AheadOf(k, m, LastIndex(m))
    BY <2>1, <2>3 DEF AheadOf
  <2> QED BY <1>9, <2>1, <2>4
<1>13. Alone(m)'
  BY <1>9, <1>12 DEF Alone, Fragmented, FragmentCount, LastIndex
<1> QED BY <1>8, <1>11, <1>13 DEF Owner

\* Every buffer is the buffer of a message that is being received.
LEMMA OwnersStep ==
  ASSUME TypeInv, StreamOK, OwnersOK, [Next]_vars
  PROVE  OwnersOK'
<1>0. SUFFICES ASSUME OnTrack', Tell', NEW id \in DOMAIN fragmented_buffers_by_identifier'
               PROVE  \E m \in Messages : Identifier[m] = id /\ Owner(m)'
  BY DEF OwnersOK
<1>1. OnTrack /\ ~torn'
  BY <1>0, TrackKept DEF OnTrack
<1>2. Tell
  BY <1>0, <1>1, TornKept
<1>3. ASSUME NEW d \in DOMAIN fragmented_buffers_by_identifier
      PROVE  \E m \in Messages : Identifier[m] = d /\ Owner(m)
  BY <1>1, <1>2 DEF OwnersOK
<1>4. ASSUME NEW x \in Messages, SendFragment(x)
      PROVE  \E m \in Messages : Identifier[m] = id /\ Owner(m)'
  <2>1. id \in DOMAIN fragmented_buffers_by_identifier
    BY <1>4 DEF SendFragment
  <2>2. PICK m \in Messages : Identifier[m] = id /\ Owner(m)
    BY <1>3, <2>1
  <2> QED BY <1>4, <2>2, OwnerSend
<1>5. CASE Quiet
  <2>1. id \in DOMAIN fragmented_buffers_by_identifier
    BY <1>5 DEF Quiet
  <2>2. PICK m \in Messages : Identifier[m] = id /\ Owner(m)
    BY <1>3, <2>1
  <2> QED BY <1>5, <2>2, OwnerQuiet
<1>6. ASSUME ParseSingle \/ ParseFirst \/ ParseFragment, NEW m \in Messages, Identifier[m] = id,
             Owner(m), m # header.msg \/ header.index = 0
      PROVE  \E n \in Messages : Identifier[n] = id /\ Owner(n)'
  BY <1>1, <1>6, OwnerTurn
<1>7. CASE ParseSingle
  <2>1. id \in DOMAIN fragmented_buffers_by_identifier
    BY <1>7 DEF ParseSingle
  <2>2. PICK m \in Messages : Identifier[m] = id /\ Owner(m)
    BY <1>3, <2>1
  <2>3. Fragmented(m) /\ ~(Fragmented(header.msg))
    BY <1>7, <2>2 DEF Owner, Holder, ParseSingle, Fragmented
  <2> QED BY <1>6, <1>7, <2>2, <2>3
<1>8. CASE ParseFirst
  <2>1. CASE id \in DOMAIN fragmented_buffers_by_identifier
    <3>1. PICK m \in Messages : Identifier[m] = id /\ Owner(m)
      BY <1>3, <2>1
    <3> QED BY <1>6, <1>8, <3>1 DEF ParseFirst
  <2>2. CASE id \notin DOMAIN fragmented_buffers_by_identifier
    <3>1. id = identifier /\ ~IsOpen
      BY <1>8, <2>2 DEF ParseFirst, IsOpen
    <3>2. header.msg \in Messages /\ Identifier[header.msg] = id
      BY <1>1, <1>8, <3>1, MessageIs DEF ParseFirst, identifier
    <3>3. \A m : m = header.msg => Owner(m)'
      BY <1>1, <1>8, <3>1, OwnerFirst
    <3> QED BY <3>2, <3>3
  <2> QED BY <2>1, <2>2
<1>9. CASE ParseFragment
  <2>0. HasMessage /\ Fragmented(header.msg)
    BY <1>9 DEF ParseFragment, Fragmented
  <2>1. CASE id # identifier
    <3>1. id \in DOMAIN fragmented_buffers_by_identifier
      BY <1>9, <2>1 DEF ParseFragment, BuffersReleased
    <3>2. PICK m \in Messages : Identifier[m] = id /\ Owner(m)
      BY <1>3, <3>1
    <3>3. m # header.msg
      BY <2>1, <3>2 DEF identifier
    <3> QED BY <1>6, <1>9, <3>2, <3>3
  <2>2. CASE id = identifier
    <3>1. ~IsLast /\ id \in DOMAIN fragmented_buffers_by_identifier
      BY <1>9, <2>2 DEF ParseFragment, BuffersReleased
    <3>2. PICK m \in Messages : Identifier[m] = id /\ Owner(m)
      BY <1>3, <3>1
    <3>3. m = header.msg
      BY <1>1, <2>0, <2>2, <3>2, OwnerOfHeader
    <3>4. Owner(m)'
      BY <1>1, <1>9, <3>1, <3>2, <3>3, OwnerPiece
    <3> QED BY <3>2, <3>4
  <2> QED BY <2>1, <2>2
<1>10. CASE FinishParsing /\ Move
  <2>1. id \in DOMAIN fragmented_buffers_by_identifier
    BY <1>10 DEF FinishParsing
  <2>2. PICK m \in Messages : Identifier[m] = id /\ Owner(m)
    BY <1>3, <2>1
  <2> QED BY <1>10, <2>2, OwnerMove
<1>11. CASE FinishParsing /\ Again
  <2>1. id \in DOMAIN fragmented_buffers_by_identifier
    BY <1>11 DEF FinishParsing
  <2>2. PICK m \in Messages : Identifier[m] = id /\ Owner(m)
    BY <1>3, <2>1
  <2>3. FragmentedByIdentifier
    <3>1. replayed'
      BY <1>11 DEF Again
    <3> QED BY Zenon, <1>0, <3>1 DEF Tell, FragmentedByIdentifier, FragmentCount
  <2> QED BY <1>11, <2>2, <2>3, OwnerAgain
<1>12. CASE Derailed
  BY <1>0, <1>12 DEF Derailed
<1>13. CASE Reconnect
  <2>1. id \in DOMAIN fragmented_buffers_by_identifier
    BY <1>13 DEF Reconnect
  <2>2. PICK m \in Messages : Identifier[m] = id /\ Owner(m)
    BY <1>3, <2>1
  <2>3. \A n \in Messages : ~IsCut(n)
    BY <1>1, <1>13, TornKept
  <2> QED BY <1>13, <2>2, <2>3, OwnerReconnect
<1> QED BY <1>4, <1>5, <1>7, <1>8, <1>9, <1>10, <1>11, <1>12, <1>13, StepIs

\* The first fragment that is parsed gives its message a buffer, which it has until
\* the last one.
LEMMA BegunTurn ==
  ASSUME TypeInv, StreamOK, OwnersOK, OnTrack, ~replayed,
         ParseSingle \/ ParseFirst \/ ParseFragment, NEW n \in Messages, Fragmented(n)
  PROVE  /\ n = header.msg /\ header.index = 0 => Owner(n)'
         /\ Owner(n) /\ ~(n = header.msg /\ header.index = LastIndex(n)) => Owner(n)'
<1>1. HasMessage
  BY TurnKeeps
<1>2. ASSUME n = header.msg, header.index = 0 PROVE Owner(n)'
  <2>1. ParseFirst
    BY <1>2 DEF ParseSingle, ParseFragment, Fragmented
  <2>2. CASE ~IsOpen
    BY <1>2, <2>1, <2>2, OwnerFirst
  <2>3. CASE IsOpen
    <3>1. PICK m \in Messages : Identifier[m] = identifier /\ Owner(m)
      BY <2>3 DEF OwnersOK, Tell, IsOpen
    <3>2. m = header.msg
      BY <1>1, <1>2, <3>1, OwnerOfHeader
    <3> QED BY <1>2, <3>1, <3>2, OwnerTurn
  <2> QED BY <2>2, <2>3
<1>3. ASSUME Owner(n), ~(n = header.msg /\ header.index = LastIndex(n)) PROVE Owner(n)'
  <2>1. CASE n # header.msg \/ header.index = 0
    BY <1>3, <2>1, OwnerTurn
  <2>2. CASE n = header.msg /\ header.index # 0
    <3>1. ParseFragment
      BY <2>2, TypeFirst DEF ParseSingle, Fragmented
    <3>2. ~IsLast
      BY <1>3, <2>2, <3>1, TypeFragment
    <3> QED BY <1>3, <2>2, <3>1, <3>2, OwnerPiece
  <2> QED BY <2>1, <2>2
<1> QED BY <1>2, <1>3

LEMMA BegunStep ==
  ASSUME TypeInv, StreamOK, LostOK, WaitingOK, OwnersOK, BegunOK, [Next]_vars
  PROVE  BegunOK'
<1>0. SUFFICES
        ASSUME OnTrack', ~replayed', NEW n \in Messages, Fragmented(n)
        PROVE  /\ InProgress(n)' => Ahead(n, 0)' \/ Owner(n)'
               /\ \A k \in 1..Len(Stream') :
                    /\ k > consumed_size' /\ Stream'[k].msg = n /\ Stream'[k].part = 1
                    /\ Stream'[k].index > 0
                    => Owner(n)' \/ AheadOf(k, n, 0)'
  BY DEF BegunOK, Fragmented, FragmentCount
<1>1. OnTrack /\ ~torn' /\ ~replayed
  BY <1>0, TrackKept, TornKept DEF OnTrack
<1>2. /\ InProgress(n) => Ahead(n, 0) \/ Owner(n)
      /\ \A k \in 1..Len(Stream) :
           /\ k > consumed_size /\ Stream[k].msg = n /\ Stream[k].part = 1 /\ Stream[k].index > 0
           => Owner(n) \/ AheadOf(k, n, 0)
  BY <1>0, <1>1 DEF BegunOK
<1>3. /\ nextFragment[n] \in Nat /\ nextFragment[n] \in 0..FragmentCount(n)
      /\ FragmentCount(n) \in Nat /\ FragmentCount(n) = LastIndex(n) + 1 /\ LastIndex(n) \in Nat
  BY NextIs, SizesOfMessages
<1>4. ASSUME NEW x \in Messages, SendFragment(x)
      PROVE  /\ InProgress(n)' => Ahead(n, 0)' \/ Owner(n)'
             /\ \A k \in 1..Len(Stream') :
                  /\ k > consumed_size' /\ Stream'[k].msg = n /\ Stream'[k].part = 1
                  /\ Stream'[k].index > 0
                  => Owner(n)' \/ AheadOf(k, n, 0)'
  <2>1. Owner(n) => Owner(n)'
    BY <1>4, OwnerSend
  <2>2. /\ Ahead(n, 0) => Ahead(n, 0)'
        /\ consumed_size' = consumed_size /\ Len(Stream) \in Nat
    BY <1>4, AheadSend
  <2>3. /\ nextFragment[x] < FragmentCount(x)
        /\ \A m \in Messages : m # x => nextFragment'[m] = nextFragment[m]
    BY <1>4, SendStream DEF SendFragment
  <2>4. x = n /\ nextFragment[n] > 0 => InProgress(n)
    BY <1>3, <2>3 DEF InProgress
  <2>5. ASSUME InProgress(n)' PROVE Ahead(n, 0)' \/ Owner(n)'
    <3>1. CASE x # n
      <4>1. InProgress(n)
        BY <2>3, <2>5, <3>1 DEF InProgress, FragmentCount
      <4> QED BY <1>2, <2>1, <2>2, <4>1
    <3>2. CASE x = n /\ nextFragment[n] > 0
      BY <1>2, <2>1, <2>2, <2>4, <3>2
    <3>3. CASE x = n /\ nextFragment[n] = 0
      BY <1>4, <3>3, AheadSend
    <3> QED BY <1>3, <3>1, <3>2, <3>3
  <2>6. ASSUME NEW k \in 1..Len(Stream'), k > consumed_size', Stream'[k].msg = n,
               Stream'[k].part = 1, Stream'[k].index > 0
        PROVE  Owner(n)' \/ AheadOf(k, n, 0)'
    <3>1. CASE k <= Len(Stream)
      <4>1. k \in 1..Len(Stream) /\ Stream'[k] = Stream[k]
        BY <1>4, <2>2, <3>1, AheadSend
      <4>2. Owner(n) \/ AheadOf(k, n, 0)
        BY <1>2, <2>2, <2>6, <4>1
      <4> QED BY <1>4, <2>1, <4>1, <4>2, AheadSend
    <3>2. CASE k > Len(Stream)
      <4>1. n = x /\ nextFragment[n] > 0
        BY <1>4, <2>6, <3>2, AheadSend
      <4>2. Ahead(n, 0) \/ Owner(n)
        BY <1>2, <2>4, <4>1
      <4> QED BY <1>4, <2>1, <3>2, <4>2, AheadSend
    <3> QED BY <2>2, <3>1, <3>2
  <2> QED BY <2>5, <2>6
<1>5. CASE Quiet
  <2>1. Owner(n) => Owner(n)'
    BY <1>5, OwnerQuiet
  <2>2. UNCHANGED <<Stream, consumed_size, nextFragment>>
    BY <1>5 DEF Quiet
  <2>3. InProgress(n)' => InProgress(n)
    BY <2>2 DEF InProgress, FragmentCount
  <2>4. (Ahead(n, 0) => Ahead(n, 0)') /\ \A k : AheadOf(k, n, 0) => AheadOf(k, n, 0)'
    BY <2>2 DEF Ahead, AheadOf
  <2> QED BY <1>2, <2>1, <2>2, <2>3, <2>4
<1>6. CASE ParseSingle \/ ParseFirst \/ ParseFragment
  <2>1. Turn /\ HasMessage /\ UNCHANGED nextFragment
    BY <1>6, TurnKeeps
  <2>2. /\ n = header.msg /\ header.index = 0 => Owner(n)'
        /\ Owner(n) /\ ~(n = header.msg /\ header.index = LastIndex(n)) => Owner(n)'
    BY <1>0, <1>1, <1>6, BegunTurn
  <2>3. InProgress(n)' => InProgress(n)
    BY <2>1 DEF InProgress, FragmentCount
  <2>4. /\ Stream' = Stream /\ consumed_size' \in Nat /\ consumed_size < consumed_size'
        /\ Ahead(n, 0) /\ (n # header.msg \/ 0 # header.index) => Ahead(n, 0)'
        /\ \A k \in Nat :
             AheadOf(k, n, 0) /\ (n # header.msg \/ 0 # header.index) => AheadOf(k, n, 0)'
        /\ \A l \in 1..Len(Stream) :
             consumed_size' < l /\ Stream[l].msg = header.msg /\ Stream[l].part = 1 =>
               header.index < Stream[l].index
    BY <1>1, <2>1, AheadTurn
  <2>5. ASSUME InProgress(n)' PROVE Ahead(n, 0)' \/ Owner(n)'
    <3>1. Ahead(n, 0) \/ Owner(n)
      BY <1>2, <2>3, <2>5
    <3>2. ~(n = header.msg /\ header.index = LastIndex(n))
      <4>1. n = header.msg => header.index < nextFragment[n]
        BY <2>1, MessageIs
      <4>2. nextFragment[n] < FragmentCount(n)
        BY <1>3, <2>3, <2>5 DEF InProgress
      <4> QED BY <1>3, <4>1, <4>2
    <3> QED BY <2>2, <2>4, <3>1, <3>2
  <2>6. ASSUME NEW k \in 1..Len(Stream), k > consumed_size', Stream[k].msg = n,
               Stream[k].part = 1, Stream[k].index > 0
        PROVE  Owner(n)' \/ AheadOf(k, n, 0)'
    <3>1. k > consumed_size /\ k \in Nat
      <4>1. consumed_size \in Nat
        BY <1>1, <2>1, AtHeader
      <4> QED BY <2>4, <2>6, <4>1
    <3>2. Owner(n) \/ AheadOf(k, n, 0)
      BY <1>2, <2>6, <3>1
    <3>3. ~(n = header.msg /\ header.index = LastIndex(n))
      <4>1. Proper(Stream[k])
        BY <1>1, <2>1, AtHeader
      <4>2. Stream[k].index \in 0..LastIndex(n)
        BY <2>6, <4>1 DEF Proper
      <4>3. n = header.msg => header.index < Stream[k].index
        BY <2>4, <2>6, <3>1
      <4> QED BY <1>3, <4>2, <4>3
    <3> QED BY <2>2, <2>4, <3>1, <3>2, <3>3
  <2> QED BY <2>4, <2>5, <2>6
<1>7. CASE Move
  <2>1. Owner(n) => Owner(n)'
    BY <1>7, OwnerMove
  <2>2. UNCHANGED nextFragment
    BY <1>7 DEF Move
  <2>3. InProgress(n)' => InProgress(n)
    BY <2>2 DEF InProgress, FragmentCount
  <2>4. Ahead(n, 0) => Ahead(n, 0)'
    BY <1>7, AheadMove
  <2>5. ASSUME NEW k \in 1..Len(Stream'), Stream'[k].msg = n,
               Stream'[k].part = 1, Stream'[k].index > 0
        PROVE  Owner(n)' \/ AheadOf(k, n, 0)'
    <3>1. /\ consumed_size + k \in 1..Len(Stream) /\ consumed_size + k > consumed_size
          /\ Stream'[k] = Stream[consumed_size + k]
      BY <1>7, AheadMove
    <3>2. Owner(n) \/ AheadOf(consumed_size + k, n, 0)
      BY <1>2, <2>5, <3>1
    <3>3. k \in Nat
      OBVIOUS
    <3> QED BY <1>7, <2>1, <3>2, <3>3, AheadMove
  <2> QED BY <1>2, <2>1, <2>3, <2>4, <2>5
<1>8. CASE Again \/ Derailed
  BY <1>0, <1>8 DEF Again, Derailed
<1>9. CASE Reconnect
  <2>1. parsing_buffer_ = <<>>
    BY <1>1, <1>9, NothingWaits
  <2>2. Stream' = <<>>
    BY <1>9, <2>1, TypeReconnect
  <2>3. nextFragment'[n] = 0 \/ nextFragment'[n] = FragmentCount(n)
    BY <1>3, <1>9, TypeReconnect
  <2>4. ~InProgress(n)'
    BY <1>3, <2>3 DEF InProgress, FragmentCount
  <2>5. 1..Len(Stream') = {}
    BY <2>2
  <2> QED BY <2>4, <2>5
<1> QED BY <1>4, <1>5, <1>6, <1>7, <1>8, <1>9, StepIs
-----------------------------------------------------------------------------
(* What a message becomes *)

LEMMA TurnOnTrack ==
  ASSUME ~torn, ParseSingle \/ ParseFirst \/ ParseFragment
  PROVE  OnTrack
<1>1. pc = "loop" /\ header.part = 1
  BY DEF ParseSingle, ParseFirst, ParseFragment, HasMessage, MagicMatches
<1> QED BY <1>1 DEF OnTrack, Lost, header

LEMMA WholeIs ==
  ASSUME NEW m \in Messages
  PROVE  /\ FragmentCount(m) = 1 => Whole(m) = Parsed(m, <<Payload(m, 0)>>)
         /\ Fragmented(m) => Whole(m) = Parsed(m, PiecesOf(m, LastIndex(m)))
<1>1. Fragmented(m) => FragmentCount(m) # 1 /\ LastIndex(m) = Len(Pieces[m])
  BY SizesOfMessages DEF Fragmented
<1> QED BY <1>1 DEF Whole, PiecesOf

\* The last fragment of a message is parsed: the ones before it are in its buffer.
LEMMA PiecesBefore ==
  ASSUME TypeInv, StreamOK, OnTrack, ParseFragment, NEW m, m = header.msg, Owner(m),
         header.index = LastIndex(m)
  PROVE  /\ m \in Messages /\ LastIndex(m) \in Nat /\ LastIndex(m) > 1
         /\ \A i \in 1..(LastIndex(m) - 1) : ~Ahead(m, i) /\ Payload(m, i) \in ToSet(Pending(m))
         /\ \A p \in ToSet(Pending(m)) : \E i \in 1..(LastIndex(m) - 1) : p = Payload(m, i)
         /\ Pending(m) \in Seq(PayloadType) /\ Payload(m, LastIndex(m)) \in PayloadType
         /\ Data = Append(Pending(m), Payload(m, LastIndex(m)))
<1>1. Turn /\ HasMessage
  BY TurnKeeps
<1>2. m \in Messages /\ LastIndex(m) < nextFragment[m] /\ nextFragment[m] \in Nat
  BY <1>1, AtHeader, NextIs
<1>3. Fragmented(m) /\ Collected(m)
  BY DEF Owner, Holder
<1>4. LastIndex(m) \in Nat /\ LastIndex(m) > 1
  BY <1>2, <1>3, SizesOfMessages
<1>5. ASSUME NEW i \in 1..(LastIndex(m) - 1)
      PROVE  ~Ahead(m, i) /\ Payload(m, i) \in ToSet(Pending(m))
  <2>1. i \in 0..LastIndex(m) /\ i # LastIndex(m) /\ i \in 1..LastIndex(m) /\ i < nextFragment[m]
    BY <1>2, <1>4
  <2>2. \A j \in 0..header.index : Ahead(header.msg, j) => j = header.index
    BY <1>1, AheadTurn
  <2>3. ~Ahead(m, i)
    BY <2>1, <2>2
  <2> QED BY <1>3, <2>1, <2>3 DEF Collected
<1>6. /\ Pending(m) \in Seq(PayloadType) /\ Payload(m, LastIndex(m)) \in PayloadType
      /\ Data = Append(Pending(m), Payload(m, LastIndex(m)))
  <2>1. FragmentCount(header.msg) # 1
    BY <1>3 DEF Fragmented
  <2> QED BY <2>1, TypeFragment DEF Pending, identifier, Data, Appended
<1> QED BY <1>2, <1>3, <1>4, <1>5, <1>6 DEF Collected

LEMMA DataIs ==
  ASSUME TypeInv, StreamOK, BegunOK, OnTrack, ~replayed,
         ParseSingle \/ ParseFirst \/ ParseFragment, NEW m, m = header.msg,
         header.index = LastIndex(m)
  PROVE  Parsed(m, Data) = Whole(m)
<1>1. HasMessage /\ m \in Messages
  BY TurnKeeps, MessageIs
<1>2. CASE FragmentCount(m) = 1
  BY <1>1, <1>2, WholeIs DEF Data
<1>3. CASE FragmentCount(m) # 1
  <2>1. Fragmented(m) /\ LastIndex(m) \in Nat /\ LastIndex(m) > 1
    BY <1>1, <1>3, SizesOfMessages DEF Fragmented
  <2>2. ParseFragment
    BY <1>3, <2>1, TypeFirst DEF ParseSingle
  <2>3. Owner(m)
    <3>1. /\ Stream[consumed_size + 1] = Cell(m, LastIndex(m), 1) /\ consumed_size \in Nat
          /\ consumed_size < Len(Stream) /\ Stream \in Seq(CellType)
      BY <1>1, AtHeader
    <3>2. /\ consumed_size + 1 \in 1..Len(Stream) /\ consumed_size + 1 > consumed_size
          /\ Stream[consumed_size + 1].msg = m /\ Stream[consumed_size + 1].part = 1
          /\ Stream[consumed_size + 1].index > 0
      BY <2>1, <3>1, CellIs
    <3>3. ~AheadOf(consumed_size + 1, m, 0)
      BY <3>1 DEF AheadOf, Between
    <3> QED BY <1>1, <2>1, <3>2, <3>3 DEF BegunOK
  <2>4. /\ \A i \in 1..(LastIndex(m) - 1) : ~Ahead(m, i) /\ Payload(m, i) \in ToSet(Pending(m))
        /\ Data = Append(Pending(m), Payload(m, LastIndex(m)))
    BY <2>2, <2>3, PiecesBefore
  <2>5. PICK n \in 0..(LastIndex(m) - 1) : Pending(m) = PiecesOf(m, n)
    BY <2>3 DEF Owner, Collected
  <2>6. n \in Nat /\ n + 1 = LastIndex(m)
    <3>1. SUFFICES ASSUME n + 1 # LastIndex(m) PROVE FALSE
      BY <2>1
    <3>2. n \in Nat /\ n + 1 \in Nat /\ n + 1 \in 1..(LastIndex(m) - 1) /\ n + 1 \notin 1..n
      BY <2>1, <2>5, <3>1
    <3> QED BY <1>1, <2>4, <2>5, <3>2, PiecesAre
  <2>7. Append(PiecesOf(m, n), Payload(m, n + 1)) = PiecesOf(m, n + 1)
    BY <1>1, <2>6, PiecesAre
  <2>8. Data = PiecesOf(m, LastIndex(m))
    BY Zenon, <2>4, <2>5, <2>6, <2>7
  <2> QED BY <1>1, <2>1, <2>8, WholeIs
<1> QED BY <1>2, <1>3

LEMMA SetOfData ==
  ASSUME TypeInv, StreamOK, OwnersOK, OnTrack, Tell,
         ParseSingle \/ ParseFirst \/ ParseFragment, NEW m, m = header.msg,
         header.index = LastIndex(m)
  PROVE  ToSet(Data) = ToSet(Whole(m).data)
<1>1. HasMessage /\ m \in Messages
  BY TurnKeeps, MessageIs
<1>2. CASE FragmentCount(m) = 1
  BY <1>1, <1>2, WholeIs DEF Data, Parsed
<1>3. CASE FragmentCount(m) # 1
  <2>1. Fragmented(m) /\ LastIndex(m) \in Nat /\ LastIndex(m) > 1
    BY <1>1, <1>3, SizesOfMessages DEF Fragmented
  <2>2. ParseFragment
    BY <1>3, <2>1, TypeFirst DEF ParseSingle
  <2>3. Owner(m)
    <3>1. PICK n \in Messages : Identifier[n] = identifier /\ Owner(n)
      BY <2>2 DEF OwnersOK, ParseFragment, IsOpen
    <3> QED BY <1>1, <2>1, <3>1, OwnerOfHeader
  <2> DEFINE P == Pending(m)
             last == LastIndex(m)
  <2>4. /\ \A i \in 1..(last - 1) : Payload(m, i) \in ToSet(P)
        /\ \A p \in ToSet(P) : \E i \in 1..(last - 1) : p = Payload(m, i)
        /\ P \in Seq(PayloadType) /\ Payload(m, last) \in PayloadType
        /\ Data = Append(P, Payload(m, last))
    BY <2>2, <2>3, PiecesBefore
  <2>5. ToSet(Data) = ToSet(P) \cup {Payload(m, last)}
    BY <2>4, SetOfAppended
  <2>6. Whole(m).data = PiecesOf(m, last)
    BY <1>1, <2>1, WholeIs DEF Parsed
  <2>7. /\ DOMAIN PiecesOf(m, last) = 1..last
        /\ \A k \in 1..last : PiecesOf(m, last)[k] = Payload(m, k)
    BY DEF PiecesOf
  <2> HIDE DEF P, last
  <2>8. \A p : p \in ToSet(PiecesOf(m, last)) <=> \E k \in 1..last : p = Payload(m, k)
    BY Zenon, <2>7 DEF ToSet
  <2>9. \A k \in 1..last : k \in 1..(last - 1) \/ k = last
    BY <2>1 DEF last
  <2>10. last \in 1..last /\ \A k \in 1..(last - 1) : k \in 1..last
    BY <2>1 DEF last
  <2>11. \A p : p \in ToSet(Data) <=> p \in ToSet(PiecesOf(m, last))
    <3>1. ASSUME NEW p \in ToSet(Data) PROVE \E k \in 1..last : p = Payload(m, k)
      <4>1. p \in ToSet(P) \/ p = Payload(m, last)
        BY <2>5, <3>1
      <4> QED BY <2>4, <2>10, <4>1
    <3>2. ASSUME NEW k \in 1..last PROVE Payload(m, k) \in ToSet(Data)
      <4>1. CASE k = last
        BY <2>5, <4>1
      <4>2. CASE k \in 1..(last - 1)
        BY <2>4, <2>5, <4>2
      <4> QED BY Zenon, <2>9, <4>1, <4>2
    <3>3. \A p \in ToSet(Data) : p \in ToSet(PiecesOf(m, last))
      BY <2>8, <3>1
    <3>4. \A p \in ToSet(PiecesOf(m, last)) : p \in ToSet(Data)
      BY <2>8, <3>2
    <3> QED BY Zenon, <3>3, <3>4
  <2> QED BY Zenon, <2>6, <2>11
<1> QED BY <1>2, <1>3

\* Without repetitions the next message to be parsed to its end is the next one that
\* the device has sent.
LEMMA NextSent ==
  ASSUME TypeInv, StreamOK, SentOK, EarlierOK, NewOK, OnTrack, ~replayed, HasMessage, Turn,
         NEW m, m = header.msg, header.index = LastIndex(m), IsPrefix(parsed, sent)
  PROVE  Len(parsed) + 1 \in DOMAIN sent /\ sent[Len(parsed) + 1] = Whole(m)
<1> DEFINE c == consumed_size
           P == Len(parsed)
<1>1. /\ parsed \in Seq(ParsedType) /\ sent \in Seq(ParsedType) /\ P \in Nat /\ Len(sent) \in Nat
      /\ DOMAIN sent = 1..Len(sent) /\ DOMAIN parsed = 1..P
  BY ParsedIsSeq DEF TypeInv, TypeOK
<1>2. P <= Len(sent) /\ \A k \in 1..P : parsed[k] = sent[k]
  BY <1>1, PrefixIs
<1>3. m \in Messages /\ Stream[c + 1] = Cell(m, LastIndex(m), 1)
  BY AtHeader
<1>4. /\ Ahead(m, LastIndex(m)) /\ c + 1 \in 1..Len(Stream)
      /\ \A n, j : ~AheadOf(c + 1, n, j)
  BY AheadTurn
<1>5. ~HasParsed(m) /\ \E i \in DOMAIN sent : sent[i].msg = m
  BY <1>3, <1>4 DEF NewOK
<1>6. PICK i \in 1..Len(sent) : sent[i].msg = m
  BY <1>1, <1>5
<1>7. i > P
  <2>1. SUFFICES ASSUME ~(i > P) PROVE FALSE
    OBVIOUS
  <2>2. i \in 1..P
    BY <1>1, <2>1
  <2> QED BY <1>1, <1>2, <1>5, <1>6, <2>2 DEF HasParsed
<1>8. ~(P + 1 < i)
  <2>1. SUFFICES ASSUME P + 1 < i PROVE FALSE
    OBVIOUS
  <2>2. P + 1 \in 1..Len(sent)
    BY <1>1, <2>1
  <2>3. HasParsed(sent[P + 1].msg)
    BY <1>1, <1>3, <1>4, <1>6, <2>1, <2>2 DEF EarlierOK
  <2>4. PICK h \in 1..P : parsed[h].msg = sent[P + 1].msg
    BY <1>1, <2>3 DEF HasParsed
  <2>5. h \in 1..Len(sent) /\ h # P + 1 /\ sent[h].msg = sent[P + 1].msg
    BY <1>1, <1>2, <2>4
  <2> QED BY <1>1, <2>2, <2>5 DEF SentOK
<1>9. i = P + 1
  BY <1>1, <1>7, <1>8
<1>10. sent[i] = Whole(m)
  BY <1>1, <1>6 DEF SentOK
<1> QED BY <1>1, <1>6, <1>9, <1>10

LEMMA OnceStep ==
  ASSUME TypeInv, StreamOK, SentOK, EarlierOK, NewOK, BegunOK, OnceOK, [Next]_vars
  PROVE  OnceOK'
<1>0. SUFFICES ASSUME ~torn', ~replayed' PROVE IsPrefix(parsed', sent')
  BY DEF OnceOK, IsPrefix
<1>1. ~torn /\ ~replayed /\ IsPrefix(parsed, sent)
  BY <1>0, TornKept DEF OnceOK
<1>2. /\ parsed \in Seq(ParsedType) /\ parsed' \in Seq(ParsedType)
      /\ sent \in Seq(ParsedType) /\ sent' \in Seq(ParsedType)
      /\ Len(sent) \in Nat /\ Len(parsed) \in Nat
      /\ DOMAIN sent = 1..Len(sent) /\ DOMAIN sent' = 1..Len(sent')
  <2>1. TypeInv'
    BY TypeStep
  <2>2. /\ delivered' \in Seq(ParsedType) /\ parsed_message_queue_' \in Seq(ParsedType)
        /\ sent' \in Seq(ParsedType)
    BY <2>1 DEF TypeInv, TypeOK
  <2> QED BY <2>2, ParsedIsSeq DEF TypeInv, TypeOK, parsed
<1>3. Len(parsed) <= Len(sent) /\ \A k \in 1..Len(parsed) : parsed[k] = sent[k]
  BY <1>1, <1>2, PrefixIs
<1>4. ASSUME NEW x \in Messages, SendFragment(x) PROVE IsPrefix(parsed', sent')
  <2>1. parsed' = parsed
    BY <1>4 DEF SendFragment, returned, parsed
  <2>2. /\ \A k \in 1..Len(sent) : sent'[k] = sent[k]
        /\ (DOMAIN sent' = 1..(Len(sent) + 1)) \/ sent' = sent
    BY Zenon, <1>4, SentGrows
  <2>3. Len(sent) <= Len(sent') /\ Len(sent') \in Nat
    <3>1. \A a, b \in Nat : 1..a = 1..(b + 1) => b <= a
      <4>1. SUFFICES ASSUME NEW a \in Nat, NEW b \in Nat, 1..a = 1..(b + 1) PROVE b <= a
        OBVIOUS
      <4>2. b + 1 \in 1..(b + 1)
        OBVIOUS
      <4> QED BY <4>1, <4>2
    <3>2. Len(sent') \in Nat
      BY <1>2
    <3>3. CASE DOMAIN sent' = 1..(Len(sent) + 1)
      BY Zenon, <1>2, <3>1, <3>2, <3>3
    <3>4. CASE sent' = sent
      BY <1>2, <3>4
    <3> QED BY Zenon, <2>2, <3>2, <3>3, <3>4
  <2>4. Len(parsed) <= Len(sent')
    BY <1>2, <1>3, <2>3
  <2>5. \A k \in 1..Len(parsed) : k \in 1..Len(sent)
    BY <1>2, <1>3
  <2>6. \A k \in 1..Len(parsed) : parsed[k] = sent'[k]
    BY Zenon, <1>3, <2>2, <2>5
  <2> QED BY <1>2, <2>1, <2>4, <2>6, PrefixIs
<1>5. CASE Quiet \/ Move \/ Again \/ Derailed
  <2>1. parsed' = parsed /\ sent' = sent
    BY <1>5 DEF Quiet, Move, Again, Derailed
  <2> QED BY <1>1, <2>1
<1>6. CASE ParseSingle \/ ParseFirst \/ ParseFragment
  <2>1. OnTrack /\ Turn /\ HasMessage /\ sent' = sent
    BY <1>1, <1>6, TurnOnTrack, TurnKeeps
  <2>2. CASE header.index # LastIndex(header.msg)
    <3>1. parsed' = parsed
      BY <2>1, <2>2 DEF Turn
    <3> QED BY <1>1, <2>1, <3>1
  <2>3. CASE header.index = LastIndex(header.msg)
    <3>1. Len(parsed) + 1 \in DOMAIN sent /\ sent[Len(parsed) + 1] = Whole(header.msg)
      BY <1>1, <2>1, <2>3, NextSent
    <3>2. Parsed(header.msg, Data) = Whole(header.msg)
      BY <1>1, <1>6, <2>1, <2>3, DataIs
    <3>3. /\ Len(parsed') = Len(parsed) + 1
          /\ parsed'[Len(parsed) + 1] = Parsed(header.msg, Data)
          /\ \A k \in 1..Len(parsed) : parsed'[k] = parsed[k]
      BY <2>1, <2>3, TurnParsed
    <3>4. Len(parsed') <= Len(sent) /\ \A k \in 1..Len(parsed') : k \in 1..Len(parsed)
            \/ k = Len(parsed) + 1
      BY <1>2, <3>1, <3>3
    <3>5. \A k \in 1..Len(parsed') : parsed'[k] = sent[k]
      BY <1>3, <3>1, <3>2, <3>3, <3>4
    <3> QED BY <1>2, <2>1, <3>4, <3>5, PrefixIs
  <2> QED BY <2>2, <2>3
<1>7. CASE Reconnect
  <2>1. parsed' = <<>> /\ sent' = <<>>
    BY <1>7, TypeReconnect
  <2>2. Len(parsed') <= Len(sent') /\ \A k \in 1..Len(parsed') : parsed'[k] = sent'[k]
    BY <2>1
  <2> QED BY <1>2, <2>2, PrefixIs
<1> QED BY <1>4, <1>5, <1>6, <1>7, StepIs

LEMMA OwnPiecesStep ==
  ASSUME TypeInv, StreamOK, OwnersOK, OwnPiecesOnly, [Next]_vars
  PROVE  OwnPiecesOnly'
<1>0. SUFFICES ASSUME ~torn', Tell', NEW k \in DOMAIN parsed'
               PROVE  ToSet(parsed'[k].data) = ToSet(Whole(parsed'[k].msg).data)
  BY DEF OwnPiecesOnly, Tell, Whole, Parsed, Payload, FragmentCount
<1>1. ~torn /\ Tell
  BY <1>0, TornKept
<1>2. ASSUME NEW j \in DOMAIN parsed
      PROVE  ToSet(parsed[j].data) = ToSet(Whole(parsed[j].msg).data)
  BY <1>1 DEF OwnPiecesOnly, Tell
<1>3. ASSUME NEW x \in Messages, SendFragment(x) PROVE parsed' = parsed
  BY <1>3 DEF SendFragment, returned, parsed
<1>4. CASE Quiet \/ Move \/ Again \/ Derailed
  <2>1. parsed' = parsed
    BY <1>4 DEF Quiet, Move, Again, Derailed
  <2> QED BY <1>0, <1>2, <2>1
<1>5. CASE ParseSingle \/ ParseFirst \/ ParseFragment
  <2>1. OnTrack /\ Turn /\ HasMessage
    BY <1>1, <1>5, TurnOnTrack, TurnKeeps
  <2>2. CASE header.index # LastIndex(header.msg)
    <3>1. parsed' = parsed
      BY <2>1, <2>2 DEF Turn
    <3> QED BY <1>0, <1>2, <3>1
  <2>3. CASE header.index = LastIndex(header.msg)
    <3>1. ToSet(Data) = ToSet(Whole(header.msg).data)
      BY <1>1, <1>5, <2>1, <2>3, SetOfData
    <3>2. /\ DOMAIN parsed' = 1..(Len(parsed) + 1) /\ Len(parsed) \in Nat
          /\ parsed'[Len(parsed) + 1] = Parsed(header.msg, Data)
          /\ \A j \in 1..Len(parsed) : parsed'[j] = parsed[j]
          /\ DOMAIN parsed = 1..Len(parsed)
      BY <2>1, <2>3, TurnParsed
    <3>3. CASE k = Len(parsed) + 1
      <4>1. parsed'[k].msg = header.msg /\ parsed'[k].data = Data
        BY <3>2, <3>3 DEF Parsed
      <4> QED BY <3>1, <4>1
    <3>4. CASE k \in 1..Len(parsed)
      BY <1>2, <3>2, <3>4
    <3> QED BY <1>0, <3>2, <3>3, <3>4
  <2> QED BY <2>2, <2>3
<1>6. CASE Reconnect
  <2>1. parsed' = <<>>
    BY <1>6, TypeReconnect
  <2> QED BY <1>0, <2>1
<1> QED BY <1>0, <1>2, <1>3, <1>4, <1>5, <1>6, StepIs
-----------------------------------------------------------------------------
(* The theorems *)

LEMMA InvInit == Init => IInv
<1> SUFFICES ASSUME Init PROVE IInv
  OBVIOUS
<1>1. /\ wire = <<>> /\ parsing_buffer_ = <<>> /\ consumed_size = 0 /\ pc = "idle"
      /\ fragmented_buffers_by_identifier = <<>> /\ sent = <<>>
      /\ delivered = <<>> /\ parsed_message_queue_ = <<>>
      /\ \A m \in Messages : nextFragment[m] = 0
  BY DEF Init
<1>2. Stream = <<>> /\ parsed = <<>>
  BY <1>1, ConcatEmptySeq DEF Stream, parsed
<1>3. /\ Len(Stream) = 0 /\ 1..Len(Stream) = {} /\ DOMAIN sent = {} /\ DOMAIN parsed = {}
      /\ buffer_size = 0 /\ DOMAIN fragmented_buffers_by_identifier = {}
  BY <1>1, <1>2 DEF buffer_size
<1>4. \A j, k, c : ~Between(Stream, j, k, c)
  BY <1>3 DEF Between
<1>5. TypeInv
  BY TypeInit
<1>6. StreamOK
  <2>1. 1..(Len(Stream) - 1) = {}
    BY <1>3
  <2> QED BY <1>3, <2>1 DEF StreamOK, Sound, Chained, InOrder, Complete, Apart
<1>7. LostOK
  BY <1>1, <1>3 DEF LostOK, Lost
<1>8. DeliveryOK
  <2>1. SentOK /\ EarlierOK /\ OrderOK
    BY <1>3 DEF SentOK, EarlierOK, OrderOK
  <2>2. OnceOK
    <3>1. <<>> \in Seq(ParsedType) /\ Len(<<>>) = 0
      OBVIOUS
    <3>2. IsPrefix(<<>>, <<>>)
      BY <3>1 DEF IsPrefix
    <3> QED BY <1>1, <1>2, <3>2 DEF OnceOK
  <2>3. NewOK /\ WaitingOK
    BY <1>1, <1>4 DEF NewOK, WaitingOK, Ahead
  <2> QED BY <2>1, <2>2, <2>3 DEF DeliveryOK
<1>9. BuffersOK
  <2>1. \A m \in Messages : ~InProgress(m)
    BY <1>1 DEF InProgress
  <2> QED BY <1>3, <2>1 DEF BuffersOK, OwnersOK, BegunOK, OwnPiecesOnly
<1> QED BY <1>5, <1>6, <1>7, <1>8, <1>9 DEF IInv, PlaceOK

LEMMA InvStep == IInv /\ [Next]_vars => IInv'
<1> SUFFICES ASSUME IInv, [Next]_vars PROVE IInv'
  OBVIOUS
<1>1. /\ TypeInv /\ StreamOK /\ LostOK
      /\ SentOK /\ EarlierOK /\ OrderOK /\ OnceOK /\ NewOK /\ WaitingOK
      /\ OwnersOK /\ BegunOK /\ OwnPiecesOnly
  BY DEF IInv, PlaceOK, DeliveryOK, BuffersOK
<1>2. PlaceOK'
  <2>1. TypeInv' /\ StreamOK'
    BY <1>1, TypeStep, StreamStep
  <2>2. LostOK'
    BY <1>1, LostStep
  <2> QED BY <2>1, <2>2 DEF PlaceOK
<1>3. DeliveryOK'
  <2>1. SentOK' /\ EarlierOK' /\ OrderOK'
    BY <1>1, SentStep, EarlierStep, OrderStep
  <2>2. OnceOK'
    BY <1>1, OnceStep
  <2>3. NewOK' /\ WaitingOK'
    BY <1>1, NewStep, WaitingStep
  <2> QED BY <2>1, <2>2, <2>3 DEF DeliveryOK
<1>4. BuffersOK'
  <2>1. OwnersOK' /\ OwnPiecesOnly'
    BY <1>1, OwnersStep, OwnPiecesStep
  <2>2. BegunOK'
    BY <1>1, BegunStep
  <2> QED BY <2>1, <2>2 DEF BuffersOK
<1> QED BY <1>2, <1>3, <1>4 DEF IInv

LEMMA Invariant == Spec => []IInv
BY InvInit, InvStep, PTL DEF Spec

\* Every variable has its type, for any messages, sizes of headers and packets and
\* number of sessions.
THEOREM TypeCorrect == Spec => []TypeOK
<1>1. IInv => TypeOK
  BY DEF IInv, PlaceOK, TypeInv
<1> QED BY <1>1, Invariant, PTL

\* ParserInv: what ParseIncomingBytes puts together carries every piece of its message
\* and none of another, also when messages with the same identifier follow each other.
THEOREM ParserIsConsistent == Spec => []ParserInv
<1>1. IInv => ParserInv
  BY DEF IInv, PlaceOK, TypeInv, BuffersOK, ParserInv
<1> QED BY <1>1, Invariant, PTL

\* MessagesInOrder: the messages of a session come out in the order in which the device
\* ended them, each of them once as long as the parser does not repeat itself.
THEOREM MessagesStayInOrder == Spec => []MessagesInOrder
<1>1. IInv => MessagesInOrder
  BY DEF IInv, DeliveryOK, OnceOK, OrderOK, MessagesInOrder
<1> QED BY <1>1, Invariant, PTL

\* CleanCutKeepsPlace: after sessions that ended between two messages the loop begins at
\* the header of a fragment, and refuses the stream only if it has repeated itself.
THEOREM CleanCutsKeepThePlace == Spec => []CleanCutKeepsPlace
<1>1. ASSUME IInv PROVE CleanCutKeepsPlace
  <2>1. SUFFICES ASSUME ~torn
                 PROVE  (KeepsItsPlace => HoldsFragments) /\ (pc = "rejected" => replayed)
    BY DEF CleanCutKeepsPlace
  <2>2. TypeInv /\ StreamOK /\ LostOK
    BY <1>1 DEF IInv, PlaceOK
  <2>3. pc = "rejected" => replayed
    BY <2>1, <2>2 DEF LostOK
  <2>4. ASSUME KeepsItsPlace, pc = "loop", consumed_size = 0, parsing_buffer_ # <<>>
        PROVE  /\ header.part = 1
               /\ \A k \in 1..(buffer_size - 1) : Follows(parsing_buffer_[k],
                    parsing_buffer_[k + 1])
    <3>1. ~Lost
      BY <2>1, <2>2, <2>4 DEF KeepsItsPlace, LostOK, Fragmented
    <3>2. Chained(Stream)
      BY <2>1, <2>2, <2>4, <3>1 DEF StreamOK, OnTrack, Sound
    <3>3. /\ buffer_size \in Nat /\ Len(Stream) \in Nat /\ buffer_size <= Len(Stream)
          /\ \A k \in 1..buffer_size : parsing_buffer_[k] = Stream[k]
      BY <2>2, StreamJoins DEF TypeInv, Joins, buffer_size
    <3>4. buffer_size > 0
      <4>1. parsing_buffer_ \in Seq(CellType)
        BY <2>2 DEF TypeInv, TypeOK
      <4>2. Len(parsing_buffer_) # 0
        BY <2>4, <4>1, EmptySeq
      <4> QED BY <3>3, <4>2 DEF buffer_size
    <3>5. header.part = 1
      <4>1. 0 < buffer_size /\ parsing_buffer_[0 + 1].part = 1
        BY <2>4, <3>1, <3>4 DEF Lost
      <4> QED BY <2>4, <4>1 DEF header
    <3>6. ASSUME NEW k \in 1..(buffer_size - 1)
          PROVE  Follows(parsing_buffer_[k], parsing_buffer_[k + 1])
      <4>1. k \in 1..(Len(Stream) - 1) /\ k \in 1..buffer_size /\ k + 1 \in 1..buffer_size
        BY <3>3
      <4>2. Follows(Stream[k], Stream[k + 1])
        BY <3>2, <4>1 DEF Chained
      <4> QED BY <3>3, <4>1, <4>2
    <3> QED BY <3>5, <3>6
  <2> QED BY <2>3, <2>4 DEF HoldsFragments
<1> QED BY <1>1, Invariant, PTL
=============================================================================
