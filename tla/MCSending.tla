----------------------------- MODULE MCSending -----------------------------
(* DTXSending on small messages. *)
EXTENDS DTXSending

\* A null value, a string of one cell and an empty one, numbers of one and of two
\* cells, whose data look like types and lengths of other values.
Values == {Null, Value(kString, <<kString>>), Value(kString, <<>>),
           Value(kSignedInt32, <<kBuffer>>), Value(kInteger, <<kEmptyKey, 0>>)}

ShortObjects == {<<kString>>}
LongBuffers == {<<kString, 2, 3, 4, 5, 6, 7>>}

\* The transmitter counts with floats.  With a mantissa of six bits, two roundings
\* leave the count of every message of up to 64 bytes as DTXMessageTransmitter has
\* it, whatever the size of a fragment; one byte more and the count may be short.
Float == INSTANCE FragmentCount WITH Mantissa <- 64

ASSUME CountIsExact ==
  \A n \in 0..64, f \in 1..64 : Float!FragmentsForLength(n, f) = Float!CeilDiv(n, f)
ASSUME LongCountMayBeShort == Float!FragmentsForLength(65, 4) = Float!CeilDiv(65, 4) - 1

=============================================================================
