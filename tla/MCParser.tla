------------------------------ MODULE MCParser ------------------------------
(* DTXMessageParser on small instances: the messages of the device. *)
EXTENDS DTXMessageParser

\* A single message and two of three fragments; a reply shares the identifier of
\* the message before it, so two of them share one.
Three == 1..3
ThreeIdentifiers == <<1, 1, 2>>
ThreePieces == <<<<1>>, <<1, 3>>, <<1, 1>>>>

=============================================================================
