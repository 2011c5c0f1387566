----------------------------- MODULE FifoQueue -----------------------------
(***************************************************************************)
(* What a BlockingQueue promises to the threads that share it: elements are *)
(* added at the end and leave from the head, one at a time, each at most    *)
(* once.  Elements that are cleared leave without being delivered.          *)
(***************************************************************************)
EXTENDS Sequences

CONSTANT Values

VARIABLES items, delivered

Init == items = <<>> /\ delivered = <<>>

Put(v) == items' = Append(items, v) /\ UNCHANGED delivered

Get ==
  /\ items # <<>>
  /\ items' = Tail(items)
  /\ delivered' = Append(delivered, Head(items))

Drop == items # <<>> /\ items' = Tail(items) /\ UNCHANGED delivered
DropAll == items' = <<>> /\ UNCHANGED delivered

Next == (\E v \in Values : Put(v)) \/ Get \/ Drop \/ DropAll

Spec == Init /\ [][Next]_<<items, delivered>>

=============================================================================
