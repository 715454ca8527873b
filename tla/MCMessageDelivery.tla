------------------------- MODULE MCMessageDelivery -------------------------
(* Constants for the runs of MessageDelivery.                               *)
EXTENDS MessageDelivery, TLC

CONSTANTS d1, d2, r1, r2

\* Every message has a clientMessageId of its own, as the web adapter sees to.
OwnTask == [p \in Packet |-> p]

\* Calls of sendText in one millisecond without a clientMessageId: one task id.
SharedTask == [p \in Packet |-> 0]

\* Concurrent invocations of one function are interchangeable.
CallSymmetry == Permutations(Reader) \cup Permutations(Drain)
=============================================================================
