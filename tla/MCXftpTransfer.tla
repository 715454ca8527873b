---------------------------- MODULE MCXftpTransfer ----------------------------
(* XftpTransfer with sizes in the ratio of the real ones.                  *)
EXTENDS XftpTransfer

Range3(a, b) == [min |-> a, max |-> b]
Good         == [range |-> Range3(1, 2), chain |-> 2, pinned |-> TRUE, proof |-> TRUE, key |-> TRUE]
MCHellos     == {Good, [Good EXCEPT !.range = Range3(2, 5)], [Good EXCEPT !.range = Range3(4, 5)],
                 [Good EXCEPT !.chain = 1], [Good EXCEPT !.pinned = FALSE],
                 [Good EXCEPT !.proof = FALSE], [Good EXCEPT !.key = FALSE]}
MCClient     == Range3(1, 3)
MCPayload    == 1 .. 700
=============================================================================
