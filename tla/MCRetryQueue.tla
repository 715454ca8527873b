---------------------------- MODULE MCRetryQueue -----------------------------
(* RetryQueue with three tasks of two contacts.                            *)
EXTENDS RetryQueue, TLC

CONSTANTS t1, t2, t3, alice, bob

MCContactOf == [id \in Id |-> IF id = t3 THEN bob ELSE alice]

DrainSymmetry == Permutations(Drain)
=============================================================================
