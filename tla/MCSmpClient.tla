----------------------------- MODULE MCSmpClient -----------------------------
(* SmpClient with two commands, two readers on different queues.           *)
EXTENDS SmpClient, TLC

CONSTANTS c1, c2, r1, r2, q1, q2, m1, m2

MCCaller  == Cmd \cup Rcv
MCQueueOf == [r \in Rcv |-> IF r = r1 THEN q1 ELSE q2]
MCPushOf  == [m \in Push |-> IF m = m1 THEN q1 ELSE q2]

CmdSymmetry == Permutations(Cmd)
=============================================================================
