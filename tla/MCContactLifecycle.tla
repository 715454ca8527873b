-------------------------- MODULE MCContactLifecycle -------------------------
(* ContactLifecycle with interchangeable invocations and messages.         *)
EXTENDS ContactLifecycle, TLC

LifecycleSymmetry == Permutations(Run) \cup Permutations(Msg)
=============================================================================
