----------------------------- MODULE MCWebAdapter -----------------------------
(* WebAdapter with interchangeable calls, refs and texts.                  *)
EXTENDS WebAdapter, TLC
CONSTANTS c1, c2, m1, m2, t1, t2
CallSymmetry == Permutations(Call) \cup Permutations(Ref) \cup Permutations(Text)
=============================================================================
