--------------------------- MODULE MCNativeContact ---------------------------
(* NativeContact with interchangeable calls.                               *)
EXTENDS NativeContact, TLC
CONSTANTS c1, c2
CallSymmetry == Permutations(Call)
Everywhere   == {"creating", "confirming", "securing", "skey", "informing", "sending",
                 "acking", "acking text", "receipting"}
=============================================================================
