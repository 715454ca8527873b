--------------------------- MODULE MCRatchetSession ---------------------------
(* RatchetSession for the runs; the two ends are model values.             *)
EXTENDS RatchetSession
=============================================================================
