------------------------------ MODULE BlockPipe ------------------------------
(***************************************************************************)
(* What the two ends of a relayed connection are promised: in each         *)
(* direction the blocks that come out are those that went in, whole and in *)
(* order, until the connection closes; after that nothing comes out and it *)
(* never opens again.  A block that may not pass goes in and out as 0:     *)
(* nothing comes out of it, and what is behind it comes out, if at all, in *)
(* the one step that closes the connection.                                *)
(***************************************************************************)
EXTENDS Naturals, SequencesExt

VARIABLES in, out, open    \* in and out: a sequence of blocks per direction

pipeVars == <<in, out, open>>

Direction == {"up", "down"}

PipeInit == in = [d \in Direction |-> <<>>] /\ out = in /\ open = TRUE

PipeNext ==
  /\ open' => open
  /\ \A d \in Direction : /\ IsPrefix(in[d], in'[d])
                          /\ IsPrefix(out[d], out'[d])
                          /\ IsPrefix(out'[d], in'[d])
                          /\ open' => \A i \in 1 .. Len(out'[d]) : out'[d][i] # 0
  /\ open \/ out' = out

PipeSpec == PipeInit /\ [][PipeNext]_pipeVars
=============================================================================
