------------------------- MODULE AtMostOnceChannel -------------------------
(***************************************************************************)
(* What one direction of a contact promises the application that uses      *)
(* sendText on one side and receiveNext on the other: a message that was   *)
(* sent may be handed to the receiving application, once, in any order; it *)
(* may also never be handed over.  handed counts how often.  Nothing is    *)
(* said about queues, brokers, retries or acknowledgements.                *)
(***************************************************************************)
EXTENDS Naturals

CONSTANT Message

VARIABLES sent, handed

chanVars == <<sent, handed>>

ChanInit == sent = {} /\ handed = [p \in Message |-> 0]

Send(p) == p \notin sent /\ sent' = sent \cup {p} /\ UNCHANGED handed

Hand(p) ==
  /\ p \in sent
  /\ handed[p] = 0
  /\ handed' = [handed EXCEPT ![p] = 1]
  /\ UNCHANGED sent

ChanNext == \E p \in Message : Send(p) \/ Hand(p)

ChanSpec == ChanInit /\ [][ChanNext]_chanVars
=============================================================================
