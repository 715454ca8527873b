---------------------------- MODULE NativeRatchet ----------------------------
(***************************************************************************)
(* The ratchet of native SimpleX contacts: the X3DH agreement of           *)
(* browser-simplex-agent.mjs and the header-encrypting ratchet of          *)
(* browser-simplex-native-ratchet.mjs, as operators on a ratchet state.    *)
(*                                                                         *)
(* Keys are symbolic.  A root key is the sequence of the DH secrets mixed  *)
(* into it and names the chain key and the header key derived with it; a   *)
(* chain that was advanced k times is at k, and its next message key is    *)
(* the chain together with k.  AEAD opens exactly with the key that        *)
(* sealed.  A counter in a header is not looked at by the code, so a       *)
(* packet carries none.                                                    *)
(***************************************************************************)
EXTENDS Naturals, Sequences

\* An X448 key pair: who made it, for which request, and its number there.
\* Numbers 1 and 2 are the pair of X3DH keys.
Key(e, n, k) == [of |-> e, session |-> n, nr |-> k]
NoKey == Key("nobody", 0, 0)

DH(x, y) == {x, y}

Chain(root) == [root |-> root, at |-> 0]
NoChain     == Chain(<<>>)
Advanced(chain) == [chain EXCEPT !.at = @ + 1]

HeaderKey(root, use) == [root |-> root, use |-> use]
NoHeaderKey == HeaderKey(<<>>, "none")

-----------------------------------------------------------------------------
\* deriveNativeX3dhSender and deriveNativeX3dhReceiver: three secrets of the
\* sender's keys s1, s2 and the recipient's keys r1, r2.
X3dhSender(s1, s2, r1, r2)   == << DH(s2, r1), DH(s1, r2), DH(s2, r2) >>
X3dhReceiver(r1, r2, s1, s2) == << DH(r1, s2), DH(r2, s1), DH(r2, s2) >>

\* createNativeSendingRatchet and createNativeReceivingRatchet.
SendingRatchet(init, own, remote) ==
  LET root == Append(init, DH(own, remote))
  IN  [own |-> own, remote |-> remote, root |-> root,
       sending |-> Chain(root), sendHK |-> HeaderKey(init, "send"),
       nextSendHK |-> HeaderKey(root, "next"),
       receiving |-> NoChain, recvHK |-> NoHeaderKey,
       nextRecvHK |-> HeaderKey(init, "receiveNext")]

ReceivingRatchet(init, own) ==
  [own |-> own, remote |-> NoKey, root |-> init,
   sending |-> NoChain, sendHK |-> NoHeaderKey,
   nextSendHK |-> HeaderKey(init, "receiveNext"),
   receiving |-> NoChain, recvHK |-> NoHeaderKey,
   nextRecvHK |-> HeaderKey(init, "send")]

\* Without a sending chain encrypt makes one, with a key pair that is new.
SendStep(s, new) ==
  LET root == Append(s.root, DH(new, s.remote))
  IN  IF s.sending # NoChain THEN s
      ELSE [s EXCEPT !.own = new, !.root = root, !.sending = Chain(root),
                     !.sendHK = s.nextSendHK, !.nextSendHK = HeaderKey(root, "next")]

\* encryptNativeRatchetMessage: the state it returns and the packet.
Encrypt(s, new) ==
  LET t == SendStep(s, new)
  IN  [state |-> [t EXCEPT !.sending = Advanced(@)],
       packet |-> [hk |-> t.sendHK, dh |-> t.own, key |-> t.sending]]

\* Mutant: the root key stays when a receiving chain is made.
ReceiveStepOldRoot(s, p, next) ==
  LET root == Append(s.root, DH(p.dh, s.own))
  IN  IF s.receiving # NoChain /\ ~next THEN s
      ELSE [s EXCEPT !.receiving = Chain(root), !.recvHK = p.hk,
                     !.nextRecvHK = HeaderKey(root, "next")]

\* A header that opens with the next header key starts a new receiving chain.
ReceiveStep(s, p, next) ==
  LET root == Append(s.root, DH(p.dh, s.own))
  IN  IF s.receiving # NoChain /\ ~next THEN s
      ELSE [s EXCEPT !.root = root, !.receiving = Chain(root), !.recvHK = p.hk,
                     !.nextRecvHK = HeaderKey(root, "next")]

\* decryptNativeRatchetMessage: the current header key, then the next one; the
\* message key is that of the chain as it stands.  The stored state is not
\* touched when it throws.
Decrypt(s, p) ==
  LET next == s.recvHK # p.hk
      t    == ReceiveStep(s, p, next)
  IN  [ok |-> p.hk \in {s.recvHK, s.nextRecvHK} /\ t.receiving = p.key,
       next |-> next,
       state |-> [t EXCEPT !.receiving = Advanced(@), !.remote = p.dh]]
=============================================================================
