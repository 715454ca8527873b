---------------------------- MODULE MCNativeRelay ----------------------------
(* NativeRelay with every kind of request, frame and block.                *)
EXTENDS NativeRelay

AnyFrame == {"block", "ping", "close", "text", "unmasked", "unpadded"}
AnyBlock == {"block", "short"}
Served   == {"ok", "path", "head", "origin", "protocol", "target"}
=============================================================================
