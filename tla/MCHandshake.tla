---------------------------- MODULE MCHandshake -----------------------------
(* Small instances of the handshake: a few compute nodes, one memory node. *)
EXTENDS HandshakeProps
=============================================================================
