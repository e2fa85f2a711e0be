--------------------------- MODULE MCMessageQueue ---------------------------
(***************************************************************************)
(* Instances of MessageQueue for TLC: packets with control bytes, with the *)
(* bytes their escapes use, and of different lengths.                      *)
(***************************************************************************)
EXTENDS MessageQueue

MCPackets == {<<>>, <<93>>, <<127>>, <<125, 95>>, <<65, 65, 65, 65>>}
=============================================================================
