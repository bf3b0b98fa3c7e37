--------------------------- MODULE MCFrameAssembly ---------------------------
(***************************************************************************)
(* Every stream of a few packets: frames of every length, with packets of  *)
(* other kinds between and inside them, and sessions that join a frame     *)
(* after its start.                                                        *)
(***************************************************************************)
EXTENDS FrameAssembly

CONSTANT Packets

AllStreams == [1 .. Packets -> Kind]
=============================================================================
