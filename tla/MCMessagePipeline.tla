------------------------- MODULE MCMessagePipeline -------------------------
(* MessagePipeline for TLC: c1 and c2 are a send and its retry. *)
EXTENDS MessagePipeline

CONSTANTS c1, c2, c3, r1, r2

MCRandomID == [c \in Calls |-> IF c \in {c1, c2} THEN r1 ELSE r2]
=============================================================================
