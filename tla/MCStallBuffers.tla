--------------------------- MODULE MCStallBuffers ---------------------------
(* The five controllers, each with unbounded and with one-slot buffers. *)
EXTENDS StallBuffers
=============================================================================
