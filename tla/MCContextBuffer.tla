--------------------------- MODULE MCContextBuffer ---------------------------
(* -C0, -C1 and -C2: no context at all, and rings of two and three buffers. *)
EXTENDS ContextBuffer

MCContextLines == 0..2

=============================================================================
