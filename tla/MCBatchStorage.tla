--------------------------- MODULE MCBatchStorage ---------------------------
(* BatchStorage on a small instance: one worker node, two worker processes. *)
EXTENDS BatchStorage

CONSTANT node

OneNode == [w \in Workers |-> node]
=============================================================================
