--------------------------- MODULE MCTransaction ---------------------------
(* Constants of the model-checking runs of Transaction. *)
EXTENDS Transaction, TLC

\* A single tiled view fills its workspace, two share it.
MCShare(k) == IF k <= 1 THEN 2 ELSE 1

=============================================================================
