--------------------------- MODULE MCDownloadJob ---------------------------
(* Model checking of DownloadJob: one model whose manifest has a file of two *)
(* segments, weights, and a file of one, index.                              *)
EXTENDS DownloadJob, TLC

CONSTANTS weights, index

SizeForTLC == [f \in Files |-> IF f = weights THEN 2 ELSE 1]

=============================================================================
