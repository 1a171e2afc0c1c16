----------------------- MODULE MCHistoryInvalidation -----------------------
(* Model-checking instance of HistoryInvalidation. *)
EXTENDS HistoryInvalidation

=============================================================================
