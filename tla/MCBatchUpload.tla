---------------------------- MODULE MCBatchUpload ----------------------------
(***************************************************************************)
(* Two QSOs: enough for a batch whose rows are marked one by one, for two  *)
(* batches of one job, and for an edit of one row while the other is sent. *)
(***************************************************************************)
EXTENDS BatchUpload, TLC

\* The QSOs are interchangeable.
Symmetry == Permutations(QSOs)
=============================================================================
