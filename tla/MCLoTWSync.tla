----------------------------- MODULE MCLoTWSync ------------------------------
(***************************************************************************)
(* One QSO and two jobs: overlapping files, an edit while one job has the  *)
(* old version and the other the new.  The proofs cover the instances with *)
(* more QSOs and jobs.                                                     *)
(***************************************************************************)
EXTENDS LoTWSync
=============================================================================
