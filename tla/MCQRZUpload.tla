----------------------------- MODULE MCQRZUpload -----------------------------
(***************************************************************************)
(* Two QSOs, so that one is being recorded while the other is still in the *)
(* job's hand and a confirmation may be matched with the wrong one.        *)
(***************************************************************************)
EXTENDS QRZUpload, TLC

\* The QSOs are interchangeable.
Symmetry == Permutations(QSOs)
=============================================================================
