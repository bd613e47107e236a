------------------------------ MODULE MCImport ------------------------------
(* Two imports into one logbook: an ADIF file that repeats a QSO in a batch  *)
(* and across batches and holds a record the parser refuses and one without  *)
(* a callsign, and a QRZ logbook with the same QSO and an unknown band.      *)
EXTENDS Import

Rec(call, date, band, freq, mode) ==
    [call |-> call, date |-> date, band |-> band, freq |-> freq, mode |-> mode]

MCContents ==
    [u \in Uploads |->
        IF u \in QRZUploads
        THEN << Rec("w1aw", "d", "20m", "bad", "cw"),
                Rec("k1ab", "d", "nosuchband", "", "cw") >>
        ELSE << Rec("w1aw", "d", "", "20m", "cw"),
                Rec("garbage", "", "", "", ""),
                Rec("w1aw", "d", "20m", "", "cw"),
                Rec("", "d", "20m", "", "cw"),
                Rec("w1aw", "d", "20m", "", "cw") >>]
=============================================================================
