--------------------------- MODULE MCDesktopQueue ---------------------------
(* A typed contact, one with 0 W, one of WSJT-X, and a cycle of "Sync Now"   *)
(* beside the loop's.                                                        *)
EXTENDS DesktopQueue
=============================================================================
