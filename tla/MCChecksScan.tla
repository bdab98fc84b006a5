---------------------------- MODULE MCChecksScan ----------------------------
(* Small instances of ChecksScan for TLC: three findings on two images.      *)
EXTENDS ChecksScan

Findings == 1..3
FindingImages == <<1, 2, 2>>
=============================================================================
