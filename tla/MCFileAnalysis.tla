--------------------------- MODULE MCFileAnalysis ---------------------------
(* A small instance of FileAnalysis for TLC: three findings of two of three  *)
(* types on two images; the third is that of the face match candidates.      *)
EXTENDS FileAnalysis

Entries == 1..3
EntryTypes == <<1, 2, 2>>
EntryFiles == <<1, 1, 2>>
=============================================================================
