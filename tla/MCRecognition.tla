--------------------------- MODULE MCRecognition ---------------------------
(* Person 1 has a face on each of four images, two batches, and two of them  *)
(* are notable; persons 2 and 3 are unknown, of whom one leaves the list     *)
(* once its face is given to somebody; the image of the other is missing.    *)
EXTENDS Recognition, TLC

CONSTANTS visible_only, with_hidden
MCKey == {visible_only, with_hidden}
Symmetry == Permutations(MCKey)

MCFace == 1..6
MCPersonOf == <<1, 1, 1, 1, 2, 3>>
MCImageOf == <<1, 2, 3, 4, 5, 6>>
MCKnown == {1}
MCAbsent == {6}
MCNotable == {1, 3}
MCSafe == {5}

=============================================================================
