------------------------- MODULE MCFaceMatchSearch -------------------------
(* Small instances of FaceMatchSearch for TLC: six faces on two images.      *)
EXTENDS FaceMatchSearch

Faces == 1..6
SixKinds == <<"photo_faces", "photo_faces", "file_faces", "missing_faces", "insightface", "insightface">>
SixImages == <<1, 1, 1, 1, 1, 2>>
=============================================================================
