--------------------------- MODULE MCWorkerQueue ---------------------------
(* Small instances of WorkerQueue for TLC. *)
EXTENDS WorkerQueue, TLC

CONSTANTS w1, w2, j1, j2, o1, o2, image, vector

\* j1 is an image job of o1, j2 a vector job of o2; w2 takes vector jobs only.
MCTypeOf == [j \in Job |-> IF j = j1 THEN image ELSE vector]
MCOriginOf == [j \in Job |-> IF j = j1 THEN o1 ELSE o2]
MCSupports == [w \in Worker |-> IF w = w1 THEN {image, vector} ELSE {vector}]

Symmetric == Permutations(Thread) \cup Permutations(Token) \cup Permutations(Code)
=============================================================================
