--------------------------- MODULE MCWorkerSystem ---------------------------
(* Small instances of WorkerSystem for TLC. *)
EXTENDS WorkerSystem, TLC

CONSTANTS w1, j1, image, vector

\* j1 is an image job, the other a vector job; w1 takes both, the others
\* vector jobs only.  Every job has an origin of its own.
MCTypeOf == [j \in Job |-> IF j = j1 THEN image ELSE vector]
MCOriginOf == [j \in Job |-> j]
MCSupports == [w \in Worker |-> IF w = w1 THEN {image, vector} ELSE {vector}]
MCAllSupport == [w \in Worker |-> {image, vector}]

Symmetric == Permutations(Thread) \cup Permutations(Worker)
SymmetricCodes == Symmetric \cup Permutations(Token) \cup Permutations(Code)
=============================================================================
