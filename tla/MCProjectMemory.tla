-------------------------- MODULE MCProjectMemory --------------------------
(* A small project for TLC: its documents, blobs, indexes and runs are     *)
(* interchangeable.                                                        *)
EXTENDS ProjectMemory, TLC

Interchangeable ==
    Permutations(Docs) \cup Permutations(Blobs) \cup Permutations(Indexes)
        \cup Permutations(Runs)
=============================================================================
