----------------------------- MODULE MCArchive -----------------------------
(* Instances of Archive for TLC.                                           *)
EXTENDS Archive, TLC

\* Clients and blobs are interchangeable.
Symmetry == Permutations(Client) \cup Permutations(Content)
=============================================================================
