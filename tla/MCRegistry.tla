----------------------------- MODULE MCRegistry -----------------------------
(* The symmetry of Registry for TLC.                                        *)
EXTENDS Registry

\* Requests, users and instance ids are interchangeable.
Interchangeable == Permutations(Tasks) \cup Permutations(Users) \cup Permutations(Ids)
=============================================================================
