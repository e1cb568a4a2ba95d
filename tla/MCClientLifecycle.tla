-------------------------- MODULE MCClientLifecycle --------------------------
(* The symmetry of ClientLifecycle for TLC's runs without liveness.         *)
EXTENDS ClientLifecycle, TLC

\* Tasks and access tokens are interchangeable.
Interchangeable == Permutations(Tasks) \cup Permutations(Tokens)
=============================================================================
