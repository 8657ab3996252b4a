-------------------------- MODULE MCReleaseLifecycle --------------------------
(* ReleaseLifecycle for TLC: the model values are interchangeable. *)
EXTENDS ReleaseLifecycle, TLC

Symmetry == Permutations(Controllers) \union Permutations(Versions) \union Permutations(Tasks)
=============================================================================
