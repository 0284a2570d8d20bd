----------------------------- MODULE MCRollout -----------------------------
(* Instances of Rollout for TLC. *)
EXTENDS Rollout, TLC

CONSTANTS r1, r2, old, new

\* The runs are interchangeable and so are the part ids (used where no
\* liveness is checked).
Symmetry == Permutations(Runs) \union Permutations(PartIds)
=============================================================================
