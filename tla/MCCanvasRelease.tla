-------------------------- MODULE MCCanvasRelease --------------------------
(* Small instances of CanvasRelease for TLC.                               *)
EXTENDS CanvasRelease, TLC

Symmetry == Permutations(Scripts) \cup Permutations(Slots)
              \cup Permutations(Releases)
=============================================================================
