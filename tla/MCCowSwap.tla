----------------------------- MODULE MCCowSwap -----------------------------
(* Model-checking instance of CowSwap: model values for the process slots *)
(* and the symmetry TLC may use over them.                                *)
EXTENDS CowSwap, TLC

CONSTANTS p1, p2, p3

(* Process slots other than the first user process are interchangeable.  *)
ChildSymmetry == Permutations(Procs \ {InitProc})

=============================================================================
