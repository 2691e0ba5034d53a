------------------------------ MODULE MCAlloc -------------------------------
(* Small instances of the allocator: one reserved type and two registered  *)
(* ones in a pool of a few pages.                                          *)
EXTENDS AllocProps, TLC
CONSTANTS tyA, tyB, tyR

(* Objects of tyA do not divide a page of eight, and two of any type fit.  *)
Sizes3and4 == (tyA :> 3) @@ (tyB :> 4)

(* The threads run the same code.                                         *)
ThreadSymmetry == Permutations(Threads)

(* Small objects: one per thread fits in a page.                           *)
Sizes2and1 == (tyA :> 2) @@ (tyB :> 1)

=============================================================================
