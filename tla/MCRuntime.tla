----------------------------- MODULE MCRuntime ------------------------------
(* One thread, one reserved type and two registered ones in a pool of a    *)
(* few pages.                                                              *)
EXTENDS Runtime, TLC
CONSTANTS tyA, tyB, tyR

(* Objects of tyA do not divide the page; the blocks of tyR fill it.       *)
Sizes3and2 == (tyA :> 3) @@ (tyB :> 2)

Ids == (tyR :> 0) @@ (tyA :> 3) @@ (tyB :> 4)
=============================================================================
