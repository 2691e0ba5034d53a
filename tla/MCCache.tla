------------------------------ MODULE MCCache ------------------------------
(* Instances of the cache for TLC. *)
EXTENDS CacheProps, TLC

(* Objects, and threads, are interchangeable model values. *)
ObjSymmetry       == Permutations(Objs)
ThreadObjSymmetry == Permutations(Threads) \cup Permutations(Objs)

(* A load changes nothing but the history variable loaded, which no action *)
(* reads: where no property reads it either, what follows a load is what   *)
(* follows the state before it.                                            *)
LoadsNotRecorded == loaded = << >>
============================================================================
