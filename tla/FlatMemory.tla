----------------------------- MODULE FlatMemory -----------------------------
(***************************************************************************)
(* What the caching runtime promises the program that runs on it: the      *)
(* disaggregated memory is one flat memory.  A load of an object returns   *)
(* what was last stored in that object, wherever it happens to be.  The    *)
(* variable loaded holds the load that was made last, its object and what  *)
(* it returned, until the next store: a load that repeats an earlier one   *)
(* after a store shows as a step.                                          *)
(***************************************************************************)
CONSTANTS Objs, Values, Zero

VARIABLES mem, loaded

Init == mem = [o \in Objs |-> Zero] /\ loaded = << >>

Write(o, v) == mem' = [mem EXCEPT ![o] = v] /\ loaded' = << >>

Read(o) == loaded' = <<o, mem[o]>> /\ UNCHANGED mem

Next == \E o \in Objs : Read(o) \/ \E v \in Values : Write(o, v)

Spec == Init /\ [][Next]_<<mem, loaded>>
=============================================================================
