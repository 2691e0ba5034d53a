------------------------------ MODULE FreeList ------------------------------
(***************************************************************************)
(* The free list of a cache block (cache.c, struct cache_free_list): a     *)
(* singly linked list of nodes, each an inclusive interval of free slot    *)
(* indices.  Slots are popped from the front of the head node and pushed   *)
(* at the back of the tail node, which grows when the new slot continues   *)
(* its interval.                                                           *)
(*                                                                         *)
(* The linked nodes are a sequence; head is its first node, tail its last, *)
(* and both pointers are NULL exactly when it is empty.                    *)
(***************************************************************************)
EXTENDS Integers, Sequences

cache_free_list_new(slot_begin, slot_back) ==
  << [begin |-> slot_begin, back |-> slot_back] >>

(* What the free list holds. *)
FreeSlots(list) ==
  UNION { list[i].begin .. list[i].back : i \in DOMAIN list }

(***************************************************************************)
(* The test at the top of push reads self->tail, and the fall-through      *)
(* stores through it: with no tail node the store goes through a NULL      *)
(* pointer.  Push is defined on the other lists.                           *)
(***************************************************************************)
HasTail(list) == list # << >>

cache_free_list_push(list, slot) ==
  IF list[Len(list)].back = slot - 1
    THEN [list EXCEPT ![Len(list)].back = slot]
    ELSE Append(list, [begin |-> slot, back |-> slot])

(* The slot pop returns; -1 when no slot is free. *)
PoppedSlot(list) ==
  IF list = << >> THEN -1 ELSE list[1].begin

(* The list pop leaves behind: it advances the head node, or unlinks it    *)
(* when the popped slot was its last.                                      *)
ListAfterPop(list) ==
  CASE list = << >>                   -> list
    [] list # << >> /\ list[1].begin # list[1].back
                                      -> [list EXCEPT ![1].begin = @ + 1]
    [] OTHER                          -> Tail(list)

(***************************************************************************)
(* Every node is a non-empty interval and no slot is in two of them.       *)
(***************************************************************************)
WellFormed(list) ==
  /\ \A i \in DOMAIN list : list[i].begin <= list[i].back
  /\ \A i, j \in DOMAIN list :
       i # j => \/ list[i].back < list[j].begin
                \/ list[j].back < list[i].begin
=============================================================================
