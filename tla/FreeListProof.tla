--------------------------- MODULE FreeListProof ---------------------------
(***************************************************************************)
(* What the operations of the free list do to the set of free slots.       *)
(***************************************************************************)
EXTENDS FreeList, TLAPS

Node(S) == [begin : S, back : S]

(***************************************************************************)
(* The list as the proofs read it: its nodes are 1 .. n, and their bounds  *)
(* are slots.                                                              *)
(***************************************************************************)
LEMMA FreeListShape ==
  ASSUME NEW S \in SUBSET Int, NEW list \in Seq(Node(S))
  PROVE  /\ Len(list) \in Nat
         /\ DOMAIN list = 1 .. Len(list)
         /\ \A i \in 1 .. Len(list) :
              list[i] \in Node(S) /\ list[i].begin \in S /\ list[i].back \in S
<1>1. /\ Len(list) \in Nat
      /\ DOMAIN list = 1 .. Len(list)
      /\ \A i \in 1 .. Len(list) : list[i] \in Node(S)
  OBVIOUS
<1>2. \A r \in Node(S) : r.begin \in S /\ r.back \in S
  BY DEF Node
<1> QED BY <1>1, <1>2

(* A slot is free when some node spans it. *)
LEMMA FreeSlotsSpan ==
  ASSUME NEW S \in SUBSET Int, NEW list \in Seq(Node(S)), NEW x
  PROVE  x \in FreeSlots(list) <=>
         /\ x \in Int
         /\ \E i \in 1 .. Len(list) : list[i].begin <= x /\ x <= list[i].back
<1>1. x \in FreeSlots(list) <=>
      \E i \in DOMAIN list : x \in list[i].begin .. list[i].back
  BY Zenon DEF FreeSlots
<1>2. \A i \in 1 .. Len(list) :
        x \in list[i].begin .. list[i].back <=>
          x \in Int /\ list[i].begin <= x /\ x <= list[i].back
  BY FreeListShape
<1> QED BY <1>1, <1>2, FreeListShape, Zenon

(***************************************************************************)
(* cache_free_list_new puts every slot of the block on the list, once.     *)
(***************************************************************************)
LEMMA FreeListNew ==
  ASSUME NEW N \in Nat \ {0}
  PROVE  LET list == cache_free_list_new(0, N - 1) IN
         /\ list \in Seq(Node(0 .. N - 1))
         /\ WellFormed(list)
         /\ FreeSlots(list) = 0 .. N - 1
<1> DEFINE list == cache_free_list_new(0, N - 1)
<1>1. /\ list \in Seq(Node(0 .. N - 1)) /\ Len(list) = 1
      /\ list[1].begin = 0 /\ list[1].back = N - 1
  BY DEF cache_free_list_new, Node
<1> HIDE DEF list
<1>2. DOMAIN list = 1 .. 1
  BY <1>1, FreeListShape
<1>3. WellFormed(list)
  BY <1>1, <1>2 DEF WellFormed
<1>4. \A x : x \in FreeSlots(list) <=> x \in 0 .. N - 1
  BY <1>1, FreeSlotsSpan
<1> QED BY <1>1, <1>3, <1>4 DEF list

(***************************************************************************)
(* cache_free_list_pop on a list with a node returns a free slot, and that *)
(* slot alone leaves the list: it can never be handed out twice.           *)
(***************************************************************************)
LEMMA FreeListPop ==
  ASSUME NEW N \in Nat \ {0},
         NEW list \in Seq(Node(0 .. N - 1)),
         list # << >>,
         WellFormed(list)
  PROVE  /\ PoppedSlot(list) \in FreeSlots(list)
         /\ ListAfterPop(list) \in Seq(Node(0 .. N - 1))
         /\ WellFormed(ListAfterPop(list))
         /\ FreeSlots(ListAfterPop(list)) = FreeSlots(list) \ {PoppedSlot(list)}
<1> DEFINE p == PoppedSlot(list)
           n == Len(list)
           S == 0 .. N - 1
           new == ListAfterPop(list)
           b(i) == list[i].begin
           k(i) == list[i].back
<1>0. /\ n \in Nat /\ n >= 1 /\ DOMAIN list = 1 .. n
      /\ \A i \in 1 .. n : list[i] \in Node(S) /\ b(i) \in S /\ k(i) \in S
  BY FreeListShape
<1>a. /\ \A i \in 1 .. n : b(i) <= k(i)
      /\ \A i, j \in 1 .. n : i # j => k(i) < b(j) \/ k(j) < b(i)
  BY <1>0 DEF WellFormed
<1>1. p = b(1)
  BY DEF PoppedSlot
<1>b. \A x : x \in FreeSlots(list) <=>
               x \in Int /\ \E i \in 1 .. n : b(i) <= x /\ x <= k(i)
  BY FreeSlotsSpan
<1>c. new \in Seq(Node(S)) => 
        \A x : x \in FreeSlots(new) <=>
               x \in Int /\ \E i \in 1 .. Len(new) :
                              new[i].begin <= x /\ x <= new[i].back
  BY FreeSlotsSpan
<1>2. p \in FreeSlots(list)
  <2> HIDE DEF b, k, p, n, S
  <2> QED BY <1>0, <1>a, <1>b, <1>1 DEF S
<1>3. CASE b(1) # k(1)
  <2> DEFINE r == [list[1] EXCEPT !.begin = @ + 1]
  <2>1. new = [list EXCEPT ![1] = r]
    BY <1>3 DEF ListAfterPop
  <2>2. r \in Node(S) /\ r.begin = b(1) + 1 /\ r.back = k(1)
    <3>1. list[1] \in Node(S) /\ b(1) \in S /\ k(1) \in S /\ b(1) <= k(1)
      BY <1>0, <1>a
    <3>2. b(1) + 1 \in S
      BY <3>1, <1>3
    <3> QED BY <3>1, <3>2 DEF Node
  <2> HIDE DEF r
  <2>3. /\ new \in Seq(Node(S)) /\ Len(new) = n
        /\ \A i \in 1 .. n : new[i] = IF i = 1 THEN r ELSE list[i]
    BY <2>1, <2>2, <1>0
  <2>4. \A i \in 1 .. n : /\ new[i].begin = IF i = 1 THEN b(1) + 1 ELSE b(i)
                          /\ new[i].back = k(i)
    BY <2>2, <2>3
  <2> HIDE DEF new, p, n, b, k
  <2>5. WellFormed(new)
    <3>1. ASSUME NEW i \in 1 .. n PROVE new[i].begin <= new[i].back
      <4>1. b(i) \in S /\ k(i) \in S /\ b(i) <= k(i)
        BY <1>0, <1>a
      <4>2. CASE i = 1
        BY <4>1, <4>2, <2>4, <1>3
      <4>3. CASE i # 1
        BY <4>1, <4>3, <2>4
      <4> QED BY <4>2, <4>3
    <3>2. ASSUME NEW i \in 1 .. n, NEW j \in 1 .. n, i # j
          PROVE  new[i].back < new[j].begin \/ new[j].back < new[i].begin
      <4>1. k(i) < b(j) \/ k(j) < b(i)
        BY <3>2, <1>a
      <4> QED BY <4>1, <2>4, <1>0
    <3> QED BY <3>1, <3>2, <2>3 DEF WellFormed
  <2>6. \A x \in Int : x \in FreeSlots(new) <=> x \in FreeSlots(list) /\ x # p
    <3> SUFFICES ASSUME NEW x \in Int
                 PROVE  x \in FreeSlots(new) <=> x \in FreeSlots(list) /\ x # p
      OBVIOUS
    <3>1. ASSUME NEW i \in 1 .. n
          PROVE  new[i].begin <= x /\ x <= new[i].back
                   <=> b(i) <= x /\ x <= k(i) /\ x # p
      <4>1. CASE i = 1
        BY <4>1, <2>4, <1>0, <1>1
      <4>2. CASE i # 1
        <5>1. k(i) < b(1) \/ k(1) < b(i)
          BY <4>2, <1>0, <1>a
        <5> QED BY <5>1, <4>2, <2>4, <1>0, <1>1, <1>a
      <4> QED BY <4>1, <4>2
    <3> QED BY <3>1, <1>b, <1>c, <2>3
  <2>7. \A x : x \in FreeSlots(new) <=> x \in FreeSlots(list) /\ x # p
    BY <2>6, <1>b, <1>c, <2>3
  <2> QED BY <1>2, <2>3, <2>5, <2>7 DEF new, p
<1>4. CASE b(1) = k(1)
  <2>1. new = Tail(list)
    BY <1>4 DEF ListAfterPop
  <2>2. /\ new \in Seq(Node(S)) /\ DOMAIN new = 1 .. n - 1 /\ Len(new) = n - 1
        /\ \A i \in 1 .. n - 1 :
             new[i].begin = b(i + 1) /\ new[i].back = k(i + 1)
    BY <2>1, <1>0
  <2> HIDE DEF new, p, n, b, k
  <2>3. WellFormed(new)
    <3>1. ASSUME NEW i \in 1 .. n - 1 PROVE new[i].begin <= new[i].back
      <4>1. i + 1 \in 1 .. n
        BY <1>0
      <4> QED BY <4>1, <2>2, <1>a
    <3>2. ASSUME NEW i \in 1 .. n - 1, NEW j \in 1 .. n - 1, i # j
          PROVE  new[i].back < new[j].begin \/ new[j].back < new[i].begin
      <4>1. i + 1 \in 1 .. n /\ j + 1 \in 1 .. n /\ i + 1 # j + 1
        BY <3>2, <1>0
      <4>2. k(i + 1) < b(j + 1) \/ k(j + 1) < b(i + 1)
        BY <4>1, <1>a
      <4> QED BY <4>2, <2>2
    <3> QED BY <3>1, <3>2, <2>2 DEF WellFormed
  <2>4. \A x : x \in FreeSlots(new) <=> x \in FreeSlots(list) /\ x # p
    <3> SUFFICES ASSUME NEW x \in Int 
                 PROVE x \in FreeSlots(new) <=> x \in FreeSlots(list) /\ x # p
      BY <1>b, <1>c, <2>2
    <3>1. ASSUME x \in FreeSlots(new) 
          PROVE  x \in FreeSlots(list) /\ x # p
      <4>1. PICK i \in 1 .. n - 1 : b(i + 1) <= x /\ x <= k(i + 1)
        BY <3>1, <1>c, <2>2
      <4>2. i + 1 \in 1 .. n /\ 1 \in 1 .. n /\ i + 1 # 1
        BY <1>0
      <4>3. x \in FreeSlots(list)
        BY <4>1, <4>2, <1>b
      <4>4. k(i + 1) < b(1) \/ k(1) < b(i + 1)
        BY <4>2, <1>a
      <4>5. /\ b(1) \in S /\ k(1) \in S /\ b(1) <= k(1)
            /\ b(i + 1) \in S /\ k(i + 1) \in S
        BY <4>2, <1>0, <1>a
      <4> QED BY <4>1, <4>3, <4>4, <4>5, <1>1
    <3>2. ASSUME x \in FreeSlots(list), x # p
          PROVE  x \in FreeSlots(new)
      <4>1. PICK i \in 1 .. n : b(i) <= x /\ x <= k(i)
        BY <3>2, <1>b
      <4>2. i - 1 \in 1 .. n - 1 /\ i = (i - 1) + 1
        BY <4>1, <3>2, <1>0, <1>1, <1>4 DEF S
      <4> QED BY <4>1, <4>2, <1>0, <1>c, <2>2 
    <3> QED BY <3>1, <3>2
  <2> QED BY <1>2, <2>2, <2>3, <2>4 DEF new, p, S
<1> QED BY <1>3, <1>4

(***************************************************************************)
(* cache_free_list_push on a list with a tail adds the slot it is given    *)
(* and keeps the nodes disjoint, whether it extends the tail or appends.   *)
(***************************************************************************)
LEMMA FreeListPush ==
  ASSUME NEW N \in Nat \ {0},
         NEW list \in Seq(Node(0 .. N - 1)),
         HasTail(list),
         WellFormed(list),
         NEW slot \in 0 .. N - 1,
         slot \notin FreeSlots(list)
  PROVE  /\ cache_free_list_push(list, slot) \in Seq(Node(0 .. N - 1))
         /\ WellFormed(cache_free_list_push(list, slot))
         /\ FreeSlots(cache_free_list_push(list, slot))
              = FreeSlots(list) \cup {slot}
<1> DEFINE n == Len(list)
           S == 0 .. N - 1
           new == cache_free_list_push(list, slot)
           b(i) == list[i].begin
           k(i) == list[i].back
<1>0. /\ n \in Nat /\ n >= 1 /\ DOMAIN list = 1 .. n
      /\ \A i \in 1 .. n : list[i] \in Node(S) /\ b(i) \in S /\ k(i) \in S
  BY FreeListShape DEF HasTail
<1>a. /\ \A i \in 1 .. n : b(i) <= k(i)
      /\ \A i, j \in 1 .. n : i # j => k(i) < b(j) \/ k(j) < b(i)
  BY <1>0 DEF WellFormed
<1>b. \A x : x \in FreeSlots(list) <=>
               x \in Int /\ \E i \in 1 .. n : b(i) <= x /\ x <= k(i)
  BY FreeSlotsSpan
<1>c. new \in Seq(Node(S)) => 
        \A x : x \in FreeSlots(new) <=>
               x \in Int /\ \E i \in 1 .. Len(new) :
                              new[i].begin <= x /\ x <= new[i].back
  BY FreeSlotsSpan
<1>d. \A i \in 1 .. n : slot < b(i) \/ k(i) < slot
  <2>1. ASSUME NEW i \in 1 .. n
        PROVE  slot < b(i) \/ k(i) < slot
    <3>1. ~ (b(i) <= slot /\ slot <= k(i))
      BY <1>b
    <3>2. b(i) \in Int /\ k(i) \in Int /\ slot \in Int
      BY <1>0
    <3> HIDE DEF b, k
    <3> QED BY <3>1, <3>2
  <2> QED BY <2>1
<1>1. CASE k(n) = slot - 1
  <2>1. new = [list EXCEPT ![n].back = slot]
    BY <1>1 DEF cache_free_list_push
  <2>2. /\ new \in Seq(Node(S)) /\ DOMAIN new = 1 .. n /\ Len(new) = n
        /\ new[n].begin = b(n) /\ new[n].back = slot
        /\ \A i \in 1 .. n - 1 : new[i].begin = b(i) /\ new[i].back = k(i)
    BY <2>1, <1>0 DEF Node
  <2> HIDE DEF new, n, b, k
  <2>3. WellFormed(new)
    <3>1. ASSUME NEW i \in 1 .. n PROVE new[i].begin <= new[i].back
      <4>1. b(i) \in S /\ k(i) \in S /\ b(i) <= k(i)
        BY <1>0, <1>a
      <4>2. CASE i = n
        BY <4>1, <4>2, <2>2, <1>1
      <4>3. CASE i # n
        BY <4>1, <4>3, <2>2, <1>0
      <4> QED BY <4>2, <4>3
    <3>2. ASSUME NEW i \in 1 .. n, NEW j \in 1 .. n, i < j
          PROVE  new[i].back < new[j].begin \/ new[j].back < new[i].begin
      <4>1. k(i) < b(j) \/ k(j) < b(i)
        BY <3>2, <1>a
      <4>2. /\ b(i) \in S /\ k(i) \in S /\ b(j) \in S /\ k(j) \in S
            /\ b(i) <= k(i) /\ (slot < b(i) \/ k(i) < slot)
        BY <1>0, <1>a, <1>d
      <4>3. i \in 1 .. n - 1 /\ new[i].begin = b(i) /\ new[i].back = k(i)
        BY <3>2, <2>2, <1>0
      <4>4. CASE j = n
        <5>1. new[j].begin = b(j) /\ new[j].back = slot /\ k(j) = slot - 1
          BY <4>4, <2>2, <1>1
        <5> QED BY <5>1, <4>1, <4>2, <4>3
      <4>5. CASE j # n
        <5>1. j \in 1 .. n - 1
          BY <4>5, <1>0
        <5>2. new[j].begin = b(j) /\ new[j].back = k(j)
          BY <5>1, <2>2
        <5> QED BY <5>2, <4>1, <4>3
      <4> QED BY <4>4, <4>5
    <3> QED BY <3>1, <3>2, <2>2, <1>0 DEF WellFormed
  <2>4. ASSUME NEW x \in Int
        PROVE  x \in FreeSlots(new) <=> x \in FreeSlots(list) \/ x = slot
    <3>1. ASSUME NEW i \in 1 .. n - 1
          PROVE  new[i].begin <= x /\ x <= new[i].back
                   <=> b(i) <= x /\ x <= k(i)
      BY <2>2
    <3>2. b(n) \in S /\ k(n) \in S /\ b(n) <= k(n)
      BY <1>0, <1>a
    <3>3. new[n].begin <= x /\ x <= new[n].back
                   <=> (b(n) <= x /\ x <= k(n)) \/ x = slot
      BY <2>2, <3>2, <1>1
    <3> QED BY <3>1, <3>3, <1>0, <1>b, <1>c, <2>2
  <2>5. \A x : x \in FreeSlots(new) <=> x \in FreeSlots(list) \/ x = slot
    BY <2>4, <1>b, <1>c, <2>2
  <2> QED BY <2>2, <2>3, <2>5 DEF new
<1>2. CASE k(n) # slot - 1
  <2>1. new = Append(list, [begin |-> slot, back |-> slot])
    BY <1>2 DEF cache_free_list_push
  <2>2. /\ new \in Seq(Node(S)) /\ DOMAIN new = 1 .. n + 1 /\ Len(new) = n + 1
        /\ new[n + 1].begin = slot /\ new[n + 1].back = slot
        /\ \A i \in 1 .. n : new[i].begin = b(i) /\ new[i].back = k(i)
    BY <2>1, <1>0 DEF Node
  <2> HIDE DEF new, n, b, k
  <2>3. WellFormed(new)
    <3>1. ASSUME NEW i \in 1 .. n + 1 PROVE new[i].begin <= new[i].back
      <4>1. CASE i = n + 1
        BY <4>1, <2>2
      <4>2. CASE i \in 1 .. n
        BY <4>2, <2>2, <1>a
      <4> QED BY <4>1, <4>2, <1>0
    <3>2. ASSUME NEW i \in 1 .. n + 1, NEW j \in 1 .. n + 1, i < j
          PROVE  new[i].back < new[j].begin \/ new[j].back < new[i].begin
      <4>1. i \in 1 .. n /\ new[i].begin = b(i) /\ new[i].back = k(i)
        BY <3>2, <2>2, <1>0
      <4>2. CASE j = n + 1
        BY <4>1, <4>2, <2>2, <1>d
      <4>3. CASE j \in 1 .. n
        <5>1. k(i) < b(j) \/ k(j) < b(i)
          BY <3>2, <4>1, <4>3, <1>a
        <5> QED BY <5>1, <4>1, <4>3, <2>2
      <4> QED BY <4>2, <4>3, <1>0
    <3> QED BY <3>1, <3>2, <2>2, <1>0 DEF WellFormed
  <2>4. ASSUME NEW x \in Int
        PROVE  x \in FreeSlots(new) <=> x \in FreeSlots(list) \/ x = slot
    <3>1. ASSUME NEW i \in 1 .. n
          PROVE  new[i].begin <= x /\ x <= new[i].back
                   <=> b(i) <= x /\ x <= k(i)
      BY <2>2
    <3>2. new[n + 1].begin <= x /\ x <= new[n + 1].back <=> x = slot
      BY <2>2
    <3>3. 1 .. n + 1 = (1 .. n) \cup {n + 1}
      BY <1>0
    <3>4. x \in FreeSlots(new) <=>
            \E i \in 1 .. n + 1 : new[i].begin <= x /\ x <= new[i].back
      BY <1>c, <2>2
    <3>5. x \in FreeSlots(list) <=> \E i \in 1 .. n : b(i) <= x /\ x <= k(i)
      BY <1>b
    <3> QED BY <3>1, <3>2, <3>3, <3>4, <3>5, Zenon
  <2>5. \A x : x \in FreeSlots(new) <=> x \in FreeSlots(list) \/ x = slot
    BY <2>4, <1>b, <1>c, <2>2
  <2> QED BY <2>2, <2>3, <2>5 DEF new
<1> QED BY <1>1, <1>2
=============================================================================
