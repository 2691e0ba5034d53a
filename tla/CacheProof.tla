----------------------------- MODULE CacheProof -----------------------------
(***************************************************************************)
(* Proofs about the object cache.                                          *)
(*  - Used by any finite set of threads, with or without RDMA errors,      *)
(*    asserts and faults: the requests posted and the completions not yet  *)
(*    taken are as many as the threads that wait, so no thread waits for   *)
(*    nothing, no completion is left over for a later request, and the     *)
(*    completion queue holds at most one entry per thread.                 *)
(*  - Used by any set of threads, as long as the references to a slot fit  *)
(*    its count: a slot is in one place, the free list or the hands of one *)
(*    request (PlaceInv, and HoldInv for the bound on the references).     *)
(*  - Used by one thread, in a build that keeps its assertions, with fewer *)
(*    tokens on a slot than the I/O bit is worth: IInv is an inductive     *)
(*    invariant, the safety properties follow from it, and the cache       *)
(*    implements the flat memory.                                          *)
(***************************************************************************)
EXTENDS CacheProps, FreeListProof, FiniteSetTheorems

-----------------------------------------------------------------------------
(* Any number of threads: the bookkeeping of completions. *)

(* The threads inside rdma_get_send_comp.                                  *)
Waiters == {t \in Threads : pc[t] \in {"wwait", "rwait"}}

(* The inductive invariant.                                                *)
WaitInv ==
  /\ \E S : sq \in Seq(S)
  /\ cq \in Nat /\ unposted \in Nat
  /\ pc \in [Threads -> PCs]
  /\ Len(sq) + cq + unposted = Cardinality(Waiters)

(* Only the thread t moves, to the label l.                                *)
LEMMA OneMoves ==
  ASSUME pc \in [Threads -> PCs], NEW t \in Threads, NEW l \in PCs, Goto(t, l)
  PROVE  /\ pc' \in [Threads -> PCs]
         /\ pc'[t] = l
         /\ \A u \in Threads : u # t => pc'[u] = pc[u]
BY DEF Goto

(* The waiters are finitely many.                                          *)
LEMMA WaitersFinite ==
  ASSUME IsFiniteSet(Threads)
  PROVE  /\ IsFiniteSet(Waiters)
         /\ Cardinality(Waiters) \in Nat
         /\ Cardinality(Waiters) <= Cardinality(Threads)
<1>1. Waiters \in SUBSET Threads
  BY DEF Waiters
<1> QED BY <1>1, FS_Subset, FS_CardinalityType

(* A queue after a post and after the device took its head.                *)
LEMMA QueueSteps ==
  ASSUME NEW S, NEW q \in Seq(S), NEW x
  PROVE  /\ Len(q) \in Nat
         /\ \E T : Append(q, x) \in Seq(T)
         /\ Len(Append(q, x)) = Len(q) + 1
         /\ q # << >> => /\ \E T : Tail(q) \in Seq(T)
                         /\ Len(Tail(q)) = Len(q) - 1
<1>1. q \in Seq(S \cup {x}) /\ x \in S \cup {x}
  OBVIOUS
<1>2. Append(q, x) \in Seq(S \cup {x}) /\ Len(Append(q, x)) = Len(q) + 1
  BY <1>1
<1>3. ASSUME q # << >>
      PROVE  Tail(q) \in Seq(S) /\ Len(Tail(q)) = Len(q) - 1
  BY <1>3
<1> QED BY <1>2, <1>3

(* A step from a place without waiting to another one leaves the queues    *)
(* alone.                                                                  *)
LEMMA QuietStep ==
  ASSUME WaitInv, NEW t \in Threads, UNCHANGED <<sq, cq, unposted>>,
         pc' \in [Threads -> PCs],
         \A u \in Threads : u # t => pc'[u] = pc[u],
         pc[t] \in {"wwait", "rwait"} <=> pc'[t] \in {"wwait", "rwait"}
  PROVE  WaitInv'
<1>1. Waiters' = Waiters
  BY DEF Waiters
<1> QED BY <1>1 DEF WaitInv

(* A thread that posts a request, or fails to, waits for a completion.     *)
LEMMA PostStep ==
  ASSUME IsFiniteSet(Threads), WaitInv, NEW t \in Threads, NEW x,
         \/ sq' = Append(sq, x) /\ UNCHANGED unposted
         \/ unposted' = unposted + 1 /\ UNCHANGED sq,
         UNCHANGED cq,
         pc' \in [Threads -> PCs],
         \A u \in Threads : u # t => pc'[u] = pc[u],
         pc[t] \notin {"wwait", "rwait"}, pc'[t] \in {"wwait", "rwait"}
  PROVE  WaitInv'
<1>1. Waiters' = Waiters \cup {t} /\ t \notin Waiters
  BY DEF Waiters
<1>2. Cardinality(Waiters') = Cardinality(Waiters) + 1
  BY <1>1, WaitersFinite, FS_AddElement
<1>3. PICK S : sq \in Seq(S)
  BY DEF WaitInv
<1>4. CASE sq' = Append(sq, x) /\ UNCHANGED unposted
  <2>1. (\E T : sq' \in Seq(T)) /\ Len(sq') = Len(sq) + 1 /\ Len(sq) \in Nat
    BY <1>3, <1>4, QueueSteps
  <2>2. Len(sq') + cq' + unposted' = Cardinality(Waiters')
    BY <1>2, <1>4, <2>1 DEF WaitInv
  <2> QED BY <1>4, <2>1, <2>2 DEF WaitInv
<1>5. CASE unposted' = unposted + 1 /\ UNCHANGED sq
  <2>1. Len(sq) \in Nat
    BY <1>3
  <2>2. Len(sq') + cq' + unposted' = Cardinality(Waiters')
    BY <1>2, <1>5, <2>1 DEF WaitInv
  <2> QED BY <1>3, <1>5, <2>2 DEF WaitInv
<1> QED BY <1>4, <1>5

(* A thread takes one completion and waits no more.                        *)
LEMMA TakeStep ==
  ASSUME IsFiniteSet(Threads), WaitInv, NEW t \in Threads,
         Complete, UNCHANGED <<sq, unposted>>,
         pc' \in [Threads -> PCs],
         \A u \in Threads : u # t => pc'[u] = pc[u],
         pc[t] \in {"wwait", "rwait"}, pc'[t] \notin {"wwait", "rwait"}
  PROVE  WaitInv'
<1>1. Waiters' = Waiters \ {t} /\ t \in Waiters
  BY DEF Waiters
<1>2. Cardinality(Waiters') = Cardinality(Waiters) - 1
  BY <1>1, WaitersFinite, FS_RemoveElement
<1>3. cq' \in Nat /\ cq' = cq - 1
  BY DEF Complete, WaitInv
<1>4. Len(sq) \in Nat /\ Len(sq') = Len(sq)
  BY DEF WaitInv
<1>5. Len(sq') + cq' + unposted' = Cardinality(Waiters')
  BY <1>2, <1>3, <1>4 DEF WaitInv
<1> QED BY <1>3, <1>4, <1>5 DEF WaitInv

(* The device completes one request, with or without an error.             *)
LEMMA NicStep ==
  ASSUME WaitInv, Nic
  PROVE  WaitInv'
<1>1. /\ sq # << >> /\ sq' = Tail(sq) /\ cq' = cq + 1
      /\ UNCHANGED <<unposted, pc>>
  BY DEF Nic, NicTransfer, NicError
<1>2. PICK S : sq \in Seq(S)
  BY DEF WaitInv
<1>3. (\E T : sq' \in Seq(T)) /\ Len(sq') = Len(sq) - 1 /\ Len(sq) \in Nat
  BY <1>1, <1>2, QueueSteps
<1>4. Waiters' = Waiters
  BY <1>1 DEF Waiters
<1>5. Len(sq') + cq' + unposted' = Cardinality(Waiters')
  BY <1>1, <1>3, <1>4 DEF WaitInv
<1> QED BY <1>1, <1>3, <1>5 DEF WaitInv

-----------------------------------------------------------------------------
(* The lookup of cache_try_request waits for no completion.                *)
LEMMA TryRequestQuiet ==
  ASSUME WaitInv, NEW t \in Threads,
         Lookup(t) \/ Insert(t) \/ LoadMeta(t) \/ CheckTag(t) \/ Spin(t)
  PROVE  WaitInv'
<1>a. pc \in [Threads -> PCs]
  BY DEF WaitInv
<1>1. /\ UNCHANGED <<sq, cq, unposted>> /\ pc[t] \notin {"wwait", "rwait"}
      /\ \E l \in PCs \ {"wwait", "rwait"} : Goto(t, l)
  <2>1. CASE Lookup(t)
    BY <2>1 DEF Lookup, PCs, rdma_vars
  <2>2. CASE Insert(t)
    BY <2>2 DEF Insert, PCs, rdma_vars
  <2>3. CASE LoadMeta(t)
    BY <2>3 DEF LoadMeta, Miss, PCs, rdma_vars
  <2>4. CASE CheckTag(t)
    BY <2>4 DEF CheckTag, Miss, PCs, rdma_vars
  <2>5. CASE Spin(t)
    BY <2>5 DEF Spin, PCs, rdma_vars
  <2> QED BY <2>1, <2>2, <2>3, <2>4, <2>5
<1>2. PICK l \in PCs \ {"wwait", "rwait"} : Goto(t, l)
  BY <1>1
<1> QED BY <1>a, <1>1, <1>2, OneMoves, QuietStep

(* Nor do the steps of cache_request on the free list, the metadata and    *)
(* the table.                                                              *)
LEMMA RequestQuiet ==
  ASSUME WaitInv, NEW t \in Threads,
         \/ Ref(t) \/ Push(t) \/ Pop(t) \/ Evict(t) \/ Unmap(t) \/ Flush(t)
         \/ Install(t) \/ Publish(t)
  PROVE  WaitInv'
<1>a. pc \in [Threads -> PCs]
  BY DEF WaitInv
<1>1. /\ UNCHANGED <<sq, cq, unposted>> /\ pc[t] \notin {"wwait", "rwait"}
      /\ UNCHANGED pc \/ \E l \in PCs \ {"wwait", "rwait"} : Goto(t, l)
  <2>1. CASE Ref(t)
    BY <2>1 DEF Ref, Return, PCs, rdma_vars
  <2>2. CASE Push(t)
    BY <2>2 DEF Push, Return, PCs, rdma_vars
  <2>3. CASE Pop(t)
    BY <2>3 DEF Pop, PCs, rdma_vars
  <2>4. CASE Evict(t)
    BY <2>4 DEF Evict, PCs, rdma_vars
  <2>5. CASE Unmap(t)
    BY <2>5 DEF Unmap, PCs, rdma_vars
  <2>6. CASE Flush(t)
    BY <2>6 DEF Flush, PCs, rdma_vars
  <2>7. CASE Install(t)
    BY <2>7 DEF Install, PCs, rdma_vars
  <2>8. CASE Publish(t)
    BY <2>8 DEF Publish, PCs, rdma_vars
  <2> QED BY <2>1, <2>2, <2>3, <2>4, <2>5, <2>6, <2>7, <2>8
<1>2. CASE UNCHANGED pc
  BY <1>a, <1>1, <1>2, QuietStep
<1>3. ASSUME NEW l \in PCs \ {"wwait", "rwait"}, Goto(t, l) PROVE WaitInv'
  BY <1>a, <1>1, <1>3, OneMoves, QuietStep
<1> QED BY <1>1, <1>2, <1>3

(* The four steps at the work queues.                                      *)
LEMMA QueuesMatch ==
  ASSUME IsFiniteSet(Threads), WaitInv, NEW t \in Threads,
         WritePost(t) \/ ReadPost(t) \/ WriteWait(t) \/ ReadWait(t)
  PROVE  WaitInv'
<1>a. pc \in [Threads -> PCs]
  BY DEF WaitInv
<1>1. CASE WritePost(t)
  <2>1. /\ pc[t] = "wpost" /\ Goto(t, "wwait") /\ UNCHANGED cq
        /\ \E x : \/ sq' = Append(sq, x) /\ UNCHANGED unposted
                  \/ unposted' = unposted + 1 /\ UNCHANGED sq
    BY <1>1 DEF WritePost, Post
  <2>2. PICK x : \/ sq' = Append(sq, x) /\ UNCHANGED unposted
                 \/ unposted' = unposted + 1 /\ UNCHANGED sq
    BY <2>1
  <2>3. "wwait" \in PCs
    BY DEF PCs
  <2> QED BY <1>a, <2>1, <2>2, <2>3, OneMoves, PostStep
<1>2. CASE ReadPost(t)
  <2>1. /\ pc[t] = "rpost" /\ Goto(t, "rwait") /\ UNCHANGED cq
        /\ \E x : \/ sq' = Append(sq, x) /\ UNCHANGED unposted
                  \/ unposted' = unposted + 1 /\ UNCHANGED sq
    BY <1>2 DEF ReadPost, Post
  <2>2. PICK x : \/ sq' = Append(sq, x) /\ UNCHANGED unposted
                 \/ unposted' = unposted + 1 /\ UNCHANGED sq
    BY <2>1
  <2>3. "rwait" \in PCs
    BY DEF PCs
  <2> QED BY <1>a, <2>1, <2>2, <2>3, OneMoves, PostStep
<1>3. CASE WriteWait(t)
  <2>1. pc[t] = "wwait" /\ Goto(t, "install") /\ Complete
        /\ UNCHANGED <<sq, unposted>>
    BY <1>3 DEF WriteWait
  <2>2. "install" \in PCs
    BY DEF PCs
  <2> QED BY <1>a, <2>1, <2>2, OneMoves, TakeStep
<1>4. CASE ReadWait(t)
  <2>1. pc[t] = "rwait" /\ Goto(t, "idle") /\ Complete
        /\ UNCHANGED <<sq, unposted>>
    BY <1>4 DEF ReadWait, Return
  <2>2. "idle" \in PCs
    BY DEF PCs
  <2> QED BY <1>a, <2>1, <2>2, OneMoves, TakeStep
<1> QED BY <1>1, <1>2, <1>3, <1>4

(* The application's calls and the retry of an eviction wait for nothing.  *)
LEMMA ClientQuiet ==
  ASSUME WaitInv, NEW t \in Threads, ClientStep(t) \/ EvictRetry(t)
  PROVE  WaitInv'
<1>a. pc \in [Threads -> PCs]
  BY DEF WaitInv
<1>1. ASSUME NEW o \in Objs, Request(t, o) PROVE WaitInv'
  <2>1. pc[t] = "idle" /\ Goto(t, "lookup") /\ UNCHANGED <<sq, cq, unposted>>
    BY <1>1 DEF Request, rdma_vars
  <2>2. "lookup" \in PCs
    BY DEF PCs
  <2> QED BY <1>a, <2>1, <2>2, OneMoves, QuietStep
<1>2. CASE UNCHANGED <<sq, cq, unposted, pc>>
  BY <1>a, <1>2, QuietStep
<1>3. ASSUME NEW p \in Pairs, AccessMut(t, p) \/ Load(t, p) \/ cache_token_free(t, p)
      PROVE  UNCHANGED <<sq, cq, unposted, pc>>
  BY <1>3 DEF AccessMut, Load, cache_token_free, rdma_vars
<1>4. ASSUME NEW p \in Pairs, NEW v \in Values, Store(t, p, v)
      PROVE  UNCHANGED <<sq, cq, unposted, pc>>
  BY <1>4 DEF Store, rdma_vars
<1>5. CASE EvictRetry(t)
  <2>1. UNCHANGED <<sq, cq, unposted, pc>>
    BY <1>5 DEF EvictRetry, vars
  <2> QED BY <2>1, <1>2
<1> QED BY <1>1, <1>2, <1>3, <1>4, <1>5 DEF ClientStep

(* WaitInv is an invariant of the cache for any finite set of threads.     *)
THEOREM WaitInvariant ==
  ASSUME IsFiniteSet(Threads)
  PROVE  Spec => []WaitInv
<1>1. Init => WaitInv
  <2>1. SUFFICES ASSUME Init PROVE WaitInv
    OBVIOUS
  <2>2. sq = << >> /\ cq = 0 /\ unposted = 0 /\ pc = [t \in Threads |-> "idle"]
    BY <2>1 DEF Init
  <2>3. Waiters = {}
    BY <2>2 DEF Waiters
  <2>4. Cardinality(Waiters) = 0 /\ Len(sq) = 0
    BY <2>2, <2>3, FS_EmptySet
  <2>5. sq \in Seq({})
    BY <2>2
  <2>6. pc \in [Threads -> PCs]
    BY <2>2 DEF PCs
  <2> QED BY <2>2, <2>4, <2>5, <2>6 DEF WaitInv
<1>2. WaitInv /\ [Next]_vars => WaitInv'
  <2>1. SUFFICES ASSUME WaitInv, [Next]_vars PROVE WaitInv'
    OBVIOUS
  <2>2. CASE UNCHANGED vars
    BY <2>1, <2>2 DEF vars, WaitInv, Waiters
  <2>3. CASE Nic
    BY <2>1, <2>3, NicStep
  <2>4. ASSUME NEW t \in Threads, RequestStep(t) PROVE WaitInv'
    BY <2>1, <2>4, TryRequestQuiet, RequestQuiet, QueuesMatch DEF RequestStep
  <2>5. ASSUME NEW t \in Threads, EvictRetry(t) \/ ClientStep(t) PROVE WaitInv'
    BY <2>1, <2>5, ClientQuiet
  <2> QED BY <2>1, <2>2, <2>3, <2>4, <2>5 DEF Next
<1> QED BY <1>1, <1>2, PTL DEF Spec

(* CompletionsMatchWaiters, for any finite set of threads and failures of  *)
(* the posts and of the requests.                                          *)
THEOREM EveryWaiterGetsOne ==
  ASSUME IsFiniteSet(Threads)
  PROVE  Spec => []CompletionsMatchWaiters
<1>1. WaitInv => CompletionsMatchWaiters
  BY DEF WaitInv, CompletionsMatchWaiters, Waiters
<1> QED BY <1>1, WaitInvariant, PTL

(* rdma_conn_create makes a send completion queue of 16 entries for a      *)
(* queue pair that admits 32 requests: n entries are enough for n threads. *)
THEOREM OneEntryPerThread ==
  ASSUME IsFiniteSet(Threads), NEW n \in Nat, Cardinality(Threads) <= n
  PROVE  Spec => [](Len(sq) + cq <= n)
<1>1. WaitInv => Len(sq) + cq <= n
  <2>1. SUFFICES ASSUME WaitInv PROVE Len(sq) + cq <= n
    OBVIOUS
  <2>2. Cardinality(Threads) \in Nat
    BY FS_CardinalityType
  <2>3. Len(sq) \in Nat
    BY <2>1 DEF WaitInv
  <2> QED BY <2>1, <2>2, <2>3, WaitersFinite DEF WaitInv
<1> QED BY <1>1, WaitInvariant, PTL

-----------------------------------------------------------------------------
(* Any number of threads: a slot is in one place. *)

(* The tokens held on the slot s, numbered per thread and object.          *)
Tokens(h, s) ==
  UNION {{<<u, <<o, k>>>> : k \in 1 .. h[u][<<s, o>>]} : u \in Threads, o \in Objs}

(* The threads that have counted their hit on the slot s and still have a  *)
(* prepared slot to push back before they return.                          *)
Hits(p, e, s) == {u \in Threads : p[u] = "push" /\ e[u] = s}

(* The references to a slot that were added to its word and not taken off. *)
Count(s) == Cardinality(Tokens(held, s)) + Cardinality(Hits(pc, entry, s))

(***************************************************************************)
(* The 30 bits of the reference count are enough for the references to     *)
(* each slot.                                                              *)
(***************************************************************************)
CountsFit == \A s \in SlotIds : Count(s) < FLAG_IO

(* On the free list, or popped or evicted by a request.                    *)
InPlace(s) == s \in FreeSlots(free_list) \/ \E t \in Threads : slot[t] = s

(***************************************************************************)
(* A word that was set to 0 or to Fetching when n references to its slot   *)
(* were left over, and was since counted up and down with them to c.  The  *)
(* left-overs are those of threads whose hit came after the eviction; when *)
(* they are given back the word runs below 0.                              *)
(***************************************************************************)
CountedFrom(w, c, n) == w \in {c - n, c - n + WORD, Fetching + c - n}
Reset(w, c) == \E n \in 0 .. FLAG_IO - 1 : CountedFrom(w, c, n)

PlaceTypes ==
  /\ pc \in [Threads -> PCs]
  /\ gaddr \in [Threads -> Objs \cup {NoTag}]
  /\ slot \in [Threads -> SlotIds \cup {NoSlot}]
  /\ entry \in [Threads -> SlotIds \cup {NoSlot}]
  /\ valid_io_rc \in [SlotIds -> 0 .. WORD - 1]
  /\ addr_trans_table \in [Objs -> SlotIds \cup {NoSlot}]
  /\ free_list \in Seq(Node(SlotIds))
  /\ held \in [Threads -> [Pairs -> Nat]]
  /\ \A s \in SlotIds : /\ IsFiniteSet(Tokens(held, s))
                        /\ IsFiniteSet(Hits(pc, entry, s))

(* What the request of a thread has found, by the place it has reached.    *)
RequestTypes(t) ==
  /\ pc[t] # "idle" => gaddr[t] \in Objs
  /\ pc[t] \in {"load", "tagck", "spin", "ref", "push"} => entry[t] \in SlotIds
  /\ pc[t] = "push" => slot[t] \in SlotIds

(***************************************************************************)
(* The inductive invariant: the word of a slot that is in a place is not   *)
(* that of a slot to evict.                                                *)
(***************************************************************************)
PlaceInv ==
  /\ PlaceTypes
  /\ \A t \in Threads : RequestTypes(t)
  /\ SlotInOnePlace
  /\ \A s \in SlotIds : InPlace(s) => Reset(valid_io_rc[s], Count(s))

(* A counted word is never that of a valid slot without references.        *)
LEMMA ResetNotEvictable ==
  ASSUME CacheAssumption, NEW c \in Nat, c < FLAG_IO, NEW w, Reset(w, c)
  PROVE  ~Evictable(w)
<1>1. FLAG_IO \in Nat \ {0}
  BY DEF CacheAssumption
<1>2. PICK n \in 0 .. FLAG_IO - 1 : CountedFrom(w, c, n)
  BY DEF Reset
<1> QED BY <1>1, <1>2 DEF CountedFrom, Evictable, FLAG_VALID, WORD, Fetching

(* A word set to 0 or to Fetching.                                         *)
LEMMA ResetNow ==
  ASSUME CacheAssumption, NEW c \in Nat, c < FLAG_IO
  PROVE  /\ Reset(0, c) /\ Reset(Fetching, c)
         /\ 0 \in 0 .. WORD - 1 /\ Fetching \in 0 .. WORD - 1
<1>1. FLAG_IO \in Nat \ {0}
  BY DEF CacheAssumption
<1>2. CountedFrom(0, c, c) /\ CountedFrom(Fetching, c, c) /\ c \in 0 .. FLAG_IO - 1
  BY <1>1 DEF CountedFrom, FLAG_VALID, WORD, Fetching
<1>3. 0 \in 0 .. WORD - 1 /\ Fetching \in 0 .. WORD - 1
  BY <1>1 DEF FLAG_VALID, WORD, Fetching
<1> QED BY <1>2, <1>3, Zenon DEF Reset

(* The increment and the decrement of a word follow the count.             *)
LEMMA ResetCounts ==
  ASSUME CacheAssumption, NEW w \in 0 .. WORD - 1, NEW c \in Nat, c < FLAG_IO
  PROVE  /\ Plus1(w) \in 0 .. WORD - 1 /\ Minus1(w) \in 0 .. WORD - 1
         /\ Reset(w, c) /\ c + 1 < FLAG_IO => Reset(Plus1(w), c + 1)
         /\ Reset(w, c) => Reset(Minus1(w), c - 1)
<1>1. FLAG_IO \in Nat \ {0} /\ WORD = 4 * FLAG_IO /\ Fetching = 3 * FLAG_IO
  BY DEF CacheAssumption, WORD, Fetching, FLAG_VALID
<1>2. Plus1(w) \in 0 .. WORD - 1 /\ Minus1(w) \in 0 .. WORD - 1
  BY <1>1 DEF Plus1, Minus1
<1>3. ASSUME NEW n \in 0 .. FLAG_IO - 1, CountedFrom(w, c, n), c + 1 < FLAG_IO
      PROVE  CountedFrom(Plus1(w), c + 1, n)
  BY <1>1, <1>3 DEF CountedFrom, Plus1
<1>4. ASSUME NEW n \in 0 .. FLAG_IO - 1, CountedFrom(w, c, n)
      PROVE  CountedFrom(Minus1(w), c - 1, n)
  BY <1>1, <1>4 DEF CountedFrom, Minus1
<1> QED BY <1>2, <1>3, <1>4, Zenon DEF Reset

(* The members of Tokens.                                                  *)
LEMMA TokenShape ==
  ASSUME NEW h \in [Threads -> [Pairs -> Nat]], NEW s \in SlotIds, NEW y
  PROVE  y \in Tokens(h, s) <=>
         \E u \in Threads, o \in Objs, k \in Nat \ {0} :
           y = <<u, <<o, k>>>> /\ k <= h[u][<<s, o>>]
<1>1. ASSUME NEW u \in Threads, NEW o \in Objs
      PROVE  h[u][<<s, o>>] \in Nat
  BY DEF Pairs
<1>2. ASSUME NEW u \in Threads, NEW o \in Objs, NEW k
      PROVE  k \in 1 .. h[u][<<s, o>>] <=> k \in Nat \ {0} /\ k <= h[u][<<s, o>>]
  BY <1>1
<1>3. y \in Tokens(h, s) <=>
      \E u \in Threads, o \in Objs : \E k \in 1 .. h[u][<<s, o>>] : y = <<u, <<o, k>>>>
  <2> DEFINE On(u, o) == {<<u, <<o, k>>>> : k \in 1 .. h[u][<<s, o>>]}
  <2>1. Tokens(h, s) = UNION {On(u, o) : u \in Threads, o \in Objs}
    BY DEF Tokens
  <2>2. \A u, o : y \in On(u, o) <=> \E k \in 1 .. h[u][<<s, o>>] : y = <<u, <<o, k>>>>
    OBVIOUS
  <2> HIDE DEF On
  <2>3. y \in UNION {On(u, o) : u \in Threads, o \in Objs} <=>
        \E u \in Threads, o \in Objs : y \in On(u, o)
    OBVIOUS
  <2>4. y \in Tokens(h, s) <=> \E u \in Threads, o \in Objs : y \in On(u, o)
    BY <2>1, <2>3
  <2>5. \A u \in Threads, o \in Objs :
          y \in On(u, o) <=> \E k \in 1 .. h[u][<<s, o>>] : y = <<u, <<o, k>>>>
    BY <2>2
  <2> QED BY <2>4, <2>5, Zenon
<1> QED BY <1>2, <1>3, Zenon

(* The thread t holds a token p; the tokens when it got, or gave back, one. *)
Holds(h, t, p)   == h[t][p] > 0
OneMore(h, t, p) == [h EXCEPT ![t][p] = @ + 1]
OneLess(h, t, p) == [h EXCEPT ![t][p] = @ - 1]

(* One more token on the slot s.                                           *)
LEMMA TokenUp ==
  ASSUME NEW h \in [Threads -> [Pairs -> Nat]], NEW t \in Threads,
         NEW s \in SlotIds, NEW o \in Objs
  PROVE  LET g == OneMore(h, t, <<s, o>>) IN
         /\ g \in [Threads -> [Pairs -> Nat]]
         /\ \A r \in SlotIds : r # s => Tokens(g, r) = Tokens(h, r)
         /\ IsFiniteSet(Tokens(h, s)) =>
              /\ IsFiniteSet(Tokens(g, s))
              /\ Cardinality(Tokens(g, s)) = Cardinality(Tokens(h, s)) + 1
<1> DEFINE g == OneMore(h, t, <<s, o>>)
<1>0. <<s, o>> \in Pairs /\ h[t][<<s, o>>] \in Nat
  BY DEF Pairs
<1>1. g \in [Threads -> [Pairs -> Nat]]
  BY <1>0 DEF OneMore
<1>2. \A u \in Threads, r \in SlotIds, q \in Objs :
        g[u][<<r, q>>] = IF u = t /\ r = s /\ q = o THEN h[t][<<s, o>>] + 1
                                                    ELSE h[u][<<r, q>>]
  BY <1>0 DEF OneMore, Pairs
<1> DEFINE n == h[t][<<s, o>>] + 1
<1>3. n \in Nat \ {0} /\ ~(n <= h[t][<<s, o>>]) /\ n <= n
  BY <1>0
<1>4. \A k \in Nat : k <= n <=> k <= h[t][<<s, o>>] \/ k = n
  BY <1>0
<1> HIDE DEF n, g
<1>5. ASSUME NEW r \in SlotIds, r # s
      PROVE  Tokens(g, r) = Tokens(h, r)
  <2>1. \A u \in Threads, q \in Objs : g[u][<<r, q>>] = h[u][<<r, q>>]
    BY <1>2, <1>5
  <2>2. ASSUME NEW y
        PROVE  y \in Tokens(g, r) <=> y \in Tokens(h, r)
    <3>1. y \in Tokens(g, r) <=>
          \E u \in Threads, q \in Objs, k \in Nat \ {0} :
            y = <<u, <<q, k>>>> /\ k <= g[u][<<r, q>>]
      BY <1>1, TokenShape
    <3>2. y \in Tokens(h, r) <=>
          \E u \in Threads, q \in Objs, k \in Nat \ {0} :
            y = <<u, <<q, k>>>> /\ k <= h[u][<<r, q>>]
      BY TokenShape
    <3> QED BY <2>1, <3>1, <3>2, Zenon
  <2> QED BY <2>2, Zenon
<1>6. \A y : y \in Tokens(g, s) <=> y \in Tokens(h, s) \/ y = <<t, <<o, n>>>>
  <2>1. ASSUME NEW y
        PROVE  y \in Tokens(g, s) <=> y \in Tokens(h, s) \/ y = <<t, <<o, n>>>>
    <3>1. y \in Tokens(g, s) <=>
          \E u \in Threads, q \in Objs, k \in Nat \ {0} :
            y = <<u, <<q, k>>>> /\ k <= g[u][<<s, q>>]
      BY <1>1, TokenShape
    <3>2. y \in Tokens(h, s) <=>
          \E u \in Threads, q \in Objs, k \in Nat \ {0} :
            y = <<u, <<q, k>>>> /\ k <= h[u][<<s, q>>]
      BY TokenShape
    <3>3. \A u \in Threads, q \in Objs :
            ~(u = t /\ q = o) => g[u][<<s, q>>] = h[u][<<s, q>>]
      BY <1>2
    <3>4. g[t][<<s, o>>] = n
      BY <1>2 DEF n
    <3>5. ASSUME NEW u \in Threads, NEW q \in Objs, NEW k \in Nat \ {0}
          PROVE  k <= g[u][<<s, q>>] <=>
                   k <= h[u][<<s, q>>] \/ (u = t /\ q = o /\ k = n)
      <4>1. CASE u = t /\ q = o
        BY <4>1, <3>4, <1>4
      <4>2. CASE ~(u = t /\ q = o)
        BY <4>2, <3>3, Zenon
      <4> QED BY <4>1, <4>2
    <3>6. ASSUME y \in Tokens(g, s)
          PROVE  y \in Tokens(h, s) \/ y = <<t, <<o, n>>>>
      <4>1. PICK u \in Threads, q \in Objs, k \in Nat \ {0} :
              y = <<u, <<q, k>>>> /\ k <= g[u][<<s, q>>]
        BY <3>1, <3>6
      <4> QED BY <4>1, <3>2, <3>5, Zenon
    <3>7. ASSUME y \in Tokens(h, s)
          PROVE  y \in Tokens(g, s)
      BY <3>1, <3>2, <3>5, <3>7, Zenon
    <3>8. ASSUME y = <<t, <<o, n>>>>
          PROVE  y \in Tokens(g, s)
      BY <3>1, <3>4, <3>8, <1>3, Zenon
    <3> QED BY <3>6, <3>7, <3>8
  <2> QED BY <2>1
<1>7. <<t, <<o, n>>>> \notin Tokens(h, s)
  <2>1. SUFFICES ASSUME <<t, <<o, n>>>> \in Tokens(h, s) PROVE FALSE
    OBVIOUS
  <2>2. PICK u \in Threads, q \in Objs, k \in Nat \ {0} :
          <<t, <<o, n>>>> = <<u, <<q, k>>>> /\ k <= h[u][<<s, q>>]
    BY <2>1, TokenShape
  <2>3. t = u /\ o = q /\ n = k
    BY <2>2
  <2> QED BY <2>2, <2>3, <1>3
<1>8. Tokens(g, s) = Tokens(h, s) \cup {<<t, <<o, n>>>>}
  BY <1>6, Zenon
<1>9. ASSUME IsFiniteSet(Tokens(h, s))
      PROVE  /\ IsFiniteSet(Tokens(g, s))
             /\ Cardinality(Tokens(g, s)) = Cardinality(Tokens(h, s)) + 1
  BY <1>7, <1>8, <1>9, FS_AddElement, Zenon
<1> QED BY <1>1, <1>5, <1>9 DEF g

(* One token less on the slot s.                                           *)
LEMMA TokenDown ==
  ASSUME NEW h \in [Threads -> [Pairs -> Nat]], NEW t \in Threads,
         NEW s \in SlotIds, NEW o \in Objs
  PROVE  Holds(h, t, <<s, o>>) =>
         LET g == OneLess(h, t, <<s, o>>) IN
         /\ g \in [Threads -> [Pairs -> Nat]]
         /\ \A r \in SlotIds : r # s => Tokens(g, r) = Tokens(h, r)
         /\ IsFiniteSet(Tokens(h, s)) =>
              /\ IsFiniteSet(Tokens(g, s))
              /\ Cardinality(Tokens(h, s)) = Cardinality(Tokens(g, s)) + 1
<1> HAVE Holds(h, t, <<s, o>>)
<1> DEFINE g == OneLess(h, t, <<s, o>>)
<1>0. <<s, o>> \in Pairs /\ h[t][<<s, o>>] \in Nat /\ h[t][<<s, o>>] > 0
  BY DEF Holds, Pairs
<1>1. g \in [Threads -> [Pairs -> Nat]]
  BY <1>0 DEF OneLess
<1>2. h = OneMore(g, t, <<s, o>>)
  <2>1. \A u \in Threads, p \in Pairs :
          g[u][p] = IF u = t /\ p = <<s, o>> THEN h[u][p] - 1 ELSE h[u][p]
    BY <1>0 DEF OneLess
  <2> HIDE DEF g
  <2> DEFINE f == OneMore(g, t, <<s, o>>)
  <2>2. f \in [Threads -> [Pairs -> Nat]]
    BY <1>0, <1>1 DEF OneMore
  <2>3. \A u \in Threads, p \in Pairs :
          f[u][p] = IF u = t /\ p = <<s, o>> THEN g[u][p] + 1 ELSE g[u][p]
    BY <1>0, <1>1 DEF OneMore
  <2> HIDE DEF f
  <2>4. ASSUME NEW u \in Threads PROVE f[u] = h[u]
    <3>1. f[u] \in [Pairs -> Nat] /\ h[u] \in [Pairs -> Nat]
      BY <2>2
    <3>2. ASSUME NEW p \in Pairs PROVE f[u][p] = h[u][p]
      <4>1. h[u][p] \in Int
        BY <3>1
      <4>2. CASE u = t /\ p = <<s, o>>
        <5>1. f[u][p] = g[u][p] + 1 /\ g[u][p] = h[u][p] - 1
          BY <2>1, <2>3, <4>2
        <5> QED BY <4>1, <5>1
      <4>3. CASE ~(u = t /\ p = <<s, o>>)
        <5>1. f[u][p] = g[u][p] /\ g[u][p] = h[u][p]
          BY <2>1, <2>3, <4>3
        <5> QED BY <5>1
      <4> QED BY <4>2, <4>3
    <3> QED BY <3>1, <3>2
  <2>5. f = h
    BY <2>2, <2>4
  <2> QED BY <2>5 DEF f
<1> HIDE DEF g
<1>3. \A r \in SlotIds : r # s => Tokens(h, r) = Tokens(g, r)
  BY <1>1, <1>2, TokenUp
<1>4. IsFiniteSet(Tokens(g, s)) =>
        Cardinality(Tokens(h, s)) = Cardinality(Tokens(g, s)) + 1
  BY <1>1, <1>2, TokenUp
<1>5. Tokens(g, s) \in SUBSET Tokens(h, s)
  <2>1. ASSUME NEW y \in Tokens(g, s) PROVE y \in Tokens(h, s)
    <3>1. PICK u \in Threads, q \in Objs, k \in Nat \ {0} :
            y = <<u, <<q, k>>>> /\ k <= g[u][<<s, q>>]
      BY <1>1, <2>1, TokenShape
    <3>2. <<s, q>> \in Pairs
      BY DEF Pairs
    <3>3. k <= h[u][<<s, q>>]
      BY <1>0, <3>1, <3>2 DEF g, OneLess
    <3> QED BY <3>1, <3>3, TokenShape, Zenon
  <2> QED BY <2>1
<1>6. ASSUME IsFiniteSet(Tokens(h, s))
      PROVE  /\ IsFiniteSet(Tokens(g, s))
             /\ Cardinality(Tokens(h, s)) = Cardinality(Tokens(g, s)) + 1
  <2>1. IsFiniteSet(Tokens(g, s)) /\ Cardinality(Tokens(g, s)) \in Nat
    BY <1>5, <1>6, FS_Subset, FS_CardinalityType
  <2> QED BY <2>1, <1>4
<1> QED BY <1>1, <1>3, <1>6 DEF g

(* The references to a slot are finitely many.                             *)
LEMMA CountType ==
  ASSUME PlaceTypes, NEW s \in SlotIds
  PROVE  /\ Cardinality(Tokens(held, s)) \in Nat
         /\ Cardinality(Hits(pc, entry, s)) \in Nat
         /\ Count(s) \in Nat
         /\ Count(s) = Cardinality(Tokens(held, s)) + Cardinality(Hits(pc, entry, s))
<1>1. IsFiniteSet(Tokens(held, s)) /\ IsFiniteSet(Hits(pc, entry, s))
  BY DEF PlaceTypes
<1>2. Cardinality(Tokens(held, s)) \in Nat /\ Cardinality(Hits(pc, entry, s)) \in Nat
  BY <1>1, FS_CardinalityType
<1> QED BY <1>2 DEF Count

(* Free slots are slots of the block; NoSlot is none.                      *)
LEMMA PlacesAreSlots ==
  ASSUME CacheAssumption, free_list \in Seq(Node(SlotIds))
  PROVE  FreeSlots(free_list) \subseteq SlotIds /\ NoSlot \notin SlotIds
<1>1. SlotIds \in SUBSET Int /\ NoSlot \notin SlotIds
  BY DEF SlotIds, NoSlot, CacheAssumption
<1>2. ASSUME NEW x \in FreeSlots(free_list)
      PROVE  x \in SlotIds
  <2>1. PICK i \in 1 .. Len(free_list) :
          x \in Int /\ free_list[i].begin <= x /\ x <= free_list[i].back
    BY <1>1, <1>2, FreeSlotsSpan
  <2>2. free_list[i].begin \in SlotIds /\ free_list[i].back \in SlotIds
    BY <1>1, FreeListShape
  <2> QED BY <2>1, <2>2 DEF SlotIds, CacheAssumption
<1> QED BY <1>1, <1>2

(* A step that moves no slot, changes no word and makes or frees no token. *)
LEMMA NoSlotMoves ==
  ASSUME PlaceInv, NEW t \in Threads,
         UNCHANGED <<free_list, slot, valid_io_rc, held>>,
         pc' \in [Threads -> PCs],
         gaddr' \in [Threads -> Objs \cup {NoTag}],
         entry' \in [Threads -> SlotIds \cup {NoSlot}],
         addr_trans_table' \in [Objs -> SlotIds \cup {NoSlot}],
         \A u \in Threads : u # t => /\ pc'[u] = pc[u] /\ entry'[u] = entry[u]
                                     /\ gaddr'[u] = gaddr[u],
         \/ pc[t] # "push" /\ pc'[t] # "push"
         \/ pc'[t] = pc[t] /\ entry'[t] = entry[t],
         RequestTypes(t)'
  PROVE  PlaceInv'
<1>1. ASSUME NEW s
      PROVE  Hits(pc', entry', s) = Hits(pc, entry, s)
  <2>1. pc[t] = "push" /\ entry[t] = s <=> pc'[t] = "push" /\ entry'[t] = s
    OBVIOUS
  <2>2. \A u \in Threads : u # t => pc'[u] = pc[u] /\ entry'[u] = entry[u]
    OBVIOUS
  <2> QED BY <2>1, <2>2 DEF Hits
<1>2. \A s : Hits(pc, entry, s)' = Hits(pc, entry, s) /\ Tokens(held, s)' = Tokens(held, s)
  <2>1. \A s : Hits(pc, entry, s)' = Hits(pc', entry', s)
    BY DEF Hits
  <2>2. \A s : Tokens(held, s)' = Tokens(held, s)
    BY DEF Tokens
  <2> QED BY <1>1, <2>1, <2>2
<1>3. PlaceTypes'
  BY <1>2 DEF PlaceInv, PlaceTypes
<1>4. \A u \in Threads : RequestTypes(u)'
  BY DEF PlaceInv, RequestTypes
<1>5. SlotInOnePlace'
  BY DEF PlaceInv, SlotInOnePlace
<1>6. \A s \in SlotIds : InPlace(s)' => Reset(valid_io_rc[s], Count(s))'
  BY <1>2 DEF PlaceInv, InPlace, Count, Reset, CountedFrom
<1> QED BY <1>3, <1>4, <1>5, <1>6 DEF PlaceInv

-----------------------------------------------------------------------------
(* The steps of a lookup, of an eviction and of a fetch between the ones   *)
(* that change a word, and the application's calls but the free.           *)
LEMMA PlaceKept ==
  ASSUME PlaceInv, NEW t \in Threads,
         \/ Lookup(t) \/ Insert(t) \/ LoadMeta(t) \/ CheckTag(t) \/ Spin(t)
         \/ Unmap(t) \/ Flush(t) \/ WritePost(t) \/ WriteWait(t) \/ Install(t)
         \/ ReadPost(t) \/ \E o \in Objs : Request(t, o)
  PROVE  PlaceInv'
<1>0. /\ pc \in [Threads -> PCs]
      /\ gaddr \in [Threads -> Objs \cup {NoTag}]
      /\ slot \in [Threads -> SlotIds \cup {NoSlot}]
      /\ entry \in [Threads -> SlotIds \cup {NoSlot}]
      /\ addr_trans_table \in [Objs -> SlotIds \cup {NoSlot}]
      /\ RequestTypes(t)
  BY DEF PlaceInv, PlaceTypes
<1> DEFINE Moves(l) == /\ l \in PCs \ {"idle", "push"} /\ Goto(t, l)
                       /\ pc[t] # "push"
           Found == /\ entry' \in [Threads -> SlotIds \cup {NoSlot}]
                    /\ addr_trans_table' \in [Objs -> SlotIds \cup {NoSlot}]
                    /\ \A u \in Threads : u # t => entry'[u] = entry[u]
           Same == UNCHANGED <<free_list, slot, valid_io_rc, held>>
<1>1. ASSUME NEW l, Moves(l), Found, Same,
             gaddr' \in [Threads -> Objs \cup {NoTag}], gaddr'[t] \in Objs,
             \A u \in Threads : u # t => gaddr'[u] = gaddr[u],
             l \in {"load", "tagck", "spin", "ref"} => entry'[t] \in SlotIds
      PROVE  PlaceInv'
  <2>1. pc' \in [Threads -> PCs] /\ pc'[t] = l /\ \A u \in Threads : u # t => pc'[u] = pc[u]
    BY <1>0, <1>1 DEF Goto
  <2>2. RequestTypes(t)'
    BY <1>1, <2>1 DEF RequestTypes
  <2> QED BY <1>1, <2>1, <2>2, NoSlotMoves
<1>2. pc[t] # "idle" => gaddr[t] \in Objs
  BY <1>0 DEF RequestTypes
<1>3. pc[t] \in {"load", "tagck", "spin", "ref"} => entry[t] \in SlotIds
  BY <1>0 DEF RequestTypes
<1>4. CASE \E o \in Objs : Request(t, o)
  <2>1. PICK o \in Objs : Request(t, o)
    BY <1>4
  <2>2. Moves("lookup") /\ Found /\ Same
    BY <1>0, <2>1 DEF Request, PCs, meta_vars, pool_vars, hold_vars
  <2>3. /\ gaddr' \in [Threads -> Objs \cup {NoTag}] /\ gaddr'[t] \in Objs
        /\ \A u \in Threads : u # t => gaddr'[u] = gaddr[u]
    BY <1>0, <2>1 DEF Request
  <2> QED BY <2>2, <2>3, <1>1
<1>5. CASE Lookup(t)
  <2> DEFINE e == addr_trans_table[gaddr[t]]
             l == IF e # NoSlot THEN "load"
                  ELSE IF slot[t] = NoSlot THEN "pop" ELSE "insert"
  <2>1. pc[t] = "lookup" /\ gaddr[t] \in Objs /\ e \in SlotIds \cup {NoSlot}
    BY <1>0, <1>2, <1>5 DEF Lookup
  <2>2. entry' = [entry EXCEPT ![t] = e] /\ Goto(t, l) /\ UNCHANGED <<gaddr, addr_trans_table>> /\ Same
    BY <1>5 DEF Lookup, meta_vars, pool_vars, hold_vars
  <2>3. l \in {"load", "pop", "insert"} /\ (l = "load" => e \in SlotIds)
    BY <2>1
  <2> HIDE DEF e, l
  <2>4. Moves(l)
    BY <2>1, <2>2, <2>3 DEF PCs
  <2>5. Found /\ entry'[t] = e
    BY <1>0, <2>1, <2>2
  <2> QED BY <1>0, <2>1, <2>2, <2>3, <2>4, <2>5, <1>1
<1>6. CASE Insert(t)
  <2>1. pc[t] = "insert" /\ gaddr[t] \in Objs /\ Moves("rpost")
    BY <1>2, <1>6 DEF Insert, PCs
  <2>2. UNCHANGED <<entry, gaddr>> /\ Same
    BY <1>6 DEF Insert, meta_vars, req_vars, hold_vars
  <2>3. addr_trans_table' \in [Objs -> SlotIds \cup {NoSlot}]
    BY <1>0, <1>6 DEF Insert
  <2> QED BY <1>0, <2>1, <2>2, <2>3, <1>1
<1>7. CASE LoadMeta(t) \/ CheckTag(t)
  <2>1. /\ pc[t] \in {"load", "tagck"} /\ gaddr[t] \in Objs /\ entry[t] \in SlotIds
        /\ UNCHANGED <<gaddr, addr_trans_table>> /\ Same
    BY <1>2, <1>3, <1>7 DEF LoadMeta, CheckTag, meta_vars, pool_vars, hold_vars
  <2>2. \/ entry' = entry /\ \E l \in {"tagck", "spin", "ref"} : Goto(t, l)
        \/ /\ entry' = [entry EXCEPT ![t] = NoSlot]
           /\ \E l \in {"pop", "rpost"} : Goto(t, l)
    BY <1>7 DEF LoadMeta, CheckTag, Miss
  <2>3. ASSUME entry' = entry, NEW l \in {"tagck", "spin", "ref"}, Goto(t, l)
        PROVE  PlaceInv'
    <3>1. Moves(l)
      BY <2>1, <2>3 DEF PCs
    <3> QED BY <1>0, <2>1, <2>3, <3>1, <1>1
  <2>4. ASSUME entry' = [entry EXCEPT ![t] = NoSlot],
               NEW l \in {"pop", "rpost"}, Goto(t, l)
        PROVE  PlaceInv'
    <3>1. Moves(l)
      BY <2>1, <2>4 DEF PCs
    <3>2. Found
      BY <1>0, <2>1, <2>4
    <3> QED BY <1>0, <2>1, <2>4, <3>1, <3>2, <1>1
  <2> QED BY <2>2, <2>3, <2>4
<1>8. CASE Spin(t)
  <2>1. /\ pc[t] = "spin" /\ Moves("ref") /\ gaddr[t] \in Objs
        /\ entry[t] \in SlotIds
        /\ UNCHANGED <<gaddr, entry, addr_trans_table>> /\ Same
    BY <1>2, <1>3, <1>8 DEF Spin, PCs, meta_vars, pool_vars, req_vars, hold_vars
  <2> QED BY <1>0, <2>1, <1>1
<1>9. CASE \/ Unmap(t) \/ Flush(t) \/ WritePost(t) \/ WriteWait(t)
           \/ Install(t) \/ ReadPost(t)
  <2>1. /\ pc[t] \notin {"idle", "push"}
        /\ \E l \in {"flush", "wpost", "install", "wwait", "publish", "rwait"} : Goto(t, l)
        /\ UNCHANGED <<gaddr, entry>> /\ Same
    <3>1. CASE Unmap(t)
      BY <3>1 DEF Unmap, meta_vars, req_vars, hold_vars
    <3>2. CASE Flush(t)
      BY <3>2 DEF Flush, pool_vars, req_vars, hold_vars
    <3>3. CASE WritePost(t) \/ ReadPost(t)
      BY <3>3 DEF WritePost, ReadPost, meta_vars, pool_vars, req_vars, hold_vars
    <3>4. CASE WriteWait(t)
      BY <3>4 DEF WriteWait, pool_vars, req_vars, hold_vars
    <3>5. CASE Install(t)
      BY <3>5 DEF Install, pool_vars, req_vars, hold_vars
    <3> QED BY <1>9, <3>1, <3>2, <3>3, <3>4, <3>5
  <2>2. addr_trans_table' \in [Objs -> SlotIds \cup {NoSlot}]
    <3>1. CASE Unmap(t)
      BY <1>0, <3>1 DEF Unmap, EntryRemoved
    <3>2. CASE ~Unmap(t)
      BY <1>0, <1>9, <3>2 DEF Flush, WritePost, WriteWait, Install, ReadPost, pool_vars
    <3> QED BY <3>1, <3>2
  <2>3. PICK l \in {"flush", "wpost", "install", "wwait", "publish", "rwait"} : Goto(t, l)
    BY <2>1
  <2>4. Moves(l)
    BY <2>1, <2>3 DEF PCs
  <2> QED BY <1>0, <1>2, <2>1, <2>2, <2>3, <2>4, <1>1
<1> QED BY <1>4, <1>5, <1>6, <1>7, <1>8, <1>9

(* The application's other calls, the device and a stutter.                *)
LEMMA PlaceIdle ==
  ASSUME PlaceInv,
         UNCHANGED <<free_list, slot, valid_io_rc, held, pc, entry, gaddr, addr_trans_table>>
  PROVE  PlaceInv'
<1>1. \A s : Hits(pc, entry, s)' = Hits(pc, entry, s) /\ Tokens(held, s)' = Tokens(held, s)
  BY DEF Hits, Tokens
<1>2. PlaceTypes'
  BY <1>1 DEF PlaceInv, PlaceTypes
<1>3. \A u \in Threads : RequestTypes(u)'
  BY DEF PlaceInv, RequestTypes
<1>4. SlotInOnePlace'
  BY DEF PlaceInv, SlotInOnePlace
<1>5. \A s \in SlotIds : InPlace(s)' => Reset(valid_io_rc[s], Count(s))'
  BY <1>1 DEF PlaceInv, InPlace, Count, Reset, CountedFrom
<1> QED BY <1>2, <1>3, <1>4, <1>5 DEF PlaceInv

(* Hits and tokens in the next state, read off the primed variables.       *)
LEMMA PrimedCounts ==
  ASSUME NEW s
  PROVE  /\ Tokens(held, s)' = Tokens(held', s)
         /\ Hits(pc, entry, s)' = Hits(pc', entry', s)
         /\ Count(s)' = Cardinality(Tokens(held', s)) + Cardinality(Hits(pc', entry', s))
<1>1. Tokens(held, s)' = Tokens(held', s)
  BY DEF Tokens
<1>2. Hits(pc, entry, s)' = Hits(pc', entry', s)
  BY DEF Hits
<1> QED BY <1>1, <1>2 DEF Count

(* The thread t returns the token of the slot s for the object o.          *)
LEMMA ReturnTypes ==
  ASSUME PlaceInv, NEW t \in Threads, NEW s, NEW o, Return(t, s, o)
  PROVE  /\ pc' \in [Threads -> PCs] /\ pc'[t] = "idle"
         /\ gaddr' \in [Threads -> Objs \cup {NoTag}]
         /\ slot' \in [Threads -> SlotIds \cup {NoSlot}] /\ slot'[t] = NoSlot
         /\ entry' \in [Threads -> SlotIds \cup {NoSlot}]
         /\ \A u \in Threads : u # t => /\ pc'[u] = pc[u] /\ gaddr'[u] = gaddr[u]
                                        /\ slot'[u] = slot[u] /\ entry'[u] = entry[u]
         /\ \A u \in Threads : RequestTypes(u)'
<1>1. /\ pc \in [Threads -> PCs]
      /\ gaddr \in [Threads -> Objs \cup {NoTag}]
      /\ slot \in [Threads -> SlotIds \cup {NoSlot}]
      /\ entry \in [Threads -> SlotIds \cup {NoSlot}]
      /\ \A u \in Threads : RequestTypes(u)
  BY DEF PlaceInv, PlaceTypes
<1>2. /\ pc' \in [Threads -> PCs] /\ pc'[t] = "idle"
      /\ gaddr' \in [Threads -> Objs \cup {NoTag}]
      /\ slot' \in [Threads -> SlotIds \cup {NoSlot}] /\ slot'[t] = NoSlot
      /\ entry' \in [Threads -> SlotIds \cup {NoSlot}]
  BY <1>1 DEF Return, Goto, PCs
<1>3. \A u \in Threads : u # t => /\ pc'[u] = pc[u] /\ gaddr'[u] = gaddr[u]
                                  /\ slot'[u] = slot[u] /\ entry'[u] = entry[u]
  BY <1>1 DEF Return, Goto
<1>4. \A u \in Threads : RequestTypes(u)'
  BY <1>1, <1>2, <1>3 DEF RequestTypes
<1> QED BY <1>2, <1>3, <1>4

(***************************************************************************)
(* A step keeps the invariant when the word of every slot that is in a     *)
(* place after it was reset, counted on, or left as it was.                *)
(***************************************************************************)
LEMMA PlaceAfter ==
  ASSUME PlaceInv, PlaceTypes', \A u \in Threads : RequestTypes(u)', SlotInOnePlace',
         \A r \in SlotIds :
           InPlace(r)' => \/ Reset(valid_io_rc'[r], Count(r)')
                          \/ /\ InPlace(r)
                             /\ valid_io_rc'[r] = valid_io_rc[r]
                             /\ Count(r)' = Count(r)
  PROVE  PlaceInv'
<1>1. ASSUME NEW r \in SlotIds, InPlace(r)'
      PROVE  Reset(valid_io_rc[r], Count(r))'
  <2>1. Reset(valid_io_rc'[r], Count(r)')
    BY <1>1 DEF PlaceInv
  <2> QED BY <2>1 DEF Reset, CountedFrom
<1> QED BY <1>1 DEF PlaceInv

(* A step of a thread that is not about to push a slot back, before or     *)
(* after it, keeps the references if it makes and frees no token.          *)
LEMMA CountsKept ==
  ASSUME PlaceInv, NEW t \in Threads, UNCHANGED held,
         \A u \in Threads : u # t => pc'[u] = pc[u] /\ entry'[u] = entry[u],
         pc[t] # "push", pc'[t] # "push"
  PROVE  \A r \in SlotIds : /\ Count(r)' = Count(r)
                             /\ IsFiniteSet(Tokens(held, r))'
                             /\ IsFiniteSet(Hits(pc, entry, r))'
<1>1. \A r : Tokens(held, r)' = Tokens(held, r)
  BY DEF Tokens
<1>2. \A r : Hits(pc, entry, r)' = Hits(pc, entry, r)
  BY DEF Hits
<1> QED BY <1>1, <1>2 DEF Count, PlaceInv, PlaceTypes

(* A hit adds 1 to the word and 1 to the references of the slot found.     *)
LEMMA PlaceRef ==
  ASSUME CacheAssumption, PlaceInv, CountsFit, CountsFit', NEW t \in Threads, Ref(t)
  PROVE  PlaceInv'
<1>0. /\ pc \in [Threads -> PCs]
      /\ gaddr \in [Threads -> Objs \cup {NoTag}]
      /\ slot \in [Threads -> SlotIds \cup {NoSlot}]
      /\ entry \in [Threads -> SlotIds \cup {NoSlot}]
      /\ valid_io_rc \in [SlotIds -> 0 .. WORD - 1]
      /\ held \in [Threads -> [Pairs -> Nat]]
      /\ \A r \in SlotIds : /\ IsFiniteSet(Tokens(held, r))
                            /\ IsFiniteSet(Hits(pc, entry, r))
      /\ \A u \in Threads : RequestTypes(u)
  BY DEF PlaceInv, PlaceTypes
<1>a. pc[t] = "ref" /\ entry[t] \in SlotIds /\ gaddr[t] \in Objs
  BY <1>0 DEF Ref, RequestTypes
<1>b. PICK s \in SlotIds : s = entry[t]
  BY <1>a
<1>1. pc[t] = "ref" /\ s \in SlotIds /\ gaddr[t] \in Objs
  BY <1>a
<1>2. /\ valid_io_rc' = [valid_io_rc EXCEPT ![s] = Plus1(@)]
      /\ UNCHANGED <<free_list, addr_trans_table>>
  BY <1>b DEF Ref, pool_vars
<1>3. /\ slot' = slot
      /\ pc' \in [Threads -> PCs]
      /\ gaddr' \in [Threads -> Objs \cup {NoTag}]
      /\ entry' \in [Threads -> SlotIds \cup {NoSlot}]
      /\ \A u \in Threads : RequestTypes(u)'
      /\ held' \in [Threads -> [Pairs -> Nat]]
      /\ \A r \in SlotIds : /\ IsFiniteSet(Tokens(held', r))
                            /\ IsFiniteSet(Hits(pc', entry', r))
      /\ Count(s)' = Count(s) + 1
      /\ \A r \in SlotIds : r # s => Count(r)' = Count(r)
  <2>1. CASE slot[t] = NoSlot
    <3>1. Return(t, s, gaddr[t])
      BY <1>b, <2>1 DEF Ref
    <3>2. held' = [held EXCEPT ![t][<<s, gaddr[t]>>] = @ + 1]
      BY <3>1 DEF Return
    <3>3. /\ held' \in [Threads -> [Pairs -> Nat]]
          /\ \A r \in SlotIds : r # s => Tokens(held', r) = Tokens(held, r)
          /\ IsFiniteSet(Tokens(held', s))
          /\ Cardinality(Tokens(held', s)) = Cardinality(Tokens(held, s)) + 1
      <4>1. held \in [Threads -> [Pairs -> Nat]] /\ IsFiniteSet(Tokens(held, s))
        BY <1>0
      <4>2. PICK o \in Objs : o = gaddr[t]
        BY <1>1
      <4>3. held' = OneMore(held, t, <<s, o>>)
        BY <3>2, <4>2 DEF OneMore
      <4>4. held' \in [Threads -> [Pairs -> Nat]]
        BY <4>1, <4>3, TokenUp
      <4>5. \A r \in SlotIds : r # s => Tokens(held', r) = Tokens(held, r)
        BY <4>1, <4>3, TokenUp
      <4>6. IsFiniteSet(Tokens(held', s))
        BY <4>1, <4>3, TokenUp
      <4>7. Cardinality(Tokens(held', s)) = Cardinality(Tokens(held, s)) + 1
        BY <4>1, <4>3, TokenUp
      <4> QED BY <4>4, <4>5, <4>6, <4>7
    <3>4. /\ pc' \in [Threads -> PCs] /\ pc'[t] = "idle"
          /\ gaddr' \in [Threads -> Objs \cup {NoTag}]
          /\ entry' \in [Threads -> SlotIds \cup {NoSlot}]
          /\ slot' \in [Threads -> SlotIds \cup {NoSlot}] /\ slot'[t] = NoSlot
          /\ \A u \in Threads : u # t => /\ pc'[u] = pc[u] /\ gaddr'[u] = gaddr[u]
                                         /\ slot'[u] = slot[u] /\ entry'[u] = entry[u]
          /\ \A u \in Threads : RequestTypes(u)'
      BY <3>1, ReturnTypes
    <3>5. ASSUME NEW r \in SlotIds PROVE Hits(pc', entry', r) = Hits(pc, entry, r)
      <4>1. pc[t] = "push" /\ entry[t] = r <=> pc'[t] = "push" /\ entry'[t] = r
        BY <1>1, <3>4
      <4>2. \A u \in Threads : u # t => pc'[u] = pc[u] /\ entry'[u] = entry[u]
        BY <3>4
      <4> QED BY <4>1, <4>2 DEF Hits
    <3>6. slot' = slot
      BY <1>0, <2>1, <3>4
    <3>7. \A r \in SlotIds : r # s => Count(r)' = Count(r)
      BY <3>3, <3>5, PrimedCounts DEF Count
    <3>8. Count(s)' = Count(s) + 1
      <4>1. Count(s)' = Cardinality(Tokens(held', s)) + Cardinality(Hits(pc', entry', s))
        BY PrimedCounts
      <4>2. /\ Count(s) = Cardinality(Tokens(held, s)) + Cardinality(Hits(pc, entry, s))
            /\ Cardinality(Tokens(held, s)) \in Nat /\ Cardinality(Hits(pc, entry, s)) \in Nat
        BY <1>1, CountType DEF PlaceInv
      <4>3. Hits(pc', entry', s) = Hits(pc, entry, s)
        BY <1>1, <3>5
      <4> QED BY <3>3, <4>1, <4>2, <4>3
    <3>9. \A r \in SlotIds : /\ IsFiniteSet(Tokens(held', r))
                             /\ IsFiniteSet(Hits(pc', entry', r))
      BY <1>0, <3>3, <3>5
    <3> QED BY <3>3, <3>4, <3>6, <3>7, <3>8, <3>9
  <2>2. CASE slot[t] # NoSlot
    <3>1. Goto(t, "push") /\ UNCHANGED <<gaddr, slot, entry, held>>
      BY <2>2 DEF Ref, req_vars
    <3>2. /\ pc' \in [Threads -> PCs] /\ pc'[t] = "push"
          /\ \A u \in Threads : u # t => pc'[u] = pc[u]
      BY <1>0, <3>1 DEF Goto, PCs
    <3>3. \A u \in Threads : RequestTypes(u)'
      <4>1. slot[t] \in SlotIds /\ entry[t] \in SlotIds
        BY <1>b, <1>0, <1>1, <2>2
      <4>2. RequestTypes(t)'
        BY <1>1, <3>1, <3>2, <4>1 DEF RequestTypes
      <4>3. \A u \in Threads : u # t => RequestTypes(u)'
        BY <1>0, <3>1, <3>2 DEF RequestTypes
      <4> QED BY <4>2, <4>3
    <3>4. ASSUME NEW r \in SlotIds, r # s
          PROVE  Hits(pc', entry', r) = Hits(pc, entry, r)
      <4>1. pc[t] = "push" /\ entry[t] = r <=> pc'[t] = "push" /\ entry'[t] = r
        BY <1>b, <1>1, <3>1, <3>2, <3>4
      <4>2. \A u \in Threads : u # t => pc'[u] = pc[u] /\ entry'[u] = entry[u]
        BY <3>1, <3>2
      <4> QED BY <4>1, <4>2 DEF Hits
    <3>5. /\ IsFiniteSet(Hits(pc', entry', s))
          /\ Cardinality(Hits(pc', entry', s)) = Cardinality(Hits(pc, entry, s)) + 1
      <4>1. pc[t] # "push" /\ pc'[t] = "push" /\ entry'[t] = s
        BY <1>b, <1>1, <3>1, <3>2
      <4>2. \A u \in Threads : u # t => pc'[u] = pc[u] /\ entry'[u] = entry[u]
        BY <3>1, <3>2
      <4>3. IsFiniteSet(Hits(pc, entry, s))
        BY <1>0, <1>1
      <4>4. Hits(pc', entry', s) = Hits(pc, entry, s) \cup {t}
        BY <4>1, <4>2 DEF Hits
      <4>5. t \notin Hits(pc, entry, s)
        BY <4>1 DEF Hits
      <4> QED BY <4>3, <4>4, <4>5, FS_AddElement
    <3>6. \A r : Tokens(held', r) = Tokens(held, r)
      BY <3>1
    <3>7. \A r \in SlotIds : r # s => Count(r)' = Count(r)
      BY <3>4, <3>6, PrimedCounts DEF Count
    <3>8. Count(s)' = Count(s) + 1
      <4>1. Count(s)' = Cardinality(Tokens(held', s)) + Cardinality(Hits(pc', entry', s))
        BY PrimedCounts
      <4>2. /\ Count(s) = Cardinality(Tokens(held, s)) + Cardinality(Hits(pc, entry, s))
            /\ Cardinality(Tokens(held, s)) \in Nat /\ Cardinality(Hits(pc, entry, s)) \in Nat
        BY <1>1, CountType DEF PlaceInv
      <4> QED BY <3>5, <3>6, <4>1, <4>2
    <3>9. \A r \in SlotIds : /\ IsFiniteSet(Tokens(held', r))
                             /\ IsFiniteSet(Hits(pc', entry', r))
      BY <1>0, <3>4, <3>5, <3>6
    <3> QED BY <1>0, <3>1, <3>2, <3>3, <3>7, <3>8, <3>9
  <2> QED BY <2>1, <2>2
<1>4. Count(s) \in Nat /\ Count(s) < FLAG_IO /\ Count(s) + 1 < FLAG_IO
  BY <1>1, <1>3, CountType DEF CountsFit, PlaceInv
<1>5. /\ valid_io_rc' \in [SlotIds -> 0 .. WORD - 1]
      /\ valid_io_rc'[s] = Plus1(valid_io_rc[s])
      /\ \A r \in SlotIds : r # s => valid_io_rc'[r] = valid_io_rc[r]
  <2>1. valid_io_rc[s] \in 0 .. WORD - 1
    BY <1>0, <1>1
  <2>2. Plus1(valid_io_rc[s]) \in 0 .. WORD - 1
    BY <2>1, <1>4, ResetCounts
  <2> QED BY <1>0, <1>1, <1>2, <2>2
<1>6. PlaceTypes'
  <2>1. \A r \in SlotIds : IsFiniteSet(Tokens(held, r))' /\ IsFiniteSet(Hits(pc, entry, r))'
    BY <1>3, PrimedCounts
  <2> QED BY <1>2, <1>3, <1>5, <2>1 DEF PlaceTypes, PlaceInv
<1>7. SlotInOnePlace'
  BY <1>2, <1>3 DEF SlotInOnePlace, PlaceInv
<1>8. ASSUME NEW r \in SlotIds, InPlace(r)'
      PROVE  \/ Reset(valid_io_rc'[r], Count(r)')
             \/ /\ InPlace(r)
                /\ valid_io_rc'[r] = valid_io_rc[r]
                /\ Count(r)' = Count(r)
  <2>1. InPlace(r)
    BY <1>2, <1>3, <1>8 DEF InPlace
  <2>2. CASE r = s
    <3>1. valid_io_rc[s] \in 0 .. WORD - 1 /\ Reset(valid_io_rc[s], Count(s))
      BY <1>0, <2>1, <2>2 DEF PlaceInv
    <3>2. Reset(Plus1(valid_io_rc[s]), Count(s) + 1)
      BY <1>4, <3>1, ResetCounts
    <3> QED BY <1>3, <1>5, <2>2, <3>2
  <2>3. CASE r # s
    BY <1>3, <1>5, <2>1, <2>3
  <2> QED BY <2>2, <2>3
<1> QED BY <1>3, <1>6, <1>7, <1>8, PlaceAfter

(* A free takes 1 off the word and 1 off the references.                   *)
LEMMA PlaceFree ==
  ASSUME CacheAssumption, PlaceInv, CountsFit, NEW t \in Threads, NEW p \in Pairs,
         cache_token_free(t, p)
  PROVE  PlaceInv'
<1>0. /\ valid_io_rc \in [SlotIds -> 0 .. WORD - 1]
      /\ held \in [Threads -> [Pairs -> Nat]]
      /\ \A r \in SlotIds : /\ IsFiniteSet(Tokens(held, r))
                            /\ IsFiniteSet(Hits(pc, entry, r))
  BY DEF PlaceInv, PlaceTypes
<1>1. UNCHANGED <<free_list, addr_trans_table, pc, gaddr, slot, entry>>
  BY DEF cache_token_free, pool_vars, req_vars
<1>2. CASE UNCHANGED <<valid_io_rc, held>>
  BY <1>1, <1>2, PlaceIdle
<1>3. CASE /\ valid_io_rc' = [valid_io_rc EXCEPT ![p[1]] = Minus1(@)]
           /\ held' = [held EXCEPT ![t][p] = @ - 1]
  <2>1. PICK s \in SlotIds, o \in Objs : p = <<s, o>> /\ p[1] = s
    BY DEF Pairs
  <2>2. held[t][<<s, o>>] > 0 /\ held' = OneLess(held, t, <<s, o>>)
    BY <1>3, <2>1 DEF cache_token_free, OneLess
  <2>3. /\ held' \in [Threads -> [Pairs -> Nat]]
        /\ \A r \in SlotIds : r # s => Tokens(held', r) = Tokens(held, r)
        /\ IsFiniteSet(Tokens(held', s))
        /\ Cardinality(Tokens(held, s)) = Cardinality(Tokens(held', s)) + 1
    <3>1. held \in [Threads -> [Pairs -> Nat]] /\ IsFiniteSet(Tokens(held, s))
      BY <1>0
    <3>a. Holds(held, t, <<s, o>>)
      BY <2>2 DEF Holds
    <3>b. held' = OneLess(held, t, <<s, o>>)
      BY <2>2
    <3>2. held' \in [Threads -> [Pairs -> Nat]]
      BY <3>1, <3>a, <3>b, TokenDown
    <3>3. \A r \in SlotIds : r # s => Tokens(held', r) = Tokens(held, r)
      BY <3>1, <3>a, <3>b, TokenDown
    <3>4. IsFiniteSet(Tokens(held', s))
      BY <3>1, <3>a, <3>b, TokenDown
    <3>5. Cardinality(Tokens(held, s)) = Cardinality(Tokens(held', s)) + 1
      BY <3>1, <3>a, <3>b, TokenDown
    <3> QED BY <3>2, <3>3, <3>4, <3>5
  <2>4. \A r : Hits(pc', entry', r) = Hits(pc, entry, r)
    BY <1>1
  <2>5. \A r \in SlotIds : r # s => Count(r)' = Count(r)
    BY <2>3, <2>4, PrimedCounts DEF Count
  <2>6. Count(s)' = Count(s) - 1 /\ Count(s) \in Nat /\ Count(s) < FLAG_IO
    <3>1. Count(s)' = Cardinality(Tokens(held', s)) + Cardinality(Hits(pc', entry', s))
      BY PrimedCounts
    <3>2. /\ Count(s) = Cardinality(Tokens(held, s)) + Cardinality(Hits(pc, entry, s))
          /\ Cardinality(Tokens(held, s)) \in Nat
          /\ Cardinality(Hits(pc, entry, s)) \in Nat
          /\ Count(s) \in Nat
      BY CountType DEF PlaceInv
    <3>3. Cardinality(Tokens(held', s)) \in Nat
      BY <2>3, FS_CardinalityType
    <3> QED BY <2>3, <2>4, <3>1, <3>2, <3>3 DEF CountsFit
  <2>7. valid_io_rc[s] \in 0 .. WORD - 1 /\ Minus1(valid_io_rc[s]) \in 0 .. WORD - 1
    <3>1. valid_io_rc[s] \in 0 .. WORD - 1
      BY <1>0
    <3> QED BY <2>6, <3>1, ResetCounts
  <2>8. /\ valid_io_rc' \in [SlotIds -> 0 .. WORD - 1]
        /\ valid_io_rc'[s] = Minus1(valid_io_rc[s])
        /\ \A r \in SlotIds : r # s => valid_io_rc'[r] = valid_io_rc[r]
    BY <1>0, <1>3, <2>1, <2>7
  <2>9. PlaceTypes'
    <3>1. \A r \in SlotIds : IsFiniteSet(Tokens(held, r))' /\ IsFiniteSet(Hits(pc, entry, r))'
      BY <1>0, <2>3, <2>4, PrimedCounts
    <3> QED BY <1>1, <2>3, <2>8, <3>1 DEF PlaceTypes, PlaceInv
  <2>10. (\A u \in Threads : RequestTypes(u)') /\ SlotInOnePlace'
    BY <1>1 DEF RequestTypes, SlotInOnePlace, PlaceInv
  <2>11. ASSUME NEW r \in SlotIds, InPlace(r)'
         PROVE  \/ Reset(valid_io_rc'[r], Count(r)')
                \/ /\ InPlace(r)
                   /\ valid_io_rc'[r] = valid_io_rc[r]
                   /\ Count(r)' = Count(r)
    <3>1. InPlace(r)
      BY <1>1, <2>11 DEF InPlace
    <3>2. CASE r = s
      <4>1. Reset(valid_io_rc[s], Count(s))
        BY <3>1, <3>2 DEF PlaceInv
      <4>2. Reset(Minus1(valid_io_rc[s]), Count(s) - 1)
        BY <2>6, <2>7, <4>1, ResetCounts
      <4> QED BY <2>6, <2>8, <3>2, <4>2
    <3>3. CASE r # s
      BY <2>5, <2>8, <3>1, <3>3
    <3> QED BY <3>2, <3>3
  <2> QED BY <2>9, <2>10, <2>11, PlaceAfter
<1> QED BY <1>2, <1>3 DEF cache_token_free, hold_vars

(* A slot that is popped leaves the free list for the thread's hands.      *)
LEMMA PlacePop ==
  ASSUME CacheAssumption, PlaceInv, NEW t \in Threads, Pop(t)
  PROVE  PlaceInv'
<1>0. /\ pc \in [Threads -> PCs]
      /\ slot \in [Threads -> SlotIds \cup {NoSlot}]
      /\ free_list \in Seq(Node(SlotIds))
      /\ \A u \in Threads : RequestTypes(u)
      /\ SlotInOnePlace
  BY DEF PlaceInv, PlaceTypes
<1>1. PICK s : s = PoppedSlot(free_list)
  OBVIOUS
<1>2. /\ pc[t] = "pop" /\ slot' = [slot EXCEPT ![t] = s]
      /\ free_list' = ListAfterPop(free_list)
      /\ \E l \in {"evict", "install"} : Goto(t, l)
      /\ UNCHANGED <<valid_io_rc, addr_trans_table, gaddr, entry, held>>
  BY <1>1 DEF Pop, meta_vars, hold_vars
<1>3. /\ pc' \in [Threads -> PCs] /\ pc'[t] \in {"evict", "install"}
      /\ \A u \in Threads : u # t => pc'[u] = pc[u]
  BY <1>0, <1>2 DEF Goto, PCs
<1>4. \A r \in SlotIds : /\ Count(r)' = Count(r)
                         /\ IsFiniteSet(Tokens(held, r))'
                         /\ IsFiniteSet(Hits(pc, entry, r))'
  BY <1>2, <1>3, CountsKept
<1>5. FreeSlots(free_list) \subseteq SlotIds /\ NoSlot \notin SlotIds
  BY <1>0, PlacesAreSlots
<1>6. /\ free_list' \in Seq(Node(SlotIds)) /\ WellFormed(free_list')
      /\ FreeSlots(free_list') = FreeSlots(free_list) \ {s}
      /\ s \in FreeSlots(free_list) \/ s = NoSlot
  <2>1. CASE free_list = << >>
    <3>1. s = NoSlot /\ free_list' = free_list
      BY <1>1, <1>2, <2>1 DEF PoppedSlot, ListAfterPop, NoSlot
    <3>2. NoSlot \notin FreeSlots(free_list)
      BY <1>5
    <3>3. FreeSlots(free_list) = FreeSlots(free_list) \ {s}
      BY <3>1, <3>2
    <3> QED BY <1>0, <3>1, <3>3 DEF SlotInOnePlace
  <2>2. CASE free_list # << >>
    <3>1. SlotCount \in Nat \ {0} /\ WellFormed(free_list)
      BY <1>0 DEF CacheAssumption, SlotInOnePlace
    <3>2. free_list \in Seq(Node(0 .. SlotCount - 1))
      BY <1>0 DEF SlotIds
    <3> QED BY <1>1, <1>2, <2>2, <3>1, <3>2, FreeListPop DEF SlotIds
  <2> QED BY <2>1, <2>2
<1>7. /\ slot' \in [Threads -> SlotIds \cup {NoSlot}] /\ slot'[t] = s
      /\ \A u \in Threads : u # t => slot'[u] = slot[u]
  BY <1>0, <1>2, <1>5, <1>6
<1>8. PlaceTypes'
  BY <1>2, <1>3, <1>4, <1>6, <1>7 DEF PlaceTypes, PlaceInv
<1>9. \A u \in Threads : RequestTypes(u)'
  BY <1>0, <1>2, <1>3, <1>7 DEF RequestTypes
<1>10. SlotInOnePlace'
  <2>1. WellFormed(free_list')
    BY <1>6
  <2>2. \A u \in Threads : slot'[u] \notin FreeSlots(free_list')
    BY <1>0, <1>6, <1>7 DEF SlotInOnePlace
  <2>3. \A u \in Threads : u # t => slot[u] # s \/ s = NoSlot
    BY <1>0, <1>6 DEF SlotInOnePlace
  <2>4. \A u, v \in Threads : u # v /\ slot'[u] # NoSlot => slot'[u] # slot'[v]
    BY <1>0, <1>7, <2>3 DEF SlotInOnePlace
  <2> QED BY <2>1, <2>2, <2>4 DEF SlotInOnePlace
<1>11. ASSUME NEW r \in SlotIds, InPlace(r)'
       PROVE  InPlace(r) /\ valid_io_rc'[r] = valid_io_rc[r] /\ Count(r)' = Count(r)
  <2>1. InPlace(r)
    BY <1>5, <1>6, <1>7, <1>11 DEF InPlace
  <2> QED BY <1>2, <1>4, <2>1
<1> QED BY <1>8, <1>9, <1>10, <1>11, PlaceAfter

(* When a thread returns, the slots in the hands of the others stay apart. *)
LEMMA HandsApart ==
  ASSUME SlotInOnePlace, NEW t \in Threads, slot'[t] = NoSlot,
         \A u \in Threads : u # t => slot'[u] = slot[u]
  PROVE  \A u, v \in Threads : u # v /\ slot'[u] # NoSlot => slot'[u] # slot'[v]
<1>1. SUFFICES ASSUME NEW u \in Threads, NEW v \in Threads, u # v, slot'[u] # NoSlot
               PROVE  slot'[u] # slot'[v]
  OBVIOUS
<1>2. u # t /\ slot'[u] = slot[u]
  BY <1>1
<1>3. CASE v = t
  BY <1>1, <1>3
<1>4. CASE v # t
  BY <1>1, <1>2, <1>4 DEF SlotInOnePlace
<1> QED BY <1>3, <1>4

(* A slot that is pushed back leaves the thread's hands for the free list; *)
(* the hit that was counted before becomes a token.                        *)
LEMMA PlacePush ==
  ASSUME CacheAssumption, PlaceInv, NEW t \in Threads, Push(t)
  PROVE  PlaceInv'
<1>0. /\ held \in [Threads -> [Pairs -> Nat]]
      /\ free_list \in Seq(Node(SlotIds))
      /\ \A r \in SlotIds : /\ IsFiniteSet(Tokens(held, r))
                            /\ IsFiniteSet(Hits(pc, entry, r))
      /\ \A u \in Threads : RequestTypes(u)
      /\ SlotInOnePlace
  BY DEF PlaceInv, PlaceTypes
<1>1. pc[t] = "push" /\ entry[t] \in SlotIds /\ slot[t] \in SlotIds /\ gaddr[t] \in Objs
  BY <1>0 DEF Push, RequestTypes
<1>2. UNCHANGED <<valid_io_rc, addr_trans_table>>
  BY DEF Push, meta_vars
<1>3. CASE ~HasTail(free_list)
  <2>1. UNCHANGED <<free_list, gaddr, slot, entry, held, pc>>
    BY <1>3 DEF Push, req_vars
  <2> QED BY <1>2, <2>1, PlaceIdle
<1>4. CASE HasTail(free_list)
  <2>1. PICK s \in SlotIds, x \in SlotIds, o \in Objs :
          s = entry[t] /\ x = slot[t] /\ o = gaddr[t]
    BY <1>1
  <2>2. Return(t, s, o) /\ free_list' = cache_free_list_push(free_list, x)
    BY <1>4, <2>1 DEF Push
  <2>3. /\ pc' \in [Threads -> PCs] /\ pc'[t] = "idle"
        /\ gaddr' \in [Threads -> Objs \cup {NoTag}]
        /\ slot' \in [Threads -> SlotIds \cup {NoSlot}] /\ slot'[t] = NoSlot
        /\ entry' \in [Threads -> SlotIds \cup {NoSlot}]
        /\ \A u \in Threads : u # t => /\ pc'[u] = pc[u] /\ gaddr'[u] = gaddr[u]
                                       /\ slot'[u] = slot[u] /\ entry'[u] = entry[u]
        /\ \A u \in Threads : RequestTypes(u)'
    BY <2>2, ReturnTypes
  <2>4. /\ held' \in [Threads -> [Pairs -> Nat]]
        /\ \A r \in SlotIds : r # s => Tokens(held', r) = Tokens(held, r)
        /\ IsFiniteSet(Tokens(held', s))
        /\ Cardinality(Tokens(held', s)) = Cardinality(Tokens(held, s)) + 1
    <3>1. held \in [Threads -> [Pairs -> Nat]] /\ IsFiniteSet(Tokens(held, s))
      BY <1>0
    <3>2. held' = OneMore(held, t, <<s, o>>)
      BY <2>2 DEF Return, OneMore
    <3>3. held' \in [Threads -> [Pairs -> Nat]]
      BY <3>1, <3>2, TokenUp
    <3>4. \A r \in SlotIds : r # s => Tokens(held', r) = Tokens(held, r)
      BY <3>1, <3>2, TokenUp
    <3>5. IsFiniteSet(Tokens(held', s))
      BY <3>1, <3>2, TokenUp
    <3>6. Cardinality(Tokens(held', s)) = Cardinality(Tokens(held, s)) + 1
      BY <3>1, <3>2, TokenUp
    <3> QED BY <3>3, <3>4, <3>5, <3>6
  <2>5. /\ IsFiniteSet(Hits(pc', entry', s))
        /\ Cardinality(Hits(pc', entry', s)) = Cardinality(Hits(pc, entry, s)) - 1
    <3>1. Hits(pc', entry', s) = Hits(pc, entry, s) \ {t}
      BY <2>3 DEF Hits
    <3>2. t \in Hits(pc, entry, s) /\ IsFiniteSet(Hits(pc, entry, s))
      BY <1>0, <1>1, <2>1 DEF Hits
    <3> QED BY <3>1, <3>2, FS_RemoveElement
  <2>6. ASSUME NEW r \in SlotIds, r # s
        PROVE  Hits(pc', entry', r) = Hits(pc, entry, r)
    BY <1>1, <2>1, <2>3, <2>6 DEF Hits
  <2>7. \A r \in SlotIds : Count(r)' = Count(r)
    <3>1. ASSUME NEW r \in SlotIds, r # s PROVE Count(r)' = Count(r)
      BY <2>4, <2>6, <3>1, PrimedCounts DEF Count
    <3>2. Count(s)' = Count(s)
      <4>1. Count(s)' = Cardinality(Tokens(held', s)) + Cardinality(Hits(pc', entry', s))
        BY PrimedCounts
      <4>2. /\ Count(s) = Cardinality(Tokens(held, s)) + Cardinality(Hits(pc, entry, s))
            /\ Cardinality(Tokens(held, s)) \in Nat
            /\ Cardinality(Hits(pc, entry, s)) \in Nat
        BY CountType DEF PlaceInv
      <4> QED BY <2>4, <2>5, <4>1, <4>2
    <3> QED BY <3>1, <3>2
  <2>8. FreeSlots(free_list) \subseteq SlotIds /\ NoSlot \notin SlotIds
    BY <1>0, PlacesAreSlots
  <2>9. /\ free_list' \in Seq(Node(SlotIds)) /\ WellFormed(free_list')
        /\ FreeSlots(free_list') = FreeSlots(free_list) \cup {x}
    <3>1. SlotCount \in Nat \ {0} /\ WellFormed(free_list)
      BY <1>0 DEF CacheAssumption, SlotInOnePlace
    <3>2. free_list \in Seq(Node(0 .. SlotCount - 1)) /\ x \in 0 .. SlotCount - 1
      BY <1>0 DEF SlotIds
    <3>3. x \notin FreeSlots(free_list)
      BY <1>0, <2>1 DEF SlotInOnePlace
    <3> QED BY <1>4, <2>2, <3>1, <3>2, <3>3, FreeListPush DEF SlotIds
  <2>10. PlaceTypes'
    <3>1. \A r \in SlotIds : IsFiniteSet(Tokens(held, r))' /\ IsFiniteSet(Hits(pc, entry, r))'
      BY <1>0, <2>4, <2>5, <2>6, PrimedCounts
    <3> QED BY <1>2, <2>3, <2>4, <2>9, <3>1 DEF PlaceTypes, PlaceInv
  <2>11. SlotInOnePlace'
    <3>1. \A u \in Threads : slot'[u] \notin FreeSlots(free_list')
      <4>1. NoSlot \notin FreeSlots(free_list')
        BY <2>8, <2>9
      <4>2. ASSUME NEW u \in Threads, u # t
            PROVE  slot[u] \notin FreeSlots(free_list) /\ slot[u] # x
        BY <1>0, <2>1, <2>8, <4>2 DEF SlotInOnePlace
      <4> QED BY <2>3, <2>9, <4>1, <4>2
    <3>2. \A u, v \in Threads : u # v /\ slot'[u] # NoSlot => slot'[u] # slot'[v]
      <4>1. slot'[t] = NoSlot /\ \A u \in Threads : u # t => slot'[u] = slot[u]
        BY <2>3
      <4>2. SlotInOnePlace
        BY <1>0
      <4> QED BY <4>1, <4>2, HandsApart
    <3> QED BY <2>9, <3>1, <3>2 DEF SlotInOnePlace
  <2>12. ASSUME NEW r \in SlotIds, InPlace(r)'
         PROVE  InPlace(r) /\ valid_io_rc'[r] = valid_io_rc[r] /\ Count(r)' = Count(r)
    <3>1. InPlace(r)
      BY <2>1, <2>3, <2>8, <2>9, <2>12 DEF InPlace
    <3> QED BY <1>2, <2>7, <3>1
  <2> QED BY <2>3, <2>10, <2>11, <2>12, PlaceAfter
<1> QED BY <1>3, <1>4

(***************************************************************************)
(* A victim is in no place: the compare-and-swap only succeeds on a word   *)
(* that no slot in a place has.                                            *)
(***************************************************************************)
LEMMA PlaceEvict ==
  ASSUME CacheAssumption, PlaceInv, CountsFit, NEW t \in Threads, Evict(t)
  PROVE  PlaceInv'
<1>0. /\ pc \in [Threads -> PCs]
      /\ slot \in [Threads -> SlotIds \cup {NoSlot}]
      /\ valid_io_rc \in [SlotIds -> 0 .. WORD - 1]
      /\ \A u \in Threads : RequestTypes(u)
      /\ SlotInOnePlace
  BY DEF PlaceInv, PlaceTypes
<1>1. PICK s \in SlotIds : /\ Evictable(valid_io_rc[s])
                           /\ valid_io_rc' = [valid_io_rc EXCEPT ![s] = 0]
                           /\ slot' = [slot EXCEPT ![t] = s]
  BY DEF Evict
<1>2. /\ pc[t] = "evict" /\ Goto(t, "unmap")
      /\ UNCHANGED <<free_list, addr_trans_table, gaddr, entry, held>>
  BY DEF Evict, pool_vars, hold_vars
<1>3. /\ pc' \in [Threads -> PCs] /\ pc'[t] = "unmap"
      /\ \A u \in Threads : u # t => pc'[u] = pc[u]
  BY <1>0, <1>2 DEF Goto, PCs
<1>4. \A r \in SlotIds : /\ Count(r)' = Count(r)
                         /\ IsFiniteSet(Tokens(held, r))'
                         /\ IsFiniteSet(Hits(pc, entry, r))'
  BY <1>2, <1>3, CountsKept
<1>5. Count(s) \in Nat /\ Count(s) < FLAG_IO
  BY CountType DEF CountsFit, PlaceInv
<1>6. ~InPlace(s)
  <2>1. InPlace(s) => Reset(valid_io_rc[s], Count(s))
    BY DEF PlaceInv
  <2>2. Reset(valid_io_rc[s], Count(s)) => ~Evictable(valid_io_rc[s])
    BY <1>5, ResetNotEvictable
  <2> QED BY <1>1, <2>1, <2>2
<1>7. /\ slot' \in [Threads -> SlotIds \cup {NoSlot}] /\ slot'[t] = s
      /\ \A u \in Threads : u # t => slot'[u] = slot[u]
  BY <1>0, <1>1
<1>8. /\ valid_io_rc' \in [SlotIds -> 0 .. WORD - 1] /\ valid_io_rc'[s] = 0
      /\ \A r \in SlotIds : r # s => valid_io_rc'[r] = valid_io_rc[r]
  <2>1. 0 \in 0 .. WORD - 1
    BY <1>5, ResetNow
  <2> QED BY <1>0, <1>1, <2>1
<1>9. PlaceTypes'
  BY <1>2, <1>3, <1>4, <1>7, <1>8 DEF PlaceTypes, PlaceInv
<1>10. \A u \in Threads : RequestTypes(u)'
  BY <1>0, <1>2, <1>3, <1>7 DEF RequestTypes
<1>11. SlotInOnePlace'
  <2>1. s \notin FreeSlots(free_list) /\ \A u \in Threads : slot[u] # s
    BY <1>6 DEF InPlace
  <2>2. \A u \in Threads : slot'[u] \notin FreeSlots(free_list')
    BY <1>0, <1>2, <1>7, <2>1 DEF SlotInOnePlace
  <2>3. \A u, v \in Threads : u # v /\ slot'[u] # NoSlot => slot'[u] # slot'[v]
    BY <1>0, <1>7, <2>1 DEF SlotInOnePlace
  <2> QED BY <1>0, <1>2, <2>2, <2>3 DEF SlotInOnePlace
<1>12. ASSUME NEW r \in SlotIds, InPlace(r)'
       PROVE  \/ Reset(valid_io_rc'[r], Count(r)')
              \/ /\ InPlace(r)
                 /\ valid_io_rc'[r] = valid_io_rc[r]
                 /\ Count(r)' = Count(r)
  <2>1. CASE r = s
    <3>1. Reset(0, Count(s))
      BY <1>5, ResetNow
    <3> QED BY <1>4, <1>8, <2>1, <3>1
  <2>2. CASE r # s
    <3>1. InPlace(r)
      BY <1>2, <1>7, <1>12, <2>2 DEF InPlace
    <3> QED BY <1>4, <1>8, <2>2, <3>1
  <2> QED BY <2>1, <2>2
<1> QED BY <1>9, <1>10, <1>11, <1>12, PlaceAfter

(* The slot that is published gets its word reset.                         *)
LEMMA PlacePublish ==
  ASSUME CacheAssumption, PlaceInv, CountsFit, NEW t \in Threads, Publish(t)
  PROVE  PlaceInv'
<1>0. /\ pc \in [Threads -> PCs]
      /\ valid_io_rc \in [SlotIds -> 0 .. WORD - 1]
      /\ \A u \in Threads : RequestTypes(u)
  BY DEF PlaceInv, PlaceTypes
<1>1. PICK s : s = slot[t]
  OBVIOUS
<1>2. /\ pc[t] = "publish" /\ Goto(t, "lookup")
      /\ valid_io_rc' = [valid_io_rc EXCEPT ![s] = Fetching]
      /\ UNCHANGED <<free_list, addr_trans_table, gaddr, slot, entry, held>>
  BY <1>1 DEF Publish, pool_vars, req_vars, hold_vars
<1>3. /\ pc' \in [Threads -> PCs] /\ pc'[t] = "lookup"
      /\ \A u \in Threads : u # t => pc'[u] = pc[u]
  BY <1>0, <1>2 DEF Goto, PCs
<1>4. \A r \in SlotIds : /\ Count(r)' = Count(r)
                         /\ IsFiniteSet(Tokens(held, r))'
                         /\ IsFiniteSet(Hits(pc, entry, r))'
  BY <1>2, <1>3, CountsKept
<1>5. \A r \in SlotIds : Count(r) \in Nat /\ Count(r) < FLAG_IO
  BY CountType DEF CountsFit, PlaceInv
<1>6. ASSUME NEW r \in SlotIds
      PROVE  Reset(Fetching, Count(r)) /\ Fetching \in 0 .. WORD - 1
  BY <1>5, ResetNow
<1>7. /\ valid_io_rc' \in [SlotIds -> 0 .. WORD - 1]
      /\ \A r \in SlotIds :
           valid_io_rc'[r] = IF r = s THEN Fetching ELSE valid_io_rc[r]
  <2>1. CASE s \in SlotIds
    BY <1>0, <1>2, <1>6, <2>1
  <2>2. CASE s \notin SlotIds
    BY <1>0, <1>2, <2>2
  <2> QED BY <2>1, <2>2
<1>8. PlaceTypes'
  BY <1>2, <1>3, <1>4, <1>7 DEF PlaceTypes, PlaceInv
<1>9. \A u \in Threads : RequestTypes(u)'
  <2>1. RequestTypes(t)'
    BY <1>0, <1>2, <1>3 DEF RequestTypes
  <2>2. \A u \in Threads : u # t => RequestTypes(u)'
    BY <1>0, <1>2, <1>3 DEF RequestTypes
  <2> QED BY <2>1, <2>2
<1>10. SlotInOnePlace'
  BY <1>2 DEF SlotInOnePlace, PlaceInv
<1>11. ASSUME NEW r \in SlotIds, InPlace(r)'
       PROVE  \/ Reset(valid_io_rc'[r], Count(r)')
              \/ /\ InPlace(r)
                 /\ valid_io_rc'[r] = valid_io_rc[r]
                 /\ Count(r)' = Count(r)
  <2>1. InPlace(r)
    BY <1>2, <1>11 DEF InPlace
  <2>2. CASE r = s
    BY <1>4, <1>6, <1>7, <2>2
  <2>3. CASE r # s
    BY <1>4, <1>7, <2>1, <2>3
  <2> QED BY <2>2, <2>3
<1> QED BY <1>8, <1>9, <1>10, <1>11, PlaceAfter

(* A slot whose fetch is done is handed out: it is in no place any more.   *)
LEMMA PlaceReadWait ==
  ASSUME CacheAssumption, PlaceInv, NEW t \in Threads, ReadWait(t)
  PROVE  PlaceInv'
<1>0. /\ held \in [Threads -> [Pairs -> Nat]]
      /\ valid_io_rc \in [SlotIds -> 0 .. WORD - 1]
      /\ free_list \in Seq(Node(SlotIds))
      /\ \A r \in SlotIds : /\ IsFiniteSet(Tokens(held, r))
                            /\ IsFiniteSet(Hits(pc, entry, r))
      /\ SlotInOnePlace
  BY DEF PlaceInv, PlaceTypes
<1>1. PICK s, o : s = slot[t] /\ o = tag[slot[t]]
  OBVIOUS
<1>2. /\ pc[t] = "rwait" /\ Return(t, s, o)
      /\ valid_io_rc' = [valid_io_rc EXCEPT ![s] = FetchDone]
      /\ UNCHANGED <<free_list, addr_trans_table>>
  BY <1>1 DEF ReadWait, pool_vars
<1>3. /\ pc' \in [Threads -> PCs] /\ pc'[t] = "idle"
      /\ gaddr' \in [Threads -> Objs \cup {NoTag}]
      /\ slot' \in [Threads -> SlotIds \cup {NoSlot}] /\ slot'[t] = NoSlot
      /\ entry' \in [Threads -> SlotIds \cup {NoSlot}]
      /\ \A u \in Threads : u # t => /\ pc'[u] = pc[u] /\ gaddr'[u] = gaddr[u]
                                     /\ slot'[u] = slot[u] /\ entry'[u] = entry[u]
      /\ \A u \in Threads : RequestTypes(u)'
  BY <1>2, ReturnTypes
<1>4. /\ held' \in [Threads -> [Pairs -> Nat]]
      /\ \A r \in SlotIds : IsFiniteSet(Tokens(held', r))
      /\ \A r \in SlotIds : r # s => Tokens(held', r) = Tokens(held, r)
  <2>1. CASE s \in SlotIds /\ o \in Objs
    <3>1. held' = OneMore(held, t, <<s, o>>)
      BY <1>2 DEF Return, OneMore
    <3>2. IsFiniteSet(Tokens(held, s))
      BY <1>0, <2>1
    <3>3. /\ held' \in [Threads -> [Pairs -> Nat]]
          /\ \A r \in SlotIds : r # s => Tokens(held', r) = Tokens(held, r)
      BY <1>0, <2>1, <3>1, TokenUp
    <3>4. IsFiniteSet(Tokens(held', s))
      BY <1>0, <2>1, <3>1, <3>2, TokenUp
    <3> QED BY <1>0, <3>3, <3>4
  <2>2. CASE ~(s \in SlotIds /\ o \in Objs)
    <3>1. <<s, o>> \notin Pairs
      BY <2>2 DEF Pairs
    <3>2. held' = [held EXCEPT ![t] = [held[t] EXCEPT ![<<s, o>>] = held[t][<<s, o>>] + 1]]
      BY <1>2 DEF Return
    <3>3. [held[t] EXCEPT ![<<s, o>>] = held[t][<<s, o>>] + 1] = held[t]
      BY <1>0, <3>1
    <3>4. held' = held
      BY <1>0, <3>2, <3>3
    <3> QED BY <1>0, <3>4
  <2> QED BY <2>1, <2>2
<1>5. \A r \in SlotIds : Hits(pc', entry', r) = Hits(pc, entry, r)
  BY <1>2, <1>3 DEF Hits
<1>6. \A r \in SlotIds : r # s => Count(r)' = Count(r)
  BY <1>4, <1>5, PrimedCounts DEF Count
<1>7. /\ valid_io_rc' \in [SlotIds -> 0 .. WORD - 1]
      /\ \A r \in SlotIds : r # s => valid_io_rc'[r] = valid_io_rc[r]
  <2>1. FetchDone \in 0 .. WORD - 1
    BY DEF FetchDone, FLAG_VALID, WORD, CacheAssumption
  <2> QED BY <1>0, <1>2, <2>1
<1>8. PlaceTypes'
  <2>1. \A r \in SlotIds : IsFiniteSet(Tokens(held, r))' /\ IsFiniteSet(Hits(pc, entry, r))'
    BY <1>0, <1>4, <1>5, PrimedCounts
  <2> QED BY <1>0, <1>2, <1>3, <1>4, <1>7, <2>1 DEF PlaceTypes, PlaceInv
<1>9. FreeSlots(free_list) \subseteq SlotIds /\ NoSlot \notin SlotIds
  BY <1>0, PlacesAreSlots
<1>10. SlotInOnePlace'
  <2>1. \A u \in Threads : slot'[u] \notin FreeSlots(free_list')
    <3>1. free_list' = free_list /\ NoSlot \notin FreeSlots(free_list)
      BY <1>2, <1>9
    <3>2. \A u \in Threads : slot[u] \notin FreeSlots(free_list)
      BY <1>0 DEF SlotInOnePlace
    <3> QED BY <1>3, <3>1, <3>2
  <2>2. \A u, v \in Threads : u # v /\ slot'[u] # NoSlot => slot'[u] # slot'[v]
    <3>1. slot'[t] = NoSlot /\ \A u \in Threads : u # t => slot'[u] = slot[u]
      BY <1>3
    <3>2. SlotInOnePlace
      BY <1>0
    <3> QED BY <3>1, <3>2, HandsApart
  <2> QED BY <1>0, <1>2, <2>1, <2>2 DEF SlotInOnePlace
<1>11. ASSUME NEW r \in SlotIds, InPlace(r)'
       PROVE  InPlace(r) /\ valid_io_rc'[r] = valid_io_rc[r] /\ Count(r)' = Count(r)
  <2>1. InPlace(r) /\ r # s
    <3>1. CASE r \in FreeSlots(free_list)
      BY <1>0, <1>1, <3>1 DEF InPlace, SlotInOnePlace
    <3>2. ASSUME NEW u \in Threads, slot'[u] = r PROVE InPlace(r) /\ r # s
      <4>1. u # t /\ slot[u] = r /\ r # NoSlot
        BY <1>3, <1>9, <3>2
      <4> QED BY <1>0, <1>1, <4>1 DEF InPlace, SlotInOnePlace
    <3> QED BY <1>2, <1>11, <3>1, <3>2 DEF InPlace
  <2> QED BY <1>6, <1>7, <2>1
<1> QED BY <1>3, <1>8, <1>10, <1>11, PlaceAfter

(* Initially every slot is free and no word counts anything.               *)
LEMMA PlaceInit == ASSUME CacheAssumption, Init PROVE PlaceInv
<1>1. /\ free_list \in Seq(Node(SlotIds)) /\ WellFormed(free_list)
      /\ FreeSlots(free_list) = SlotIds
  <2>1. SlotCount \in Nat \ {0} /\ free_list = cache_free_list_new(0, SlotCount - 1)
    BY DEF CacheAssumption, Init
  <2> QED BY <2>1, FreeListNew DEF SlotIds
<1>2. /\ pc = [t \in Threads |-> "idle"] /\ slot = [t \in Threads |-> NoSlot]
      /\ entry = [t \in Threads |-> NoSlot] /\ gaddr = [t \in Threads |-> NoTag]
      /\ valid_io_rc = [s \in SlotIds |-> 0]
      /\ addr_trans_table = [o \in Objs |-> NoSlot]
      /\ held = [t \in Threads |-> [p \in Pairs |-> 0]]
  BY DEF Init
<1>3. FLAG_IO \in Nat \ {0}
  BY DEF CacheAssumption
<1>4. held \in [Threads -> [Pairs -> Nat]]
  BY <1>2
<1>5. ASSUME NEW s \in SlotIds
      PROVE  Tokens(held, s) = {} /\ Hits(pc, entry, s) = {}
  <2>1. Hits(pc, entry, s) = {}
    BY <1>2 DEF Hits
  <2>2. \A u \in Threads, o \in Objs : held[u][<<s, o>>] = 0
    BY <1>2 DEF Pairs
  <2>3. ASSUME NEW y \in Tokens(held, s) PROVE FALSE
    <3>1. PICK u \in Threads, o \in Objs, k \in Nat \ {0} :
            y = <<u, <<o, k>>>> /\ k <= held[u][<<s, o>>]
      BY <1>4, <2>3, TokenShape
    <3> QED BY <2>2, <3>1
  <2> QED BY <2>1, <2>3
<1>6. \A s \in SlotIds : /\ IsFiniteSet(Tokens(held, s))
                         /\ IsFiniteSet(Hits(pc, entry, s))
                         /\ Count(s) = 0
  BY <1>5, FS_EmptySet DEF Count
<1>7. PlaceTypes
  <2>1. 0 \in 0 .. WORD - 1
    BY <1>3 DEF WORD
  <2> QED BY <1>1, <1>2, <1>4, <1>6, <2>1 DEF PlaceTypes, PCs
<1>8. \A t \in Threads : RequestTypes(t)
  BY <1>2 DEF RequestTypes
<1>9. SlotInOnePlace
  <2>1. NoSlot \notin FreeSlots(free_list)
    BY <1>1, PlacesAreSlots
  <2> QED BY <1>1, <1>2, <2>1 DEF SlotInOnePlace
<1>10. ASSUME NEW s \in SlotIds PROVE Reset(valid_io_rc[s], Count(s))
  <2>1. Reset(0, 0)
    BY <1>3, ResetNow
  <2> QED BY <1>2, <1>6, <2>1
<1> QED BY <1>7, <1>8, <1>9, <1>10 DEF PlaceInv

(* Every step keeps the invariant while the counts fit.                    *)
LEMMA PlaceStep ==
  ASSUME CacheAssumption, PlaceInv, CountsFit, CountsFit', [Next]_vars
  PROVE  PlaceInv'
<1> DEFINE Rest == UNCHANGED <<free_list, slot, valid_io_rc, held, pc, entry, gaddr,
                               addr_trans_table>>
<1>1. ASSUME Rest PROVE PlaceInv'
  BY <1>1, PlaceIdle
<1>2. CASE UNCHANGED vars
  BY <1>1, <1>2 DEF vars
<1>3. CASE Nic
  <2>1. Rest
    BY <1>3 DEF Nic, NicTransfer, NicError, meta_vars, pool_vars, req_vars, hold_vars
  <2> QED BY <1>1, <2>1
<1>4. ASSUME NEW t \in Threads, RequestStep(t) PROVE PlaceInv'
  BY <1>4, PlaceKept, PlaceRef, PlacePush, PlacePop, PlaceEvict, PlacePublish,
     PlaceReadWait DEF RequestStep
<1>5. ASSUME NEW t \in Threads, EvictRetry(t) PROVE PlaceInv'
  BY <1>1, <1>5 DEF EvictRetry, vars
<1>6. ASSUME NEW t \in Threads, NEW o \in Objs, Request(t, o) PROVE PlaceInv'
  BY <1>6, PlaceKept
<1>7. ASSUME NEW t \in Threads, NEW p \in Pairs, AccessMut(t, p) \/ Load(t, p)
      PROVE  PlaceInv'
  <2>1. Rest
    BY <1>7 DEF AccessMut, Load, meta_vars, pool_vars, req_vars, hold_vars
  <2> QED BY <1>1, <2>1
<1>8. ASSUME NEW t \in Threads, NEW p \in Pairs, NEW v \in Values, Store(t, p, v)
      PROVE  PlaceInv'
  <2>1. Rest
    BY <1>8 DEF Store, meta_vars, pool_vars, req_vars, hold_vars
  <2> QED BY <1>1, <2>1
<1>9. ASSUME NEW t \in Threads, NEW p \in Pairs, cache_token_free(t, p)
      PROVE  PlaceInv'
  BY <1>9, PlaceFree
<1>10. ASSUME NEW t \in Threads, ClientStep(t) PROVE PlaceInv'
  BY <1>6, <1>7, <1>8, <1>9, <1>10 DEF ClientStep
<1> QED BY <1>2, <1>3, <1>4, <1>5, <1>10 DEF Next

(***************************************************************************)
(* SlotInOnePlace, for any set of threads, asserts compiled in or not, and *)
(* with or without RDMA errors: as long as the references to each slot fit *)
(* the 30 bits of its count, pop, eviction and push never give one slot to *)
(* two requests.                                                           *)
(***************************************************************************)
THEOREM SlotNeverShared == Spec /\ []CountsFit => []SlotInOnePlace
<1>1. Init => PlaceInv
  BY CacheAssumption, PlaceInit
<1>2. PlaceInv /\ CountsFit /\ CountsFit' /\ [Next]_vars => PlaceInv'
  BY CacheAssumption, PlaceStep
<1>3. PlaceInv => SlotInOnePlace
  BY DEF PlaceInv
<1> QED BY <1>1, <1>2, <1>3, PTL DEF Spec

-----------------------------------------------------------------------------
(* How many references there can be. *)

(* The request has chosen its slot and put the object's tag on it.         *)
Tagged == {"publish", "lookup", "insert", "load", "tagck", "spin", "ref", "push",
           "rpost", "rwait"}

(***************************************************************************)
(* A thread holds at most MaxHold tokens on a slot and an object: every    *)
(* token is returned for the object that was asked for, because the slot   *)
(* of a request keeps the request's tag while other threads tag theirs.    *)
(***************************************************************************)
HoldInv ==
  /\ held \in [Threads -> [Pairs -> Nat]]
  /\ DOMAIN tag = SlotIds
  /\ \A t \in Threads, p \in Pairs : held[t][p] <= MaxHold
  /\ \A t \in Threads :
       /\ pc[t] = "idle" => slot[t] = NoSlot
       /\ pc[t] # "idle" => \A s \in SlotIds : held[t][<<s, gaddr[t]>>] < MaxHold
       /\ pc[t] \in Tagged /\ slot[t] # NoSlot => tag[slot[t]] = gaddr[t]

(* A step of the thread t that touches the tag of no slot but its own.     *)
LEMMA HoldAfter ==
  ASSUME PlaceInv, HoldInv, NEW t \in Threads,
         held' \in [Threads -> [Pairs -> Nat]], DOMAIN tag' = SlotIds,
         \A u \in Threads : u # t => /\ pc'[u] = pc[u] /\ gaddr'[u] = gaddr[u]
                                     /\ slot'[u] = slot[u] /\ held'[u] = held[u],
         \A s \in SlotIds : s # slot[t] => tag'[s] = tag[s],
         \A p \in Pairs : held'[t][p] <= MaxHold,
         pc'[t] = "idle" => slot'[t] = NoSlot,
         pc'[t] # "idle" => \A s \in SlotIds : held'[t][<<s, gaddr'[t]>>] < MaxHold,
         pc'[t] \in Tagged /\ slot'[t] # NoSlot => tag'[slot'[t]] = gaddr'[t]
  PROVE  HoldInv'
<1>1. ASSUME NEW u \in Threads, u # t, slot[u] # NoSlot
      PROVE  tag'[slot[u]] = tag[slot[u]]
  <2>1. slot[u] \in SlotIds /\ slot[u] # slot[t]
    BY <1>1 DEF PlaceInv, PlaceTypes, SlotInOnePlace
  <2> QED BY <2>1
<1>2. ASSUME NEW u \in Threads, NEW p \in Pairs PROVE held'[u][p] <= MaxHold
  <2>1. CASE u = t
    BY <2>1
  <2>2. CASE u # t
    BY <2>2 DEF HoldInv
  <2> QED BY <2>1, <2>2
<1>3. ASSUME NEW u \in Threads
      PROVE  /\ pc'[u] = "idle" => slot'[u] = NoSlot
             /\ pc'[u] # "idle" => \A s \in SlotIds : held'[u][<<s, gaddr'[u]>>] < MaxHold
             /\ pc'[u] \in Tagged /\ slot'[u] # NoSlot => tag'[slot'[u]] = gaddr'[u]
  <2>1. CASE u = t
    BY <2>1
  <2>2. CASE u # t
    <3>1. /\ pc'[u] = pc[u] /\ gaddr'[u] = gaddr[u]
          /\ slot'[u] = slot[u] /\ held'[u] = held[u]
      BY <2>2
    <3>2. /\ pc[u] = "idle" => slot[u] = NoSlot
          /\ pc[u] # "idle" => \A s \in SlotIds : held[u][<<s, gaddr[u]>>] < MaxHold
          /\ pc[u] \in Tagged /\ slot[u] # NoSlot => tag[slot[u]] = gaddr[u]
      BY DEF HoldInv
    <3> QED BY <1>1, <2>2, <3>1, <3>2
  <2> QED BY <2>1, <2>2
<1> QED BY <1>2, <1>3 DEF HoldInv, Tagged

(* A step inside cache_request that returns no token.                      *)
LEMMA HoldMoves ==
  ASSUME PlaceInv, HoldInv, NEW t \in Threads, NEW l, l \in PCs \ {"idle"}, Goto(t, l),
         pc[t] # "idle", UNCHANGED <<held, gaddr>>, DOMAIN tag' = SlotIds,
         \A u \in Threads : u # t => slot'[u] = slot[u],
         \A s \in SlotIds : s # slot[t] => tag'[s] = tag[s],
         l \in Tagged /\ slot'[t] # NoSlot => tag'[slot'[t]] = gaddr[t]
  PROVE  HoldInv'
<1>1. /\ pc'[t] = l /\ \A u \in Threads : u # t => pc'[u] = pc[u]
  BY DEF Goto, PlaceInv, PlaceTypes
<1>2. /\ held \in [Threads -> [Pairs -> Nat]]
      /\ \A p \in Pairs : held[t][p] <= MaxHold
      /\ \A s \in SlotIds : held[t][<<s, gaddr[t]>>] < MaxHold
  BY DEF HoldInv
<1>3. held' = held /\ gaddr' = gaddr
  OBVIOUS
<1> QED BY <1>1, <1>2, <1>3, HoldAfter

(* The steps inside cache_request but the returns.                         *)
LEMMA HoldKept ==
  ASSUME PlaceInv, HoldInv, NEW t \in Threads,
         \/ Lookup(t) \/ Insert(t) \/ LoadMeta(t) \/ CheckTag(t) \/ Spin(t)
         \/ Publish(t) \/ ReadPost(t)
         \/ Pop(t) \/ Evict(t) \/ Unmap(t) \/ Flush(t) \/ WritePost(t)
         \/ WriteWait(t) \/ Install(t)
  PROVE  HoldInv'
<1>0. /\ slot \in [Threads -> SlotIds \cup {NoSlot}]
      /\ DOMAIN tag = SlotIds
      /\ pc[t] \in Tagged /\ slot[t] # NoSlot => tag[slot[t]] = gaddr[t]
  BY DEF PlaceInv, PlaceTypes, HoldInv
<1>1. ASSUME UNCHANGED <<held, gaddr, slot, tag>>, pc[t] \in Tagged,
             \E l \in PCs \ {"idle"} : Goto(t, l)
      PROVE  HoldInv'
  <2>1. PICK l \in PCs \ {"idle"} : Goto(t, l)
    BY <1>1
  <2>2. pc[t] # "idle"
    BY <1>1 DEF Tagged
  <2> QED BY <1>0, <1>1, <2>1, <2>2, HoldMoves
<1>2. ASSUME UNCHANGED <<held, gaddr>>, DOMAIN tag' = SlotIds, pc[t] # "idle",
             \A u \in Threads : u # t => slot'[u] = slot[u],
             \A s \in SlotIds : s # slot[t] => tag'[s] = tag[s],
             \E l \in PCs \ Tagged : Goto(t, l) /\ l # "idle"
      PROVE  HoldInv'
  <2>1. PICK l \in PCs \ Tagged : Goto(t, l) /\ l # "idle"
    BY <1>2
  <2> QED BY <1>2, <2>1, HoldMoves
<1>3. CASE \/ Lookup(t) \/ Insert(t) \/ LoadMeta(t) \/ CheckTag(t) \/ Spin(t)
           \/ Publish(t) \/ ReadPost(t)
  <2>1. /\ UNCHANGED <<held, gaddr, slot, tag>> /\ pc[t] \in Tagged
        /\ \E l \in PCs \ {"idle"} : Goto(t, l)
    <3>1. CASE Lookup(t) \/ Insert(t) \/ Spin(t)
      BY <3>1 DEF Lookup, Insert, Spin, Tagged, PCs, meta_vars, req_vars, hold_vars
    <3>2. CASE LoadMeta(t) \/ CheckTag(t)
      BY <3>2 DEF LoadMeta, CheckTag, Miss, Tagged, PCs, meta_vars, hold_vars
    <3>3. CASE Publish(t) \/ ReadPost(t)
      BY <3>3 DEF Publish, ReadPost, Tagged, PCs, meta_vars, req_vars, hold_vars
    <3> QED BY <1>3, <3>1, <3>2, <3>3
  <2> QED BY <1>1, <2>1
<1>4. CASE \/ Pop(t) \/ Evict(t) \/ Unmap(t) \/ Flush(t) \/ WritePost(t) \/ WriteWait(t)
  <2>1. /\ UNCHANGED <<held, gaddr>> /\ pc[t] # "idle"
        /\ \E l \in PCs \ Tagged : Goto(t, l) /\ l # "idle"
    <3>1. CASE Pop(t) \/ Evict(t)
      BY <3>1 DEF Pop, Evict, Tagged, PCs, hold_vars
    <3>2. CASE Unmap(t) \/ Flush(t) \/ WritePost(t) \/ WriteWait(t)
      BY <3>2 DEF Unmap, Flush, WritePost, WriteWait, Tagged, PCs, req_vars, hold_vars
    <3> QED BY <1>4, <3>1, <3>2
  <2>2. \A u \in Threads : u # t => slot'[u] = slot[u]
    <3>1. CASE Pop(t) \/ Evict(t)
      BY <1>0, <3>1 DEF Pop, Evict
    <3>2. CASE Unmap(t) \/ Flush(t) \/ WritePost(t) \/ WriteWait(t)
      BY <3>2 DEF Unmap, Flush, WritePost, WriteWait, req_vars
    <3> QED BY <1>4, <3>1, <3>2
  <2>3. DOMAIN tag' = SlotIds /\ \A s \in SlotIds : s # slot[t] => tag'[s] = tag[s]
    <3>1. tag' = tag \/ tag' = [tag EXCEPT ![slot[t]] = NoTag]
      BY <1>4 DEF Pop, Evict, Unmap, Flush, WritePost, WriteWait, meta_vars
    <3> QED BY <1>0, <3>1
  <2> QED BY <1>2, <2>1, <2>2, <2>3
<1>5. CASE Install(t)
  <2>1. /\ pc[t] = "install" /\ Goto(t, "publish") /\ UNCHANGED <<held, gaddr, slot>>
        /\ tag' = [tag EXCEPT ![slot[t]] = gaddr[t]]
    BY <1>5 DEF Install, req_vars, hold_vars
  <2>2. slot'[t] # NoSlot => tag'[slot'[t]] = gaddr[t]
    BY <1>0, <2>1
  <2>3. DOMAIN tag' = SlotIds /\ \A s \in SlotIds : s # slot[t] => tag'[s] = tag[s]
    BY <1>0, <2>1
  <2>4. "publish" \in PCs \ {"idle"}
    BY DEF PCs
  <2> QED BY <2>1, <2>2, <2>3, <2>4, HoldMoves
<1> QED BY <1>3, <1>4, <1>5

(* A token is returned for the object asked for, or for no slot at all.    *)
LEMMA HoldReturn ==
  ASSUME CacheAssumption, PlaceInv, HoldInv, NEW t \in Threads, NEW s, NEW o,
         Return(t, s, o), UNCHANGED tag, pc[t] # "idle",
         \/ s \in SlotIds /\ o = gaddr[t] /\ o \in Objs
         \/ s = NoSlot
  PROVE  HoldInv'
<1>1. /\ pc'[t] = "idle" /\ slot'[t] = NoSlot
      /\ \A u \in Threads : u # t => /\ pc'[u] = pc[u] /\ gaddr'[u] = gaddr[u]
                                     /\ slot'[u] = slot[u]
  BY ReturnTypes
<1>2. /\ held \in [Threads -> [Pairs -> Nat]] /\ DOMAIN tag' = SlotIds
      /\ \A p \in Pairs : held[t][p] <= MaxHold
      /\ \A r \in SlotIds : held[t][<<r, gaddr[t]>>] < MaxHold
      /\ MaxHold \in Nat
  BY DEF HoldInv, CacheAssumption
<1>3. /\ held' \in [Threads -> [Pairs -> Nat]]
      /\ \A u \in Threads : u # t => held'[u] = held[u]
      /\ \A p \in Pairs : held'[t][p] <= MaxHold
  <2>1. held' = [held EXCEPT ![t][<<s, o>>] = @ + 1]
    BY DEF Return
  <2>2. CASE s \in SlotIds /\ o = gaddr[t] /\ o \in Objs
    <3>1. <<s, o>> \in Pairs /\ held[t][<<s, o>>] < MaxHold
      BY <1>2, <2>2 DEF Pairs
    <3>2. held' \in [Threads -> [Pairs -> Nat]] /\ \A u \in Threads : u # t => held'[u] = held[u]
      BY <1>2, <2>1, <3>1
    <3>3. \A p \in Pairs : held'[t][p] = IF p = <<s, o>> THEN held[t][p] + 1 ELSE held[t][p]
      BY <1>2, <2>1, <3>1
    <3>4. ASSUME NEW p \in Pairs PROVE held'[t][p] <= MaxHold
      <4>1. held[t][p] \in Nat /\ held[t][p] <= MaxHold
        BY <1>2
      <4> QED BY <1>2, <3>1, <3>3, <4>1
    <3> QED BY <3>2, <3>4
  <2>3. CASE s = NoSlot
    <3>1. <<s, o>> \notin Pairs
      BY <2>3 DEF Pairs, NoSlot, SlotIds, CacheAssumption
    <3>2. held' = [held EXCEPT ![t] = [held[t] EXCEPT ![<<s, o>>] = held[t][<<s, o>>] + 1]]
      BY <2>1
    <3>3. [held[t] EXCEPT ![<<s, o>>] = held[t][<<s, o>>] + 1] = held[t]
      BY <1>2, <3>1
    <3>4. held' = held
      BY <1>2, <3>2, <3>3
    <3> QED BY <1>2, <3>4
  <2> QED BY <2>2, <2>3
<1>4. pc'[t] \notin Tagged
  BY <1>1 DEF Tagged
<1> QED BY <1>1, <1>2, <1>3, <1>4, HoldAfter

(* Nothing of this changes.                                                *)
LEMMA HoldIdle ==
  ASSUME HoldInv, UNCHANGED <<held, tag, pc, gaddr, slot>>
  PROVE  HoldInv'
BY DEF HoldInv

(* The application's calls.                                                *)
LEMMA HoldClient ==
  ASSUME CacheAssumption, PlaceInv, HoldInv, NEW t \in Threads, ClientStep(t)
  PROVE  HoldInv'
<1>0. /\ held \in [Threads -> [Pairs -> Nat]] /\ DOMAIN tag = SlotIds
      /\ \A p \in Pairs : held[t][p] <= MaxHold
      /\ pc[t] = "idle" => slot[t] = NoSlot
      /\ MaxHold \in Nat
  BY DEF HoldInv, CacheAssumption
<1>1. ASSUME NEW o \in Objs, Request(t, o) PROVE HoldInv'
  <2>1. /\ pc[t] = "idle" /\ Goto(t, "lookup") /\ UNCHANGED <<held, tag, slot>>
        /\ gaddr' = [gaddr EXCEPT ![t] = o]
        /\ \A s \in SlotIds : held[t][<<s, o>>] < MaxHold
    BY <1>1 DEF Request, meta_vars, hold_vars
  <2>2. /\ pc'[t] = "lookup" /\ gaddr'[t] = o
        /\ \A u \in Threads : u # t => pc'[u] = pc[u] /\ gaddr'[u] = gaddr[u]
    BY <2>1 DEF Goto, PlaceInv, PlaceTypes
  <2> QED BY <1>0, <2>1, <2>2, HoldAfter
<1>2. ASSUME NEW p \in Pairs, AccessMut(t, p) \/ Load(t, p) PROVE HoldInv'
  <2>1. UNCHANGED <<held, tag, pc, gaddr, slot>>
    BY <1>2 DEF AccessMut, Load, meta_vars, req_vars, hold_vars
  <2> QED BY <2>1, HoldIdle
<1>3. ASSUME NEW p \in Pairs, NEW v \in Values, Store(t, p, v) PROVE HoldInv'
  <2>1. UNCHANGED <<held, tag, pc, gaddr, slot>>
    BY <1>3 DEF Store, meta_vars, req_vars, hold_vars
  <2> QED BY <2>1, HoldIdle
<1>4. ASSUME NEW p \in Pairs, cache_token_free(t, p) PROVE HoldInv'
  <2>1. pc[t] = "idle" /\ held[t][p] > 0 /\ UNCHANGED <<tag, pc, gaddr, slot>>
    BY <1>4 DEF cache_token_free, req_vars
  <2>2. CASE UNCHANGED held
    BY <2>1, <2>2, HoldIdle
  <2>3. CASE held' = [held EXCEPT ![t][p] = @ - 1]
    <3>1. held[t][p] \in Nat
      BY <1>0
    <3>2. held' \in [Threads -> [Pairs -> Nat]] /\ \A u \in Threads : u # t => held'[u] = held[u]
      BY <1>0, <2>1, <2>3, <3>1
    <3>3. \A q \in Pairs : held'[t][q] = IF q = p THEN held[t][q] - 1 ELSE held[t][q]
      BY <1>0, <2>3
    <3>4. ASSUME NEW q \in Pairs PROVE held'[t][q] <= MaxHold
      <4>1. held[t][q] \in Nat /\ held[t][q] <= MaxHold
        BY <1>0
      <4> QED BY <1>0, <3>3, <4>1
    <3>5. pc'[t] = "idle" /\ pc'[t] \notin Tagged /\ slot'[t] = NoSlot
      BY <1>0, <2>1 DEF Tagged
    <3> QED BY <1>0, <2>1, <3>2, <3>4, <3>5, HoldAfter
  <2> QED BY <1>4, <2>2, <2>3 DEF cache_token_free, hold_vars
<1> QED BY <1>1, <1>2, <1>3, <1>4 DEF ClientStep

(* Every step keeps the bound.                                             *)
LEMMA HoldStep ==
  ASSUME CacheAssumption, PlaceInv, HoldInv, [Next]_vars
  PROVE  HoldInv'
<1>1. CASE UNCHANGED vars
  BY <1>1, HoldIdle DEF vars
<1>2. CASE Nic
  <2>1. UNCHANGED <<held, tag, pc, gaddr, slot>>
    BY <1>2 DEF Nic, NicTransfer, NicError, meta_vars, req_vars, hold_vars
  <2> QED BY <2>1, HoldIdle
<1>3. ASSUME NEW t \in Threads, EvictRetry(t) PROVE HoldInv'
  BY <1>3, HoldIdle DEF EvictRetry, vars
<1>4. ASSUME NEW t \in Threads, ClientStep(t) PROVE HoldInv'
  BY <1>4, HoldClient
<1>5. ASSUME NEW t \in Threads, Ref(t) PROVE HoldInv'
  <2>1. /\ pc[t] = "ref" /\ gaddr[t] \in Objs /\ entry[t] \in SlotIds
        /\ pc[t] \in Tagged /\ slot[t] # NoSlot => tag[slot[t]] = gaddr[t]
        /\ DOMAIN tag = SlotIds
    BY <1>5 DEF Ref, PlaceInv, RequestTypes, HoldInv
  <2>2. UNCHANGED tag
    BY <1>5 DEF Ref
  <2>3. CASE slot[t] = NoSlot
    <3>1. Return(t, entry[t], gaddr[t])
      BY <1>5, <2>3 DEF Ref
    <3>2. PICK s \in SlotIds, o \in Objs : s = entry[t] /\ o = gaddr[t]
      BY <2>1
    <3> QED BY <2>1, <2>2, <3>1, <3>2, HoldReturn
  <2>4. CASE slot[t] # NoSlot
    <3>1. Goto(t, "push") /\ UNCHANGED <<held, gaddr, slot>>
      BY <1>5, <2>4 DEF Ref, req_vars
    <3>2. "push" \in PCs \ {"idle"} /\ pc[t] \in Tagged
      BY <2>1 DEF PCs, Tagged
    <3>3. pc[t] # "idle"
      BY <2>1
    <3> QED BY <2>1, <2>2, <3>1, <3>2, <3>3, HoldMoves
  <2> QED BY <2>3, <2>4
<1>6. ASSUME NEW t \in Threads, Push(t) PROVE HoldInv'
  <2>1. pc[t] = "push" /\ gaddr[t] \in Objs /\ entry[t] \in SlotIds /\ UNCHANGED tag
    BY <1>6 DEF Push, PlaceInv, RequestTypes, meta_vars
  <2>2. CASE HasTail(free_list)
    <3>1. Return(t, entry[t], gaddr[t])
      BY <1>6, <2>2 DEF Push
    <3>2. PICK s \in SlotIds, o \in Objs : s = entry[t] /\ o = gaddr[t]
      BY <2>1
    <3> QED BY <2>1, <3>1, <3>2, HoldReturn
  <2>3. CASE ~HasTail(free_list)
    <3>1. UNCHANGED <<held, tag, pc, gaddr, slot>>
      BY <1>6, <2>1, <2>3 DEF Push, req_vars
    <3> QED BY <3>1, HoldIdle
  <2> QED BY <2>2, <2>3
<1>7. ASSUME NEW t \in Threads, ReadWait(t) PROVE HoldInv'
  <2>1. /\ pc[t] = "rwait" /\ gaddr[t] \in Objs /\ UNCHANGED tag
        /\ Return(t, slot[t], tag[slot[t]])
        /\ slot[t] \in SlotIds \cup {NoSlot}
    BY <1>7 DEF ReadWait, PlaceInv, PlaceTypes, RequestTypes
  <2>2. slot[t] # NoSlot => tag[slot[t]] = gaddr[t]
    BY <2>1 DEF HoldInv, Tagged
  <2>3. PICK s, o : s = slot[t] /\ o = tag[slot[t]]
    OBVIOUS
  <2>4. \/ s \in SlotIds /\ o = gaddr[t] /\ o \in Objs
        \/ s = NoSlot
    BY <2>1, <2>2, <2>3
  <2>5. pc[t] # "idle" /\ Return(t, s, o)
    BY <2>1, <2>3
  <2> QED BY <2>1, <2>4, <2>5, HoldReturn
<1>8. ASSUME NEW t \in Threads, RequestStep(t) PROVE HoldInv'
  BY <1>5, <1>6, <1>7, <1>8, HoldKept DEF RequestStep
<1> QED BY <1>1, <1>2, <1>3, <1>4, <1>8 DEF Next

(* The tokens on a slot and the hits on it, bounded.                       *)
LEMMA ReferencesBounded ==
  ASSUME CacheAssumption, IsFiniteSet(Threads), IsFiniteSet(Objs),
         NEW h \in [Threads -> [Pairs -> Nat]],
         \A u \in Threads, p \in Pairs : h[u][p] <= MaxHold,
         NEW q, NEW e, NEW s \in SlotIds
  PROVE  /\ Cardinality(Tokens(h, s)) \in Nat /\ Cardinality(Hits(q, e, s)) \in Nat
         /\ Cardinality(Tokens(h, s)) <= Cardinality(Threads) * (Cardinality(Objs) * MaxHold)
         /\ Cardinality(Hits(q, e, s)) <= Cardinality(Threads)
<1> DEFINE K == 1 .. MaxHold
           A == Threads \X (Objs \X K)
<1>1. MaxHold \in Nat
  BY DEF CacheAssumption
<1>2. IsFiniteSet(K) /\ Cardinality(K) = MaxHold
  BY <1>1, FS_Interval
<1>3. IsFiniteSet(Objs \X K) /\ Cardinality(Objs \X K) = Cardinality(Objs) * MaxHold
  BY <1>2, FS_Product
<1>4. IsFiniteSet(A) /\ Cardinality(A) = Cardinality(Threads) * (Cardinality(Objs) * MaxHold)
  BY <1>3, FS_Product
<1>5. Tokens(h, s) \in SUBSET A
  <2>1. ASSUME NEW y \in Tokens(h, s) PROVE y \in A
    <3>1. PICK u \in Threads, o \in Objs, k \in Nat \ {0} :
            y = <<u, <<o, k>>>> /\ k <= h[u][<<s, o>>]
      BY <2>1, TokenShape
    <3>2. <<s, o>> \in Pairs
      BY DEF Pairs
    <3>3. h[u][<<s, o>>] \in Nat /\ h[u][<<s, o>>] <= MaxHold
      BY <3>2
    <3>4. k \in K
      BY <1>1, <3>1, <3>3
    <3> HIDE DEF K
    <3> QED BY <3>1, <3>4
  <2> QED BY <2>1
<1>6. Hits(q, e, s) \in SUBSET Threads
  BY DEF Hits
<1> HIDE DEF A
<1> QED BY <1>4, <1>5, <1>6, FS_Subset, FS_CardinalityType

(***************************************************************************)
(* SlotInOnePlace without a condition on the behaviour: when the threads,  *)
(* each with a request in flight and MaxHold tokens on each object, cannot *)
(* together exceed the 30 bits of a count.                                 *)
(***************************************************************************)
THEOREM SlotNeverSharedBounded ==
  ASSUME IsFiniteSet(Threads), IsFiniteSet(Objs),
         Cardinality(Threads) * (Cardinality(Objs) * MaxHold) + Cardinality(Threads)
           < FLAG_IO
  PROVE  Spec => []SlotInOnePlace
<1>1. Init => PlaceInv /\ HoldInv
  <2>1. SUFFICES ASSUME Init PROVE PlaceInv /\ HoldInv
    OBVIOUS
  <2>2. PlaceInv
    BY <2>1, CacheAssumption, PlaceInit
  <2>3. MaxHold \in Nat
    BY CacheAssumption DEF CacheAssumption
  <2>4. /\ tag = [s \in SlotIds |-> NoTag] /\ pc = [t \in Threads |-> "idle"]
        /\ slot = [t \in Threads |-> NoSlot]
        /\ held = [t \in Threads |-> [p \in Pairs |-> 0]]
    BY <2>1 DEF Init
  <2>5. HoldInv
    BY <2>3, <2>4 DEF HoldInv, Tagged
  <2> QED BY <2>2, <2>5
<1>2. PlaceInv /\ HoldInv /\ [Next]_vars => HoldInv'
  BY CacheAssumption, HoldStep
<1>3. HoldInv => CountsFit
  <2>1. SUFFICES ASSUME HoldInv, NEW s \in SlotIds PROVE Count(s) < FLAG_IO
    BY DEF CountsFit
  <2>2. /\ held \in [Threads -> [Pairs -> Nat]]
        /\ \A u \in Threads, p \in Pairs : held[u][p] <= MaxHold
    BY <2>1 DEF HoldInv
  <2>3. /\ Cardinality(Tokens(held, s)) \in Nat /\ Cardinality(Hits(pc, entry, s)) \in Nat
        /\ Cardinality(Tokens(held, s))
             <= Cardinality(Threads) * (Cardinality(Objs) * MaxHold)
        /\ Cardinality(Hits(pc, entry, s)) <= Cardinality(Threads)
    BY <2>2, CacheAssumption, ReferencesBounded
  <2>4. Cardinality(Threads) \in Nat /\ Cardinality(Objs) \in Nat
        /\ MaxHold \in Nat /\ FLAG_IO \in Nat
    BY CacheAssumption, FS_CardinalityType DEF CacheAssumption
  <2>5. Cardinality(Threads) * (Cardinality(Objs) * MaxHold) \in Nat
    BY <2>4
  <2> QED BY <2>3, <2>4, <2>5 DEF Count
<1>4. PlaceInv /\ CountsFit /\ CountsFit' /\ [Next]_vars => PlaceInv'
  BY CacheAssumption, PlaceStep
<1>5. PlaceInv => SlotInOnePlace
  BY DEF PlaceInv
<1> QED BY <1>1, <1>2, <1>3, <1>4, <1>5, PTL DEF Spec

-----------------------------------------------------------------------------
(* One thread. *)

USE CacheAssumption
USE DEF meta_vars, pool_vars, data_vars, rdma_vars, req_vars, hold_vars, Goto,
        Owns

(* A token names a slot and an object. *)
LEMMA PairShape ==
  ASSUME NEW p \in Pairs
  PROVE  p[1] \in SlotIds /\ p[2] \in Objs /\ p = <<p[1], p[2]>>
BY DEF Pairs

(* The slot index -1 of a failed pop is no slot of the block. *)
LEMMA NoSlotIsNone == NoSlot \notin SlotIds
BY DEF NoSlot, SlotIds

(* The free list names slots of the block. *)
LEMMA FreeAreSlots ==
  ASSUME TypeOK
  PROVE  FreeSlots(free_list) \subseteq SlotIds
<1>1. free_list \in Seq(Node(SlotIds))
  BY DEF TypeOK, Node
<1> QED BY <1>1, PlacesAreSlots

(* While no slot is being prepared, an entry of the table leads to a slot  *)
(* in use whose metadata word is valid, not in I/O, and counts the tokens. *)
LEMMA EntryIsLive ==
  ASSUME NEW t, Threads = {t}, IInv, slot[t] = NoSlot,
         NEW o \in Objs, NEW s \in SlotIds, addr_trans_table[o] = s
  PROVE  /\ Live(s)
         /\ tag[s] = o
         /\ <<s, o>> \in Pairs
         /\ held[t][<<s, o>>] \in 0 .. MaxHold
         /\ valid_io_rc[s] = FLAG_VALID + held[t][<<s, o>>]
<1>1. <<s, o>> \in Pairs
  BY DEF Pairs
<1>2. Live(s)
  BY NoSlotIsNone DEF IInv, EntryInv
<1>3. tag[s] = o
  BY NoSlotIsNone DEF IInv, TableExact
<1>4. held[t][<<s, o>>] \in 0 .. MaxHold
  BY <1>1 DEF IInv, TypeOK, HeldInv
<1>5. valid_io_rc[s] = FLAG_VALID + held[t][<<s, o>>]
  BY <1>2, <1>3 DEF IInv, RefCountExact
<1> QED BY <1>1, <1>2, <1>3, <1>4, <1>5

(* The one work request outstanding is that of the waiting thread. *)
LEMMA OneRequest ==
  ASSUME NEW t, Threads = {t}, IInv, sq # << >>
  PROVE  /\ cq = 0 /\ Tail(sq) = << >>
         /\ slot[t] \in SlotIds
         /\ \/ /\ pc[t] = "wwait" /\ tag[slot[t]] \in Objs
               /\ Head(sq) = [op |-> "write", slot |-> slot[t], tag |-> tag[slot[t]]]
            \/ /\ pc[t] = "rwait" /\ gaddr[t] \in Objs
               /\ Head(sq) = [op |-> "read", slot |-> slot[t], tag |-> gaddr[t]]
<1>1. pc[t] \in {"wwait", "rwait"}
  BY DEF IInv, QueueInv
<1>2. slot[t] \in SlotIds
  BY <1>1 DEF IInv, TypeOK, SearchInv
<1>3. CASE pc[t] = "wwait"
  <2>1. cq = 0 /\ sq = <<[op |-> "write", slot |-> slot[t], tag |-> tag[slot[t]]]>>
    BY <1>3 DEF IInv, QueueInv
  <2>2. tag[slot[t]] \in Objs
    BY <1>3 DEF IInv, VictimInv
  <2> QED BY <2>1, <2>2, <1>2, <1>3
<1>4. CASE pc[t] = "rwait"
  <2>1. cq = 0 /\ sq = <<[op |-> "read", slot |-> slot[t], tag |-> gaddr[t]]>>
    BY <1>4 DEF IInv, QueueInv
  <2>2. gaddr[t] \in Objs
    BY <1>2, <1>4, NoSlotIsNone DEF IInv, FillInv
  <2> QED BY <2>1, <2>2, <1>2, <1>4
<1> QED BY <1>1, <1>3, <1>4

-----------------------------------------------------------------------------
(* Every step preserves the inductive invariant. *)

(* The initial state: every slot free, nothing cached. *)
LEMMA InitIInv == ASSUME NEW t, Threads = {t}, Init PROVE IInv
<1>0. /\ free_list \in Seq(Node(SlotIds)) /\ WellFormed(free_list)
      /\ FreeSlots(free_list) = SlotIds
  BY FreeListNew DEF Init, SlotIds
<1>a. /\ 0 \in 0 .. WORD - 1
      /\ \A s \in SlotIds : s \in FreeSlots(free_list) /\ slot[t] # s
      /\ sq \in Seq(WRs) /\ cq \in Nat
  BY <1>0, NoSlotIsNone DEF Init, WORD
<1>1. TypeOK
  BY <1>0, <1>a DEF Init, TypeOK, PCs, Node
<1>2. NoFault /\ TableExact /\ RefCountExact /\ LiveData
  BY <1>a DEF Init, NoFault, TableExact, RefCountExact, LiveData, Live
<1>3. EvictionLosesNothing /\ FreeInv /\ HeldInv /\ EntryInv
  BY <1>0, <1>a DEF Init, EvictionLosesNothing, FreeInv, HeldInv, EntryInv
<1>4. QueueInv(t) /\ SearchInv(t) /\ VictimInv(t) /\ FillInv(t)
  BY DEF Init, QueueInv, SearchInv, VictimInv, FillInv
<1> QED BY <1>1, <1>2, <1>3, <1>4 DEF IInv

(* Entering cache_request only records its argument. *)
LEMMA RequestPreserves ==
  ASSUME NEW t, Threads = {t}, IInv, NEW o \in Objs, Request(t, o)
  PROVE  IInv'
<1>1. TypeOK'
  BY DEF Request, IInv, TypeOK, PCs
<1>2. /\ NoFault' /\ TableExact' /\ RefCountExact' /\ EvictionLosesNothing'
      /\ FreeInv' /\ LiveData' /\ HeldInv' /\ EntryInv'
  BY DEF Request, IInv, TypeOK, NoFault, TableExact, RefCountExact,
         EvictionLosesNothing, FreeInv, LiveData, HeldInv, EntryInv, Live,
         BeingWrittenBack
<1>3. QueueInv(t)' /\ SearchInv(t)' /\ VictimInv(t)' /\ FillInv(t)'
  BY DEF Request, IInv, TypeOK, QueueInv, SearchInv, VictimInv, FillInv
<1> QED BY <1>1, <1>2, <1>3 DEF IInv

(* hashmap_get changes nothing shared; an entry it finds is the object's. *)
LEMMA LookupPreserves ==
  ASSUME NEW t, Threads = {t}, IInv, Lookup(t)
  PROVE  IInv'
<1>1. TypeOK'
  BY DEF Lookup, IInv, TypeOK, PCs, SearchInv, FillInv
<1>2. /\ NoFault' /\ TableExact' /\ RefCountExact' /\ EvictionLosesNothing'
      /\ FreeInv' /\ LiveData' /\ HeldInv' /\ EntryInv'
  BY DEF Lookup, IInv, TypeOK, NoFault, TableExact, RefCountExact,
         EvictionLosesNothing, FreeInv, LiveData, HeldInv, EntryInv, Live,
         BeingWrittenBack
<1>3. QueueInv(t)' /\ SearchInv(t)' /\ VictimInv(t)' /\ FillInv(t)'
  BY DEF Lookup, IInv, TypeOK, QueueInv, SearchInv, VictimInv, FillInv
<1> QED BY <1>1, <1>2, <1>3 DEF IInv

(* hashmap_set maps the object, absent until now, to the prepared slot. *)
LEMMA InsertPreserves ==
  ASSUME NEW t, Threads = {t}, IInv, ~NDEBUG, Insert(t)
  PROVE  IInv'
<1>0. /\ slot[t] \in SlotIds /\ gaddr[t] \in Objs
      /\ addr_trans_table[gaddr[t]] = NoSlot
      /\ tag[slot[t]] = gaddr[t]
      /\ slot[t] \notin FreeSlots(free_list)
  BY DEF Insert, IInv, TypeOK, SearchInv, FillInv, FreeInv
<1>a. /\ addr_trans_table' = [addr_trans_table EXCEPT ![gaddr[t]] = slot[t]]
      /\ fault' = fault
  BY <1>0 DEF Insert
<1>b. /\ \A o \in Objs : o # gaddr[t] => addr_trans_table'[o] = addr_trans_table[o]
      /\ addr_trans_table'[gaddr[t]] = slot[t]
      /\ addr_trans_table' \in [Objs -> SlotIds \cup {NoSlot}]
  BY <1>0, <1>a DEF IInv, TypeOK
<1>1. TypeOK'
  BY <1>a, <1>b DEF Insert, IInv, TypeOK, PCs
<1>2. TableExact'
  <2>1. UNCHANGED <<tag, free_list, slot>>
    BY DEF Insert
  <2>2. ASSUME NEW s \in SlotIds, Live(s)
        PROVE  tag[s] \in Objs /\ addr_trans_table'[tag[s]] = s
    <3>1. tag[s] \in Objs /\ addr_trans_table[tag[s]] = s
      BY <2>2 DEF IInv, TableExact
    <3> QED BY <3>1, <1>b, <1>0, NoSlotIsNone
  <2>3. ASSUME NEW o \in Objs, addr_trans_table'[o] # NoSlot
        PROVE  /\ tag[addr_trans_table'[o]] = o
               /\ addr_trans_table'[o] \notin FreeSlots(free_list)
    BY <2>3, <1>b, <1>0 DEF IInv, TableExact
  <2> QED BY <2>1, <2>2, <2>3 DEF TableExact, Live
<1>3. EntryInv'
  <2>1. ASSUME NEW o \in Objs, addr_trans_table'[o] # NoSlot, o # gaddr[t]
        PROVE  Live(addr_trans_table[o])
    BY <2>1, <1>b DEF Insert, IInv, EntryInv
  <2> QED BY <2>1, <1>b DEF Insert, IInv, TypeOK, EntryInv, Live
<1>4. NoFault'
  BY DEF Insert, IInv, TypeOK, NoFault, SearchInv, FillInv
<1>5. EvictionLosesNothing'
  BY DEF Insert, IInv, TypeOK, EvictionLosesNothing, BeingWrittenBack,
         SearchInv
<1>6. FillInv(t)'
  BY DEF Insert, IInv, TypeOK, FillInv, SearchInv, EvictionLosesNothing,
         BeingWrittenBack
<1>7. RefCountExact' /\ FreeInv' /\ LiveData' /\ HeldInv'
  BY DEF Insert, IInv, TypeOK, RefCountExact, FreeInv, LiveData, HeldInv,
         Live
<1>8. QueueInv(t)' /\ SearchInv(t)' /\ VictimInv(t)'
  BY DEF Insert, IInv, TypeOK, QueueInv, SearchInv, VictimInv
<1> QED BY <1>1, <1>2, <1>3, <1>4, <1>5, <1>6, <1>7, <1>8 DEF IInv

(* The entry found leads to a slot in use: its word is valid. *)
LEMMA LoadMetaPreserves ==
  ASSUME NEW t, Threads = {t}, IInv, LoadMeta(t)
  PROVE  IInv'
<1>0. /\ slot[t] = NoSlot /\ entry[t] \in SlotIds /\ gaddr[t] \in Objs
      /\ addr_trans_table[gaddr[t]] = entry[t]
  BY DEF LoadMeta, IInv, TypeOK, SearchInv, FillInv
<1> DEFINE h == held[t][<<entry[t], gaddr[t]>>]
<1>a. h \in 0 .. MaxHold /\ valid_io_rc[entry[t]] = FLAG_VALID + h
  BY <1>0, EntryIsLive
<1> HIDE DEF h
<1>b. IsValid(valid_io_rc[entry[t]])
  BY <1>a DEF IsValid, FLAG_VALID
<1>c. /\ pc' = [pc EXCEPT ![t] = "tagck"]
      /\ vio' = [vio EXCEPT ![t] = valid_io_rc[entry[t]]]
      /\ UNCHANGED entry
  BY <1>b DEF LoadMeta
<1>1. TypeOK'
  BY <1>0, <1>c DEF LoadMeta, IInv, TypeOK, PCs
<1>2. SearchInv(t)'
  BY <1>c, <1>0 DEF LoadMeta, IInv, TypeOK, SearchInv
<1>3. /\ NoFault' /\ TableExact' /\ RefCountExact' /\ EvictionLosesNothing'
      /\ FreeInv' /\ LiveData' /\ HeldInv' /\ EntryInv'
  BY DEF LoadMeta, Miss, IInv, TypeOK, NoFault, TableExact, RefCountExact,
         EvictionLosesNothing, FreeInv, LiveData, HeldInv, EntryInv, Live,
         BeingWrittenBack
<1>4. QueueInv(t)' /\ VictimInv(t)' /\ FillInv(t)'
  BY DEF LoadMeta, Miss, IInv, TypeOK, QueueInv, VictimInv, FillInv
<1> QED BY <1>1, <1>2, <1>3, <1>4 DEF IInv

(* The tag of that slot is the object's, and no fetch is in progress. *)
LEMMA CheckTagPreserves ==
  ASSUME NEW t, Threads = {t}, IInv, MaxHold < FLAG_IO, CheckTag(t)
  PROVE  IInv'
<1>0. /\ slot[t] = NoSlot /\ entry[t] \in SlotIds /\ gaddr[t] \in Objs
      /\ addr_trans_table[gaddr[t]] = entry[t]
      /\ vio[t] = valid_io_rc[entry[t]]
  BY DEF CheckTag, IInv, TypeOK, SearchInv, FillInv
<1> DEFINE h == held[t][<<entry[t], gaddr[t]>>]
<1>a. h \in 0 .. MaxHold /\ valid_io_rc[entry[t]] = FLAG_VALID + h
  BY <1>0, EntryIsLive
<1> HIDE DEF h
<1>b. ~InIO(vio[t])
  BY <1>a, <1>0 DEF InIO, FLAG_VALID
<1>c. tag[entry[t]] = gaddr[t]
  BY <1>0, EntryIsLive
<1>d. /\ pc' = [pc EXCEPT ![t] = "ref"]
      /\ vio' = [vio EXCEPT ![t] = 0]
      /\ UNCHANGED entry
  BY <1>b, <1>c DEF CheckTag
<1>1. TypeOK'
  <2>1. 0 \in 0 .. WORD - 1
    BY DEF WORD
  <2> QED BY <2>1, <1>d DEF CheckTag, IInv, TypeOK, PCs
<1>2. SearchInv(t)'
  BY <1>d, <1>0 DEF CheckTag, IInv, TypeOK, SearchInv
<1>3. /\ NoFault' /\ TableExact' /\ RefCountExact' /\ EvictionLosesNothing'
      /\ FreeInv' /\ LiveData' /\ HeldInv' /\ EntryInv'
  BY DEF CheckTag, Miss, IInv, TypeOK, NoFault, TableExact, RefCountExact,
         EvictionLosesNothing, FreeInv, LiveData, HeldInv, EntryInv, Live,
         BeingWrittenBack
<1>4. QueueInv(t)' /\ VictimInv(t)' /\ FillInv(t)'
  BY DEF CheckTag, Miss, IInv, TypeOK, QueueInv, VictimInv, FillInv
<1> QED BY <1>1, <1>2, <1>3, <1>4 DEF IInv

(* A hit: the count of the slot and the tokens held grow together. *)
LEMMA RefPreserves ==
  ASSUME NEW t, Threads = {t}, IInv, MaxHold < FLAG_IO, Ref(t)
  PROVE  IInv'
<1> DEFINE s == entry[t]
           o == gaddr[t]
           p == <<entry[t], gaddr[t]>>
           h == held[t][p]
<1>0. /\ slot[t] = NoSlot /\ s \in SlotIds /\ o \in Objs
      /\ addr_trans_table[o] = s
  BY DEF Ref, IInv, TypeOK, SearchInv, FillInv
<1>a. Live(s) /\ tag[s] = o /\ p \in Pairs /\ valid_io_rc[s] = FLAG_VALID + h
  BY <1>0, EntryIsLive
<1>b. /\ h \in Nat /\ h < MaxHold
      /\ \A q \in Pairs : held[t][q] \in Nat /\ held[t][q] <= MaxHold
  BY <1>0, <1>a DEF Ref, IInv, TypeOK, HeldInv
<1>c. /\ valid_io_rc[s] + 1 # WORD
      /\ FLAG_VALID + (h + 1) \in 0 .. WORD - 1
      /\ valid_io_rc[s] + 1 = FLAG_VALID + (h + 1)
  <2> HIDE DEF h
  <2> QED BY <1>a, <1>b DEF FLAG_VALID, WORD
<1>d. valid_io_rc' = [valid_io_rc EXCEPT ![s] = FLAG_VALID + (h + 1)]
  BY <1>c DEF Ref, Plus1
<1>e. held' = [held EXCEPT ![t] = [held[t] EXCEPT ![p] = h + 1]]
  BY <1>0 DEF Ref, Return
<1>f. UNCHANGED <<tag, slot, free_list>>
  BY <1>0 DEF Ref, Return, IInv, TypeOK
<1> HIDE DEF p, h
<1>g. /\ held'[t][p] = h + 1
      /\ \A q \in Pairs \ {p} : held'[t][q] = held[t][q]
      /\ held' \in [Threads -> [Pairs -> Nat]]
  BY <1>e, <1>a, <1>b DEF IInv, TypeOK
<1>h. /\ valid_io_rc'[s] = FLAG_VALID + (h + 1)
      /\ \A r \in SlotIds \ {s} : valid_io_rc'[r] = valid_io_rc[r]
      /\ valid_io_rc' \in [SlotIds -> 0 .. WORD - 1]
  BY <1>d, <1>c, <1>0 DEF IInv, TypeOK
<1>1. TypeOK'
  BY <1>g, <1>h, <1>0 DEF Ref, Return, IInv, TypeOK, PCs
<1>2. HeldInv'
  <2>1. \A q \in Pairs : held'[t][q] <= MaxHold
    BY <1>b, <1>g
  <2>2. ASSUME NEW q \in mut[t]
        PROVE  held'[t][q] > 0 /\ dirty[q[1]]
    <3>1. q \in Pairs /\ held[t][q] > 0 /\ dirty[q[1]]
      BY <2>2 DEF IInv, TypeOK, HeldInv
    <3> QED BY <3>1, <1>b, <1>g
  <2> QED BY <2>1, <2>2, <1>0 DEF Ref, Return, IInv, TypeOK, HeldInv
<1>3. RefCountExact'
  <2>1. ASSUME NEW r \in SlotIds, Live(r)
        PROVE  valid_io_rc'[r] = FLAG_VALID + held'[t][<<r, tag[r]>>]
    <3>1. valid_io_rc[r] = FLAG_VALID + held[t][<<r, tag[r]>>]
      BY <2>1 DEF IInv, RefCountExact
    <3>2. CASE r = s
      BY <3>2, <1>a, <1>g, <1>h DEF p
    <3>3. CASE r # s
      <4>1. <<r, tag[r]>> \in Pairs \ {p}
        BY <2>1, <3>3 DEF IInv, TableExact, Pairs, p
      <4> QED BY <4>1, <3>1, <3>3, <1>g, <1>h
    <3> QED BY <3>2, <3>3
  <2>2. ASSUME NEW q \in Pairs, held'[t][q] > 0
        PROVE  Live(q[1]) /\ tag[q[1]] = q[2]
    <3>1. CASE q = p
      BY <3>1, <1>a DEF p
    <3>2. CASE q # p
      BY <3>2, <2>2, <1>g DEF IInv, RefCountExact
    <3> QED BY <3>1, <3>2
  <2> QED BY <2>1, <2>2, <1>f DEF RefCountExact, Live
<1>4. FreeInv'
  BY DEF Ref, Return, IInv, TypeOK, FreeInv, SearchInv, FillInv, TableExact
<1>5. /\ NoFault' /\ TableExact' /\ EvictionLosesNothing' /\ LiveData'
      /\ EntryInv'
  BY DEF Ref, Return, IInv, TypeOK, NoFault, TableExact,
         EvictionLosesNothing, LiveData, EntryInv, Live, BeingWrittenBack
<1>6. QueueInv(t)' /\ SearchInv(t)' /\ VictimInv(t)' /\ FillInv(t)'
  BY DEF Ref, Return, IInv, TypeOK, QueueInv, SearchInv, VictimInv, FillInv
<1> QED BY <1>1, <1>2, <1>3, <1>4, <1>5, <1>6 DEF IInv

(* One thread never finds its object cached on the second try: it neither  *)
(* spins nor gives a prepared slot back.                                   *)
LEMMA NoSpinNoPush ==
  ASSUME NEW t, Threads = {t}, IInv
  PROVE  ~Spin(t) /\ ~Push(t)
BY DEF Spin, Push, IInv, SearchInv, FillInv

(* pop hands a free slot to the request, or leaves it to evict. *)
LEMMA PopPreserves ==
  ASSUME NEW t, Threads = {t}, IInv, Pop(t)
  PROVE  IInv'
<1>0. /\ slot[t] = NoSlot /\ gaddr[t] \in Objs
      /\ addr_trans_table[gaddr[t]] = NoSlot
  BY DEF Pop, IInv, FillInv, SearchInv
<1>a. CASE free_list = << >>
  <2>1. /\ slot' = slot /\ UNCHANGED free_list
        /\ pc' = [pc EXCEPT ![t] = "evict"]
    BY <1>a, <1>0 DEF Pop, PoppedSlot, ListAfterPop, NoSlot, IInv, TypeOK
  <2>2. TypeOK'
    BY <2>1 DEF Pop, IInv, TypeOK, PCs
  <2>3. /\ NoFault' /\ TableExact' /\ RefCountExact' /\ FreeInv' /\ LiveData'
        /\ HeldInv'
    BY <2>1 DEF Pop, IInv, TypeOK, NoFault, TableExact, RefCountExact, FreeInv, LiveData, HeldInv,
                Live
  <2>4. EvictionLosesNothing'
    BY <2>1 DEF Pop, IInv, TypeOK, EvictionLosesNothing, BeingWrittenBack
  <2>5. EntryInv'
    BY <2>1 DEF Pop, IInv, TypeOK, EntryInv, Live
  <2>6. QueueInv(t)' /\ SearchInv(t)' /\ VictimInv(t)' /\ FillInv(t)'
    BY <2>1 DEF Pop, IInv, TypeOK, QueueInv, SearchInv, VictimInv, FillInv
  <2> QED BY <2>2, <2>3, <2>4, <2>5, <2>6 DEF IInv
<1>b. CASE free_list # << >>
  <2> DEFINE s == PoppedSlot(free_list)
  <2>1. /\ free_list \in Seq(Node(SlotIds)) /\ WellFormed(free_list)
        /\ SlotCount \in Nat \ {0} /\ SlotIds = 0 .. SlotCount - 1
    BY DEF IInv, TypeOK, FreeInv, Node, SlotIds
  <2>2. /\ s \in FreeSlots(free_list)
        /\ free_list' \in Seq(Node(SlotIds)) /\ WellFormed(free_list')
        /\ FreeSlots(free_list') = FreeSlots(free_list) \ {s}
    BY <2>1, <1>b, FreeListPop DEF Pop
  <2> HIDE DEF s
  <2>3. s \in SlotIds /\ s # NoSlot /\ ~(s < 0)
    BY <2>2, FreeAreSlots, NoSlotIsNone DEF IInv, SlotIds
  <2>4. /\ slot' = [slot EXCEPT ![t] = s]
        /\ pc' = [pc EXCEPT ![t] = "install"]
    BY <2>3 DEF Pop, s
  <2>5. /\ slot'[t] = s /\ pc'[t] = "install"
        /\ valid_io_rc[s] = 0
        /\ \A r \in SlotIds : Live(r)' <=> Live(r)
    BY <2>2, <2>3, <2>4, <1>0, NoSlotIsNone DEF IInv, TypeOK, FreeInv, Live
  <2>6. TypeOK'
    BY <2>2, <2>3, <2>4 DEF Pop, IInv, TypeOK, PCs, Node
  <2>7. NoFault' /\ RefCountExact' /\ LiveData' /\ HeldInv'
    BY <2>5, PairShape DEF Pop, IInv, NoFault, RefCountExact, LiveData, HeldInv
  <2>8. TableExact'
    BY <2>2, <2>5 DEF Pop, IInv, TableExact
  <2>9. EvictionLosesNothing'
    BY <2>5 DEF Pop, IInv, EvictionLosesNothing, BeingWrittenBack
  <2>10. FreeInv'
    BY <2>2, <2>5 DEF Pop, IInv, FreeInv
  <2>11. EntryInv'
    BY <2>5, <1>0 DEF Pop, IInv, TypeOK, EntryInv
  <2>12. QueueInv(t)' /\ SearchInv(t)' /\ VictimInv(t)'
    BY <2>3, <2>5 DEF Pop, IInv, QueueInv, SearchInv, VictimInv
  <2>13. FillInv(t)'
    BY <2>5, <1>0 DEF Pop, FillInv
  <2> QED BY <2>6, <2>7, <2>8, <2>9, <2>10, <2>11, <2>12, <2>13 DEF IInv
<1> QED BY <1>a, <1>b

(* A victim has no tokens: it passes from use to the request. *)
LEMMA EvictPreserves ==
  ASSUME NEW t, Threads = {t}, IInv, Evict(t)
  PROVE  IInv'
<1>0. slot[t] = NoSlot /\ gaddr[t] \in Objs /\ addr_trans_table[gaddr[t]] = NoSlot
  BY DEF Evict, IInv, FillInv, SearchInv
<1>1. PICK s \in SlotIds :
        /\ valid_io_rc[s] = FLAG_VALID
        /\ valid_io_rc' = [valid_io_rc EXCEPT ![s] = 0]
        /\ slot' = [slot EXCEPT ![t] = s]
  BY DEF Evict, Evictable
<1>2. s \notin FreeSlots(free_list)
  BY <1>1 DEF IInv, FreeInv, FLAG_VALID
<1>3. Live(s)
  BY <1>0, <1>2, NoSlotIsNone DEF Live
<1>4. tag[s] \in Objs /\ addr_trans_table[tag[s]] = s /\ tag[s] # gaddr[t]
  BY <1>0, <1>3, NoSlotIsNone DEF IInv, TableExact
<1>5. held[t][<<s, tag[s]>>] = 0
  <2>1. <<s, tag[s]>> \in Pairs
    BY <1>4 DEF Pairs
  <2>2. held[t][<<s, tag[s]>>] \in Nat
    BY <2>1 DEF IInv, TypeOK
  <2>3. FLAG_VALID = FLAG_VALID + held[t][<<s, tag[s]>>]
    BY <1>1, <1>3 DEF IInv, RefCountExact
  <2> QED BY <2>2, <2>3 DEF FLAG_VALID
<1>6. /\ slot'[t] = s /\ pc'[t] = "unmap"
      /\ valid_io_rc'[s] = 0
      /\ \A r \in SlotIds \ {s} : valid_io_rc'[r] = valid_io_rc[r]
      /\ \A r \in SlotIds : Live(r)' <=> Live(r) /\ r # s
  BY <1>0, <1>1, NoSlotIsNone DEF Evict, Live, IInv, TypeOK
<1>7. TypeOK'
  <2>1. 0 \in 0 .. WORD - 1
    BY DEF WORD
  <2> QED BY <2>1, <1>1 DEF Evict, IInv, TypeOK, PCs
<1>8. TableExact'
  BY <1>6 DEF Evict, IInv, TableExact
<1>9. RefCountExact'
  <2>1. ASSUME NEW r \in SlotIds, Live(r)'
        PROVE  valid_io_rc'[r] = FLAG_VALID + held[t][<<r, tag[r]>>]
    BY <2>1, <1>6 DEF IInv, RefCountExact
  <2>2. ASSUME NEW q \in Pairs, held[t][q] > 0
        PROVE  Live(q[1])' /\ tag[q[1]] = q[2]
    <3>1. Live(q[1]) /\ tag[q[1]] = q[2] /\ q[1] \in SlotIds /\ q = <<q[1], q[2]>>
      BY <2>2, PairShape DEF IInv, RefCountExact
    <3>2. q # <<s, tag[s]>>
      BY <2>2, <1>5
    <3>3. q[1] # s
      BY <3>1, <3>2
    <3> QED BY <3>1, <3>3, <1>6
  <2> QED BY <2>1, <2>2 DEF Evict, RefCountExact
<1>10. LiveData'
  BY <1>6 DEF Evict, IInv, LiveData
<1>11. SearchInv(t)'
  BY <1>6, NoSlotIsNone DEF SearchInv
<1>12. VictimInv(t)'
  BY <1>3, <1>4, <1>6 DEF Evict, IInv, VictimInv, LiveData
<1>13. FreeInv'
  BY <1>2, <1>6, FreeAreSlots DEF Evict, IInv, FreeInv
<1>14. EntryInv'
  BY <1>0, <1>6 DEF Evict, IInv, TypeOK, EntryInv
<1>15. FillInv(t)'
  BY DEF Evict, IInv, TypeOK, FillInv, SearchInv
<1>16. NoFault' /\ EvictionLosesNothing' /\ HeldInv'
  BY DEF Evict, IInv, TypeOK, NoFault, EvictionLosesNothing, HeldInv,
         BeingWrittenBack
<1>17. QueueInv(t)'
  BY DEF Evict, IInv, TypeOK, QueueInv
<1> QED BY <1>1, <1>2, <1>3, <1>4, <1>5, <1>6, <1>7, <1>8, <1>9, <1>10,
           <1>11, <1>12, <1>13, <1>14, <1>15, <1>16, <1>17 DEF IInv

(* hashmap_delete takes the entry of the victim, and no other. *)
LEMMA UnmapPreserves ==
  ASSUME NEW t, Threads = {t}, IInv, Unmap(t)
  PROVE  IInv'
<1>1. TableExact'
  BY DEF Unmap, EntryRemoved, IInv, TypeOK, TableExact, Live, VictimInv
<1>2. EntryInv'
  BY DEF Unmap, EntryRemoved, IInv, TypeOK, EntryInv, Live, SearchInv,
         FillInv, TableExact
<1>3. TypeOK'
  BY DEF Unmap, EntryRemoved, IInv, TypeOK, PCs
<1>4. /\ NoFault' /\ RefCountExact' /\ EvictionLosesNothing'
      /\ FreeInv' /\ LiveData' /\ HeldInv'
  BY DEF Unmap, EntryRemoved, IInv, TypeOK, NoFault, RefCountExact,
         EvictionLosesNothing, FreeInv, LiveData, HeldInv, Live,
         BeingWrittenBack
<1>5. QueueInv(t)' /\ SearchInv(t)' /\ VictimInv(t)' /\ FillInv(t)'
  BY DEF Unmap, EntryRemoved, IInv, TypeOK, QueueInv, SearchInv, VictimInv,
         FillInv
<1> QED BY <1>1, <1>2, <1>3, <1>4, <1>5 DEF IInv

(* A clean victim is up to date in the pool; a dirty one keeps its tag. *)
LEMMA FlushPreserves ==
  ASSUME NEW t, Threads = {t}, IInv, Flush(t)
  PROVE  IInv'
<1>0. slot[t] \in SlotIds
  BY DEF Flush, IInv, TypeOK, SearchInv
<1>a. /\ tag' \in [SlotIds -> Objs \cup {NoTag}]
      /\ \A s \in SlotIds : s # slot[t] => tag'[s] = tag[s]
      /\ pc' \in [Threads -> PCs]
  BY <1>0 DEF Flush, IInv, TypeOK, PCs
<1>1. TypeOK'
  BY <1>a, <1>0 DEF Flush, IInv, TypeOK
<1>2. RefCountExact'
  <2>1. \A s \in SlotIds : Live(s)' <=> Live(s)
    BY DEF Flush, Live
  <2>2. \A s \in SlotIds : Live(s) => tag'[s] = tag[s]
    BY <1>a DEF Live
  <2> QED BY <2>1, <2>2, PairShape DEF Flush, IInv, RefCountExact
<1>3. TableExact'
  BY DEF Flush, NeedsWriteBack, IInv, TypeOK, TableExact, Live, VictimInv
<1>4. EvictionLosesNothing'
  BY DEF Flush, NeedsWriteBack, IInv, TypeOK, EvictionLosesNothing,
         BeingWrittenBack, VictimInv
<1>5. FillInv(t)'
  BY DEF Flush, NeedsWriteBack, IInv, TypeOK, FillInv, VictimInv
<1>6. HeldInv'
  BY DEF Flush, NeedsWriteBack, IInv, TypeOK, HeldInv, SearchInv, FillInv,
         RefCountExact, Live
<1>7. NoFault' /\ FreeInv' /\ LiveData' /\ EntryInv'
  BY DEF Flush, NeedsWriteBack, IInv, TypeOK, NoFault, FreeInv, LiveData,
         EntryInv, Live
<1>8. QueueInv(t)' /\ SearchInv(t)' /\ VictimInv(t)'
  BY DEF Flush, NeedsWriteBack, IInv, TypeOK, QueueInv, SearchInv, VictimInv
<1> QED BY <1>1, <1>2, <1>3, <1>4, <1>5, <1>6, <1>7, <1>8 DEF IInv

(* A post adds a work request, or fails.                                   *)
LEMMA PostType ==
  ASSUME TypeOK, NEW t \in Threads, NEW op \in {"read", "write"}, Post(t, op),
         slot[t] \in SlotIds, tag[slot[t]] \in Objs
  PROVE  sq' \in Seq(WRs) /\ unposted' \in Nat
<1>1. sq \in Seq(WRs) /\ unposted \in Nat
  BY DEF TypeOK
<1>2. [op |-> op, slot |-> slot[t], tag |-> tag[slot[t]]] \in WRs
  BY DEF WRs
<1> QED BY <1>1, <1>2 DEF Post

(* The write-back is the one request outstanding. *)
LEMMA WritePostPreserves ==
  ASSUME NEW t, Threads = {t}, IInv, WritePost(t)
  PROVE  IInv'
<1>1. TypeOK'
  <2>1. sq' \in Seq(WRs) /\ unposted' \in Nat
    <3>1. TypeOK /\ Post(t, "write") /\ tag[slot[t]] \in Objs
      BY DEF WritePost, IInv, VictimInv
    <3>2. slot[t] \in SlotIds
      BY DEF WritePost, IInv, TypeOK, SearchInv
    <3> QED BY <3>1, <3>2, PostType
  <2>2. pc' \in [Threads -> PCs]
    BY DEF WritePost, IInv, TypeOK, PCs
  <2> QED BY <2>1, <2>2 DEF WritePost, IInv, TypeOK
<1>2. /\ NoFault' /\ TableExact' /\ RefCountExact' /\ EvictionLosesNothing'
      /\ FreeInv' /\ LiveData' /\ HeldInv' /\ EntryInv'
  <2>1. NoFault' /\ TableExact' /\ RefCountExact'
    BY DEF WritePost, IInv, NoFault, TableExact, RefCountExact, Live
  <2>2. FreeInv' /\ LiveData'
    BY DEF WritePost, IInv, FreeInv, LiveData, Live
  <2>3. EvictionLosesNothing'
    <3>1. pc' = [pc EXCEPT ![t] = "wwait"] /\ pc \in [Threads -> PCs] /\ pc[t] = "wpost"
      BY DEF WritePost, Goto, IInv, TypeOK
    <3>2. cq' = 0
      BY <3>1 DEF IInv, QueueInv, WritePost
    <3>3. ASSUME NEW o \in Objs, BeingWrittenBack(o)
          PROVE  BeingWrittenBack(o)'
      BY <3>1, <3>2, <3>3 DEF BeingWrittenBack, WritePost
    <3>4. UNCHANGED <<addr_trans_table, qp_err, remote, latest>>
      BY DEF WritePost
    <3> QED BY <3>3, <3>4 DEF EvictionLosesNothing, IInv
  <2>4. HeldInv'
    BY DEF WritePost, IInv, TypeOK, HeldInv
  <2>5. EntryInv'
    BY DEF WritePost, IInv, TypeOK, EntryInv, Live
  <2> QED BY <2>1, <2>2, <2>3, <2>4, <2>5
<1>3. QueueInv(t)' /\ SearchInv(t)' /\ VictimInv(t)' /\ FillInv(t)'
  BY DEF WritePost, Post, IInv, TypeOK, QueueInv, SearchInv, VictimInv,
         FillInv
<1> QED BY <1>1, <1>2, <1>3 DEF IInv

(* After the completion the pool has the victim's data. *)
LEMMA WriteWaitPreserves ==
  ASSUME NEW t, Threads = {t}, IInv, WriteWait(t)
  PROVE  IInv'
<1>1. TypeOK'
  BY DEF WriteWait, Complete, IInv, TypeOK, PCs, SearchInv
<1>2. TableExact'
  BY DEF WriteWait, Complete, IInv, TypeOK, TableExact, Live, VictimInv
<1>3. EvictionLosesNothing'
  BY DEF WriteWait, Complete, IInv, TypeOK, EvictionLosesNothing,
         BeingWrittenBack, SearchInv, FillInv, VictimInv, QueueInv
<1>4. FillInv(t)'
  BY DEF WriteWait, Complete, IInv, TypeOK, FillInv, VictimInv
<1>5. /\ NoFault' /\ RefCountExact' /\ FreeInv' /\ LiveData'
      /\ HeldInv' /\ EntryInv'
  BY DEF WriteWait, Complete, IInv, TypeOK, NoFault, RefCountExact, FreeInv,
         LiveData, HeldInv, EntryInv, Live
<1>6. QueueInv(t)' /\ SearchInv(t)' /\ VictimInv(t)'
  BY DEF WriteWait, Complete, IInv, TypeOK, QueueInv, SearchInv, VictimInv
<1> QED BY <1>1, <1>2, <1>3, <1>4, <1>5, <1>6 DEF IInv

(* The slot takes the tag of the requested object. *)
LEMMA InstallPreserves ==
  ASSUME NEW t, Threads = {t}, IInv, Install(t)
  PROVE  IInv'
<1>1. TypeOK'
  BY DEF Install, IInv, TypeOK, PCs, SearchInv
<1>2. TableExact'
  BY DEF Install, IInv, TypeOK, TableExact, Live, SearchInv, FillInv,
         EntryInv
<1>3. HeldInv'
  BY DEF Install, IInv, TypeOK, HeldInv, SearchInv, FillInv, RefCountExact,
         Live
<1>4. /\ NoFault' /\ RefCountExact' /\ EvictionLosesNothing'
      /\ FreeInv' /\ LiveData' /\ EntryInv'
  BY DEF Install, IInv, TypeOK, NoFault, RefCountExact, EvictionLosesNothing,
         FreeInv, LiveData, EntryInv, Live, BeingWrittenBack
<1>5. QueueInv(t)' /\ SearchInv(t)' /\ VictimInv(t)' /\ FillInv(t)'
  BY DEF Install, IInv, TypeOK, QueueInv, SearchInv, VictimInv, FillInv
<1> QED BY <1>1, <1>2, <1>3, <1>4, <1>5 DEF IInv

(* The slot is valid and in I/O before the table names it. *)
LEMMA PublishPreserves ==
  ASSUME NEW t, Threads = {t}, IInv, Publish(t)
  PROVE  IInv'
<1>1. TypeOK'
  BY DEF Publish, Fetching, IInv, TypeOK, PCs, SearchInv, FLAG_VALID, WORD
<1>2. /\ NoFault' /\ TableExact' /\ RefCountExact' /\ EvictionLosesNothing'
      /\ FreeInv' /\ LiveData' /\ HeldInv' /\ EntryInv'
  BY DEF Publish, Fetching, IInv, TypeOK, NoFault, TableExact, RefCountExact,
         EvictionLosesNothing, FreeInv, LiveData, HeldInv, EntryInv, Live,
         BeingWrittenBack
<1>3. QueueInv(t)' /\ SearchInv(t)' /\ VictimInv(t)' /\ FillInv(t)'
  BY DEF Publish, Fetching, IInv, TypeOK, QueueInv, SearchInv, VictimInv,
         FillInv
<1> QED BY <1>1, <1>2, <1>3 DEF IInv

(* The fetch is the one request outstanding. *)
LEMMA ReadPostPreserves ==
  ASSUME NEW t, Threads = {t}, IInv, ReadPost(t)
  PROVE  IInv'
<1>1. TypeOK'
  <2>1. sq' \in Seq(WRs) /\ unposted' \in Nat
    <3>1. slot[t] \in SlotIds
      BY DEF ReadPost, IInv, TypeOK, SearchInv
    <3>2. TypeOK /\ Post(t, "read") /\ tag[slot[t]] \in Objs
      BY <3>1, NoSlotIsNone DEF ReadPost, IInv, FillInv
    <3> QED BY <3>1, <3>2, PostType
  <2>2. pc' \in [Threads -> PCs]
    BY DEF ReadPost, IInv, TypeOK, PCs
  <2> QED BY <2>1, <2>2 DEF ReadPost, IInv, TypeOK
<1>2. QueueInv(t)'
  BY DEF ReadPost, Post, IInv, TypeOK, QueueInv, SearchInv, FillInv
<1>3. /\ NoFault' /\ TableExact' /\ RefCountExact' /\ EvictionLosesNothing'
      /\ FreeInv' /\ LiveData' /\ HeldInv' /\ EntryInv'
  BY DEF ReadPost, Post, IInv, TypeOK, NoFault, TableExact, RefCountExact,
         EvictionLosesNothing, FreeInv, LiveData, HeldInv, EntryInv, Live,
         BeingWrittenBack
<1>4. SearchInv(t)' /\ VictimInv(t)' /\ FillInv(t)'
  BY DEF ReadPost, Post, IInv, TypeOK, SearchInv, VictimInv, FillInv
<1> QED BY <1>1, <1>2, <1>3, <1>4 DEF IInv

(* After the completion the slot is in use with one token. *)
LEMMA ReadWaitPreserves ==
  ASSUME NEW t, Threads = {t}, IInv, ReadWait(t)
  PROVE  IInv'
<1> DEFINE s == slot[t]
           p == <<slot[t], tag[slot[t]]>>
<1>0. /\ s \in SlotIds /\ gaddr[t] \in Objs /\ tag[s] = gaddr[t]
      /\ addr_trans_table[tag[s]] = s /\ s \notin FreeSlots(free_list)
  BY DEF ReadWait, IInv, TypeOK, SearchInv, FillInv, FreeInv
<1>a. p \in Pairs /\ p[1] = s /\ ~Live(s)
  BY <1>0 DEF Pairs, Live
<1>b. /\ held[t][p] = 0
      /\ \A q \in Pairs : held[t][q] \in Nat /\ held[t][q] <= MaxHold
      /\ 1 <= MaxHold
  <2> HIDE DEF p
  <2>1. \A q \in Pairs : held[t][q] \in Nat /\ held[t][q] <= MaxHold
    BY DEF IInv, TypeOK, HeldInv
  <2>2. ~(held[t][p] > 0)
    BY <1>a DEF IInv, RefCountExact
  <2>3. held[t][p] = 0
    BY <2>1, <2>2, <1>a
  <2>4. held[t][p] < MaxHold
    BY <1>0 DEF ReadWait, IInv, HeldInv, p
  <2> QED BY <2>1, <2>3, <2>4
<1>c. /\ valid_io_rc' = [valid_io_rc EXCEPT ![s] = FLAG_VALID + 1]
      /\ held' = [held EXCEPT ![t] = [held[t] EXCEPT ![p] = 1]]
      /\ slot' = [slot EXCEPT ![t] = NoSlot]
      /\ UNCHANGED <<tag, dirty, free_list, mut>>
  BY <1>b DEF ReadWait, FetchDone, Return
<1> HIDE DEF p
<1>d. FLAG_VALID + 1 \in 0 .. WORD - 1
  BY DEF FLAG_VALID, WORD
<1>e. /\ held'[t][p] = 1
      /\ \A q \in Pairs \ {p} : held'[t][q] = held[t][q]
      /\ held' \in [Threads -> [Pairs -> Nat]]
  BY <1>c, <1>a DEF IInv, TypeOK
<1>f. /\ valid_io_rc'[s] = FLAG_VALID + 1
      /\ \A r \in SlotIds \ {s} : valid_io_rc'[r] = valid_io_rc[r]
      /\ valid_io_rc' \in [SlotIds -> 0 .. WORD - 1]
  BY <1>c, <1>d, <1>0 DEF IInv, TypeOK
<1>g. /\ slot'[t] = NoSlot
      /\ \A r \in SlotIds : Live(r)' <=> Live(r) \/ r = s
  BY <1>c, <1>0, NoSlotIsNone DEF Live, IInv, TypeOK
<1>1. TypeOK'
  <2>1. TypeOK
    BY DEF IInv
  <2>2. /\ cq' \in Nat
        /\ UNCHANGED <<sq, qp_err, unposted, vio, tag, dirty, slots, remote>>
        /\ UNCHANGED <<free_list, addr_trans_table, mut, latest, loaded, fault>>
    BY <2>1 DEF ReadWait, Complete, Return, TypeOK
  <2>3. /\ pc' \in [Threads -> PCs] /\ gaddr' \in [Threads -> Objs \cup {NoTag}]
        /\ slot' \in [Threads -> SlotIds \cup {NoSlot}]
        /\ entry' \in [Threads -> SlotIds \cup {NoSlot}]
    BY <2>1 DEF ReadWait, Return, TypeOK, PCs
  <2> QED BY <1>e, <1>f, <2>1, <2>2, <2>3 DEF TypeOK
<1>2. HeldInv'
  <2>1. \A q \in Pairs : held'[t][q] <= MaxHold
    BY <1>b, <1>e
  <2>2. ASSUME NEW q \in mut[t]
        PROVE  held'[t][q] > 0 /\ dirty[q[1]]
    <3>1. q \in Pairs /\ held[t][q] > 0 /\ dirty[q[1]]
      BY <2>2 DEF IInv, TypeOK, HeldInv
    <3> QED BY <3>1, <1>b, <1>e
  <2>3. pc'[t] = "idle"
    BY DEF ReadWait, Return, IInv, TypeOK
  <2> QED BY <2>1, <2>2, <2>3, <1>c DEF HeldInv
<1>3. FreeInv'
  <2>1. \A r \in FreeSlots(free_list) :
           /\ r \in SlotIds \ {s} /\ valid_io_rc[r] = 0
    BY <1>0, FreeAreSlots DEF IInv, FreeInv
  <2> QED BY <2>1, <1>c, <1>f, <1>g, NoSlotIsNone DEF IInv, FreeInv
<1>4. RefCountExact'
  <2>1. ASSUME NEW r \in SlotIds, Live(r)'
        PROVE  valid_io_rc'[r] = FLAG_VALID + held'[t][<<r, tag[r]>>]
    <3>1. CASE r = s
      BY <3>1, <1>e, <1>f DEF p
    <3>2. CASE r # s
      <4>1. Live(r) /\ valid_io_rc[r] = FLAG_VALID + held[t][<<r, tag[r]>>]
        BY <2>1, <3>2, <1>g DEF IInv, RefCountExact
      <4>2. <<r, tag[r]>> \in Pairs \ {p}
        BY <4>1, <3>2 DEF IInv, TableExact, Pairs, p
      <4> QED BY <4>1, <4>2, <3>2, <1>e, <1>f
    <3> QED BY <3>1, <3>2
  <2>2. ASSUME NEW q \in Pairs, held'[t][q] > 0
        PROVE  Live(q[1])' /\ tag[q[1]] = q[2]
    <3>1. CASE q = p
      BY <3>1, <1>a, <1>g, <1>0 DEF p
    <3>2. CASE q # p
      <4>1. Live(q[1]) /\ tag[q[1]] = q[2]
        BY <3>2, <2>2, <1>e DEF IInv, RefCountExact
      <4> QED BY <4>1, <1>g, PairShape
    <3> QED BY <3>1, <3>2
  <2> QED BY <2>1, <2>2, <1>c DEF RefCountExact
<1>5. TableExact'
  BY DEF ReadWait, Complete, Return, FetchDone, IInv, TypeOK, TableExact,
         Live, FillInv
<1>6. EntryInv'
  BY DEF ReadWait, Complete, Return, FetchDone, IInv, TypeOK, EntryInv, Live,
         SearchInv, FillInv, TableExact
<1>7. LiveData'
  BY DEF ReadWait, Complete, Return, FetchDone, IInv, TypeOK, LiveData, Live,
         SearchInv, FillInv, QueueInv
<1>8. NoFault' /\ EvictionLosesNothing'
  BY DEF ReadWait, Complete, Return, FetchDone, IInv, TypeOK, NoFault,
         EvictionLosesNothing, BeingWrittenBack
<1>9. QueueInv(t)' /\ SearchInv(t)' /\ VictimInv(t)' /\ FillInv(t)'
  BY DEF ReadWait, Complete, Return, FetchDone, IInv, TypeOK, QueueInv,
         SearchInv, VictimInv, FillInv
<1> QED BY <1>1, <1>2, <1>3, <1>4, <1>5, <1>6, <1>7, <1>8, <1>9 DEF IInv

(* cache_access_mut marks the slot dirty before the store. *)
LEMMA AccessMutPreserves ==
  ASSUME NEW t, Threads = {t}, IInv, NEW p \in Pairs, AccessMut(t, p)
  PROVE  IInv'
<1>1. TypeOK'
  BY DEF AccessMut, Pairs, IInv, TypeOK, PCs
<1>2. /\ NoFault' /\ TableExact' /\ RefCountExact' /\ EvictionLosesNothing'
      /\ FreeInv' /\ LiveData' /\ HeldInv' /\ EntryInv'
  BY DEF AccessMut, Pairs, IInv, TypeOK, NoFault, TableExact, RefCountExact,
         EvictionLosesNothing, FreeInv, LiveData, HeldInv, EntryInv, Live,
         BeingWrittenBack
<1>3. QueueInv(t)' /\ SearchInv(t)' /\ VictimInv(t)' /\ FillInv(t)'
  BY DEF AccessMut, Pairs, IInv, TypeOK, QueueInv, SearchInv, VictimInv,
         FillInv
<1> QED BY <1>1, <1>2, <1>3 DEF IInv

(* A store changes the object in the one slot that caches it. *)
LEMMA StorePreserves ==
  ASSUME NEW t, Threads = {t}, IInv, NEW p \in Pairs, NEW v \in Values,
         Store(t, p, v)
  PROVE  IInv'
<1>0. /\ p[1] \in SlotIds /\ p[2] \in Objs
      /\ Live(p[1]) /\ tag[p[1]] = p[2] /\ dirty[p[1]]
      /\ addr_trans_table[p[2]] = p[1]
  BY PairShape DEF Store, IInv, HeldInv, RefCountExact, TableExact
<1>a. /\ slots'[p[1]] = v /\ latest'[p[2]] = v
      /\ \A s \in SlotIds \ {p[1]} : slots'[s] = slots[s]
      /\ \A o \in Objs \ {p[2]} : latest'[o] = latest[o]
  BY <1>0 DEF Store, IInv, TypeOK
<1>1. EvictionLosesNothing'
  <2>1. ASSUME NEW o \in Objs, addr_trans_table[o] = NoSlot
        PROVE  latest'[o] = latest[o]
    BY <2>1, <1>0, <1>a, NoSlotIsNone
  <2> QED BY <2>1 DEF Store, IInv, EvictionLosesNothing, BeingWrittenBack
<1>2. LiveData'
  <2>1. ASSUME NEW s \in SlotIds, Live(s), s # p[1]
        PROVE  slots'[s] = slots[s] /\ latest'[tag[s]] = latest[tag[s]]
    BY <2>1, <1>0, <1>a DEF IInv, TableExact
  <2>2. \A s \in SlotIds : Live(s)' <=> Live(s)
    BY DEF Store, Live
  <2> QED BY <2>1, <2>2, <1>0, <1>a DEF Store, IInv, LiveData
<1>3. TypeOK'
  BY DEF Store, Pairs, IInv, TypeOK, PCs
<1>4. /\ NoFault' /\ TableExact' /\ RefCountExact' /\ FreeInv'
      /\ HeldInv' /\ EntryInv'
  BY DEF Store, Pairs, IInv, TypeOK, NoFault, TableExact, RefCountExact,
         FreeInv, HeldInv, EntryInv, Live
<1>5. QueueInv(t)' /\ SearchInv(t)' /\ VictimInv(t)' /\ FillInv(t)'
  BY DEF Store, Pairs, IInv, TypeOK, QueueInv, SearchInv, VictimInv, FillInv
<1> QED BY <1>1, <1>2, <1>3, <1>4, <1>5 DEF IInv

(* A load changes nothing the invariant speaks of. *)
LEMMA LoadPreserves ==
  ASSUME NEW t, Threads = {t}, IInv, NEW p \in Pairs, Load(t, p)
  PROVE  IInv'
<1>1. TypeOK'
  BY DEF Load, Pairs, IInv, TypeOK, PCs
<1>2. /\ NoFault' /\ TableExact' /\ RefCountExact' /\ EvictionLosesNothing'
      /\ FreeInv' /\ LiveData' /\ HeldInv' /\ EntryInv'
  BY DEF Load, Pairs, IInv, TypeOK, NoFault, TableExact, RefCountExact,
         EvictionLosesNothing, FreeInv, LiveData, HeldInv, EntryInv, Live,
         BeingWrittenBack
<1>3. QueueInv(t)' /\ SearchInv(t)' /\ VictimInv(t)' /\ FillInv(t)'
  BY DEF Load, Pairs, IInv, TypeOK, QueueInv, SearchInv, VictimInv, FillInv
<1> QED BY <1>1, <1>2, <1>3 DEF IInv

(* Freeing a token: the count and the tokens held shrink together. *)
LEMMA TokenFreePreserves ==
  ASSUME NEW t, Threads = {t}, IInv, MaxHold < FLAG_IO,
         NEW p \in Pairs, cache_token_free(t, p)
  PROVE  IInv'
<1> DEFINE s == p[1]
           h == held[t][p]
<1>0. s \in SlotIds /\ p[2] \in Objs /\ p = <<s, p[2]>>
  BY PairShape
<1>a. /\ h \in Nat /\ h > 0 /\ h <= MaxHold
      /\ \A q \in Pairs : held[t][q] \in Nat /\ held[t][q] <= MaxHold
  BY DEF cache_token_free, IInv, TypeOK, HeldInv
<1>b. Live(s) /\ tag[s] = p[2]
  BY <1>a DEF IInv, RefCountExact
<1>c. valid_io_rc[s] = FLAG_VALID + h
  BY <1>0, <1>b DEF IInv, RefCountExact
<1>d. /\ valid_io_rc[s] # 0
      /\ FLAG_VALID + (h - 1) \in 0 .. WORD - 1
      /\ valid_io_rc[s] - 1 = FLAG_VALID + (h - 1)
  <2> HIDE DEF h
  <2> QED BY <1>a, <1>c DEF FLAG_VALID, WORD
<1>e. /\ valid_io_rc' = [valid_io_rc EXCEPT ![s] = FLAG_VALID + (h - 1)]
      /\ held' = [held EXCEPT ![t] = [held[t] EXCEPT ![p] = h - 1]]
      /\ mut' = [mut EXCEPT ![t] = IF h = 1 THEN mut[t] \ {p} ELSE mut[t]]
      /\ UNCHANGED <<tag, dirty, slot, free_list, pc, gaddr, fault>>
  BY <1>b, <1>d DEF cache_token_free, Minus1
<1> HIDE DEF h
<1>f. /\ held'[t][p] = h - 1
      /\ \A q \in Pairs \ {p} : held'[t][q] = held[t][q]
      /\ held' \in [Threads -> [Pairs -> Nat]]
  BY <1>e, <1>a DEF IInv, TypeOK
<1>g. /\ valid_io_rc'[s] = FLAG_VALID + (h - 1)
      /\ \A r \in SlotIds \ {s} : valid_io_rc'[r] = valid_io_rc[r]
      /\ valid_io_rc' \in [SlotIds -> 0 .. WORD - 1]
  BY <1>e, <1>d, <1>0 DEF IInv, TypeOK
<1>h. /\ mut' \in [Threads -> SUBSET Pairs]
      /\ \A q \in mut'[t] : q \in mut[t] /\ (q = p => h # 1)
  BY <1>e DEF IInv, TypeOK
<1>1. TypeOK'
  BY <1>e, <1>f, <1>g, <1>h DEF cache_token_free, IInv, TypeOK
<1>2. HeldInv'
  <2>1. \A q \in Pairs : held'[t][q] <= MaxHold
    BY <1>a, <1>f
  <2>2. ASSUME NEW q \in mut'[t]
        PROVE  held'[t][q] > 0 /\ dirty[q[1]]
    <3>1. q \in Pairs /\ held[t][q] > 0 /\ dirty[q[1]]
      BY <2>2, <1>h DEF IInv, TypeOK, HeldInv
    <3>2. q = p => h - 1 > 0
      BY <2>2, <1>h, <1>a
    <3> QED BY <3>1, <3>2, <1>f
  <2>3. pc[t] = "idle"
    BY DEF cache_token_free
  <2> QED BY <2>1, <2>2, <2>3, <1>e DEF HeldInv
<1>3. FreeInv'
  <2>1. \A r \in FreeSlots(free_list) : r # s /\ r \in SlotIds
    BY <1>b, FreeAreSlots DEF Live, IInv
  <2> QED BY <2>1, <1>e, <1>g DEF IInv, FreeInv
<1>4. RefCountExact'
  <2>1. ASSUME NEW r \in SlotIds, Live(r)
        PROVE  valid_io_rc'[r] = FLAG_VALID + held'[t][<<r, tag[r]>>]
    <3>1. valid_io_rc[r] = FLAG_VALID + held[t][<<r, tag[r]>>]
      BY <2>1 DEF IInv, RefCountExact
    <3>2. CASE r = s
      BY <3>2, <1>0, <1>b, <1>f, <1>g
    <3>3. CASE r # s
      <4>1. <<r, tag[r]>> \in Pairs \ {p}
        BY <2>1, <3>3, <1>0 DEF IInv, TableExact, Pairs
      <4> QED BY <4>1, <3>1, <3>3, <1>f, <1>g
    <3> QED BY <3>2, <3>3
  <2>2. ASSUME NEW q \in Pairs, held'[t][q] > 0
        PROVE  Live(q[1]) /\ tag[q[1]] = q[2]
    <3>1. CASE q = p
      BY <3>1, <1>b
    <3>2. CASE q # p
      BY <3>2, <2>2, <1>f DEF IInv, RefCountExact
    <3> QED BY <3>1, <3>2
  <2> QED BY <2>1, <2>2, <1>e DEF RefCountExact, Live
<1>5. NoFault'
  BY DEF cache_token_free, Minus1, IInv, TypeOK, NoFault, RefCountExact
<1>6. /\ TableExact' /\ EvictionLosesNothing' /\ LiveData'
      /\ EntryInv'
  BY DEF cache_token_free, Minus1, IInv, TypeOK, TableExact,
         EvictionLosesNothing, LiveData, EntryInv, Live, BeingWrittenBack
<1>7. QueueInv(t)' /\ SearchInv(t)' /\ VictimInv(t)' /\ FillInv(t)'
  BY DEF cache_token_free, Minus1, IInv, TypeOK, QueueInv, SearchInv,
         VictimInv, FillInv
<1> QED BY <1>1, <1>2, <1>3, <1>4, <1>5, <1>6, <1>7 DEF IInv

(* The NIC moves the data of the one request outstanding. *)
LEMMA NicTransferPreserves ==
  ASSUME NEW t, Threads = {t}, IInv, NicTransfer
  PROVE  IInv'
<1>q. sq # << >> /\ sq' = Tail(sq) /\ cq' = cq + 1
  BY DEF NicTransfer
<1>r. cq = 0 /\ Tail(sq) = << >> /\ slot[t] \in SlotIds
  BY <1>q, OneRequest
<1>0. sq' = << >> /\ cq' = 1 /\ slot[t] \in SlotIds
  BY <1>q, <1>r
<1>a. ASSUME pc[t] = "wwait" PROVE TypeOK' /\ QueueInv(t)'
  <2>1. /\ tag[slot[t]] \in Objs
        /\ Head(sq) = [op |-> "write", slot |-> slot[t], tag |-> tag[slot[t]]]
    BY <1>a, OneRequest DEF NicTransfer
  <2>2. /\ remote' = [remote EXCEPT ![tag[slot[t]]] = slots[slot[t]]]
        /\ UNCHANGED slots
    BY <2>1 DEF NicTransfer
  <2>3. TypeOK'
    BY <1>0, <2>1, <2>2 DEF NicTransfer, IInv, TypeOK
  <2>4. QueueInv(t)'
    BY <1>a, <1>0, <2>2 DEF NicTransfer, QueueInv
  <2> QED BY <2>3, <2>4
<1>b. ASSUME pc[t] = "rwait" PROVE TypeOK' /\ QueueInv(t)'
  <2>1. /\ gaddr[t] \in Objs
        /\ Head(sq) = [op |-> "read", slot |-> slot[t], tag |-> gaddr[t]]
    BY <1>b, OneRequest DEF NicTransfer
  <2>2. /\ slots' = [slots EXCEPT ![slot[t]] = remote[gaddr[t]]]
        /\ UNCHANGED remote
    BY <2>1 DEF NicTransfer
  <2>3. TypeOK'
    BY <1>0, <2>1, <2>2 DEF NicTransfer, IInv, TypeOK
  <2>4. QueueInv(t)'
    <3>1. ~qp_err => remote[gaddr[t]] = latest[gaddr[t]]
      BY <1>0, <1>b, NoSlotIsNone DEF IInv, FillInv
    <3>2. slots'[slot[t]] = remote[gaddr[t]]
      BY <1>0, <2>2 DEF IInv, TypeOK
    <3> QED BY <3>1, <3>2, <1>b, <1>0 DEF NicTransfer, QueueInv
  <2> QED BY <2>3, <2>4
<1>1. TypeOK' /\ QueueInv(t)'
  BY <1>q, <1>a, <1>b, OneRequest
<1>2. EvictionLosesNothing'
  BY DEF NicTransfer, IInv, TypeOK, EvictionLosesNothing, BeingWrittenBack,
         SearchInv, FillInv, VictimInv, QueueInv
<1>3. LiveData'
  <2>1. /\ UNCHANGED <<valid_io_rc, tag, dirty, latest, qp_err>> /\ ~qp_err
        /\ tag \in [SlotIds -> Objs \cup {NoTag}]
        /\ remote \in [Objs -> Values] /\ slots \in [SlotIds -> Values]
    BY DEF NicTransfer, IInv, TypeOK, meta_vars, pool_vars
  <2>2. ASSUME NEW s \in SlotIds, Live(s)
        PROVE  /\ slots[s] = latest[tag[s]]
               /\ ~dirty[s] => remote[tag[s]] = latest[tag[s]]
    BY <2>1, <2>2 DEF IInv, LiveData
  <2>a. \A s \in SlotIds : Live(s)' => Live(s) /\ tag[s] \in Objs
    <3>1. \A s \in SlotIds : Live(s)' => Live(s)
      BY DEF NicTransfer, meta_vars, pool_vars, req_vars, Live, Owns
    <3> QED BY <3>1 DEF IInv, TableExact
  <2>b. SUFFICES ASSUME NEW s \in SlotIds, Live(s), tag[s] \in Objs
                 PROVE  /\ slots'[s] = latest[tag[s]]
                        /\ ~dirty[s] => remote'[tag[s]] = latest[tag[s]]
    BY <2>1, <2>a DEF LiveData
  <2>3. CASE pc[t] = "wwait"
    <3>0. Head(sq) = [op |-> "write", slot |-> slot[t], tag |-> tag[slot[t]]]
      BY <1>q, <2>3, OneRequest
    <3>1. /\ remote' = [remote EXCEPT ![tag[slot[t]]] = slots[slot[t]]]
          /\ UNCHANGED slots
      BY <3>0 DEF NicTransfer
    <3>2. slots[slot[t]] = latest[tag[slot[t]]]
      BY <2>1, <2>3 DEF IInv, VictimInv
    <3>3. \A o \in Objs : remote'[o] = IF o = tag[slot[t]] THEN latest[o] ELSE remote[o]
      BY <2>1, <3>1, <3>2
    <3> QED BY <2>2, <2>b, <3>1, <3>3
  <2>4. CASE pc[t] = "rwait"
    <3>0. Head(sq) = [op |-> "read", slot |-> slot[t], tag |-> gaddr[t]]
      BY <1>q, <2>4, OneRequest
    <3>1. /\ slots' = [slots EXCEPT ![slot[t]] = remote[gaddr[t]]]
          /\ UNCHANGED remote
      BY <3>0 DEF NicTransfer
    <3>2. ~Live(slot[t])
      BY DEF Live, Owns
    <3>3. slots'[s] = slots[s]
      BY <2>1, <2>b, <3>1, <3>2
    <3> QED BY <2>2, <2>b, <3>1, <3>3
  <2> QED BY <1>q, <2>3, <2>4, OneRequest
<1>4. VictimInv(t)'
  BY DEF NicTransfer, IInv, TypeOK, VictimInv, SearchInv, FillInv, QueueInv
<1>5. FillInv(t)'
  BY DEF NicTransfer, IInv, TypeOK, FillInv, SearchInv, VictimInv, QueueInv
<1>6. /\ NoFault' /\ TableExact' /\ RefCountExact' /\ FreeInv'
      /\ HeldInv' /\ EntryInv'
  BY DEF NicTransfer, IInv, TypeOK, NoFault, TableExact, RefCountExact,
         FreeInv, HeldInv, EntryInv, Live
<1>7. SearchInv(t)'
  BY DEF NicTransfer, IInv, TypeOK, SearchInv
<1> QED BY <1>1, <1>2, <1>3, <1>4, <1>5, <1>6, <1>7 DEF IInv

(* After an error only the bookkeeping is promised, and it holds. *)
LEMMA NicErrorPreserves ==
  ASSUME NEW t, Threads = {t}, IInv, NicError
  PROVE  IInv'
<1>0. sq' = << >> /\ cq' = 1 /\ pc[t] \in {"wwait", "rwait"}
  BY OneRequest DEF NicError
<1>1. QueueInv(t)'
  BY <1>0 DEF NicError, IInv, QueueInv
<1>2. TypeOK'
  BY DEF NicError, IInv, TypeOK, PCs
<1>3. /\ NoFault' /\ TableExact' /\ RefCountExact' /\ EvictionLosesNothing'
      /\ FreeInv' /\ LiveData' /\ HeldInv' /\ EntryInv'
  BY DEF NicError, IInv, TypeOK, NoFault, TableExact, RefCountExact,
         EvictionLosesNothing, FreeInv, LiveData, HeldInv, EntryInv, Live,
         BeingWrittenBack
<1>4. SearchInv(t)' /\ VictimInv(t)' /\ FillInv(t)'
  BY DEF NicError, IInv, TypeOK, SearchInv, VictimInv, FillInv
<1> QED BY <1>1, <1>2, <1>3, <1>4 DEF IInv

(* IInv is preserved by every step. *)
LEMMA NextPreserves ==
  ASSUME NEW t, Threads = {t}, ~NDEBUG, MaxHold < FLAG_IO, IInv, [Next]_vars
  PROVE  IInv'
<1>1. CASE UNCHANGED vars
  BY <1>1 DEF vars, IInv, TypeOK, NoFault, TableExact, RefCountExact,
              EvictionLosesNothing, BeingWrittenBack, FreeInv, LiveData, HeldInv,
              EntryInv, Live, QueueInv, SearchInv, VictimInv, FillInv
<1>2. CASE RequestStep(t)
  BY <1>2, LookupPreserves, InsertPreserves, LoadMetaPreserves,
     CheckTagPreserves, RefPreserves, NoSpinNoPush, PopPreserves,
     EvictPreserves, UnmapPreserves, FlushPreserves, WritePostPreserves,
     WriteWaitPreserves, InstallPreserves, PublishPreserves, ReadPostPreserves,
     ReadWaitPreserves DEF RequestStep
<1>3. CASE EvictRetry(t)
  BY <1>1, <1>3 DEF EvictRetry
<1>4. CASE ClientStep(t)
  BY <1>4, RequestPreserves, AccessMutPreserves, StorePreserves, LoadPreserves,
     TokenFreePreserves DEF ClientStep
<1>5. CASE Nic
  BY <1>5, NicTransferPreserves, NicErrorPreserves DEF Nic
<1> QED BY <1>1, <1>2, <1>3, <1>4, <1>5 DEF Next

-----------------------------------------------------------------------------
(***************************************************************************)
(* IInv holds in every state of the single-threaded cache, for any number  *)
(* of slots, objects and values: also when RDMA requests may fail.         *)
(***************************************************************************)
THEOREM CacheInvariant ==
  ASSUME SingleThreaded, ~NDEBUG, MaxHold < FLAG_IO
  PROVE  Spec => []IInv
<1>1. PICK t \in Threads : Threads = {t}
  BY DEF SingleThreaded
<1>2. Init => IInv
  BY <1>1, InitIInv
<1>3. IInv /\ [Next]_vars => IInv'
  BY <1>1, NextPreserves
<1> QED BY <1>2, <1>3, PTL DEF Spec

(***************************************************************************)
(* Type correctness of the single-threaded cache.                          *)
(***************************************************************************)
THEOREM CacheTypes ==
  ASSUME SingleThreaded, ~NDEBUG, MaxHold < FLAG_IO
  PROVE  Spec => []TypeOK
<1>1. IInv => TypeOK
  BY DEF IInv
<1> QED BY <1>1, CacheInvariant, PTL

(***************************************************************************)
(* The assertions of cache.c hold and push never meets an empty free list. *)
(***************************************************************************)
THEOREM CacheNoFault ==
  ASSUME SingleThreaded, ~NDEBUG, MaxHold < FLAG_IO
  PROVE  Spec => []NoFault
<1>1. IInv => NoFault
  BY DEF IInv
<1> QED BY <1>1, CacheInvariant, PTL

(***************************************************************************)
(* The translation table names exactly the slots in use.                   *)
(***************************************************************************)
THEOREM CacheTableExact ==
  ASSUME SingleThreaded, ~NDEBUG, MaxHold < FLAG_IO
  PROVE  Spec => []TableExact
<1>1. IInv => TableExact
  BY DEF IInv
<1> QED BY <1>1, CacheInvariant, PTL

(***************************************************************************)
(* The reference count of a slot in use counts the tokens on it.           *)
(***************************************************************************)
THEOREM CacheRefCountExact ==
  ASSUME SingleThreaded, ~NDEBUG, MaxHold < FLAG_IO
  PROVE  Spec => []RefCountExact
<1>1. IInv => RefCountExact
  BY DEF IInv
<1> QED BY <1>1, CacheInvariant, PTL

(***************************************************************************)
(* Eviction loses no update: what is not cached is in the memory pool.     *)
(***************************************************************************)
THEOREM CacheEvictionLosesNothing ==
  ASSUME SingleThreaded, ~NDEBUG, MaxHold < FLAG_IO
  PROVE  Spec => []EvictionLosesNothing
<1>1. IInv => EvictionLosesNothing
  BY DEF IInv
<1> QED BY <1>1, CacheInvariant, PTL

(* A token pins a slot in use for its object, and such a slot has its data. *)
LEMMA TokenData ==
  ASSUME IInv
  PROVE  TokenSeesLatest
BY PairShape DEF IInv, RefCountExact, LiveData, TokenSeesLatest

(***************************************************************************)
(* A token gives access to the last value stored in its object.            *)
(***************************************************************************)
THEOREM CacheTokenSeesLatest ==
  ASSUME SingleThreaded, ~NDEBUG, MaxHold < FLAG_IO
  PROVE  Spec => []TokenSeesLatest
<1>1. IInv => TokenSeesLatest
  BY TokenData
<1> QED BY <1>1, CacheInvariant, PTL

-----------------------------------------------------------------------------
(* Only the application's stores and loads touch what the memory shows. *)
LEMMA StepIsFlat ==
  ASSUME NEW t, Threads = {t}, ~RdmaMayFail, IInv, ~qp_err, [Next]_vars
  PROVE  [Flat!Next]_<<latest, loaded>> /\ ~qp_err'
<1>1. CASE UNCHANGED vars
  BY <1>1 DEF vars
<1>2. CASE RequestStep(t)
  BY <1>2 DEF RequestStep, Lookup, Insert, LoadMeta, CheckTag, Spin, Ref, Push,
              Pop, Evict, Unmap, Flush, WritePost, WriteWait, Install, Publish,
              ReadPost, ReadWait
<1>3. CASE EvictRetry(t)
  BY <1>1, <1>3 DEF EvictRetry
<1>4. CASE ClientStep(t)
  <2>1. ASSUME NEW o \in Objs, Request(t, o)
        PROVE  UNCHANGED <<latest, loaded, qp_err>>
    BY <2>1 DEF Request
  <2>2. ASSUME NEW p \in Pairs, AccessMut(t, p) \/ cache_token_free(t, p)
        PROVE  UNCHANGED <<latest, loaded, qp_err>>
    BY <2>2 DEF AccessMut, cache_token_free
  <2>3. ASSUME NEW p \in Pairs, Load(t, p)
        PROVE  Flat!Read(p[2]) /\ p[2] \in Objs /\ UNCHANGED qp_err
    <3>1. slots[p[1]] = latest[p[2]]
      BY <2>3, TokenData DEF Load, TokenSeesLatest
    <3> QED BY <3>1, <2>3, PairShape DEF Load, Flat!Read
  <2>4. ASSUME NEW p \in Pairs, NEW v \in Values, Store(t, p, v)
        PROVE  Flat!Write(p[2], v) /\ p[2] \in Objs /\ UNCHANGED qp_err
    BY <2>4, PairShape DEF Store, Flat!Write
  <2> QED BY <1>4, <2>1, <2>2, <2>3, <2>4 DEF ClientStep, Flat!Next
<1>5. CASE Nic
  BY <1>5 DEF Nic, NicTransfer, NicError
<1> QED BY <1>1, <1>2, <1>3, <1>4, <1>5 DEF Next

(***************************************************************************)
(* As long as the RDMA requests succeed, the cache with its evictions,     *)
(* write-backs and fetches implements the flat memory of the application.  *)
(***************************************************************************)
THEOREM CacheImplementsFlatMemory ==
  ASSUME SingleThreaded, ~NDEBUG, MaxHold < FLAG_IO, ~RdmaMayFail
  PROVE  Spec => ImplementsFlatMemory
<1>1. PICK t \in Threads : Threads = {t}
  BY DEF SingleThreaded
<1>2. Init => Flat!Init /\ ~qp_err
  BY DEF Init, Flat!Init
<1>3. IInv /\ ~qp_err /\ [Next]_vars => [Flat!Next]_<<latest, loaded>> /\ ~qp_err'
  BY <1>1, StepIsFlat
<1> QED BY <1>2, <1>3, CacheInvariant, PTL DEF Spec, ImplementsFlatMemory, Flat!Spec
=============================================================================
