----------------------------- MODULE CacheProps -----------------------------
(***************************************************************************)
(* What makes the object cache correct.  The documented state of the       *)
(* library (docs/version.md, Version 0.1) is single-threaded: the          *)
(* properties of the first part are those of one thread.                   *)
(***************************************************************************)
EXTENDS Cache

SingleThreaded == \E t \in Threads : Threads = {t}

(* The slot a request has popped or evicted, until it is handed out or     *)
(* given back.                                                             *)
Owns(t, s) == slot[t] = s

(* In use: neither free nor in the hands of a request. *)
Live(s) == s \notin FreeSlots(free_list) /\ \A t \in Threads : ~Owns(t, s)

(***************************************************************************)
(* Types of the variables.                                                 *)
(***************************************************************************)
TypeOK ==
  /\ tag \in [SlotIds -> Objs \cup {NoTag}]
  /\ dirty \in [SlotIds -> BOOLEAN]
  /\ valid_io_rc \in [SlotIds -> 0 .. WORD - 1]
  /\ slots \in [SlotIds -> Values]
  /\ free_list \in Seq([begin : SlotIds, back : SlotIds])
  /\ addr_trans_table \in [Objs -> SlotIds \cup {NoSlot}]
  /\ remote \in [Objs -> Values]
  /\ sq \in Seq(WRs) /\ cq \in Nat /\ qp_err \in BOOLEAN /\ unposted \in Nat
  /\ pc \in [Threads -> PCs]
  /\ gaddr \in [Threads -> Objs \cup {NoTag}]
  /\ slot \in [Threads -> SlotIds \cup {NoSlot}]
  /\ entry \in [Threads -> SlotIds \cup {NoSlot}]
  /\ vio \in [Threads -> 0 .. WORD - 1]
  /\ held \in [Threads -> [Pairs -> Nat]]
  /\ mut \in [Threads -> SUBSET Pairs]
  /\ latest \in [Objs -> Values]
  /\ loaded \in {<< >>} \cup (Objs \X Values)
  /\ fault \in {"none", "assert_insert", "assert_free", "null_push"}

(***************************************************************************)
(* No assertion of cache.c fails and push never stores through the NULL    *)
(* tail of an empty free list.                                             *)
(***************************************************************************)
NoFault == fault = "none"

(***************************************************************************)
(* As long as no work request has failed, every token gives access to the  *)
(* last value stored in its object: the slot it pins is neither reused for *)
(* another object nor a second, stale copy of the same object.             *)
(***************************************************************************)
TokenSeesLatest ==
  \A t \in Threads, p \in Pairs :
    held[t][p] > 0 /\ ~qp_err => slots[p[1]] = latest[p[2]]

(***************************************************************************)
(* An object that no slot caches, and that no eviction is still writing    *)
(* back, is up to date in the memory pool: eviction loses no update.       *)
(***************************************************************************)
BeingWrittenBack(o) ==
  \E t \in Threads :
    /\ \/ pc[t] \in {"flush", "wpost"}
       \/ pc[t] = "wwait" /\ cq = 0
    /\ tag[slot[t]] = o

EvictionLosesNothing ==
  \A o \in Objs :
    addr_trans_table[o] = NoSlot /\ ~BeingWrittenBack(o) /\ ~qp_err
      => remote[o] = latest[o]

(***************************************************************************)
(* The translation table names exactly the slots in use, each under the    *)
(* object it caches: no object is cached twice, no slot in use is          *)
(* unreachable, and no entry leads to a slot that is free.                 *)
(***************************************************************************)
TableExact ==
  /\ \A s \in SlotIds : Live(s) => /\ tag[s] \in Objs
                                   /\ addr_trans_table[tag[s]] = s
  /\ \A o \in Objs :
       LET s == addr_trans_table[o] IN
       s # NoSlot => tag[s] = o /\ s \notin FreeSlots(free_list)

(***************************************************************************)
(* The reference count of a slot in use is the number of tokens the thread *)
(* holds on it, and a token is only ever held on a slot in use for the     *)
(* token's object: eviction and reuse wait for cache_token_free.           *)
(***************************************************************************)
RefCountExact ==
  \A t \in Threads :
    /\ \A s \in SlotIds :
         Live(s) => valid_io_rc[s] = FLAG_VALID + held[t][<<s, tag[s]>>]
    /\ \A p \in Pairs : held[t][p] > 0 => Live(p[1]) /\ tag[p[1]] = p[2]

(***************************************************************************)
(* The cache implements the flat memory: fetching, evicting and writing    *)
(* back are invisible, and a load returns the last value stored in its     *)
(* object.                                                                 *)
(***************************************************************************)
Flat == INSTANCE FlatMemory WITH mem <- latest
ImplementsFlatMemory == Flat!Spec

-----------------------------------------------------------------------------
(***************************************************************************)
(* The inductive invariant behind these properties for one thread, by the  *)
(* place cache_request has reached.                                        *)
(***************************************************************************)

(* Free slots are invalid, and the free list never names a slot twice. *)
FreeInv ==
  /\ WellFormed(free_list)
  /\ \A s \in FreeSlots(free_list) :
       valid_io_rc[s] = 0 /\ \A t \in Threads : ~Owns(t, s)

(* A slot in use holds the last value of its object; clean, so does the pool. *)
LiveData ==
  \A s \in SlotIds : Live(s) /\ ~qp_err =>
    /\ slots[s] = latest[tag[s]]
    /\ ~dirty[s] => remote[tag[s]] = latest[tag[s]]

HeldInv ==
  \A t \in Threads :
    /\ \A p \in Pairs : held[t][p] <= MaxHold
    /\ \A p \in mut[t] : held[t][p] > 0 /\ dirty[p[1]]
    /\ pc[t] # "idle" =>
         \A s \in SlotIds : held[t][<<s, gaddr[t]>>] < MaxHold

(* An entry leads to a slot in use, or to the one being unmapped or filled. *)
EntryInv ==
  \A o \in Objs :
    LET s == addr_trans_table[o] IN
    s # NoSlot => \/ Live(s)
                  \/ \E t \in Threads :
                       Owns(t, s) /\ pc[t] \in {"unmap", "rpost", "rwait"}

(* The one outstanding work request belongs to the waiting thread; if it   *)
(* could not be posted there is none, and the thread waits for ever.       *)
QueueInv(t) ==
  CASE pc[t] = "wwait" ->
         \/ /\ sq = <<[op |-> "write", slot |-> slot[t], tag |-> tag[slot[t]]]>>
            /\ cq = 0
         \/ sq = << >> /\ cq \in {0, 1}
    [] pc[t] = "rwait" ->
         \/ /\ sq = <<[op |-> "read", slot |-> slot[t], tag |-> gaddr[t]]>>
            /\ cq = 0
         \/ /\ sq = << >> /\ cq \in {0, 1}
            /\ cq = 1 /\ ~qp_err => slots[slot[t]] = latest[gaddr[t]]
    [] OTHER -> sq = << >> /\ cq = 0

(* Before a slot is found: nothing is owned; the entry found is the object's. *)
SearchInv(t) ==
  slot[t] = NoSlot =>
    /\ pc[t] \in {"idle", "lookup", "load", "tagck", "ref", "pop", "evict"}
    /\ pc[t] # "idle" => gaddr[t] \in Objs
    /\ pc[t] \in {"load", "tagck", "ref"} =>
         entry[t] # NoSlot /\ entry[t] = addr_trans_table[gaddr[t]]
    /\ pc[t] = "tagck" => vio[t] = valid_io_rc[entry[t]]
    /\ pc[t] \in {"pop", "evict"} => addr_trans_table[gaddr[t]] = NoSlot

(* The victim until it is clean: its data are the last, or the pool's are. *)
VictimInv(t) ==
  LET s == slot[t] IN
  pc[t] \in {"unmap", "flush", "wpost", "wwait"} =>
    /\ valid_io_rc[s] = 0
    /\ tag[s] \in Objs
    /\ tag[s] # gaddr[t]
    /\ addr_trans_table[tag[s]] = IF pc[t] = "unmap" THEN s ELSE NoSlot
    /\ ~qp_err => slots[s] = latest[tag[s]]
    /\ pc[t] \in {"unmap", "flush"} /\ ~dirty[s] /\ ~qp_err
         => remote[tag[s]] = latest[tag[s]]

(* The slot being filled is the object's and clean, and so is the pool. *)
FillInv(t) ==
  LET s == slot[t] IN
  /\ s # NoSlot =>
       /\ gaddr[t] \in Objs
       /\ pc[t] \in {"unmap", "flush", "wpost", "wwait", "install", "publish",
                     "lookup", "insert", "rpost", "rwait"}
       /\ pc[t] \notin {"rpost", "rwait"} => addr_trans_table[gaddr[t]] = NoSlot
       /\ pc[t] \in {"install", "publish"} => valid_io_rc[s] = 0
       /\ pc[t] \in {"publish", "lookup", "insert", "rpost", "rwait"}
            => tag[s] = gaddr[t] /\ ~dirty[s]
       /\ pc[t] \in {"lookup", "insert", "rpost", "rwait"}
            => valid_io_rc[s] = FLAG_VALID + FLAG_IO
       /\ pc[t] \in {"rpost", "rwait"} =>
            /\ addr_trans_table[gaddr[t]] = s
            /\ ~qp_err => remote[gaddr[t]] = latest[gaddr[t]]

(***************************************************************************)
(* The inductive invariant.                                                *)
(***************************************************************************)
IInv ==
  /\ TypeOK /\ NoFault /\ TableExact /\ RefCountExact /\ EvictionLosesNothing
  /\ FreeInv /\ LiveData /\ HeldInv /\ EntryInv
  /\ \A t \in Threads :
       QueueInv(t) /\ SearchInv(t) /\ VictimInv(t) /\ FillInv(t)

-----------------------------------------------------------------------------
(* What remains true when several threads use the cache. *)

(***************************************************************************)
(* A slot is in one place: the free list never names a slot twice, nor one *)
(* that a request has popped or evicted, and no two requests prepare the   *)
(* same slot, whatever the interleaving of their evictions, hits, fetches  *)
(* and push backs.                                                         *)
(***************************************************************************)
SlotInOnePlace ==
  /\ WellFormed(free_list)
  /\ \A t \in Threads : slot[t] \notin FreeSlots(free_list)
  /\ \A t, u \in Threads : t # u /\ slot[t] # NoSlot => slot[t] # slot[u]

(***************************************************************************)
(* Every thread that waits in rdma_get_send_comp will get a completion,    *)
(* though perhaps one of another thread's request: the requests posted and *)
(* the completions not yet taken are as many as the waiting threads, but   *)
(* for one thread per request whose posting failed unnoticed.              *)
(***************************************************************************)
CompletionsMatchWaiters ==
  Len(sq) + cq + unposted =
    Cardinality({t \in Threads : pc[t] \in {"wwait", "rwait"}})

-----------------------------------------------------------------------------
(* What the code and its documents say and the code does not guarantee. *)

(***************************************************************************)
(* cache.c, "valid: ours, cache hit", and assert(meta->tag == token.tag):  *)
(* the slot a token pins holds the token's object.                         *)
(***************************************************************************)
HitIsOurs ==
  \A t \in Threads, p \in Pairs : held[t][p] > 0 => tag[p[1]] = p[2]

-----------------------------------------------------------------------------
(***************************************************************************)
(* Fairness: a thread inside cache_request keeps running and the NIC       *)
(* executes what is posted.  Evict is weakly fair because rand() does not  *)
(* avoid an evictable slot for ever.  Nothing is assumed of the            *)
(* application: it need not free a token or make a call.                   *)
(***************************************************************************)
FairSpec ==
  /\ Spec
  /\ \A t \in Threads : WF_vars(fault = "none" /\ RequestStep(t))
  /\ WF_vars(fault = "none" /\ Nic)

(***************************************************************************)
(* A cache_request that is made while the application pins fewer objects   *)
(* than the block has slots returns, unless the posting of a work request  *)
(* has failed: that goes unnoticed, and the wait for its completion does   *)
(* not end.                                                                *)
(***************************************************************************)
SomeSlotUnpinned(t) ==
  \E s \in SlotIds : \A o \in Objs : held[t][<<s, o>>] = 0

RequestReturns ==
  \A t \in Threads :
    (pc[t] # "idle" /\ SomeSlotUnpinned(t)) ~> (pc[t] = "idle" \/ unposted > 0)

=============================================================================
