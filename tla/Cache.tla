-------------------------------- MODULE Cache --------------------------------
(***************************************************************************)
(* The compute-side object cache (runtime/compute/src/cache.c): one cache  *)
(* block, that is, the cache of one registered type.  Blocks of different  *)
(* types share only the address translation table, whose keys carry the    *)
(* type, and the RDMA connection.                                          *)
(*                                                                         *)
(* Threads call cache_request, cache_access, cache_access_mut and          *)
(* cache_token_free.  cache_request is split at its shared accesses: one   *)
(* action per atomic operation, hash map call, free list call, posted work *)
(* request and awaited completion.  The hash map is external and its calls *)
(* are taken to be atomic, as are the calls on the free list; neither is   *)
(* protected by a lock in the code, which today runs with one thread.      *)
(*                                                                         *)
(* A global address is abstracted to the object that contains it: the tag  *)
(* extract_tag computes names the object, the offset inside the object     *)
(* plays no part in the protocol.                                          *)
(***************************************************************************)
EXTENDS FreeList, FiniteSets

CONSTANTS
  Threads,       \* application threads that use the cache
  SlotCount,     \* slots of the block (256 in cache_block_init)
  Objs,          \* objects of this type in the remote memory pool
  NoTag,         \* the tag 0 of a slot that holds no object
  Values,        \* contents of an object
  Zero,          \* the content of zeroed memory (calloc, anonymous mmap)
  FLAG_IO,       \* the I/O bit of valid_io_rc (1 << 30)
  NDEBUG,        \* TRUE in a build that compiles assert() to nothing
  RdmaMayFail,   \* TRUE when work requests may fail, posted or completing
  MaxHold,       \* bound: tokens a thread holds on one slot and object
  MaxPinned      \* bound: different tokens a thread holds when it asks for more

ASSUME CacheAssumption ==
  /\ SlotCount \in Nat \ {0}
  /\ NoTag \notin Objs
  /\ Zero \in Values
  /\ FLAG_IO \in Nat \ {0}
  /\ NDEBUG \in BOOLEAN
  /\ RdmaMayFail \in BOOLEAN
  /\ MaxHold \in Nat /\ MaxPinned \in Nat

VARIABLES
  tag, dirty, valid_io_rc,  \* metadata[s]
  slots,                    \* the cached contents
  free_list,
  addr_trans_table,         \* object -> slot index
  remote,                   \* the memory pool of the memory server
  sq, cq, qp_err,           \* posted work requests, completions, QP in error
  unposted,                 \* history: requests whose posting failed
  pc, gaddr, slot,          \* cache_request: where it is, its argument, `slot`
  entry, vio,               \* cache_try_request: entry found, valid_io_rc read
  held, mut,                \* tokens a thread holds; those with a mutable pointer
  latest, loaded,           \* history: last store per object; the last load
  fault                     \* how the process died

meta_vars == <<tag, dirty, valid_io_rc>>
pool_vars == <<free_list, addr_trans_table>>
data_vars == <<slots, remote, latest, loaded>>
rdma_vars == <<sq, cq, qp_err, unposted>>
req_vars  == <<gaddr, slot, entry, vio>>
hold_vars == <<held, mut>>
vars == <<tag, dirty, valid_io_rc, free_list, addr_trans_table, slots, remote,
          latest, loaded, sq, cq, qp_err, unposted, pc, gaddr, slot, entry,
          vio, held, mut, fault>>

SlotIds == 0 .. SlotCount - 1
NoSlot  == -1
Pairs   == SlotIds \X Objs       \* a token: the slot it pins and the tag it is for
WRs     == [op : {"read", "write"}, slot : SlotIds, tag : Objs]
PCs     == {"idle", "lookup", "insert", "load", "tagck", "spin", "ref", "push",
            "pop", "evict", "unmap", "flush", "wpost", "wwait",
            "install", "publish", "rpost", "rwait"}

(* The word valid_io_rc is [valid:1|io:1|rc]: arithmetic on it wraps.      *)
FLAG_VALID  == 2 * FLAG_IO
WORD        == 4 * FLAG_IO
IsValid(v)  == v >= FLAG_VALID
InIO(v)     == \/ v >= FLAG_VALID + FLAG_IO
               \/ v >= FLAG_IO /\ v < FLAG_VALID
Minus1(v)   == IF v = 0 THEN WORD - 1 ELSE v - 1

(* Bug: a hit is not counted.                                              *)
NotCounted(v) == v

Plus1(v)    == IF v + 1 = WORD THEN 0 ELSE v + 1

(***************************************************************************)
(* cache_block_init: zeroed slots and metadata, every slot on the free     *)
(* list.  The translation table is empty and the memory pool zeroed.       *)
(***************************************************************************)
Init ==
  /\ tag = [s \in SlotIds |-> NoTag]
  /\ dirty = [s \in SlotIds |-> FALSE]
  /\ valid_io_rc = [s \in SlotIds |-> 0]
  /\ slots = [s \in SlotIds |-> Zero]
  /\ free_list = cache_free_list_new(0, SlotCount - 1)
  /\ addr_trans_table = [o \in Objs |-> NoSlot]
  /\ remote = [o \in Objs |-> Zero]
  /\ sq = << >> /\ cq = 0 /\ qp_err = FALSE /\ unposted = 0
  /\ pc = [t \in Threads |-> "idle"]
  /\ gaddr = [t \in Threads |-> NoTag]
  /\ slot = [t \in Threads |-> NoSlot]
  /\ entry = [t \in Threads |-> NoSlot]
  /\ vio = [t \in Threads |-> 0]
  /\ held = [t \in Threads |-> [p \in Pairs |-> 0]]
  /\ mut = [t \in Threads |-> {}]
  /\ latest = [o \in Objs |-> Zero]
  /\ loaded = << >>
  /\ fault = "none"

Goto(t, l) == pc' = [pc EXCEPT ![t] = l]

(* cache_request returns a token to its caller. *)
Return(t, s, o) ==
  /\ held' = [held EXCEPT ![t][<<s, o>>] = @ + 1]
  /\ Goto(t, "idle")
  /\ gaddr' = [gaddr EXCEPT ![t] = NoTag]
  /\ slot' = [slot EXCEPT ![t] = NoSlot]
  /\ entry' = [entry EXCEPT ![t] = NoSlot]
  /\ UNCHANGED vio

-----------------------------------------------------------------------------
(* cache_request and, under it, cache_try_request. *)

Request(t, o) ==
  /\ pc[t] = "idle"
  /\ \A s \in SlotIds : held[t][<<s, o>>] < MaxHold
  /\ Cardinality({p \in Pairs : held[t][p] > 0}) <= MaxPinned
  /\ gaddr' = [gaddr EXCEPT ![t] = o]
  /\ Goto(t, "lookup")
  /\ UNCHANGED <<meta_vars, pool_vars, data_vars, rdma_vars, slot, entry, vio,
                 hold_vars, fault>>

(* hashmap_get.  The first call has no free slot to offer and a miss ends  *)
(* it; the second call goes on to insert its slot.                         *)
Lookup(t) ==
  LET e == addr_trans_table[gaddr[t]] IN
  /\ pc[t] = "lookup"
  /\ entry' = [entry EXCEPT ![t] = e]
  /\ Goto(t, IF e # NoSlot THEN "load"
             ELSE IF slot[t] = NoSlot THEN "pop" ELSE "insert")
  /\ UNCHANGED <<meta_vars, pool_vars, data_vars, rdma_vars, gaddr, slot, vio,
                 hold_vars, fault>>

(* assert(hashmap_set(...) == NULL): with NDEBUG the call itself is gone.  *)
Insert(t) ==
  /\ pc[t] = "insert"
  /\ Goto(t, "rpost")
  /\ IF NDEBUG
       THEN UNCHANGED <<addr_trans_table, fault>>
       ELSE /\ addr_trans_table' = [addr_trans_table EXCEPT ![gaddr[t]] = slot[t]]
            /\ fault' = IF addr_trans_table[gaddr[t]] = NoSlot
                          THEN fault ELSE "assert_insert"
  /\ UNCHANGED <<meta_vars, free_list, data_vars, rdma_vars, req_vars,
                 hold_vars>>

(* cache_try_request returns CACHE_TOKEN_NULL; its locals die.             *)
Miss(t) ==
  /\ Goto(t, IF slot[t] = NoSlot THEN "pop" ELSE "rpost")
  /\ entry' = [entry EXCEPT ![t] = NoSlot]
  /\ vio' = [vio EXCEPT ![t] = 0]

LoadMeta(t) ==
  LET v == valid_io_rc[entry[t]] IN
  /\ pc[t] = "load"
  /\ IF IsValid(v)
       THEN /\ Goto(t, "tagck")
            /\ vio' = [vio EXCEPT ![t] = v]
            /\ UNCHANGED entry
       ELSE Miss(t)
  /\ UNCHANGED <<meta_vars, pool_vars, data_vars, rdma_vars, gaddr, slot,
                 hold_vars, fault>>

CheckTag(t) ==
  /\ pc[t] = "tagck"
  /\ IF tag[entry[t]] = gaddr[t]
       THEN /\ Goto(t, IF InIO(vio[t]) THEN "spin" ELSE "ref")
            /\ vio' = [vio EXCEPT ![t] = 0]
            /\ UNCHANGED entry
       ELSE Miss(t)
  /\ UNCHANGED <<meta_vars, pool_vars, data_vars, rdma_vars, gaddr, slot,
                 hold_vars, fault>>

Spin(t) ==
  /\ pc[t] = "spin"
  /\ ~InIO(valid_io_rc[entry[t]])
  /\ Goto(t, "ref")
  /\ UNCHANGED <<meta_vars, pool_vars, data_vars, rdma_vars, req_vars,
                 hold_vars, fault>>

Ref(t) ==
  /\ pc[t] = "ref"
  /\ valid_io_rc' = [valid_io_rc EXCEPT ![entry[t]] = Plus1(@)]
  /\ IF slot[t] = NoSlot
       THEN Return(t, entry[t], gaddr[t])
       ELSE Goto(t, "push") /\ UNCHANGED <<req_vars, held>>
  /\ UNCHANGED <<tag, dirty, pool_vars, data_vars, rdma_vars, mut, fault>>

(* Another thread cached the object first: give the prepared slot back.    *)
Push(t) ==
  /\ pc[t] = "push"
  /\ IF HasTail(free_list)
       THEN /\ free_list' = cache_free_list_push(free_list, slot[t])
            /\ Return(t, entry[t], gaddr[t])
            /\ UNCHANGED fault
       ELSE /\ fault' = "null_push"
            /\ UNCHANGED <<free_list, req_vars, held, pc>>
  /\ UNCHANGED <<meta_vars, addr_trans_table, data_vars, rdma_vars, mut>>

Pop(t) ==
  LET s == PoppedSlot(free_list) IN
  /\ pc[t] = "pop"
  /\ free_list' = ListAfterPop(free_list)
  /\ slot' = [slot EXCEPT ![t] = s]
  /\ Goto(t, IF s < 0 THEN "evict" ELSE "install")
  /\ UNCHANGED <<meta_vars, addr_trans_table, data_vars, rdma_vars, gaddr,
                 entry, vio, hold_vars, fault>>

(* Bugs: the reference count, or the I/O bit, is not part of the criteria. *)
EvictableIgnoringCount(v) == IsValid(v) /\ ~InIO(v)
EvictableInIO(v)          == v \in {FLAG_VALID, FLAG_VALID + FLAG_IO}

(* Valid, not in I/O, reference count 0.                                   *)
Evictable(v) == v = FLAG_VALID

(* The victim is random; the compare-and-swap fails on a slot that is      *)
(* invalid, in I/O or referenced, and another victim is drawn.             *)
EvictRetry(t) ==
  /\ pc[t] = "evict"
  /\ \E s \in SlotIds : ~Evictable(valid_io_rc[s])
  /\ UNCHANGED vars

Evict(t) ==
  /\ pc[t] = "evict"
  /\ \E s \in SlotIds :
       /\ Evictable(valid_io_rc[s])
       /\ valid_io_rc' = [valid_io_rc EXCEPT ![s] = 0]
       /\ slot' = [slot EXCEPT ![t] = s]
  /\ Goto(t, "unmap")
  /\ UNCHANGED <<tag, dirty, pool_vars, data_vars, rdma_vars, gaddr, entry, vio,
                 hold_vars, fault>>

(* Bug: the victim stays in the table.                                     *)
EntryKept(s) == addr_trans_table

(* hashmap_delete of the victim's tag. *)
EntryRemoved(s) ==
  [o \in Objs |-> IF o = tag[s] THEN NoSlot ELSE addr_trans_table[o]]

Unmap(t) ==
  /\ pc[t] = "unmap"
  /\ addr_trans_table' = EntryRemoved(slot[t])
  /\ Goto(t, "flush")
  /\ UNCHANGED <<meta_vars, free_list, data_vars, rdma_vars, req_vars,
                 hold_vars, fault>>

(* Bug: the dirty bit is not looked at.                                    *)
NeverWrittenBack(s) == FALSE

NeedsWriteBack(s) == dirty[s]

(* A clean victim is done with, its tag reset to 0; a dirty one is written *)
(* back first.                                                             *)
Flush(t) ==
  /\ pc[t] = "flush"
  /\ dirty' = [dirty EXCEPT ![slot[t]] = FALSE]
  /\ IF NeedsWriteBack(slot[t])
       THEN Goto(t, "wpost") /\ UNCHANGED tag
       ELSE Goto(t, "install") /\ tag' = [tag EXCEPT ![slot[t]] = NoTag]
  /\ UNCHANGED <<valid_io_rc, pool_vars, data_vars, rdma_vars, req_vars,
                 hold_vars, fault>>

(* rdma_post_write and rdma_post_read.  Whether they fail is not looked    *)
(* at: the thread goes on to wait for a completion.                        *)
Post(t, op) ==
  \/ /\ sq' = Append(sq, [op |-> op, slot |-> slot[t], tag |-> tag[slot[t]]])
     /\ UNCHANGED unposted
  \/ RdmaMayFail /\ unposted' = unposted + 1 /\ UNCHANGED sq

WritePost(t) ==
  /\ pc[t] = "wpost"
  /\ Post(t, "write")
  /\ Goto(t, "wwait")
  /\ UNCHANGED <<meta_vars, pool_vars, data_vars, cq, qp_err, req_vars,
                 hold_vars, fault>>

(* Bug: the completion is looked at and left in the queue.                 *)
CompletionPeeked == cq > 0 /\ UNCHANGED cq

(* rdma_get_send_comp takes whichever completion is next; its status is    *)
(* not looked at.                                                          *)
Complete == cq > 0 /\ cq' = cq - 1

WriteWait(t) ==
  /\ pc[t] = "wwait"
  /\ Complete
  /\ tag' = [tag EXCEPT ![slot[t]] = NoTag]
  /\ Goto(t, "install")
  /\ UNCHANGED <<dirty, valid_io_rc, pool_vars, data_vars, sq, qp_err, unposted,
                 req_vars, hold_vars, fault>>

Install(t) ==
  /\ pc[t] = "install"
  /\ tag' = [tag EXCEPT ![slot[t]] = gaddr[t]]
  /\ dirty' = [dirty EXCEPT ![slot[t]] = FALSE]
  /\ Goto(t, "publish")
  /\ UNCHANGED <<valid_io_rc, pool_vars, data_vars, rdma_vars, req_vars,
                 hold_vars, fault>>

(* Bug: the slot is published as if it were filled.                        *)
PublishedFilled == FLAG_VALID

Fetching == FLAG_VALID + FLAG_IO

Publish(t) ==
  /\ pc[t] = "publish"
  /\ valid_io_rc' = [valid_io_rc EXCEPT ![slot[t]] = Fetching]
  /\ Goto(t, "lookup")
  /\ UNCHANGED <<tag, dirty, pool_vars, data_vars, rdma_vars, req_vars,
                 hold_vars, fault>>

ReadPost(t) ==
  /\ pc[t] = "rpost"
  /\ Post(t, "read")
  /\ Goto(t, "rwait")
  /\ UNCHANGED <<meta_vars, pool_vars, data_vars, cq, qp_err, req_vars,
                 hold_vars, fault>>

(* Bugs: the I/O bit is not unset, or the count not bumped.                *)
IoBitKept  == FLAG_VALID + FLAG_IO + 1
CountUnset == FLAG_VALID

FetchDone == FLAG_VALID + 1

(* Fetch done: unset the I/O bit, set the count to 1, return the token.    *)
ReadWait(t) ==
  /\ pc[t] = "rwait"
  /\ Complete
  /\ valid_io_rc' = [valid_io_rc EXCEPT ![slot[t]] = FetchDone]
  /\ Return(t, slot[t], tag[slot[t]])
  /\ UNCHANGED <<tag, dirty, pool_vars, data_vars, sq, qp_err, unposted, mut,
                 fault>>

-----------------------------------------------------------------------------
(* The other calls, made by a thread that holds the token p. *)

(* cache_access_mut: the caller now has a pointer it may store through.    *)
AccessMut(t, p) ==
  /\ pc[t] = "idle" /\ held[t][p] > 0 /\ p \notin mut[t]
  /\ dirty' = [dirty EXCEPT ![p[1]] = TRUE]
  /\ mut' = [mut EXCEPT ![t] = @ \cup {p}]
  /\ UNCHANGED <<tag, valid_io_rc, pool_vars, data_vars, rdma_vars, req_vars,
                 held, pc, fault>>

(* A store through the pointer cache_access_mut returned. *)
Store(t, p, v) ==
  /\ pc[t] = "idle" /\ p \in mut[t]
  /\ slots' = [slots EXCEPT ![p[1]] = v]
  /\ latest' = [latest EXCEPT ![p[2]] = v] /\ loaded' = << >>
  /\ UNCHANGED <<meta_vars, pool_vars, remote, rdma_vars, req_vars, hold_vars,
                 pc, fault>>

(* A load through the pointer cache_access returned. *)
Load(t, p) ==
  /\ pc[t] = "idle" /\ held[t][p] > 0
  /\ loaded' = <<p[2], slots[p[1]]>>
  /\ UNCHANGED <<meta_vars, pool_vars, slots, remote, latest, rdma_vars,
                 req_vars, hold_vars, pc, fault>>

cache_token_free(t, p) ==
  /\ pc[t] = "idle" /\ held[t][p] > 0
  /\ IF ~NDEBUG /\ tag[p[1]] # p[2]
       THEN fault' = "assert_free" /\ UNCHANGED <<valid_io_rc, hold_vars>>
       ELSE /\ valid_io_rc' = [valid_io_rc EXCEPT ![p[1]] = Minus1(@)]
            /\ held' = [held EXCEPT ![t][p] = @ - 1]
            /\ mut' = [mut EXCEPT ![t] = IF held[t][p] = 1 THEN @ \ {p} ELSE @]
            /\ UNCHANGED fault
  /\ UNCHANGED <<tag, dirty, pool_vars, data_vars, rdma_vars, req_vars, pc>>

-----------------------------------------------------------------------------
(***************************************************************************)
(* External: the reliable connection executes work requests in order.  An  *)
(* error puts the queue pair in its error state, in which every later      *)
(* request also completes with an error and moves no data.                 *)
(***************************************************************************)
NicTransfer ==
  /\ sq # << >> /\ ~qp_err
  /\ LET wr == Head(sq) IN
       IF wr.op = "read"
         THEN /\ slots' = [slots EXCEPT ![wr.slot] = remote[wr.tag]]
              /\ UNCHANGED remote
         ELSE /\ remote' = [remote EXCEPT ![wr.tag] = slots[wr.slot]]
              /\ UNCHANGED slots
  /\ sq' = Tail(sq) /\ cq' = cq + 1
  /\ UNCHANGED <<meta_vars, pool_vars, latest, loaded, qp_err, unposted,
                 req_vars, hold_vars, pc, fault>>

NicError ==
  /\ sq # << >> /\ (RdmaMayFail \/ qp_err)
  /\ qp_err' = TRUE
  /\ sq' = Tail(sq) /\ cq' = cq + 1
  /\ UNCHANGED <<meta_vars, pool_vars, data_vars, unposted, req_vars, hold_vars,
                 pc, fault>>

RequestStep(t) ==
  \/ Lookup(t) \/ Insert(t) \/ LoadMeta(t) \/ CheckTag(t) \/ Spin(t) \/ Ref(t)
  \/ Push(t) \/ Pop(t) \/ Evict(t) \/ Unmap(t) \/ Flush(t) \/ WritePost(t)
  \/ WriteWait(t) \/ Install(t) \/ Publish(t) \/ ReadPost(t) \/ ReadWait(t)

ClientStep(t) ==
  \/ \E o \in Objs : Request(t, o)
  \/ \E p \in Pairs : AccessMut(t, p) \/ Load(t, p) \/ cache_token_free(t, p)
  \/ \E p \in Pairs, v \in Values : Store(t, p, v)

Nic == NicTransfer \/ NicError

Next ==
  /\ fault = "none"
  /\ \/ \E t \in Threads : RequestStep(t) \/ EvictRetry(t) \/ ClientStep(t)
     \/ Nic

Spec == Init /\ [][Next]_vars
=============================================================================
