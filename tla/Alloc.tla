-------------------------------- MODULE Alloc --------------------------------
(***************************************************************************)
(* The allocator of remote memory (runtime/compute/src/alloc.c) and the    *)
(* part of register_type (type.c) that creates its per-type state.  Each   *)
(* type has a list of chunks, pages of the pool, and allocates by moving   *)
(* the next_addr of the last one; new chunks come from one counter.        *)
(*                                                                         *)
(* disagg_alloc is split at its shared accesses.  A read-locked section    *)
(* that only tests is one step; one that goes on to allocate holds the     *)
(* lock (readers) until it has; the write-locked section of                *)
(* chunk_ref_list_insert is one step that waits for the readers.           *)
(***************************************************************************)
EXTENDS Addr, Sequences, FiniteSets

CONSTANTS
  Threads,
  Types,          \* type ids
  Reserved,       \* type ids 0 to 2: allocated with the size the caller gives
  TypeSize,       \* size of the objects of the registered types
  Sizes,          \* sizes callers give
  PageSize, PoolAddr, PageCount,   \* struct memory_info
  CallocMayFail,  \* TRUE when calloc in chunk_ref_list_insert may fail
  ReallocZeroed,  \* TRUE when reallocarray happens to return zeroed memory
  MaxGrabs        \* bound: chunks taken, those beyond the pool included

ASSUME AllocAssumption ==
  /\ Reserved \subseteq Types
  /\ TypeSize \in [Types \ Reserved -> Nat \ {0}]
  /\ Sizes \subseteq Nat
  /\ PageSize \in Nat \ {0}
  /\ PageCount \in Nat
  /\ PoolAddr \in Nat /\ PoolAddr % PageSize = 0   \* mmap returns whole pages
  /\ PoolAddr >= 2 * PageSize                      \* and not the first ones
  /\ CallocMayFail \in BOOLEAN
  /\ ReallocZeroed \in BOOLEAN
  /\ MaxGrabs \in Nat

VARIABLES
  registered,     \* types the application may allocate
  next_chunk,
  chunks,         \* type_chunk_refs[ty]: the next_addr of each chunk
  wild,           \* types whose head and tail are uninitialised memory
  readers,        \* threads that hold the read lock of a type
  pc, req, addr,  \* disagg_alloc: where it is, its arguments, the new chunk
  errno,
  allocs,         \* history: what disagg_alloc has returned
  fault

vars == <<registered, next_chunk, chunks, wild, readers, pc, req, addr, errno,
          allocs, fault>>

Upper    == mem_upper_bound(PoolAddr, PageSize, PageCount)
NoReq    == [type |-> "none", size |-> 0]
Reqs     == [type : Types, size : Nat] \cup {NoReq}
Blocks   == [type : Types, addr : Nat, size : Nat]

(* compute_context_create: the reserved types' lists are zeroed by calloc. *)
Init ==
  /\ registered = Reserved
  /\ next_chunk = PoolAddr
  /\ chunks = [ty \in Types |-> << >>]
  /\ wild = {}
  /\ readers = [ty \in Types |-> {}]
  /\ pc = [t \in Threads |-> "idle"]
  /\ req = [t \in Threads |-> NoReq]
  /\ addr = [t \in Threads |-> 0]
  /\ errno = [t \in Threads |-> "none"]
  /\ allocs = << >>
  /\ fault = "none"

(* register_type: the lock of the new list is initialised, head and tail   *)
(* are what reallocarray returned.  It may move the array of lists, and a  *)
(* thread inside disagg_alloc goes on with the old one.  A registration    *)
(* that fails (Lifecycle) leaves nothing for the allocator to use.         *)
register_type(t, ty) ==
  /\ pc[t] = "idle" /\ ty \notin registered
  /\ registered' = registered \cup {ty}
  /\ wild' \in IF ReallocZeroed THEN {wild} ELSE {wild, wild \cup {ty}}
  /\ fault' \in IF \A u \in Threads : pc[u] = "idle" THEN {fault}
                ELSE {fault, "moved_lists"}
  /\ UNCHANGED <<next_chunk, chunks, readers, pc, req, addr, errno, allocs>>

Goto(t, l) == pc' = [pc EXCEPT ![t] = l]

Return(t) ==
  /\ Goto(t, "idle")
  /\ req' = [req EXCEPT ![t] = NoReq]
  /\ addr' = [addr EXCEPT ![t] = 0]

real_size(ty, size) == IF ty \in Reserved THEN size ELSE TypeSize[ty]

CrossPage(size) == size > PageSize

disagg_alloc(t, ty, size) ==
  /\ pc[t] = "idle" /\ ty \in registered
  /\ IF CrossPage(real_size(ty, size))
       THEN errno' = [errno EXCEPT ![t] = "ENOMEM"] /\ UNCHANGED <<pc, req>>
       ELSE /\ next_chunk < PoolAddr + MaxGrabs * PageSize
            /\ req' = [req EXCEPT ![t] = [type |-> ty,
                                          size |-> real_size(ty, size)]]
            /\ Goto(t, "check")
            /\ UNCHANGED errno
  /\ UNCHANGED <<registered, next_chunk, chunks, wild, readers, addr, allocs,
                 fault>>

(* Bug: a chunk is taken for the first block of a type only.               *)
NeedsFirstChunk(list, size) == list = << >>

(* The test under the first read lock: no chunk, or no room in the last.   *)
NeedsChunk(list, size) ==
  \/ list = << >>
  \/ list[Len(list)] + size > PageOffset(PageSize, list[Len(list)]) + PageSize

Check(t) ==
  LET ty == req[t].type IN
  /\ pc[t] = "check"
  /\ IF ty \in wild
       THEN fault' = "wild_list" /\ UNCHANGED <<pc, readers>>
       ELSE /\ IF NeedsChunk(chunks[ty], req[t].size)
                 THEN Goto(t, "grab") /\ UNCHANGED readers
                 ELSE /\ Goto(t, "shift")
                      /\ readers' = [readers EXCEPT ![ty] = @ \cup {t}]
            /\ UNCHANGED fault
  /\ UNCHANGED <<registered, next_chunk, chunks, wild, req, addr, errno, allocs>>

NextChunkAfter(a) == a + PageSize

Grab(t) ==
  /\ pc[t] = "grab"
  /\ addr' = [addr EXCEPT ![t] = next_chunk]
  /\ next_chunk' = NextChunkAfter(next_chunk)
  /\ Goto(t, "insert")
  /\ UNCHANGED <<registered, chunks, wild, readers, req, errno, allocs, fault>>

(* Bug: the first address past the pool counts as inside.                  *)
DrainedOffByOne(a) == a > Upper

(* Bug: the end of the page is compared, and the last page is never used.  *)
DrainedByEnd(a) == a + PageSize >= Upper

Drained(a) == a >= Upper

(* chunk_ref_list_insert: append under the write lock, or return early     *)
(* when calloc fails.                                                      *)
chunk_ref_list_insert(ty, a) ==
  \/ /\ readers[ty] = {}
     /\ chunks' = [chunks EXCEPT ![ty] = Append(@, a)]
  \/ /\ CallocMayFail
     /\ UNCHANGED chunks

(* The result of the insertion is ignored; only then is the chunk compared *)
(* with the end of the pool.                                               *)
Insert(t) ==
  /\ pc[t] = "insert"
  /\ chunk_ref_list_insert(req[t].type, addr[t])
  /\ IF Drained(addr[t])
       THEN Return(t) /\ errno' = [errno EXCEPT ![t] = "ENOMEM"]
       ELSE Goto(t, "relock") /\ UNCHANGED <<req, addr, errno>>
  /\ UNCHANGED <<registered, next_chunk, wild, readers, allocs, fault>>

Relock(t) ==
  /\ pc[t] = "relock"
  /\ readers' = [readers EXCEPT ![req[t].type] = @ \cup {t}]
  /\ Goto(t, "shift")
  /\ UNCHANGED <<registered, next_chunk, chunks, wild, req, addr, errno, allocs,
                 fault>>

(* atomic_fetch_add on the next_addr of the tail, unlock and return.       *)
Shift(t) ==
  LET ty   == req[t].type
      list == chunks[ty]
      n    == Len(list)
  IN
  /\ pc[t] = "shift"
  /\ IF list = << >>
       THEN /\ fault' = "null_tail"
            /\ UNCHANGED <<chunks, readers, pc, req, addr, allocs>>
       ELSE /\ chunks' = [chunks EXCEPT ![ty][n] = @ + req[t].size]
            /\ allocs' = Append(allocs, [type |-> ty, addr |-> list[n],
                                         size |-> req[t].size])
            /\ readers' = [readers EXCEPT ![ty] = @ \ {t}]
            /\ Return(t)
            /\ UNCHANGED fault
  /\ UNCHANGED <<registered, next_chunk, wild, errno>>

AllocStep(t) ==
  Check(t) \/ Grab(t) \/ Insert(t) \/ Relock(t) \/ Shift(t)

Next ==
  /\ fault = "none"
  /\ \/ \E t \in Threads, ty \in Types : register_type(t, ty)
     \/ \E t \in Threads, ty \in Types, size \in Sizes : disagg_alloc(t, ty, size)
     \/ \E t \in Threads : AllocStep(t)

Spec == Init /\ [][Next]_vars
=============================================================================
