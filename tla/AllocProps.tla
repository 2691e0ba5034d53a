----------------------------- MODULE AllocProps -----------------------------
(***************************************************************************)
(* What the allocator promises (docs/DM_lib.md, alloc.c, context-internal.h)*)
(* and the invariant its proof is by induction on.                         *)
(***************************************************************************)
EXTENDS Alloc

PCs == {"idle", "check", "grab", "insert", "relock", "shift"}

(* Every variable of the allocator has its type.                           *)
TypeOK ==
  /\ registered \in SUBSET Types
  /\ next_chunk \in Nat
  /\ chunks \in [Types -> Seq(Nat)]
  /\ wild \in SUBSET Types
  /\ readers \in [Types -> SUBSET Threads]
  /\ pc \in [Threads -> PCs]
  /\ req \in [Threads -> Reqs]
  /\ addr \in [Threads -> Nat]
  /\ errno \in [Threads -> {"none", "ENOMEM"}]
  /\ allocs \in Seq(Blocks)
  /\ fault \in {"none", "null_tail", "wild_list", "moved_lists"}

(* No byte of remote memory belongs to two of the blocks that disagg_alloc *)
(* returned, whatever their types.                                         *)
Disjoint ==
  \A i, j \in 1..Len(allocs) :
    i < j => \/ allocs[i].addr + allocs[i].size <= allocs[j].addr
             \/ allocs[j].addr + allocs[j].size <= allocs[i].addr

(* Every block that disagg_alloc returned is inside the pool of the memory *)
(* node, whose end is computed by mem_upper_bound.                         *)
InPool ==
  \A i \in 1..Len(allocs) :
    PoolAddr <= allocs[i].addr /\ allocs[i].addr + allocs[i].size <= Upper

(* extract_tag, by which the cache names objects, maps every address       *)
(* inside an object of a registered type to the address disagg_alloc       *)
(* returned for it: the cache never splits an object or merges two.        *)
TagIsStart ==
  \A i \in 1..Len(allocs) :
    LET b == allocs[i] IN
    b.type \notin Reserved =>
      \A k \in 0..(b.size - 1) :
        extract_tag(PageSize, TypeSize[b.type], b.addr + k) = b.addr

(* "remote memory pool is drained" (alloc.c): with one thread, disagg_alloc *)
(* finds the pool drained only when every page of it holds a block: no     *)
(* page was skipped, or taken and lost.                                    *)
PoolPages == {PoolAddr + k * PageSize : k \in 0 .. PageCount - 1}

HasBlock(p) == \E i \in 1..Len(allocs) : allocs[i].addr = p

DrainedOnlyWhenFull ==
  \A t \in Threads :
    pc[t] = "insert" /\ Drained(addr[t]) => \A p \in PoolPages : HasBlock(p)

(* "find chunk available for allocation; this currently has to be the last *)
(* chunk [...], or all chunks are filled" (alloc.c): a new chunk is taken  *)
(* only when the block does not fit behind the last one.  Every page start *)
(* is a multiple of the page size, so a full page ends at remainder 0.     *)
NewChunkOnlyWhenFull ==
  \A t \in Threads :
    pc[t] = "grab" =>
      LET list == chunks[req[t].type] IN
      \/ list = << >>
      \/ PageOffset(PageSize, list[Len(list)]) = 0
      \/ PageOffset(PageSize, list[Len(list)]) + req[t].size > PageSize

-----------------------------------------------------------------------------
(* The inductive invariant of the single-threaded allocator.  Chunks are   *)
(* whole pages in the order of next_chunk; every block starts a page of    *)
(* its own, because the test of disagg_alloc always asks for a new chunk.  *)
IsPage(a) == \E k \in 0..a : a = PoolAddr + k * PageSize

SizeIsOfType(ty, size) == ty \notin Reserved => size = TypeSize[ty]

NextChunkIsPage == IsPage(next_chunk)

BlocksArePages ==
  \A i \in 1..Len(allocs) :
    /\ IsPage(allocs[i].addr)
    /\ allocs[i].addr < Upper
    /\ allocs[i].size <= PageSize
    /\ SizeIsOfType(allocs[i].type, allocs[i].size)

BlocksAscend ==
  \A i, j \in 1..Len(allocs) :
    i < j => allocs[i].addr + PageSize <= allocs[j].addr

BlocksBelow(a) ==
  \A i \in 1..Len(allocs) : allocs[i].addr + PageSize <= a

(* The chunk in hand is the newest one and no block is in it yet.          *)
HandIsNew ==
  /\ BlocksBelow(next_chunk)
  /\ \A t \in Threads :
       /\ pc[t] # "idle" => /\ req[t] \in [type : Types, size : Nat]
                            /\ req[t].size <= PageSize
                            /\ SizeIsOfType(req[t].type, req[t].size)
       /\ pc[t] \in {"insert", "relock", "shift"} =>
            /\ IsPage(addr[t])
            /\ addr[t] + PageSize = next_chunk
            /\ BlocksBelow(addr[t])
       /\ pc[t] \in {"relock", "shift"} =>
            /\ addr[t] < Upper
            /\ LET list == chunks[req[t].type] IN
               list # << >> /\ list[Len(list)] = addr[t]

(* A page the counter has passed holds a block, or is in hand.             *)
NoPageLost ==
  \A p \in PoolPages :
    p < next_chunk =>
      \/ HasBlock(p)
      \/ \E t \in Threads : pc[t] \in {"insert", "relock", "shift"} /\ addr[t] = p

ChunksInReach ==
  \A ty \in Types : \A i \in 1..Len(chunks[ty]) : chunks[ty][i] >= PoolAddr

NothingWild == wild = {} /\ fault = "none"

(* All of it, checked on the small instance before it is proved.           *)
AllocInv ==
  /\ TypeOK
  /\ NextChunkIsPage
  /\ BlocksArePages
  /\ BlocksAscend
  /\ HandIsNew
  /\ NoPageLost
  /\ ChunksInReach
  /\ NothingWild
=============================================================================
