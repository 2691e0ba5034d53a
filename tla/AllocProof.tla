----------------------------- MODULE AllocProof -----------------------------
(***************************************************************************)
(* The single-threaded allocator is correct for every pool, page size and  *)
(* set of types: AllocInv is inductive, and the promises follow from it.   *)
(***************************************************************************)
EXTENDS AllocProps, TLAPS

(* mem_upper_bound and the arithmetic of pages: two pages that differ are  *)
(* a page size apart, so a page that starts in the pool ends in it.        *)
LEMMA PageArith ==
  ASSUME NEW p \in Nat \ {0}, NEW k \in Nat, NEW c \in Nat
  PROVE  /\ k * p \in Nat
         /\ k <= k * p
         /\ (k + 1) * p = k * p + p
         /\ k * p < c * p => k * p + p <= c * p
<1>1. k * p \in Nat /\ c * p \in Nat /\ (k + 1) * p = k * p + p
  BY SMT
<1>2. k <= k * p
  BY SMT
<1>3. ASSUME k * p < c * p PROVE k * p + p <= c * p
  <2>1. k < c
    <3>1. SUFFICES ASSUME c <= k PROVE FALSE
      BY SMT
    <3>2. PICK d \in Nat : k = c + d
      BY <3>1, SMT
    <3>3. k * p = c * p + d * p /\ d * p \in Nat
      BY <3>2, SMT
    <3> QED BY <3>3, <1>1, <1>3, SMT
  <2>2. PICK d \in Nat : c = (k + 1) + d
    BY <2>1, SMT
  <2>3. c * p = (k + 1) * p + d * p /\ d * p \in Nat
    BY <2>2, SMT
  <2> QED BY <2>3, <1>1, SMT
<1> QED BY <1>1, <1>2, <1>3

(* The page offset of an address that is r bytes into a page is r.         *)
LEMMA Remainder ==
  ASSUME NEW p \in Nat \ {0}, NEW q \in Nat, NEW r \in 0..(p - 1)
  PROVE  (q * p + r) % p = r
BY SMT

(* An address at offset 0 of its page is a whole number of pages.          *)
LEMMA WholePages ==
  ASSUME NEW p \in Nat \ {0}, NEW a \in Nat, a % p = 0
  PROVE  \E b \in Nat : a = b * p
<1>1. a \div p \in Nat /\ a = (a \div p) * p
  BY SMT
<1> QED BY <1>1

(* What chunk_ref_list_insert makes of a list.                             *)
LEMMA Appended ==
  ASSUME NEW s \in Seq(Nat), NEW x \in Nat
  PROVE  /\ Append(s, x) \in Seq(Nat) /\ Append(s, x) # << >>
         /\ Len(Append(s, x)) = Len(s) + 1
         /\ Append(s, x)[Len(s) + 1] = x
         /\ \A i \in 1..Len(s) : Append(s, x)[i] = s[i]
OBVIOUS

(* What the fetch_add on the tail makes of it.                             *)
LEMMA Updated ==
  ASSUME NEW s \in Seq(Nat), NEW n \in 1..Len(s), NEW x \in Nat
  PROVE  LET u == [s EXCEPT ![n] = x] IN
         /\ u \in Seq(Nat) /\ Len(u) = Len(s)
         /\ \A i \in 1..Len(s) : u[i] = IF i = n THEN x ELSE s[i]
OBVIOUS

(* Pages follow each other, start in or after the pool, and one that       *)
(* starts below mem_upper_bound ends at it or below.                       *)
LEMMA Pages ==
  /\ IsPage(PoolAddr)
  /\ Upper \in Nat
  /\ \A a \in Nat : IsPage(a) =>
       /\ IsPage(a + PageSize)
       /\ PoolAddr <= a
       /\ a < Upper => a + PageSize <= Upper
<1> USE AllocAssumption
<1>1. IsPage(PoolAddr)
  <2>1. PoolAddr = PoolAddr + 0 * PageSize /\ 0 \in 0..PoolAddr
    BY SMT
  <2> QED BY <2>1 DEF IsPage
<1>2. Upper = PoolAddr + PageCount * PageSize /\ Upper \in Nat
  BY SMT DEF Upper, mem_upper_bound
<1>3. ASSUME NEW a \in Nat, IsPage(a)
      PROVE  /\ IsPage(a + PageSize)
             /\ PoolAddr <= a
             /\ a < Upper => a + PageSize <= Upper
  <2>1. PICK k \in 0..a : a = PoolAddr + k * PageSize
    BY <1>3 DEF IsPage
  <2>2. k * PageSize \in Nat /\ (k + 1) * PageSize = k * PageSize + PageSize
    BY <2>1, SMT
  <2>3. a + PageSize = PoolAddr + (k + 1) * PageSize
    BY <2>1, <2>2, SMT
  <2>4. k + 1 \in 0..(a + PageSize)
    BY SMT
  <2>5. IsPage(a + PageSize)
    BY <2>3, <2>4 DEF IsPage
  <2>6. k * PageSize < PageCount * PageSize =>
          k * PageSize + PageSize <= PageCount * PageSize
    BY PageArith
  <2> QED BY <2>1, <2>2, <2>5, <2>6, <1>2, SMT
<1> QED BY <1>1, <1>2, <1>3

(* The pages of the pool start below mem_upper_bound.                      *)
LEMMA PoolPage ==
  ASSUME NEW p \in PoolPages
  PROVE  p \in Nat /\ PoolAddr <= p /\ p < Upper
<1> USE AllocAssumption
<1>1. PICK k \in 0 .. PageCount - 1 : p = PoolAddr + k * PageSize
  BY DEF PoolPages
<1>2. k \in Nat
  BY <1>1
<1>3. PICK d \in Nat : PageCount = k + 1 + d
  <2>1. PageCount = k + 1 + (PageCount - 1 - k) /\ PageCount - 1 - k \in Nat
    BY <1>1
  <2> QED BY <2>1
<1>4. /\ PageCount * PageSize = k * PageSize + PageSize + d * PageSize
      /\ d * PageSize \in Nat /\ k * PageSize \in Nat
  BY <1>2, <1>3, SMT
<1> QED BY <1>1, <1>4 DEF Upper, mem_upper_bound

(* A page of the pool that starts within a page starts with it.            *)
LEMMA SamePage ==
  ASSUME NEW a \in Nat, IsPage(a), NEW p \in PoolPages,
         p < a + PageSize, ~(p < a)
  PROVE  p \in Nat /\ p = a
<1> USE AllocAssumption
<1>1. PICK k \in 0 .. PageCount - 1 : p = PoolAddr + k * PageSize
  BY DEF PoolPages
<1>2. PICK m \in 0..a : a = PoolAddr + m * PageSize
  BY DEF IsPage
<1>3. k * PageSize \in Nat /\ m * PageSize \in Nat
  BY <1>1, <1>2, SMT
<1>4. m * PageSize < k * PageSize => m * PageSize + PageSize <= k * PageSize
  BY PageArith
<1> QED BY <1>1, <1>2, <1>3, <1>4, SMT

(* The test of disagg_alloc adds a page size to the offset within the page *)
(* where it means the start of the page: above the second page of the      *)
(* address space it always asks for a new chunk.                           *)
LEMMA AlwaysNeedsChunk ==
  ASSUME NEW list \in Seq(Nat), NEW size \in Nat,
         \A i \in 1..Len(list) : list[i] >= PoolAddr
  PROVE  NeedsChunk(list, size)
<1> USE AllocAssumption
<1>1. CASE list = << >>
  BY <1>1 DEF NeedsChunk
<1>2. CASE list # << >>
  <2>1. Len(list) \in 1..Len(list)
    BY <1>2
  <2>2. list[Len(list)] \in Nat /\ list[Len(list)] >= PoolAddr
    BY <2>1
  <2>3. list[Len(list)] % PageSize \in 0..(PageSize - 1)
    BY <2>2, SMT
  <2>4. ASSUME NEW x \in Nat, x >= PoolAddr, NEW o \in 0..(PageSize - 1)
        PROVE  x + size > o + PageSize
    BY <2>4, SMT
  <2>5. list[Len(list)] + size > (list[Len(list)] % PageSize) + PageSize
    BY <2>2, <2>3, <2>4
  <2> QED BY <2>5 DEF NeedsChunk, PageOffset
<1> QED BY <1>1, <1>2

-----------------------------------------------------------------------------
(* The setting of the theorems: one thread (docs/version.md, v0.1), and an *)
(* environment in which calloc succeeds and reallocarray returns zeroes.   *)
SingleThread == \A t, u \in Threads : t = u

Setting == SingleThread /\ ~CallocMayFail /\ ReallocZeroed

(* A step that hands out no page, and after which every page in hand is    *)
(* still in that hand, loses none.                                         *)
LEMMA HandsKept ==
  ASSUME NoPageLost, UNCHANGED <<next_chunk, allocs>>,
         \A t \in Threads :
           pc[t] \in {"insert", "relock", "shift"} =>
             pc'[t] \in {"insert", "relock", "shift"} /\ addr'[t] = addr[t]
  PROVE  NoPageLost'
BY DEF NoPageLost, HasBlock, PoolPages

(* compute_context_create establishes the invariant.                       *)
LEMMA InitEstablishes == Init => AllocInv
<1> SUFFICES ASSUME Init PROVE AllocInv
  OBVIOUS
<1> USE AllocAssumption DEF Init
<1>1. TypeOK
  BY DEF TypeOK, PCs, Reqs
<1>2. NextChunkIsPage
  BY Pages DEF NextChunkIsPage
<1>3. BlocksArePages /\ BlocksAscend /\ HandIsNew /\ ChunksInReach
  BY DEF BlocksArePages, BlocksAscend, HandIsNew, BlocksBelow, ChunksInReach
<1>4. NoPageLost
  <2>1. ASSUME NEW p \in PoolPages PROVE ~(p < PoolAddr)
    BY PoolPage
  <2> QED BY <2>1 DEF NoPageLost
<1> QED BY <1>1, <1>2, <1>3, <1>4 DEF AllocInv, NothingWild

(* register_type adds a type whose list is empty.                          *)
LEMMA RegisterPreserves ==
  ASSUME AllocInv, Setting, NEW t \in Threads, NEW ty \in Types,
         register_type(t, ty)
  PROVE  AllocInv'
<1>0. \A u \in Threads : pc[u] = "idle"
  BY DEF register_type, Setting, SingleThread
<1> USE AllocAssumption DEF register_type, AllocInv, Setting
<1>1. TypeOK'
  BY <1>0 DEF TypeOK
<1>2. NextChunkIsPage' /\ BlocksArePages' /\ BlocksAscend'
  BY DEF NextChunkIsPage, BlocksArePages, BlocksAscend, SizeIsOfType, IsPage
<1>3. HandIsNew'
  BY DEF HandIsNew, BlocksBelow, SizeIsOfType, IsPage
<1>4. ChunksInReach' /\ NothingWild'
  BY <1>0 DEF ChunksInReach, NothingWild
<1>5. NoPageLost'
  BY HandsKept
<1> QED BY <1>1, <1>2, <1>3, <1>4, <1>5

(* The size in hand is a natural number.                                   *)
LEMMA RealSize ==
  ASSUME NEW ty \in Types, NEW size \in Sizes
  PROVE  real_size(ty, size) \in Nat
BY AllocAssumption DEF real_size

(* The entry of disagg_alloc refuses sizes above a page.                   *)
LEMMA EntryPreserves ==
  ASSUME AllocInv, NEW t \in Threads, NEW ty \in Types, NEW size \in Sizes,
         disagg_alloc(t, ty, size)
  PROVE  AllocInv'
<1> USE AllocAssumption, RealSize DEF disagg_alloc, AllocInv, Goto
<1>1. TypeOK'
  <2>1. [type |-> ty, size |-> real_size(ty, size)] \in Reqs
    BY DEF Reqs
  <2>2. errno' \in [Threads -> {"none", "ENOMEM"}]
    BY DEF TypeOK
  <2>3. req' \in [Threads -> Reqs]
    BY <2>1 DEF TypeOK
  <2>4. pc' \in [Threads -> PCs]
    BY DEF TypeOK, PCs
  <2> QED BY <2>2, <2>3, <2>4 DEF TypeOK
<1>2. NextChunkIsPage' /\ BlocksArePages' /\ BlocksAscend'
  BY DEF NextChunkIsPage, BlocksArePages, BlocksAscend, SizeIsOfType, IsPage
<1>3. HandIsNew'
  <2>1. BlocksBelow(next_chunk)'
    BY DEF HandIsNew, BlocksBelow
  <2>2. CASE CrossPage(real_size(ty, size))
    BY <2>1, <2>2 DEF HandIsNew, BlocksBelow, SizeIsOfType, IsPage
  <2>3. CASE ~ CrossPage(real_size(ty, size))
    <3>1. req' = [req EXCEPT ![t] = [type |-> ty, size |-> real_size(ty, size)]]
          /\ pc' = [pc EXCEPT ![t] = "check"]
      BY <2>3
    <3>2. real_size(ty, size) <= PageSize
      BY <2>3 DEF CrossPage
    <3>3. [type |-> ty, size |-> real_size(ty, size)] \in [type : Types, size : Nat]
      OBVIOUS
    <3>4. SizeIsOfType(ty, real_size(ty, size))
      BY DEF SizeIsOfType, real_size
    <3>5. /\ HandIsNew /\ pc \in [Threads -> PCs] /\ req \in [Threads -> Reqs]
          /\ UNCHANGED <<next_chunk, chunks, addr, allocs>>
      BY <2>3 DEF TypeOK
    <3> HIDE DEF disagg_alloc, AllocInv
    <3> QED BY <2>1, <3>1, <3>2, <3>3, <3>4, <3>5 DEF HandIsNew,
              BlocksBelow, SizeIsOfType, IsPage
  <2> QED BY <2>2, <2>3
<1>4. ChunksInReach' /\ NothingWild'
  BY DEF ChunksInReach, NothingWild
<1>5. NoPageLost'
  <2>1. \A u \in Threads : u # t => pc'[u] = pc[u]
    BY DEF TypeOK
  <2> QED BY <2>1, HandsKept
<1> QED BY <1>1, <1>2, <1>3, <1>4, <1>5

(* The first read-locked section always goes on to take a chunk.           *)
LEMMA CheckPreserves ==
  ASSUME AllocInv, NEW t \in Threads, Check(t)
  PROVE  AllocInv'
<1> DEFINE ty == req[t].type
<1>1. pc[t] = "check" /\ req[t] \in [type : Types, size : Nat]
  BY DEF Check, AllocInv, HandIsNew
<1>2. chunks[ty] \in Seq(Nat) /\ req[t].size \in Nat /\ ty \in Types
  BY <1>1 DEF AllocInv, TypeOK
<1>3. NeedsChunk(chunks[ty], req[t].size)
  BY <1>2, AlwaysNeedsChunk DEF AllocInv, ChunksInReach
<1>4. ty \notin wild
  BY DEF AllocInv, NothingWild
<1>5. /\ pc' = [pc EXCEPT ![t] = "grab"]
      /\ UNCHANGED <<registered, next_chunk, chunks, wild, readers, req, addr,
                     errno, allocs, fault>>
  BY <1>3, <1>4 DEF Check, Goto
<1>6. TypeOK'
  BY <1>5 DEF AllocInv, TypeOK, PCs
<1>7. HandIsNew'
  BY <1>1, <1>5 DEF AllocInv, TypeOK, HandIsNew, BlocksBelow, SizeIsOfType, IsPage
<1>8. NoPageLost'
  <2>1. \A u \in Threads : u # t => pc'[u] = pc[u]
    BY <1>5 DEF AllocInv, TypeOK
  <2> QED BY <1>1, <1>5, <2>1, HandsKept DEF AllocInv
<1> QED BY <1>5, <1>6, <1>7, <1>8 DEF AllocInv, NextChunkIsPage, BlocksArePages,
          BlocksAscend, ChunksInReach, NothingWild, SizeIsOfType, IsPage

(* The parts of a block that disagg_alloc returned.                        *)
LEMMA BlockParts ==
  ASSUME AllocInv, NEW i \in 1..Len(allocs)
  PROVE  /\ allocs[i] \in Blocks
         /\ allocs[i].addr \in Nat /\ allocs[i].size \in Nat
         /\ allocs[i].type \in Types
<1>1. allocs[i] \in Blocks
  BY DEF AllocInv, TypeOK
<1> QED BY <1>1 DEF Blocks

(* The counter gives a page that no block is in.                           *)
LEMMA GrabPreserves ==
  ASSUME AllocInv, SingleThread, NEW t \in Threads, Grab(t)
  PROVE  AllocInv'
<1> USE AllocAssumption
<1>1. /\ pc[t] = "grab" /\ pc' = [pc EXCEPT ![t] = "insert"]
      /\ addr' = [addr EXCEPT ![t] = next_chunk]
      /\ next_chunk' = next_chunk + PageSize
      /\ UNCHANGED <<registered, chunks, wild, readers, req, errno, allocs,
                     fault>>
  BY DEF Grab, Goto, NextChunkAfter
<1>2. next_chunk \in Nat /\ IsPage(next_chunk)
  BY DEF AllocInv, TypeOK, NextChunkIsPage
<1>3. TypeOK'
  BY <1>1, <1>2 DEF AllocInv, TypeOK, PCs
<1>4. NextChunkIsPage'
  BY <1>1, <1>2, Pages DEF NextChunkIsPage, IsPage
<1>5. HandIsNew'
  <2>1. BlocksBelow(next_chunk)
    BY DEF AllocInv, HandIsNew
  <2>2. BlocksBelow(next_chunk + PageSize)
    BY <2>1, <1>2, BlockParts DEF BlocksBelow
  <2>3. /\ pc'[t] = "insert" /\ addr'[t] = next_chunk
        /\ req'[t] \in [type : Types, size : Nat] /\ req'[t].size <= PageSize
        /\ SizeIsOfType(req'[t].type, req'[t].size)
    BY <1>1 DEF AllocInv, HandIsNew, TypeOK
  <2>4. BlocksBelow(addr[t])' /\ BlocksBelow(next_chunk)'
    BY <1>1, <2>1, <2>2, <2>3 DEF BlocksBelow
  <2>5. IsPage(addr[t])'
    BY <1>2, <2>3 DEF IsPage
  <2>6. SizeIsOfType(req[t].type, req[t].size)'
    BY <2>3 DEF SizeIsOfType
  <2>7. \A u \in Threads : u = t
    BY DEF SingleThread
  <2> QED BY <1>1, <2>3, <2>4, <2>5, <2>6, <2>7 DEF HandIsNew
<1>6. NoPageLost'
  <2>1. SUFFICES ASSUME NEW p \in PoolPages, p < next_chunk'
                 PROVE  HasBlock(p)' \/ addr'[t] = p
    BY <1>1 DEF NoPageLost, PoolPages, AllocInv, TypeOK
  <2>2. CASE p < next_chunk
    <3>1. \A u \in Threads : pc[u] \notin {"insert", "relock", "shift"}
      BY <1>1 DEF SingleThread
    <3>2. HasBlock(p)
      BY <2>2, <3>1 DEF AllocInv, NoPageLost
    <3> QED BY <3>2, <1>1 DEF HasBlock
  <2>3. CASE ~(p < next_chunk)
    <3>1. p \in Nat /\ p = next_chunk
      BY <1>1, <1>2, <2>1, <2>3, SamePage
    <3> QED BY <3>1, <1>1 DEF AllocInv, TypeOK
  <2> QED BY <2>2, <2>3
<1> QED BY <1>1, <1>3, <1>4, <1>5, <1>6 DEF AllocInv, BlocksArePages,
          BlocksAscend, ChunksInReach, NothingWild, SizeIsOfType, IsPage

(* The new chunk becomes the tail of its list, in the pool or beyond.      *)
LEMMA InsertPreserves ==
  ASSUME AllocInv, Setting, NEW t \in Threads, Insert(t)
  PROVE  AllocInv'
<1> USE AllocAssumption
<1> DEFINE ty == req[t].type
           list == chunks[ty]
<1>1. /\ pc[t] = "insert"
      /\ req[t] \in [type : Types, size : Nat] /\ req[t].size <= PageSize
      /\ SizeIsOfType(req[t].type, req[t].size)
      /\ addr[t] \in Nat /\ IsPage(addr[t])
      /\ addr[t] + PageSize = next_chunk
      /\ BlocksBelow(addr[t]) /\ BlocksBelow(next_chunk)
  BY DEF Insert, AllocInv, HandIsNew, TypeOK
<1>2. ty \in Types /\ list \in Seq(Nat)
  BY <1>1 DEF AllocInv, TypeOK
<1>3. /\ chunks' = [chunks EXCEPT ![ty] = Append(list, addr[t])]
      /\ UNCHANGED <<registered, next_chunk, wild, readers, allocs, fault>>
  BY DEF Insert, chunk_ref_list_insert, Setting
<1>4. chunks'[ty] = Append(list, addr[t]) /\ chunks' \in [Types -> Seq(Nat)]
  BY <1>1, <1>2, <1>3 DEF AllocInv, TypeOK
<1>4a. addr[t] \in Nat
  BY <1>1
<1>4b. /\ Append(list, addr[t]) # << >>
      /\ Len(Append(list, addr[t])) = Len(list) + 1
      /\ Append(list, addr[t])[Len(list) + 1] = addr[t]
      /\ \A i \in 1..Len(list) : Append(list, addr[t])[i] = list[i]
  <2> HIDE DEF list
  <2> QED BY <1>2, <1>4a, Appended
<1>5. ChunksInReach'
  <2>1. ASSUME NEW u \in Types, NEW i \in 1..Len(chunks'[u])
        PROVE  chunks'[u][i] >= PoolAddr
    <3>1. CASE u # ty
      BY <1>3, <2>1, <3>1 DEF AllocInv, TypeOK, ChunksInReach
    <3>2. CASE u = ty /\ i \in 1..Len(list)
      <4>1. chunks'[u][i] = list[i]
        BY <1>4, <1>4b, <3>2, Zenon
      <4> QED BY <1>2, <3>2, <4>1 DEF AllocInv, ChunksInReach
    <3>3. CASE u = ty /\ i = Len(list) + 1
      <4>1. chunks'[u][i] = addr[t]
        BY <1>1, <1>2, <1>4, <3>3
      <4> QED BY <1>1, <4>1, Pages
    <3>4. ASSUME u = ty PROVE i \in 1..Len(list) \/ i = Len(list) + 1
      <4>1. i \in 1..Len(Append(list, addr[t]))
        BY <1>4, <2>1, <3>4, Zenon
      <4> HIDE DEF list
      <4>2. Len(list) \in Nat
        BY <1>2
      <4> QED BY <1>4b, <4>1, <4>2
    <3> QED BY <3>1, <3>2, <3>3, <3>4, Zenon
  <2> QED BY <2>1 DEF ChunksInReach
<1>6. CASE Drained(addr[t])
  <2>1. /\ pc' = [pc EXCEPT ![t] = "idle"] /\ req' = [req EXCEPT ![t] = NoReq]
        /\ addr' = [addr EXCEPT ![t] = 0]
        /\ errno' = [errno EXCEPT ![t] = "ENOMEM"]
    BY <1>6 DEF Insert, Return, Goto
  <2>2. TypeOK'
    BY <1>3, <1>4, <2>1 DEF AllocInv, TypeOK, PCs, Reqs
  <2>3. HandIsNew'
    BY <1>1, <1>3, <2>1 DEF AllocInv, TypeOK, HandIsNew, BlocksBelow, Setting,
       SingleThread
  <2>4. NoPageLost'
    <3>1. SUFFICES ASSUME NEW p \in PoolPages, p < next_chunk
                   PROVE  HasBlock(p)'
      BY <1>3 DEF NoPageLost, PoolPages
    <3>2. p < Upper /\ p \in Nat
      BY PoolPage
    <3>3. p # addr[t]
      BY <3>2, <1>1, <1>6, Pages DEF Drained
    <3>4. HasBlock(p)
      BY <3>1, <3>3 DEF AllocInv, NoPageLost, Setting, SingleThread
    <3> QED BY <3>4, <1>3 DEF HasBlock
  <2> QED BY <1>3, <1>5, <2>2, <2>3, <2>4 DEF AllocInv, BlocksArePages, BlocksAscend,
            NothingWild, SizeIsOfType, IsPage, NextChunkIsPage
<1>7. CASE ~ Drained(addr[t])
  <2>1. /\ pc' = [pc EXCEPT ![t] = "relock"]
        /\ UNCHANGED <<req, addr, errno>>
    BY <1>7 DEF Insert, Goto
  <2>2. TypeOK'
    BY <1>3, <1>4, <2>1 DEF AllocInv, TypeOK, PCs
  <2>3. addr[t] < Upper
    BY <1>1, <1>7, Pages DEF Drained
  <2>4. chunks'[ty] # << >> /\ chunks'[ty][Len(chunks'[ty])] = addr[t]
    BY <1>4, <1>4b, Zenon
  <2>5. HandIsNew'
    <3>2. BlocksBelow(next_chunk)'
      BY <1>1, <1>3 DEF BlocksBelow
    <3>3. \A u \in Threads : u = t
      BY DEF Setting, SingleThread
    <3>4. BlocksBelow(addr[t])'
      BY <1>1, <1>3, <2>1 DEF BlocksBelow
    <3>5. /\ req'[t] = req[t] /\ addr'[t] = addr[t]
          /\ addr'[t] + PageSize = next_chunk' /\ pc'[t] = "relock"
      BY <1>1, <1>3, <2>1 DEF AllocInv, TypeOK
    <3>6. SizeIsOfType(req[t].type, req[t].size)' /\ IsPage(addr[t])'
      BY <1>1, <2>1 DEF SizeIsOfType, IsPage
    <3> HIDE DEF ty, list
    <3>7. /\ chunks'[req'[t].type] # << >>
          /\ chunks'[req'[t].type][Len(chunks'[req'[t].type])] = addr'[t]
      BY <2>4, <3>5 DEF ty
    <3> QED BY <1>1, <2>3, <3>2, <3>3, <3>4, <3>5, <3>6, <3>7 DEF HandIsNew
  <2>6. NoPageLost'
    <3>1. \A u \in Threads : u = t
      BY DEF Setting, SingleThread
    <3>2. pc'[t] = "relock" /\ addr'[t] = addr[t]
      BY <2>1 DEF AllocInv, TypeOK
    <3> QED BY <1>3, <3>1, <3>2, HandsKept DEF AllocInv
  <2> QED BY <1>3, <1>5, <2>2, <2>5, <2>6 DEF AllocInv, BlocksArePages, BlocksAscend,
            NothingWild, SizeIsOfType, IsPage, NextChunkIsPage
<1> QED BY <1>6, <1>7

(* Taking the read lock again changes nothing the invariant speaks of.     *)
LEMMA RelockPreserves ==
  ASSUME AllocInv, NEW t \in Threads, Relock(t)
  PROVE  AllocInv'
<1>1. /\ pc[t] = "relock" /\ pc' = [pc EXCEPT ![t] = "shift"]
      /\ readers' = [readers EXCEPT ![req[t].type] = @ \cup {t}]
      /\ UNCHANGED <<registered, next_chunk, chunks, wild, req, addr, errno,
                     allocs, fault>>
  BY DEF Relock, Goto
<1>2. TypeOK'
  BY <1>1 DEF AllocInv, TypeOK, PCs
<1>3. HandIsNew'
  BY <1>1 DEF AllocInv, TypeOK, HandIsNew, BlocksBelow, SizeIsOfType, IsPage
<1>4. NoPageLost'
  <2>1. \A u \in Threads : pc'[u] = IF u = t THEN "shift" ELSE pc[u]
    BY <1>1 DEF AllocInv, TypeOK
  <2> QED BY <1>1, <2>1, HandsKept DEF AllocInv
<1> QED BY <1>1, <1>2, <1>3, <1>4 DEF AllocInv, NextChunkIsPage, BlocksArePages,
          BlocksAscend, ChunksInReach, NothingWild, SizeIsOfType, IsPage

(* The block is the start of the chunk in hand.                            *)
LEMMA ShiftPreserves ==
  ASSUME AllocInv, SingleThread, NEW t \in Threads, Shift(t)
  PROVE  AllocInv'
<1> USE AllocAssumption
<1> DEFINE ty == req[t].type
           list == chunks[ty]
           n == Len(list)
           block == [type |-> ty, addr |-> addr[t], size |-> req[t].size]
<1>1. /\ pc[t] = "shift"
      /\ req[t] \in [type : Types, size : Nat] /\ req[t].size <= PageSize
      /\ SizeIsOfType(req[t].type, req[t].size)
      /\ addr[t] \in Nat /\ IsPage(addr[t]) /\ addr[t] < Upper
      /\ addr[t] + PageSize = next_chunk
      /\ BlocksBelow(addr[t]) /\ BlocksBelow(next_chunk)
      /\ list # << >> /\ list[n] = addr[t]
  BY DEF Shift, AllocInv, HandIsNew, TypeOK
<1>2. ty \in Types /\ list \in Seq(Nat) /\ block \in Blocks
  BY <1>1 DEF AllocInv, TypeOK, Blocks
<1>3. /\ chunks' = [chunks EXCEPT ![ty][n] = @ + req[t].size]
      /\ allocs' = Append(allocs, block)
      /\ readers' = [readers EXCEPT ![ty] = @ \ {t}]
      /\ pc' = [pc EXCEPT ![t] = "idle"] /\ req' = [req EXCEPT ![t] = NoReq]
      /\ addr' = [addr EXCEPT ![t] = 0]
      /\ UNCHANGED <<registered, next_chunk, wild, errno, fault>>
  BY <1>1 DEF Shift, Return, Goto
<1>4. n \in 1..Len(list) /\ list[n] + req[t].size \in Nat
  BY <1>1, <1>2
<1>5. chunks'[ty] = [list EXCEPT ![n] = list[n] + req[t].size]
  BY <1>2, <1>3 DEF AllocInv, TypeOK
<1>6. /\ chunks'[ty] \in Seq(Nat) /\ Len(chunks'[ty]) = Len(list)
      /\ \A i \in 1..Len(list) :
           chunks'[ty][i] = IF i = n THEN list[n] + req[t].size ELSE list[i]
  <2> HIDE DEF list, n
  <2> QED BY <1>2, <1>4, <1>5, Updated
<1>7. chunks' \in [Types -> Seq(Nat)]
  BY <1>2, <1>3, <1>6 DEF AllocInv, TypeOK
<1>8. /\ allocs \in Seq(Blocks) /\ allocs' \in Seq(Blocks)
      /\ Len(allocs') = Len(allocs) + 1
      /\ allocs'[Len(allocs) + 1] = block
      /\ \A i \in 1..Len(allocs) : allocs'[i] = allocs[i]
  BY <1>2, <1>3 DEF AllocInv, TypeOK
<1>9. TypeOK'
  BY <1>3, <1>7, <1>8 DEF AllocInv, TypeOK, PCs, Reqs
<1>10. ChunksInReach'
  <2>1. ASSUME NEW u \in Types, NEW i \in 1..Len(chunks'[u])
        PROVE  chunks'[u][i] >= PoolAddr
    <3>1. CASE u # ty
      BY <1>3, <2>1, <3>1 DEF AllocInv, TypeOK, ChunksInReach
    <3>2. CASE u = ty
      <4>0. \A v \in Types : \A k \in 1..Len(chunks[v]) : chunks[v][k] >= PoolAddr
        BY DEF AllocInv, ChunksInReach
      <4>a. \A k \in 1..Len(list) : list[k] >= PoolAddr
        BY <1>2, <4>0
      <4>b. i \in 1..Len(chunks'[ty])
        BY <2>1, <3>2
      <4> HIDE DEF list, ty, n
      <4>c. i \in 1..Len(list)
        BY <1>6, <4>b
      <4>d. list[i] \in Nat
        BY <1>2, <4>c
      <4>1. i \in 1..Len(list) /\ list[i] \in Nat /\ list[i] >= PoolAddr
        BY <4>a, <4>c, <4>d
      <4>2. chunks'[u][i] = IF i = n THEN list[n] + req[t].size ELSE list[i]
        BY <1>6, <3>2, <4>1
      <4>3. CASE i = n
        <5>1. list[i] + req[t].size >= PoolAddr
          BY <1>1, <4>1
        <5> QED BY <4>2, <4>3, <5>1
      <4> QED BY <4>1, <4>2, <4>3
    <3> QED BY <3>1, <3>2
  <2> QED BY <2>1 DEF ChunksInReach
<1>11. BlocksArePages'
  <2>1. IsPage(block.addr) /\ block.addr < Upper /\ block.size <= PageSize
        /\ SizeIsOfType(block.type, block.size)
    BY <1>1
  <2>2. ASSUME NEW i \in 1..Len(allocs')
        PROVE  /\ IsPage(allocs'[i].addr)
               /\ allocs'[i].addr < Upper
               /\ allocs'[i].size <= PageSize
               /\ SizeIsOfType(allocs'[i].type, allocs'[i].size)
    <3>1. CASE i = Len(allocs) + 1
      BY <1>8, <2>1, <3>1
    <3>2. CASE i \in 1..Len(allocs)
      <4>1. allocs'[i] = allocs[i]
        BY <1>8, <3>2
      <4> QED BY <3>2, <4>1 DEF AllocInv, BlocksArePages
    <3> QED BY <1>8, <2>2, <3>1, <3>2
  <2> QED BY <2>2 DEF BlocksArePages, SizeIsOfType, IsPage
<1>12. BlocksAscend'
  <2>1. ASSUME NEW i \in 1..Len(allocs'), NEW j \in 1..Len(allocs'), i < j
        PROVE  allocs'[i].addr + PageSize <= allocs'[j].addr
    <3>1. i \in 1..Len(allocs) /\ allocs'[i] = allocs[i]
      BY <1>8, <2>1
    <3>2. CASE j = Len(allocs) + 1
      <4>1. allocs'[j].addr = addr[t]
        BY <1>8, <3>2
      <4>2. allocs[i].addr + PageSize <= addr[t]
        BY <1>1, <3>1 DEF BlocksBelow
      <4> QED BY <3>1, <4>1, <4>2, Zenon
    <3>3. CASE j \in 1..Len(allocs)
      <4>1. allocs'[j] = allocs[j]
        BY <1>8, <3>3
      <4> QED BY <2>1, <3>1, <3>3, <4>1 DEF AllocInv, BlocksAscend
    <3>4. j = Len(allocs) + 1 \/ j \in 1..Len(allocs)
      BY <1>8
    <3> QED BY <3>2, <3>3, <3>4
  <2> QED BY <2>1 DEF BlocksAscend
<1>13. HandIsNew'
  <2>1. BlocksBelow(next_chunk)'
    <3>1. ASSUME NEW i \in 1..Len(allocs')
          PROVE  allocs'[i].addr + PageSize <= next_chunk
      <4>1. CASE i \in 1..Len(allocs)
        BY <1>1, <1>8, <4>1 DEF BlocksBelow
      <4>2. CASE i = Len(allocs) + 1
        <5>1. allocs'[i].addr = addr[t]
          BY <1>8, <4>2
        <5> QED BY <1>1, <5>1
      <4>3. i \in 1..Len(allocs) \/ i = Len(allocs) + 1
        BY <1>8
      <4> QED BY <4>1, <4>2, <4>3
    <3>2. next_chunk' = next_chunk
      BY <1>3
    <3> QED BY <3>1, <3>2 DEF BlocksBelow
  <2> QED BY <1>3, <2>1 DEF HandIsNew, SingleThread, AllocInv, TypeOK
<1>14. NoPageLost'
  <2>1. SUFFICES ASSUME NEW p \in PoolPages, p < next_chunk
                 PROVE  HasBlock(p)'
    BY <1>3 DEF NoPageLost, PoolPages
  <2>2. Len(allocs) \in Nat
    BY <1>8
  <2>3. CASE HasBlock(p)
    <3>1. PICK i \in 1..Len(allocs) : allocs[i].addr = p
      BY <2>3 DEF HasBlock
    <3>2. i \in 1..Len(allocs') /\ allocs'[i].addr = p
      BY <3>1, <2>2, <1>8
    <3> QED BY <3>2 DEF HasBlock
  <2>4. CASE addr[t] = p
    <3>1. Len(allocs) + 1 \in 1..Len(allocs')
      BY <2>2, <1>8
    <3>2. allocs'[Len(allocs) + 1].addr = p
      BY <2>4, <1>8
    <3> QED BY <3>1, <3>2 DEF HasBlock
  <2> QED BY <2>1, <2>3, <2>4 DEF AllocInv, NoPageLost, SingleThread
<1> QED BY <1>3, <1>9, <1>10, <1>11, <1>12, <1>13, <1>14 DEF AllocInv, NothingWild,
          NextChunkIsPage, SizeIsOfType, IsPage

-----------------------------------------------------------------------------
(* Every step of the single-threaded allocator keeps the invariant.        *)
LEMMA NextPreserves ==
  ASSUME AllocInv, Setting, [Next]_vars
  PROVE  AllocInv'
<1>1. CASE UNCHANGED vars
  BY <1>1 DEF vars, AllocInv, TypeOK, NextChunkIsPage, BlocksArePages,
     BlocksAscend, HandIsNew, BlocksBelow, ChunksInReach, NothingWild, SizeIsOfType,
     IsPage, NoPageLost, HasBlock, PoolPages
<1>2. ASSUME NEW t \in Threads, NEW ty \in Types, register_type(t, ty) PROVE AllocInv'
  BY <1>2, RegisterPreserves
<1>3. ASSUME NEW t \in Threads, NEW ty \in Types, NEW size \in Sizes,
             disagg_alloc(t, ty, size)
      PROVE  AllocInv'
  BY <1>3, EntryPreserves
<1>4. ASSUME NEW t \in Threads, AllocStep(t) PROVE AllocInv'
  BY <1>4, CheckPreserves, GrabPreserves, InsertPreserves, RelockPreserves,
     ShiftPreserves DEF AllocStep, Setting
<1> QED BY <1>1, <1>2, <1>3, <1>4 DEF Next

(* Pages ascend, and a block stays in its page.                            *)
LEMMA BlocksDisjoint == AllocInv => Disjoint
<1> SUFFICES ASSUME AllocInv PROVE Disjoint
  OBVIOUS
<1>1. ASSUME NEW i \in 1..Len(allocs), NEW j \in 1..Len(allocs), i < j
      PROVE  allocs[i].addr + allocs[i].size <= allocs[j].addr
  <2>1. allocs[i].addr + PageSize <= allocs[j].addr
    BY <1>1 DEF AllocInv, BlocksAscend
  <2>2. allocs[i].size <= PageSize
    BY <1>1 DEF AllocInv, BlocksArePages
  <2>3. /\ allocs[i].addr \in Nat /\ allocs[i].size \in Nat
        /\ allocs[j].addr \in Nat
    BY <1>1, BlockParts
  <2> QED BY <2>1, <2>2, <2>3, AllocAssumption
<1> QED BY <1>1 DEF Disjoint

(* A page that starts in the pool ends in it.                              *)
LEMMA BlocksInPool == AllocInv => InPool
<1> SUFFICES ASSUME AllocInv PROVE InPool
  OBVIOUS
<1>1. ASSUME NEW i \in 1..Len(allocs)
      PROVE  PoolAddr <= allocs[i].addr /\ allocs[i].addr + allocs[i].size <= Upper
  <2>1. /\ IsPage(allocs[i].addr) /\ allocs[i].addr < Upper
        /\ allocs[i].size <= PageSize
    BY <1>1 DEF AllocInv, BlocksArePages
  <2>2. allocs[i].addr \in Nat /\ allocs[i].size \in Nat
    BY <1>1, BlockParts
  <2>3. /\ PoolAddr <= allocs[i].addr /\ Upper \in Nat
        /\ allocs[i].addr + PageSize <= Upper
    BY <2>1, <2>2, Pages
  <2> QED BY <2>1, <2>2, <2>3, AllocAssumption
<1> QED BY <1>1 DEF InPool

(* A block starts its page, so all of it has the same tag.                 *)
LEMMA TagsAreStarts == AllocInv => TagIsStart
<1> SUFFICES ASSUME AllocInv PROVE TagIsStart
  OBVIOUS
<1>1. ASSUME NEW i \in 1..Len(allocs), allocs[i].type \notin Reserved,
             NEW k \in 0..(allocs[i].size - 1)
      PROVE  extract_tag(PageSize, TypeSize[allocs[i].type], allocs[i].addr + k)
               = allocs[i].addr
  <2> DEFINE a == allocs[i].addr
             size == allocs[i].size
  <2>1. /\ IsPage(a) /\ size <= PageSize
        /\ size = TypeSize[allocs[i].type]
    BY <1>1 DEF AllocInv, BlocksArePages, SizeIsOfType
  <2>2. a \in Nat /\ size \in Nat
    BY <1>1, BlockParts
  <2>3. PICK q \in Nat : a = q * PageSize
    <3>1. PICK m \in 0..a : a = PoolAddr + m * PageSize
      BY <2>1 DEF IsPage
    <3>2. PICK b \in Nat : PoolAddr = b * PageSize
      BY AllocAssumption, WholePages
    <3>3. m \in Nat /\ a = (b + m) * PageSize
      BY <3>1, <3>2, <2>2, AllocAssumption, SMT
    <3> QED BY <3>3
  <2>4. k \in 0..(PageSize - 1) /\ k \in 0..(size - 1) /\ PageSize \in Nat \ {0}
    BY <1>1, <2>1, <2>2, AllocAssumption
  <2>5. (a + k) % PageSize = k
    BY <2>3, <2>4, Remainder
  <2>6. k \div size = 0
    BY <2>2, <2>4, SMT
  <2>7. extract_tag(PageSize, size, a + k) = ((a + k) - k) + 0 * size
    BY <2>5, <2>6 DEF extract_tag, PageStart, PageOffset
  <2>8. ((a + k) - k) + 0 * size = a
    BY <2>2, <2>4
  <2> QED BY <2>1, <2>7, <2>8
<1> QED BY <1>1 DEF TagIsStart

(* A chunk at or past the end of the pool was taken after all of its pages. *)
LEMMA FullWhenDrained == AllocInv => DrainedOnlyWhenFull
<1> USE AllocAssumption
<1> SUFFICES ASSUME AllocInv, NEW t \in Threads, pc[t] = "insert",
                    Drained(addr[t]), NEW p \in PoolPages
             PROVE  HasBlock(p)
  BY DEF DrainedOnlyWhenFull
<1>1. /\ addr[t] \in Nat /\ addr[t] + PageSize = next_chunk
  BY DEF AllocInv, HandIsNew, TypeOK
<1>2. addr[t] >= Upper
  BY DEF Drained
<1>3. p \in Nat /\ p < Upper /\ Upper \in Nat
  BY PoolPage, Pages
<1>4. p < next_chunk
  BY <1>1, <1>2, <1>3
<1>5. ASSUME NEW u \in Threads, pc[u] \in {"insert", "relock", "shift"}
      PROVE  addr[u] # p
  <2>1. addr[u] \in Nat /\ addr[u] + PageSize = next_chunk
    BY <1>5 DEF AllocInv, HandIsNew, TypeOK
  <2> QED BY <2>1, <1>1, <1>2, <1>3
<1> QED BY <1>4, <1>5 DEF AllocInv, NoPageLost

-----------------------------------------------------------------------------
(* AllocInv holds in every state of the single-threaded allocator.         *)
THEOREM AllocInvariant == ASSUME Setting PROVE Spec => []AllocInv
<1>1. Init => AllocInv
  BY InitEstablishes
<1>2. AllocInv /\ [Next]_vars => AllocInv'
  BY NextPreserves
<1> QED BY <1>1, <1>2, PTL DEF Spec

(* disagg_alloc never hands out a byte twice.                              *)
THEOREM AllocDisjoint == ASSUME Setting PROVE Spec => []Disjoint
BY BlocksDisjoint, AllocInvariant, PTL

(* disagg_alloc never hands out memory outside the pool.                   *)
THEOREM AllocInPool == ASSUME Setting PROVE Spec => []InPool
BY BlocksInPool, AllocInvariant, PTL

(* extract_tag takes every address inside an object of a registered type   *)
(* to the address that disagg_alloc returned for the object.               *)
THEOREM AllocTagIsStart == ASSUME Setting PROVE Spec => []TagIsStart
BY TagsAreStarts, AllocInvariant, PTL

(* disagg_alloc finds the pool drained only when every page of it holds a  *)
(* block.                                                                  *)
THEOREM PoolDrainedOnlyWhenFull ==
  ASSUME Setting PROVE Spec => []DrainedOnlyWhenFull
BY FullWhenDrained, AllocInvariant, PTL
=============================================================================
