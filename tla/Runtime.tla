------------------------------- MODULE Runtime -------------------------------
(***************************************************************************)
(* The allocator under the cache, byte by byte: the application of one     *)
(* thread allocates objects of several types, and loads and stores bytes   *)
(* inside them through the cache blocks of their types.  The blocks share  *)
(* the translation table and the pool; an object is found by the tag that  *)
(* extract_tag computes from any address inside it.                        *)
(*                                                                         *)
(* A load or store is cache_request, the access and cache_token_free in    *)
(* one step: one thread runs, and what happens inside cache_request, with  *)
(* tokens held meanwhile, is the subject of Cache.                         *)
(***************************************************************************)
EXTENDS AllocProps, Functions

CONSTANTS
  TypeId,      \* the number of each type (uint8_t type_id)
  SlotCount,   \* slots of each cache block (256 in cache_block_init)
  Values,      \* contents of a byte
  Zero,
  MaxStores    \* bound: stores

ASSUME RuntimeAssumption ==
  /\ TypeId \in [Types -> 0..255] /\ IsInjective(TypeId)
  /\ SlotCount \in Nat \ {0}
  /\ Zero \in Values
  /\ MaxStores \in Nat

VARIABLES
  tag, dirty, slots,   \* metadata and content of each slot; tag 0: free
  table,               \* addr_trans_table: from keys to slot indices
  pool,                \* the bytes of the memory node's pool
  latest, loaded,      \* history: last store per byte; the last load
  stores

cache_vars == <<tag, dirty, slots, table, pool, latest, loaded, stores>>

Cached  == Types \ Reserved
SlotIds == 0 .. SlotCount - 1
Slots   == Cached \X SlotIds       \* slot c[2] of caches[c[1]]
Bytes   == PoolAddr .. Upper - 1
Offsets(ty) == 0 .. TypeSize[ty] - 1

RuntimeInit ==
  /\ Init
  /\ tag = [c \in Slots |-> 0]
  /\ dirty = [c \in Slots |-> FALSE]
  /\ slots = [c \in Slots |-> [o \in Offsets(c[1]) |-> Zero]]
  /\ table = << >>
  /\ pool = [a \in Bytes |-> Zero]
  /\ latest = [a \in Bytes |-> Zero]
  /\ loaded = << >> /\ stores = 0

(* type_id_tag.val, of which addr_trans_entry_hash makes the hash: the     *)
(* table has no other means to compare entries.                            *)
Key(ty, g) == TypeId[ty] + 256 * g

(* The slot cache_try_request finds for tag g, as a set of at most one.    *)
Hit(ty, g) ==
  {c \in Slots : /\ c[1] = ty
                 /\ Key(ty, g) \in DOMAIN table /\ table[Key(ty, g)] = c[2]
                 /\ tag[c] = g}

(* A free slot as long as there is one, then any.                          *)
Victims(ty) ==
  {c \in Slots : /\ c[1] = ty
                 /\ tag[c] = 0 \/ \A d \in Slots : d[1] = ty => tag[d] # 0}

(* Bug: the tag is reset before the entry is removed.                      *)
KeyAfterReset(c, g) == Key(c[1], 0)

(* The table entry of a victim.                                            *)
VictimKey(c, g) == Key(c[1], tag[c])

(* Bug: the victim is written where the object being fetched lives.        *)
WrittenToNew(c, g) == g

(* Where a victim is written back to.                                      *)
WriteBackTo(c, g) == tag[c]

(* Eviction writes a dirty slot back ...                                   *)
PoolAfter(c, g) ==
  IF tag[c] = 0 \/ ~dirty[c] THEN pool
  ELSE [a \in Bytes |-> IF a - WriteBackTo(c, g) \in Offsets(c[1])
                          THEN slots[c][a - WriteBackTo(c, g)] ELSE pool[a]]

(* ... and removes its entry; that of the object requested is inserted     *)
(* unless there is one.                                                    *)
TableAfter(c, g) ==
  LET left == IF tag[c] = 0 THEN table
              ELSE Restrict(table, DOMAIN table \ {VictimKey(c, g)})
      key  == Key(c[1], g)
  IN
  [k \in DOMAIN left \cup {key} |-> IF k \in DOMAIN left THEN left[k] ELSE c[2]]

(* What cache_request makes of the cache: on a hit nothing changes, ...    *)
Found(c) ==
  [slot |-> c, tag |-> tag, dirty |-> dirty, slots |-> slots, table |-> table,
   pool |-> pool]

(* ... on a miss slot c is evicted from, if it was in use, and filled.     *)
Filled(c, g) ==
  [slot  |-> c,
   tag   |-> [tag EXCEPT ![c] = g],
   dirty |-> [dirty EXCEPT ![c] = FALSE],
   slots |-> [slots EXCEPT ![c] = [o \in Offsets(c[1]) |-> PoolAfter(c, g)[g + o]]],
   table |-> TableAfter(c, g),
   pool  |-> PoolAfter(c, g)]

cache_request(ty, g) ==
  IF Hit(ty, g) # {} THEN {Found(c) : c \in Hit(ty, g)}
                     ELSE {Filled(c, g) : c \in Victims(ty)}

(* The application reaches the byte a of an object of type ty.             *)
Reachable(ty, a) ==
  \E i \in 1..Len(allocs) :
    allocs[i].type = ty /\ a \in allocs[i].addr .. allocs[i].addr + allocs[i].size - 1

Load(ty, a) ==
  LET g == extract_tag(PageSize, TypeSize[ty], a) IN
  /\ Reachable(ty, a)
  /\ \E r \in cache_request(ty, g) :
       /\ tag' = r.tag /\ dirty' = r.dirty /\ slots' = r.slots
       /\ table' = r.table /\ pool' = r.pool
       /\ loaded' = <<a, r.slots[r.slot][a - g]>>
  /\ UNCHANGED <<latest, stores>>

Store(ty, a, v) ==
  LET g == extract_tag(PageSize, TypeSize[ty], a) IN
  /\ Reachable(ty, a) /\ stores < MaxStores
  /\ \E r \in cache_request(ty, g) :
       /\ tag' = r.tag
       /\ dirty' = [r.dirty EXCEPT ![r.slot] = TRUE]
       /\ slots' = [r.slots EXCEPT ![r.slot][a - g] = v]
       /\ table' = r.table /\ pool' = r.pool
  /\ latest' = [latest EXCEPT ![a] = v]
  /\ loaded' = << >> /\ stores' = stores + 1

Access ==
  /\ fault = "none" /\ \A t \in Threads : pc[t] = "idle"
  /\ \E ty \in Cached, a \in Bytes : Load(ty, a) \/ \E v \in Values : Store(ty, a, v)

RuntimeNext ==
  \/ Next /\ UNCHANGED cache_vars
  \/ Access /\ UNCHANGED vars

RuntimeSpec == RuntimeInit /\ [][RuntimeNext]_<<vars, cache_vars>>

-----------------------------------------------------------------------------
(* Properties. *)

IsObject(ty, g) == \E i \in 1..Len(allocs) : allocs[i].type = ty /\ allocs[i].addr = g

(* No byte of the pool is cached twice, be it by two slots of a block or   *)
(* by the blocks of two types, and every slot in use holds exactly one     *)
(* object that disagg_alloc returned: what one slot writes back, no other  *)
(* slot has a copy of.                                                     *)
LinesApart ==
  LET InUse   == {c \in Slots : tag[c] # 0}
      Line(c) == {tag[c] + o : o \in Offsets(c[1])}
  IN
  /\ \A c \in InUse : IsObject(c[1], tag[c])
  /\ \A c, d \in InUse : c # d => Line(c) \cap Line(d) = {}

(* The allocator and the caches together are a flat memory of bytes: a     *)
(* load returns the last value stored at its address, whatever was         *)
(* allocated, evicted and fetched for whichever type in between.           *)
Flat == INSTANCE FlatMemory WITH Objs <- Bytes, mem <- latest
ImplementsByteMemory == Flat!Spec

(***************************************************************************)
(* The inductive invariant, of any values of the cache's variables: the    *)
(* proof also speaks of the state between a request and the store.         *)
(***************************************************************************)
Contents == UNION {[Offsets(ty) -> Values] : ty \in Cached}

CacheTypes(tg, dt, sl, pl, lt) ==
  /\ tg \in [Slots -> Nat] /\ dt \in [Slots -> BOOLEAN]
  /\ sl \in [Slots -> Contents]
  /\ \A c \in Slots : sl[c] \in [Offsets(c[1]) -> Values]
  /\ pl \in [Bytes -> Values] /\ lt \in [Bytes -> Values]

(* The table names every slot in use, and nothing else.                    *)
TableNames(tg, tb) ==
  /\ \A c \in Slots : tg[c] # 0 => /\ Key(c[1], tg[c]) \in DOMAIN tb
                                   /\ tb[Key(c[1], tg[c])] = c[2]
  /\ \A k \in DOMAIN tb : \E c \in Slots : tg[c] # 0 /\ k = Key(c[1], tg[c])

(* A slot in use holds the last value of each byte, and so does the pool   *)
(* unless the slot is dirty; the pool holds that of every other byte.      *)
HoldsLatest(tg, dt, sl, pl, lt) ==
  /\ \A c \in Slots : \A o \in Offsets(c[1]) :
       tg[c] # 0 => /\ sl[c][o] = lt[tg[c] + o]
                    /\ ~dt[c] => pl[tg[c] + o] = lt[tg[c] + o]
  /\ \A a \in Bytes :
       (\A c \in Slots : tg[c] # 0 => a - tg[c] \notin Offsets(c[1]))
         => pl[a] = lt[a]

CacheInv(tg, dt, sl, tb, pl, lt) ==
  /\ CacheTypes(tg, dt, sl, pl, lt)
  /\ \A c \in Slots : tg[c] # 0 => IsObject(c[1], tg[c])
  /\ TableNames(tg, tb)
  /\ HoldsLatest(tg, dt, sl, pl, lt)

(* The allocator's invariant and the cache's.                              *)
RuntimeInv == AllocInv /\ CacheInv(tag, dirty, slots, table, pool, latest)
=============================================================================
