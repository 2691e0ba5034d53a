---------------------------- MODULE RuntimeProof ----------------------------
(***************************************************************************)
(* One thread's allocator and caches are a flat memory of bytes, for every *)
(* pool, page size, set of types and number of slots.  RuntimeInv is       *)
(* inductive: the allocator's invariant keeps the objects apart, the       *)
(* table's that an object is in one slot, and so the bytes of a slot in    *)
(* use are nobody else's.                                                  *)
(***************************************************************************)
EXTENDS Runtime, AllocProof

(* The type id is the low byte of a key: different objects have different  *)
(* keys, so the hash of addr_trans_entry_hash confuses none.               *)
LEMMA KeyInjective ==
  ASSUME NEW ty \in Types, NEW uy \in Types, NEW g \in Nat, NEW h \in Nat,
         Key(ty, g) = Key(uy, h)
  PROVE  ty = uy /\ g = h
<1>1. TypeId[ty] \in 0..255 /\ TypeId[uy] \in 0..255
  BY RuntimeAssumption
<1>2. TypeId[ty] + 256 * g = TypeId[uy] + 256 * h
  BY DEF Key
<1>3. TypeId[ty] = TypeId[uy] /\ g = h
  <2>1. PICK x \in 0..255 : x = TypeId[ty]
    BY <1>1
  <2>2. PICK y \in 0..255 : y = TypeId[uy]
    BY <1>1
  <2>3. x + 256 * g = y + 256 * h
    BY <1>2, <2>1, <2>2
  <2>4. x = y /\ g = h
    BY <2>3
  <2> QED BY <2>1, <2>2, <2>4
<1>4. DOMAIN TypeId = Types
  BY RuntimeAssumption
<1>5. ty = uy
  BY <1>3, <1>4, RuntimeAssumption DEF IsInjective
<1> QED BY <1>3, <1>5

(* The bytes of an object are bytes of the pool, and its address is not    *)
(* the 0 that marks a free slot.                                           *)
LEMMA ObjectBytes ==
  ASSUME AllocInv, NEW ty \in Cached, NEW g \in Nat, IsObject(ty, g)
  PROVE  /\ g # 0
         /\ TypeSize[ty] \in Nat \ {0}
         /\ \A o \in Offsets(ty) : o \in Nat /\ g + o \in Bytes
<1>1. PICK i \in 1..Len(allocs) : allocs[i].type = ty /\ allocs[i].addr = g
  BY DEF IsObject
<1>2. allocs[i].addr \in Nat /\ allocs[i].size \in Nat
  BY BlockParts
<1>3. ty \in Types \ Reserved
  BY DEF Cached
<1>4. allocs[i].size = TypeSize[ty]
  BY <1>1, <1>3 DEF AllocInv, BlocksArePages, SizeIsOfType
<1>5. PoolAddr <= g /\ g + TypeSize[ty] <= Upper
  BY <1>1, <1>4, BlocksInPool DEF InPool
<1>6. /\ TypeSize[ty] \in Nat \ {0} /\ PoolAddr \in Nat /\ PageSize \in Nat \ {0}
      /\ PoolAddr >= 2 * PageSize
  BY <1>3, AllocAssumption
<1>7. Upper \in Nat
  BY Pages
<1> QED BY <1>5, <1>6, <1>7 DEF Offsets, Bytes

(* Two objects that share a byte are one object, of one type.              *)
LEMMA ObjectsApart ==
  ASSUME AllocInv, NEW ty \in Cached, NEW uy \in Cached, NEW g \in Nat, NEW h \in Nat,
         IsObject(ty, g), IsObject(uy, h),
         NEW o \in Offsets(ty), NEW p \in Offsets(uy), g + o = h + p
  PROVE  ty = uy /\ g = h
<1>1. PICK i \in 1..Len(allocs) : allocs[i].type = ty /\ allocs[i].addr = g
  BY DEF IsObject
<1>2. PICK j \in 1..Len(allocs) : allocs[j].type = uy /\ allocs[j].addr = h
  BY DEF IsObject
<1>3. allocs[i].size = TypeSize[ty] /\ allocs[j].size = TypeSize[uy]
  BY <1>1, <1>2 DEF AllocInv, BlocksArePages, SizeIsOfType, Cached
<1>4. TypeSize[ty] \in Nat /\ TypeSize[uy] \in Nat
  BY ObjectBytes
<1>5. o \in 0 .. TypeSize[ty] - 1 /\ p \in 0 .. TypeSize[uy] - 1
  BY DEF Offsets
<1>6. ~ (g + TypeSize[ty] <= h) /\ ~ (h + TypeSize[uy] <= g)
  BY <1>4, <1>5
<1>7. Disjoint
  BY BlocksDisjoint
<1>8. i \in Int /\ j \in Int
  OBVIOUS
<1>9. ~ (i < j)
  BY <1>1, <1>2, <1>3, <1>6, <1>7 DEF Disjoint
<1>10. ~ (j < i)
  BY <1>1, <1>2, <1>3, <1>6, <1>7 DEF Disjoint
<1>11. i = j
  BY <1>8, <1>9, <1>10
<1> QED BY <1>1, <1>2, <1>11

(* extract_tag takes an address that the application reaches to the object *)
(* it is in, and slot_off is an offset inside it.                          *)
LEMMA TagOfReachable ==
  ASSUME AllocInv, NEW ty \in Cached, NEW a \in Bytes, Reachable(ty, a)
  PROVE  LET g == extract_tag(PageSize, TypeSize[ty], a) IN
         g \in Nat /\ IsObject(ty, g) /\ a - g \in Offsets(ty) /\ a = g + (a - g)
<1>1. PICK i \in 1..Len(allocs) :
        /\ allocs[i].type = ty
        /\ a \in allocs[i].addr .. allocs[i].addr + allocs[i].size - 1
  BY DEF Reachable
<1> DEFINE b == allocs[i].addr
           k == a - b
<1>2. b \in Nat /\ allocs[i].size \in Nat
  BY BlockParts
<1>3. allocs[i].size = TypeSize[ty]
  BY <1>1 DEF AllocInv, BlocksArePages, SizeIsOfType, Cached
<1>4. k \in 0 .. allocs[i].size - 1 /\ a = b + k
  BY <1>1, <1>2
<1>5. extract_tag(PageSize, TypeSize[ty], b + k) = b
  BY <1>1, <1>4, TagsAreStarts DEF TagIsStart, Cached
<1>6. IsObject(ty, b)
  BY <1>1 DEF IsObject
<1>7. k \in Offsets(ty)
  BY <1>3, <1>4 DEF Offsets
<1> HIDE DEF k
<1>8. extract_tag(PageSize, TypeSize[ty], a) = b
  BY <1>4, <1>5
<1> QED BY <1>2, <1>4, <1>6, <1>7, <1>8 DEF k

-----------------------------------------------------------------------------
(* An object is in at most one slot: the bytes of two slots in use differ. *)
LEMMA LinesDiffer ==
  ASSUME AllocInv, NEW tg \in [Slots -> Nat], NEW tb, TableNames(tg, tb),
         \A c \in Slots : tg[c] # 0 => IsObject(c[1], tg[c]),
         NEW c \in Slots, NEW d \in Slots, tg[c] # 0, tg[d] # 0,
         NEW o \in Offsets(c[1]), NEW p \in Offsets(d[1]), tg[c] + o = tg[d] + p
  PROVE  c = d
<1>1. /\ c = <<c[1], c[2]>> /\ d = <<d[1], d[2]>>
      /\ c[1] \in Cached /\ d[1] \in Cached
  BY DEF Slots
<1>2. tg[c] \in Nat /\ tg[d] \in Nat /\ IsObject(c[1], tg[c]) /\ IsObject(d[1], tg[d])
  OBVIOUS
<1>3. c[1] = d[1] /\ tg[c] = tg[d]
  BY <1>1, <1>2, ObjectsApart
<1>4. tb[Key(c[1], tg[c])] = c[2] /\ tb[Key(d[1], tg[d])] = d[2]
  BY DEF TableNames
<1> QED BY <1>1, <1>3, <1>4

(* No slot holds the object of a miss, and the table does not name it.     *)
LEMMA MissIsNowhere ==
  ASSUME CacheInv(tag, dirty, slots, table, pool, latest),
         NEW ty \in Cached, NEW g \in Nat, g # 0, Hit(ty, g) = {}
  PROVE  /\ \A d \in Slots : ~ (d[1] = ty /\ tag[d] = g)
         /\ Key(ty, g) \notin DOMAIN table
<1>1. TableNames(tag, table) /\ tag \in [Slots -> Nat]
  BY DEF CacheInv, CacheTypes
<1>2. \A d \in Slots : ~ (d[1] = ty /\ tag[d] = g)
  <2>1. SUFFICES ASSUME NEW d \in Slots, d[1] = ty, tag[d] = g PROVE FALSE
    OBVIOUS
  <2>2. Key(ty, g) \in DOMAIN table /\ table[Key(ty, g)] = d[2]
    BY <1>1, <2>1 DEF TableNames
  <2>3. d \in Hit(ty, g)
    BY <2>1, <2>2 DEF Hit
  <2> QED BY <2>3
<1>3. Key(ty, g) \notin DOMAIN table
  <2>1. SUFFICES ASSUME Key(ty, g) \in DOMAIN table PROVE FALSE
    OBVIOUS
  <2>2. PICK d \in Slots : tag[d] # 0 /\ Key(ty, g) = Key(d[1], tag[d])
    BY <1>1, <2>1 DEF TableNames
  <2>3. tag[d] \in Nat /\ d[1] \in Types /\ ty \in Types
    BY <1>1 DEF Slots, Cached
  <2>4. d[1] = ty /\ tag[d] = g
    BY <2>2, <2>3, KeyInjective
  <2> QED BY <1>2, <2>4
<1> QED BY <1>2, <1>3

(* The table after a miss names the slots in use, that of the object       *)
(* fetched included.                                                       *)
LEMMA TableAfterMiss ==
  ASSUME CacheInv(tag, dirty, slots, table, pool, latest),
         NEW c \in Slots, NEW g \in Nat, g # 0, Hit(c[1], g) = {}
  PROVE  TableNames([tag EXCEPT ![c] = g], TableAfter(c, g))
<1> DEFINE tg == [tag EXCEPT ![c] = g]
           tb == TableAfter(c, g)
           key == Key(c[1], g)
           old == Key(c[1], tag[c])
           dom == IF tag[c] = 0 THEN DOMAIN table ELSE DOMAIN table \ {old}
<1>1. TableNames(tag, table) /\ tag \in [Slots -> Nat]
  BY DEF CacheInv, CacheTypes
<1>2. c[1] \in Cached /\ c[1] \in Types
  BY DEF Slots, Cached
<1>3. key \notin DOMAIN table
  BY <1>2, MissIsNowhere
<1>4. /\ DOMAIN tb = dom \cup {key}
      /\ \A k \in dom : tb[k] = table[k]
      /\ tb[key] = c[2]
  BY <1>3 DEF TableAfter, VictimKey, Restrict
<1>5. tg[c] = g /\ \A d \in Slots : d # c => tg[d] = tag[d]
  BY <1>1
<1>6. \A d \in Slots : d # c /\ tag[d] # 0 => Key(d[1], tag[d]) \in dom
  <2>1. SUFFICES ASSUME NEW d \in Slots, d # c, tag[d] # 0
                 PROVE  Key(d[1], tag[d]) \in dom
    OBVIOUS
  <2>2. Key(d[1], tag[d]) \in DOMAIN table /\ table[Key(d[1], tag[d])] = d[2]
    BY <1>1, <2>1 DEF TableNames
  <2>3. ASSUME tag[c] # 0, Key(d[1], tag[d]) = old PROVE FALSE
    <3>1. tag[c] \in Nat /\ tag[d] \in Nat /\ d[1] \in Types
      BY <1>1 DEF Slots, Cached
    <3>2. d[1] = c[1]
      BY <1>2, <2>3, <3>1, KeyInjective
    <3>3. table[old] = c[2]
      BY <1>1, <2>3 DEF TableNames
    <3>4. d[2] = c[2]
      BY <2>2, <2>3, <3>3
    <3> QED BY <2>1, <3>2, <3>4 DEF Slots
  <2> QED BY <2>2, <2>3
<1>7. ASSUME NEW d \in Slots, tg[d] # 0
      PROVE  Key(d[1], tg[d]) \in DOMAIN tb /\ tb[Key(d[1], tg[d])] = d[2]
  <2>1. CASE d = c
    BY <1>4, <1>5, <2>1
  <2>2. CASE d # c
    <3>1. Key(d[1], tag[d]) \in dom /\ table[Key(d[1], tag[d])] = d[2]
      BY <1>1, <1>5, <1>6, <1>7, <2>2 DEF TableNames
    <3> QED BY <1>4, <1>5, <2>2, <3>1
  <2> QED BY <2>1, <2>2
<1>8. ASSUME NEW k \in DOMAIN tb
      PROVE  \E d \in Slots : tg[d] # 0 /\ k = Key(d[1], tg[d])
  <2>1. CASE k = key
    BY <1>5, <2>1
  <2>2. CASE k # key
    <3>1. k \in dom /\ k \in DOMAIN table
      BY <1>4, <1>8, <2>2
    <3>2. PICK d \in Slots : tag[d] # 0 /\ k = Key(d[1], tag[d])
      BY <1>1, <3>1 DEF TableNames
    <3>3. d # c
      BY <3>1, <3>2
    <3> QED BY <1>5, <3>2, <3>3
  <2> QED BY <2>1, <2>2
<1> HIDE DEF tg, tb
<1>9. TableNames(tg, tb)
  BY <1>7, <1>8 DEF TableNames
<1> QED BY <1>9 DEF tg, tb

(* A miss evicts from slot c, if it is in use, and fills it: each slot in  *)
(* use still holds the last value of its bytes, and the pool all others.   *)
LEMMA FillKeeps ==
  ASSUME AllocInv, CacheInv(tag, dirty, slots, table, pool, latest),
         NEW c \in Slots, NEW g \in Nat, IsObject(c[1], g), Hit(c[1], g) = {}
  PROVE  LET r == Filled(c, g) IN
         CacheInv(r.tag, r.dirty, r.slots, r.table, r.pool, latest)
<1> DEFINE ty == c[1]
           tg == [tag EXCEPT ![c] = g]
           dt == [dirty EXCEPT ![c] = FALSE]
           pl == PoolAfter(c, g)
           new == [o \in Offsets(ty) |-> pl[g + o]]
           sl == [slots EXCEPT ![c] = new]
<1>1. /\ TableNames(tag, table) /\ tag \in [Slots -> Nat]
      /\ dirty \in [Slots -> BOOLEAN] /\ slots \in [Slots -> Contents]
      /\ \A d \in Slots : slots[d] \in [Offsets(d[1]) -> Values]
      /\ pool \in [Bytes -> Values] /\ latest \in [Bytes -> Values]
      /\ \A d \in Slots : tag[d] # 0 => IsObject(d[1], tag[d])
  BY DEF CacheInv, CacheTypes
<1>2. ty \in Cached
  BY DEF Slots
<1>3. g # 0 /\ \A o \in Offsets(ty) : o \in Nat /\ g + o \in Bytes
  BY <1>2, ObjectBytes
<1>4. \A d \in Slots : ~ (d[1] = ty /\ tag[d] = g)
  BY <1>2, <1>3, MissIsNowhere
<1>5. \A d \in Slots : tag[d] # 0 =>
        \A o \in Offsets(d[1]) : o \in Nat /\ tag[d] + o \in Bytes
  <2>1. SUFFICES ASSUME NEW d \in Slots, tag[d] # 0
                 PROVE  \A o \in Offsets(d[1]) : o \in Nat /\ tag[d] + o \in Bytes
    OBVIOUS
  <2>2. d[1] \in Cached /\ tag[d] \in Nat /\ IsObject(d[1], tag[d])
    BY <1>1, <2>1 DEF Slots
  <2> QED BY <2>2, ObjectBytes
<1>6. \A a \in Bytes : a \in Int
  BY AllocAssumption, Pages DEF Bytes
<1>7. pl \in [Bytes -> Values]
  BY <1>1 DEF PoolAfter, WriteBackTo
<1>8. new \in [Offsets(ty) -> Values] /\ new \in Contents
  <2>1. new \in [Offsets(ty) -> Values]
    BY <1>3, <1>7
  <2> HIDE DEF new
  <2> QED BY <1>2, <2>1 DEF Contents
<1>9. /\ tg[c] = g /\ dt[c] = FALSE /\ sl[c] = new
      /\ \A d \in Slots : d # c => tg[d] = tag[d] /\ dt[d] = dirty[d] /\ sl[d] = slots[d]
  BY <1>1
<1>10. CacheTypes(tg, dt, sl, pl, latest)
  <2>1. tg \in [Slots -> Nat] /\ dt \in [Slots -> BOOLEAN]
    BY <1>1
  <2> HIDE DEF new
  <2>2. sl \in [Slots -> Contents]
    BY <1>1, <1>8
  <2>3. \A d \in Slots : sl[d] \in [Offsets(d[1]) -> Values]
    <3> HIDE DEF sl
    <3> QED BY <1>1, <1>8, <1>9
  <2> QED BY <1>1, <1>7, <2>1, <2>2, <2>3 DEF CacheTypes
<1>11. \A d \in Slots : tg[d] # 0 => IsObject(d[1], tg[d])
  <2> HIDE DEF tg
  <2> QED BY <1>1, <1>9
<1>12. TableNames(tg, TableAfter(c, g))
  BY <1>3, TableAfterMiss
(* Writing back changes bytes of slot c only.                              *)
<1>13. \A a \in Bytes :
         (tag[c] # 0 => a - tag[c] \notin Offsets(ty)) => pl[a] = pool[a]
  BY <1>1 DEF PoolAfter, WriteBackTo
<1>14. ASSUME NEW d \in Slots, NEW o \in Offsets(d[1]), d # c, tag[d] # 0
       PROVE  pl[tag[d] + o] = pool[tag[d] + o]
  <2>1. o \in Nat /\ tag[d] + o \in Bytes /\ tag[d] \in Nat /\ tag[c] \in Nat
    BY <1>1, <1>5, <1>14
  <2>2. ASSUME tag[c] # 0, (tag[d] + o) - tag[c] \in Offsets(ty) PROVE FALSE
    <3>1. PICK p \in Offsets(ty) : p = (tag[d] + o) - tag[c]
      BY <2>2
    <3>2. p \in Nat
      BY <1>5, <2>2, <3>1
    <3>3. tag[d] + o = tag[c] + p
      BY <2>1, <3>1, <3>2
    <3>4. d = c
      BY <1>1, <1>14, <2>2, <3>3, LinesDiffer
    <3> QED BY <1>14, <3>4
  <2> QED BY <1>13, <2>1, <2>2
(* The object fetched is in no slot: the pool holds it.                    *)
<1>15. ASSUME NEW o \in Offsets(ty)
       PROVE  /\ \A d \in Slots : tag[d] # 0 => (g + o) - tag[d] \notin Offsets(d[1])
              /\ pl[g + o] = latest[g + o]
  <2>1. o \in Nat /\ g + o \in Bytes
    BY <1>3
  <2>2. ASSUME NEW d \in Slots, tag[d] # 0, (g + o) - tag[d] \in Offsets(d[1])
        PROVE  FALSE
    <3>1. PICK p \in Offsets(d[1]) : p = (g + o) - tag[d]
      BY <2>2
    <3>2. p \in Nat /\ tag[d] \in Nat
      BY <1>1, <1>5, <2>2, <3>1
    <3>3. g + o = tag[d] + p
      BY <2>1, <3>1, <3>2
    <3>4. d[1] \in Cached /\ IsObject(d[1], tag[d])
      BY <1>1, <2>2 DEF Slots
    <3>5. d[1] = ty /\ tag[d] = g
      <4>1. IsObject(ty, g)
        OBVIOUS
      <4> HIDE DEF ty
      <4>2. PICK h \in Nat : h = tag[d]
        BY <3>2
      <4>3. IsObject(d[1], h) /\ g + o = h + p
        BY <3>3, <3>4, <4>2
      <4>4. ty = d[1] /\ g = h
        BY <1>2, <3>4, <4>1, <4>3, ObjectsApart
      <4> QED BY <4>2, <4>4
    <3> QED BY <1>4, <3>5
  <2>3. pool[g + o] = latest[g + o]
    BY <2>1, <2>2 DEF CacheInv, HoldsLatest
  <2>4. pl[g + o] = pool[g + o]
    BY <1>13, <2>1, <2>2
  <2> QED BY <2>2, <2>3, <2>4
<1>16. ASSUME NEW d \in Slots, NEW o \in Offsets(d[1]), tg[d] # 0
       PROVE  /\ sl[d][o] = latest[tg[d] + o]
              /\ ~dt[d] => pl[tg[d] + o] = latest[tg[d] + o]
  <2>1. CASE d = c
    <3>1. new[o] = pl[g + o]
      BY <2>1
    <3> HIDE DEF new, tg, sl, dt, pl
    <3> QED BY <1>9, <1>15, <2>1, <3>1
  <2>2. CASE d # c
    <3>1. tag[d] # 0 /\ tg[d] = tag[d] /\ sl[d] = slots[d] /\ dt[d] = dirty[d]
      BY <1>9, <1>16, <2>2
    <3>2. pl[tag[d] + o] = pool[tag[d] + o]
      BY <1>14, <2>2, <3>1
    <3>3. /\ slots[d][o] = latest[tag[d] + o]
          /\ ~dirty[d] => pool[tag[d] + o] = latest[tag[d] + o]
      BY <3>1 DEF CacheInv, HoldsLatest
    <3> HIDE DEF tg, sl, dt, pl
    <3> QED BY <3>1, <3>2, <3>3
  <2> QED BY <2>1, <2>2
<1>17. ASSUME NEW a \in Bytes,
              \A d \in Slots : tg[d] # 0 => a - tg[d] \notin Offsets(d[1])
       PROVE  pl[a] = latest[a]
  <2>1. \A d \in Slots : d # c /\ tag[d] # 0 => a - tag[d] \notin Offsets(d[1])
    BY <1>9, <1>17
  <2>2. CASE tag[c] # 0 /\ a - tag[c] \in Offsets(ty)
    <3>1. PICK o \in Offsets(ty) : o = a - tag[c]
      BY <2>2
    <3>2. a \in Int /\ tag[c] \in Nat /\ o \in Nat
      BY <1>1, <1>5, <1>6, <2>2, <3>1
    <3>3. tag[c] + o = a
      BY <3>1, <3>2
    <3>4. slots[c][o] = latest[a] /\ (~dirty[c] => pool[a] = latest[a])
      BY <2>2, <3>3 DEF CacheInv, HoldsLatest
    <3>5. CASE dirty[c]
      <4>1. pl[a] = slots[c][a - tag[c]]
        BY <2>2, <3>5 DEF PoolAfter, WriteBackTo
      <4> QED BY <3>1, <3>4, <4>1
    <3>6. CASE ~dirty[c]
      <4>1. pl = pool
        BY <3>6 DEF PoolAfter
      <4> QED BY <3>4, <3>6, <4>1
    <3> QED BY <3>5, <3>6
  <2>3. CASE ~ (tag[c] # 0 /\ a - tag[c] \in Offsets(ty))
    <3>1. pl[a] = pool[a]
      BY <1>13, <2>3
    <3>2. pool[a] = latest[a]
      BY <2>1, <2>3 DEF CacheInv, HoldsLatest
    <3> QED BY <3>1, <3>2
  <2> QED BY <2>2, <2>3
<1>18. /\ Filled(c, g).tag = tg /\ Filled(c, g).dirty = dt
       /\ Filled(c, g).slots = sl /\ Filled(c, g).table = TableAfter(c, g)
       /\ Filled(c, g).pool = pl
  BY DEF Filled
<1> HIDE DEF tg, dt, sl, pl
<1>19. HoldsLatest(tg, dt, sl, pl, latest)
  BY <1>16, <1>17 DEF HoldsLatest
<1> QED BY <1>10, <1>11, <1>12, <1>18, <1>19 DEF CacheInv

(* cache_request keeps the invariant and returns a slot of the type that   *)
(* holds the object.                                                       *)
LEMMA RequestKeeps ==
  ASSUME AllocInv, CacheInv(tag, dirty, slots, table, pool, latest),
         NEW ty \in Cached, NEW g \in Nat, IsObject(ty, g),
         NEW r \in cache_request(ty, g)
  PROVE  /\ CacheInv(r.tag, r.dirty, r.slots, r.table, r.pool, latest)
         /\ r.slot \in Slots /\ r.slot[1] = ty /\ r.tag[r.slot] = g
<1>1. CASE Hit(ty, g) # {}
  <2>1. PICK c \in Hit(ty, g) : r = Found(c)
    BY <1>1 DEF cache_request
  <2>2. c \in Slots /\ c[1] = ty /\ tag[c] = g
    BY <2>1 DEF Hit
  <2>3. /\ r.slot = c /\ r.tag = tag /\ r.dirty = dirty /\ r.slots = slots
        /\ r.table = table /\ r.pool = pool
    BY <2>1 DEF Found
  <2> QED BY <2>2, <2>3
<1>2. CASE Hit(ty, g) = {}
  <2>1. PICK c \in Victims(ty) : r = Filled(c, g)
    BY <1>2 DEF cache_request
  <2>2. c \in Slots /\ c[1] = ty
    BY <2>1 DEF Victims
  <2>3. r.slot = c /\ r.tag = [tag EXCEPT ![c] = g]
    BY <2>1 DEF Filled
  <2>4. tag \in [Slots -> Nat]
    BY DEF CacheInv, CacheTypes
  <2>5. IsObject(c[1], g) /\ Hit(c[1], g) = {}
    BY <1>2, <2>2
  <2>6. CacheInv(r.tag, r.dirty, r.slots, r.table, r.pool, latest)
    BY <2>1, <2>2, <2>5, FillKeeps
  <2> QED BY <2>2, <2>3, <2>4, <2>6
<1> QED BY <1>1, <1>2

(* Writing through cache_access_mut marks the slot: the pool may now be    *)
(* behind in the bytes of this slot, and in no others.                     *)
LEMMA StoreKeeps ==
  ASSUME AllocInv, NEW tg, NEW dt, NEW sl, NEW tb, NEW pl, NEW lt,
         CacheInv(tg, dt, sl, tb, pl, lt),
         NEW c \in Slots, tg[c] # 0, NEW o \in Offsets(c[1]), NEW v \in Values
  PROVE  CacheInv(tg, [dt EXCEPT ![c] = TRUE], [sl EXCEPT ![c][o] = v], tb, pl,
                  [lt EXCEPT ![tg[c] + o] = v])
<1> DEFINE dt1 == [dt EXCEPT ![c] = TRUE]
           line == [sl[c] EXCEPT ![o] = v]
           sl1 == [sl EXCEPT ![c] = line]
           lt1 == [lt EXCEPT ![tg[c] + o] = v]
<1>1. /\ TableNames(tg, tb) /\ tg \in [Slots -> Nat]
      /\ dt \in [Slots -> BOOLEAN] /\ sl \in [Slots -> Contents]
      /\ \A d \in Slots : sl[d] \in [Offsets(d[1]) -> Values]
      /\ pl \in [Bytes -> Values] /\ lt \in [Bytes -> Values]
      /\ \A d \in Slots : tg[d] # 0 => IsObject(d[1], tg[d])
  BY DEF CacheInv, CacheTypes
<1>2. c[1] \in Cached /\ tg[c] \in Nat /\ IsObject(c[1], tg[c])
  BY <1>1 DEF Slots
<1>3. o \in Nat /\ tg[c] + o \in Bytes
  BY <1>2, ObjectBytes
<1>4. line \in [Offsets(c[1]) -> Values] /\ line \in Contents
  <2>1. line \in [Offsets(c[1]) -> Values]
    BY <1>1
  <2> HIDE DEF line
  <2> QED BY <1>2, <2>1 DEF Contents
<1>5. /\ line[o] = v
      /\ \A p \in Offsets(c[1]) : p # o => line[p] = sl[c][p]
  BY <1>1
<1> HIDE DEF line
<1>6. /\ dt1[c] = TRUE /\ sl1[c] = line
      /\ \A d \in Slots : d # c => dt1[d] = dt[d] /\ sl1[d] = sl[d]
  BY <1>1
<1>7. /\ lt1[tg[c] + o] = v
      /\ \A a \in Bytes : a # tg[c] + o => lt1[a] = lt[a]
  BY <1>1, <1>3
<1>8. CacheTypes(tg, dt1, sl1, pl, lt1)
  <2>1. dt1 \in [Slots -> BOOLEAN] /\ lt1 \in [Bytes -> Values]
    BY <1>1, <1>3
  <2>2. sl1 \in [Slots -> Contents]
    BY <1>1, <1>4
  <2>3. \A d \in Slots : sl1[d] \in [Offsets(d[1]) -> Values]
    <3> HIDE DEF sl1
    <3> QED BY <1>1, <1>4, <1>6
  <2> QED BY <1>1, <2>1, <2>2, <2>3 DEF CacheTypes
<1> HIDE DEF dt1, sl1, lt1
<1>9. ASSUME NEW d \in Slots, NEW p \in Offsets(d[1]), tg[d] # 0
      PROVE  /\ sl1[d][p] = lt1[tg[d] + p]
             /\ ~dt1[d] => pl[tg[d] + p] = lt1[tg[d] + p]
  <2>1. d[1] \in Cached /\ tg[d] \in Nat /\ IsObject(d[1], tg[d])
    BY <1>1, <1>9 DEF Slots
  <2>2. p \in Nat /\ tg[d] + p \in Bytes
    BY <2>1, ObjectBytes
  <2>3. /\ sl[d][p] = lt[tg[d] + p]
        /\ ~dt[d] => pl[tg[d] + p] = lt[tg[d] + p]
    BY <1>9 DEF CacheInv, HoldsLatest
  <2>4. CASE d = c
    <3>1. CASE p = o
      BY <1>5, <1>6, <1>7, <2>4, <3>1
    <3>2. CASE p # o
      <4>1. tg[d] + p # tg[c] + o
        BY <1>2, <1>3, <2>2, <2>4, <3>2
      <4> QED BY <1>5, <1>6, <1>7, <2>2, <2>3, <2>4, <3>2, <4>1
    <3> QED BY <3>1, <3>2
  <2>5. CASE d # c
    <3>1. tg[d] + p # tg[c] + o
      <4>1. SUFFICES ASSUME tg[d] + p = tg[c] + o PROVE FALSE
        OBVIOUS
      <4>2. d = c
        BY <1>1, <1>9, <4>1, LinesDiffer
      <4> QED BY <2>5, <4>2
    <3> QED BY <1>6, <1>7, <2>2, <2>3, <2>5, <3>1
  <2> QED BY <2>4, <2>5
<1>10. ASSUME NEW a \in Bytes,
              \A d \in Slots : tg[d] # 0 => a - tg[d] \notin Offsets(d[1])
       PROVE  pl[a] = lt1[a]
  <2>1. a # tg[c] + o
    <3>1. (tg[c] + o) - tg[c] = o
      BY <1>2, <1>3
    <3> QED BY <1>10, <3>1
  <2>2. pl[a] = lt[a]
    BY <1>10 DEF CacheInv, HoldsLatest
  <2> QED BY <1>7, <2>1, <2>2
<1>11. HoldsLatest(tg, dt1, sl1, pl, lt1)
  BY <1>9, <1>10 DEF HoldsLatest
<1>12. CacheInv(tg, dt1, sl1, tb, pl, lt1)
  BY <1>1, <1>8, <1>11 DEF CacheInv
<1> QED BY <1>12 DEF dt1, sl1, lt1, line

(* The allocator only adds to the blocks it returned: objects stay.        *)
LEMMA ObjectsStay ==
  ASSUME AllocInv, [Next]_vars, NEW ty, NEW g, IsObject(ty, g)
  PROVE  IsObject(ty, g)'
<1>1. allocs \in Seq(Blocks)
  BY DEF AllocInv, TypeOK
<1>2. UNCHANGED allocs \/ \E b : allocs' = Append(allocs, b)
  BY DEF Next, register_type, disagg_alloc, AllocStep, Check, Grab, Insert,
     Relock, Shift, vars
<1>3. PICK i \in 1..Len(allocs) : allocs[i].type = ty /\ allocs[i].addr = g
  BY DEF IsObject
<1>4. CASE UNCHANGED allocs
  BY <1>3, <1>4 DEF IsObject
<1>5. ASSUME NEW b, allocs' = Append(allocs, b) PROVE IsObject(ty, g)'
  <2>1. i \in 1..Len(allocs') /\ allocs'[i] = allocs[i]
    BY <1>1, <1>3, <1>5
  <2> QED BY <1>3, <2>1 DEF IsObject
<1> QED BY <1>2, <1>4, <1>5

(* An allocator's step leaves the caches alone.                            *)
LEMMA AllocStepKeeps ==
  ASSUME RuntimeInv, Setting, [Next]_vars, UNCHANGED cache_vars
  PROVE  RuntimeInv'
<1>1. AllocInv'
  BY NextPreserves DEF RuntimeInv
<1>2. /\ tag' = tag /\ dirty' = dirty /\ slots' = slots /\ table' = table
      /\ pool' = pool /\ latest' = latest
  BY DEF cache_vars
<1>3. /\ CacheTypes(tag, dirty, slots, pool, latest)
      /\ \A c \in Slots : tag[c] # 0 => IsObject(c[1], tag[c])
      /\ TableNames(tag, table)
      /\ HoldsLatest(tag, dirty, slots, pool, latest)
  BY DEF RuntimeInv, CacheInv
<1>4. ASSUME NEW c \in Slots, tag'[c] # 0 PROVE IsObject(c[1], tag[c])'
  <2>1. PICK g : g = tag[c]
    OBVIOUS
  <2>2. IsObject(c[1], g)'
    BY <1>2, <1>3, <1>4, <2>1, ObjectsStay DEF RuntimeInv
  <2> QED BY <1>2, <2>1, <2>2
<1>5. /\ CacheTypes(tag, dirty, slots, pool, latest)'
      /\ TableNames(tag, table)'
      /\ HoldsLatest(tag, dirty, slots, pool, latest)'
  BY <1>2, <1>3
<1>6. CacheInv(tag, dirty, slots, table, pool, latest)'
  BY <1>4, <1>5 DEF CacheInv
<1> QED BY <1>1, <1>6 DEF RuntimeInv

(* What an access makes of the caches is their state after it; the         *)
(* allocator does not move meanwhile.                                      *)
LEMMA AccessInv ==
  ASSUME AllocInv, Setting, UNCHANGED vars,
         NEW tg, NEW dt, NEW sl, NEW tb, NEW pl, NEW lt,
         CacheInv(tg, dt, sl, tb, pl, lt),
         tag' = tg, dirty' = dt, slots' = sl, table' = tb, pool' = pl, latest' = lt
  PROVE  RuntimeInv'
<1>1. AllocInv'
  BY NextPreserves
<1>2. /\ CacheTypes(tg, dt, sl, pl, lt)
      /\ \A c \in Slots : tg[c] # 0 => IsObject(c[1], tg[c])
      /\ TableNames(tg, tb)
      /\ HoldsLatest(tg, dt, sl, pl, lt)
  BY DEF CacheInv
<1>3. ASSUME NEW c \in Slots, tag'[c] # 0 PROVE IsObject(c[1], tag[c])'
  <2>1. IsObject(c[1], tg[c])
    BY <1>2, <1>3
  <2> QED BY <2>1 DEF vars, IsObject
<1>4. /\ CacheTypes(tag, dirty, slots, pool, latest)'
      /\ TableNames(tag, table)'
      /\ HoldsLatest(tag, dirty, slots, pool, latest)'
  BY <1>2
<1>5. CacheInv(tag, dirty, slots, table, pool, latest)'
  BY <1>3, <1>4 DEF CacheInv
<1> QED BY <1>1, <1>5 DEF RuntimeInv

(* A load keeps the invariant and returns the last value stored.           *)
LEMMA LoadKeeps ==
  ASSUME RuntimeInv, Setting, UNCHANGED vars,
         NEW ty \in Cached, NEW a \in Bytes, Load(ty, a)
  PROVE  RuntimeInv' /\ loaded' = <<a, latest[a]>> /\ UNCHANGED latest
<1> DEFINE g == extract_tag(PageSize, TypeSize[ty], a)
<1>1. AllocInv /\ CacheInv(tag, dirty, slots, table, pool, latest)
  BY DEF RuntimeInv
<1>2. g \in Nat /\ IsObject(ty, g) /\ a - g \in Offsets(ty) /\ a = g + (a - g)
  BY <1>1, TagOfReachable DEF Load
<1>3. PICK r \in cache_request(ty, g) :
        /\ tag' = r.tag /\ dirty' = r.dirty /\ slots' = r.slots
        /\ table' = r.table /\ pool' = r.pool
        /\ loaded' = <<a, r.slots[r.slot][a - g]>>
  BY DEF Load
<1>4. latest' = latest
  BY DEF Load
<1> HIDE DEF g
<1>5. /\ CacheInv(r.tag, r.dirty, r.slots, r.table, r.pool, latest)
      /\ r.slot \in Slots /\ r.slot[1] = ty /\ r.tag[r.slot] = g
  BY <1>1, <1>2, <1>3, RequestKeeps
<1>6. g # 0
  BY <1>1, <1>2, ObjectBytes
<1>7. r.slots[r.slot][a - g] = latest[g + (a - g)]
  BY <1>2, <1>5, <1>6 DEF CacheInv, HoldsLatest
<1>8. RuntimeInv'
  BY <1>1, <1>3, <1>4, <1>5, AccessInv
<1> QED BY <1>2, <1>3, <1>4, <1>7, <1>8

(* A store keeps the invariant.                                            *)
LEMMA StoreStepKeeps ==
  ASSUME RuntimeInv, Setting, UNCHANGED vars,
         NEW ty \in Cached, NEW a \in Bytes, NEW v \in Values, Store(ty, a, v)
  PROVE  RuntimeInv'
<1> DEFINE g == extract_tag(PageSize, TypeSize[ty], a)
<1>1. AllocInv /\ CacheInv(tag, dirty, slots, table, pool, latest)
  BY DEF RuntimeInv
<1>2. g \in Nat /\ IsObject(ty, g) /\ a - g \in Offsets(ty) /\ a = g + (a - g)
  BY <1>1, TagOfReachable DEF Store
<1>3. PICK r \in cache_request(ty, g) :
        /\ tag' = r.tag
        /\ dirty' = [r.dirty EXCEPT ![r.slot] = TRUE]
        /\ slots' = [r.slots EXCEPT ![r.slot][a - g] = v]
        /\ table' = r.table /\ pool' = r.pool
  BY DEF Store
<1>4. latest' = [latest EXCEPT ![a] = v]
  BY DEF Store
<1> HIDE DEF g
<1>5. /\ CacheInv(r.tag, r.dirty, r.slots, r.table, r.pool, latest)
      /\ r.slot \in Slots /\ r.slot[1] = ty /\ r.tag[r.slot] = g
  BY <1>1, <1>2, <1>3, RequestKeeps
<1>6. g # 0
  BY <1>1, <1>2, ObjectBytes
<1>7. CacheInv(tag', dirty', slots', table', pool', [latest EXCEPT ![g + (a - g)] = v])
  BY <1>1, <1>2, <1>3, <1>5, <1>6, StoreKeeps
<1>8. latest' = [latest EXCEPT ![g + (a - g)] = v]
  BY <1>2, <1>4
<1> QED BY <1>1, <1>7, <1>8, AccessInv

(* The program starts with empty caches, and nothing stored.               *)
LEMMA RuntimeInitEstablishes == RuntimeInit => RuntimeInv
<1> SUFFICES ASSUME RuntimeInit PROVE RuntimeInv
  OBVIOUS
<1>1. AllocInv
  BY InitEstablishes DEF RuntimeInit
<1>2. \A c \in Slots : tag[c] = 0 /\ slots[c] \in [Offsets(c[1]) -> Values]
  BY RuntimeAssumption DEF RuntimeInit
<1>3. \A c \in Slots : slots[c] \in Contents
  BY <1>2 DEF Contents, Slots
<1>4. slots \in [Slots -> Contents]
  BY <1>3 DEF RuntimeInit
<1>5. CacheTypes(tag, dirty, slots, pool, latest)
  BY <1>2, <1>4, RuntimeAssumption DEF RuntimeInit, CacheTypes
<1>6. TableNames(tag, table)
  BY <1>2 DEF RuntimeInit, TableNames
<1>7. HoldsLatest(tag, dirty, slots, pool, latest)
  BY <1>2 DEF RuntimeInit, HoldsLatest
<1> QED BY <1>1, <1>2, <1>5, <1>6, <1>7 DEF RuntimeInv, CacheInv

(* Every step of allocator and caches keeps the invariant.                 *)
LEMMA RuntimeNextPreserves ==
  ASSUME RuntimeInv, Setting, [RuntimeNext]_<<vars, cache_vars>>
  PROVE  RuntimeInv'
<1>1. CASE [Next]_vars /\ UNCHANGED cache_vars
  BY <1>1, AllocStepKeeps
<1>2. CASE Access /\ UNCHANGED vars
  <2>1. PICK ty \in Cached, a \in Bytes :
          Load(ty, a) \/ \E v \in Values : Store(ty, a, v)
    BY <1>2 DEF Access
  <2> QED BY <1>2, <2>1, LoadKeeps, StoreStepKeeps
<1> QED BY <1>1, <1>2 DEF RuntimeNext

-----------------------------------------------------------------------------
(* RuntimeInv holds in every state of one thread's runtime.                *)
THEOREM RuntimeInvariant == ASSUME Setting PROVE RuntimeSpec => []RuntimeInv
<1>1. RuntimeInit => RuntimeInv
  BY RuntimeInitEstablishes
<1>2. RuntimeInv /\ [RuntimeNext]_<<vars, cache_vars>> => RuntimeInv'
  BY RuntimeNextPreserves
<1> QED BY <1>1, <1>2, PTL DEF RuntimeSpec

(* No byte of the pool is cached twice, and every slot in use holds an     *)
(* object that disagg_alloc returned.                                      *)
THEOREM RuntimeLinesApart == ASSUME Setting PROVE RuntimeSpec => []LinesApart
<1>1. ASSUME RuntimeInv, NEW c \in Slots, NEW d \in Slots, tag[c] # 0, tag[d] # 0,
             c # d, NEW o \in Offsets(c[1]), NEW p \in Offsets(d[1])
      PROVE  tag[c] + o # tag[d] + p
  BY <1>1, LinesDiffer DEF RuntimeInv, CacheInv, CacheTypes
<1>2. ASSUME RuntimeInv, NEW c \in Slots, tag[c] # 0 PROVE IsObject(c[1], tag[c])
  BY <1>2 DEF RuntimeInv, CacheInv
<1>3. RuntimeInv => LinesApart
  BY <1>1, <1>2 DEF LinesApart
<1> QED BY <1>3, RuntimeInvariant, PTL

(* One thread's allocator and caches implement a flat memory of bytes.     *)
THEOREM RuntimeImplementsByteMemory ==
  ASSUME Setting PROVE RuntimeSpec => ImplementsByteMemory
<1>1. RuntimeInit => Flat!Init
  BY DEF RuntimeInit, Flat!Init
<1>2. ASSUME RuntimeInv, [RuntimeNext]_<<vars, cache_vars>>
      PROVE  [Flat!Next]_<<latest, loaded>>
  <2>1. CASE UNCHANGED cache_vars
    BY <2>1 DEF cache_vars
  <2>2. CASE Access /\ UNCHANGED vars
    <3>1. PICK ty \in Cached, a \in Bytes :
            Load(ty, a) \/ \E v \in Values : Store(ty, a, v)
      BY <2>2 DEF Access
    <3>2. CASE Load(ty, a)
      <4>1. Flat!Read(a)
        BY <1>2, <2>2, <3>2, LoadKeeps DEF Flat!Read
      <4> QED BY <4>1 DEF Flat!Next
    <3>3. ASSUME NEW v \in Values, Store(ty, a, v) PROVE Flat!Next
      <4>1. Flat!Write(a, v)
        BY <3>3 DEF Store, Flat!Write
      <4> QED BY <4>1 DEF Flat!Next
    <3> QED BY <3>1, <3>2, <3>3
  <2> QED BY <1>2, <2>1, <2>2 DEF RuntimeNext
<1> QED BY <1>1, <1>2, RuntimeInvariant, PTL DEF RuntimeSpec, ImplementsByteMemory, Flat!Spec
=============================================================================
