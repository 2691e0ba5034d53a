# A verification project for the disaggregated-memory runtime

The repository is a research compiler and runtime for disaggregated memory. What
exists as code is the runtime (`src/runtime`): a library linked into a *compute
node*'s program that keeps objects of a remote memory pool in a local cache, and
a *memory node* process that owns the pool. They are connected by RDMA: the
memory node registers the pool once and takes no part in reads and writes.

This directory models that runtime in TLA+, checks it with TLC on small
instances and proves its main safety properties with TLAPS for every instance.

## 1. Inventory

| component | state | operations | interacts with |
|---|---|---|---|
| object cache (`cache.c`) | per type: slots, metadata word `valid_io_rc`, tag, dirty bit, free list | `cache_request`, `cache_access`, `cache_access_mut`, `cache_token_free` | translation table, free list, RDMA connection |
| free list (`cache.c`) | linked intervals of slot numbers | `new`, `push`, `pop`, `free` | cache |
| address translation table (`context-internal.h`, external hash map) | (type, tag) to slot | get, set, delete | cache |
| allocator (`alloc.c`, `context-internal.h`) | per type: list of chunks under a lock; global `next_chunk` | `disagg_alloc`, `disagg_free` (no-op) | type registry, memory info |
| addresses (`addr.c`, `handshake.h`) | none | `extract_tag`, `mem_upper_bound` | cache, allocator |
| type registry (`type.c`) | `types_count`, the arrays types, type_chunk_refs, caches | `register_type` | allocator, cache |
| compute context (`context.c`) | all of the above | `compute_context_create`, `compute_context_free` | RDMA client |
| RDMA client (`compute/src/rdma.c`) | event channel, connection, memory info | `rdma_client_connect`, `rdma_client_free` | connection manager |
| connection helpers (`common/rdma.h`) | PD, CQs, buffers, QP | `_expect_event`, `rdma_conn_create`, `rdma_conn_free`, `rdma_conn_poll_ev` | client, server |
| RDMA server (`memory/src/rdma.c`, `context.c`) | pool, listener, one connection | `rdma_server_create`, `rdma_server_free`, `memory_context_create`, `memory_context_free` | connection manager |
| main loop (`memory/src/main.c`) | epoll over the CM channel and the completion channel | `main` | adapter, connection manager |
| parsing (`parse.h`) | cuts its argument in place | `parse_addr`, `parse_port` | `MEMORY_ADDR`, option `-p` |
| error macros (`try.h`) | none | | every caller |

Interaction is by calls inside a process, by connection manager (CM) events
between the processes, and by one-sided RDMA between the cache and the pool.

Hard behaviour, and where it comes from:

* *eviction against pinning*: the reference count, the I/O bit and the valid bit
  share one atomic word, and the tag, the dirty bit and the translation table
  change at other moments than the word;
* *threads*: the code is written with atomics and comments on concurrent
  scenarios, but `docs/version.md` puts the library at version 0.1, "Single
  Threading". What a user is promised is therefore stated and proved for one
  thread; the runs with two threads show what already holds and what does not,
  and what holds is proved for any number of threads;
* *shared completions*: every thread waits on the same send completion queue;
* *failure*: RDMA errors are not looked at, neither when a request is posted nor
  when it completes; `try` and `try3` see negative results only, so that calls
  which report failure by 0, by a positive errno or by `MAP_FAILED` pass; `try3`
  jumps to cleanup from many points, and `types_count` changes before what it
  counts exists;
* *the receive loop*: the completion queue is drained, armed again and refilled
  in three steps, and the adapter completes receives between any two of them;
* *the handshake*: each side takes the next event of its channel, whatever
  connection it belongs to, while clients race, time out and die.

`PROJECT.json` lists the hazards line by line.

What makes each component correct: the cache is a flat memory to its user and
never reuses a pinned slot; the free list never holds a slot twice; the
allocator hands out disjoint blocks inside the pool that `extract_tag` does not
cut; the two together are a flat memory of bytes; the handshake ends with both
sides agreeing who is connected; the receive loop misses no completion and ends
with its client; a text is taken for the address it stands for; creation and
free give back what was acquired.

## 2. Modules

    FreeList -- Cache -- CacheProps -- MCCache     Addr -- Alloc -- AllocProps -- MCAlloc
        |                    |                                      |     |
    FreeListProof ------ CacheProof                         AllocProof   Runtime -- MCRuntime
                                                                    |     |
                                                                  RuntimeProof

    Handshake -- HandshakeProps -- MCHandshake     ParseAddr -- Lifecycle -- MCLifecycle
                      |                                |            |
                 HandshakeProof                  ParseAddrProof -- LifecycleProof

    ReceiveLoop -- MCReceiveLoop                   FlatMemory: implemented by
         |                                         Cache and Runtime
    ReceiveLoopProof

**FreeList** (`cache.c:17-58`). The linked nodes are a sequence of records
`[begin, back]`. `cache_free_list_push` is defined on non-empty lists; `HasTail`
is the condition under which the C code does not store through a NULL tail.

**Cache** (`cache.c:78-231`). One cache block, any set of threads. Every shared
access of `cache_request` is an action: `Lookup`/`Insert` (hash map),
`LoadMeta`/`CheckTag`/`Spin`/`Ref` (the hit path of `cache_try_request`),
`Pop`, `EvictRetry`/`Evict` (random victim and compare-and-swap), `Unmap`,
`Flush`, `WritePost`/`WriteWait`, `Install`, `Publish`, `ReadPost`/`ReadWait`,
`Push`. `AccessMut`, `Store`, `Load` and `cache_token_free` are the caller's
steps. `valid_io_rc` is kept as a number with its width (`WORD = 4 * FLAG_IO`).
Objects stand for tags; the offset inside an object plays no part. `NicTransfer`
and `NicError` are the external RDMA device: requests execute in order, and an
error puts the queue pair into its error state. `Post` may fail, which the code
does not look at: the thread goes on to wait for a completion that nobody owes
it, and `unposted` counts these. `fault` records a failed assert
or a NULL dereference, after which nothing happens. The constant `NDEBUG`
removes the asserts, with what they contain. `latest` and `loaded` are history:
the last value stored in each object, and the object and the value of the last
load.

**FlatMemory** is the abstract specification: one memory, `Write` and `Read`.
`Read(o)` records in `loaded` both the object and the value, so that a step that
loads from `o` can only be explained by the value `o` itself holds. The
refinement mapping takes `mem` to `latest`; that a `Load` of the cache is a
`Read` of the flat memory is the claim that the slot holds the latest value.

**Addr** (`addr.c`, `handshake.h`) and **Alloc** (`alloc.c`,
`context-internal.h:15-36`, `type.c`). `disagg_alloc` is split at the lock
operations and at the atomic counter: `disagg_alloc` (size test), `Check` (first
read-locked section), `Grab`, `Insert` (with the write-locked
`chunk_ref_list_insert`, whose result is ignored, and the end-of-pool test that
comes after it), `Relock`, `Shift`. `wild` is the set of types whose list is
uninitialised memory. `register_type` may move the array of lists under a thread
that is inside `disagg_alloc` (fault `moved_lists`). `allocs` is history: what
was returned.

**Handshake** (`compute/src/rdma.c`, `memory/src/rdma.c`, `memory/src/main.c`,
`common/rdma.h:17-47`). Program counters `cpc[c]` and `spc`, one event channel
per process, and `link[c]`, what the connection manager knows of a connection.
The CM is external: it resolves or fails to, delivers or rejects requests, times
out, and tears connections down when a process ends. `rdma_client_connect` reads
the memory info from an event it has acknowledged: `MemRead` is the info or
garbage.

**Runtime** (`alloc.c` under `cache.c`) composes the allocator with the cache
blocks of several types, for one thread. A slot is a type and a number; `tag`,
`dirty` and `slots` hold its metadata and bytes; all blocks share `table` and
`pool`. `cache_request` is the set of what a request may make of them. The
table is keyed by `type_id_tag.val`, as in the code, where that number is the
hash and no compare function is given. `Load` and `Store` take any byte of any
object `disagg_alloc` returned, find the object with `extract_tag`, request it
(hit; or free slot, else eviction with write-back; insertion; fetch) and use the
byte at `slot_off`. The whole request is one step here: one thread runs, and
what happens inside it is in Cache. The abstract specification is FlatMemory
again, over byte addresses.

**ReceiveLoop** (`memory/src/main.c:52-110`, `common/rdma.h:132-155`). `EpollWait`
returns the ready descriptors in either order; `CmEvent` takes one event;
`GetCqEvent`, `Poll`, `Rearm` are `rdma_conn_poll_ev`; `Refill` is one turn of
the loop over the completions. `ibv_req_notify_cq` reports failure by a positive
errno, which `try` takes for success (`try.h:35`): the loop goes on with
`notify = "failed"`, and no completion raises an event any more. The adapter is external: a completion raises an
event only if the queue is armed, and arming an already filled queue raises
none; a breaking connection completes what is posted with errors. The compute
side of this repository sends no messages ("Reserved for future use",
`common/rdma.h:49-50`), so that today only error completions occur; the loop is
checked with both.

**ParseAddr** (`common/parse.h`). `parse_port` and `parse_addr` as operators on
sequences of tokens: the separators the code searches for, and words that the C
library accepts or not. The result holds what is left of the caller's text.
`Meaning` is the reference: which texts stand for which address.

**Lifecycle** (`context.c`, `type.c`, `cache.c:60-94`, `compute/src/rdma.c`,
`common/rdma.h:67-129`, `memory/src/rdma.c`, `memory/src/context.c`). Both nodes
from the text of their address: `parse_addr` on `MEMORY_ADDR`, or `parse_port`
on the option `-p`; then the set `live` of resources, through creation
(`ComputeSteps` and `MemorySteps`, the calls in the order of the code, each of
which may fail), `register_type`, the nodes that `disagg_alloc` adds to the chunk
lists (`AllocChunk`) and free. Three failures are not noticed (`Unnoticeable`):
of `mmap`, of `hashmap_new` and of `ibv_req_notify_cq`; `unnoticed` records them.
A compute program may create its context again, from what the first attempt left of the
text. The RDMA library refuses to destroy a protection domain or completion
queue in use, and to register memory that is not mapped. Destroying the queue
pair of an ID that has none either does nothing or follows a NULL pointer
(`no_qp`), depending on the library. The port given with `-p` is parsed and then
not used: `memory_context_create` listens on 12345 (`memory/src/context.c:19-20`).

Operators under a comment "Bug: ..." are plausible mistakes in the code they
precede. No specification uses them; each property of a passing run fails when
one of them takes the place of the definition it precedes.

## 3. Runs

| run | instance | shows |
|---|---|---|
| `cache_single` | 1 thread, 2 slots, 3 objects, 2 values, at most 2 tokens per slot | all single-thread properties, the inductive invariant, refinement of FlatMemory |
| `cache_rdma_error` | the same with 1 value, 1 token; posting and completion fail; fair | table exact after errors; a request returns while some slot is not pinned, unless a posting failed |
| `cache_threads` | 2 threads, 3 slots, 3 objects | a slot is in one place; as many completions as waiters |
| `cache_stale_hit` * | 2 threads, 2 slots, 2 objects | a hit on a slot refilled for another object |
| `runtime_bytes` | 1 thread, 3 pages of 4 bytes, sizes 0 to 5, 2 slots per type, 2 stores | allocator: in the pool, tags, drained only when full; no byte cached twice; refinement of FlatMemory by bytes; inductive invariants of the allocator and of the whole |
| `alloc_threads` | 2 threads, pages of 8 bytes, objects of 2 to 4; lists uninitialised or moved | blocks disjoint, tags |
| `alloc_chunk_per_block` * | 1 thread, objects of 1 and 2 bytes | a page per object |
| `hs_all` | 3 clients, all failures, fair | who is served; who is connected; both sides end the handshake; inductive invariant |
| `hs_calm` | 2 clients, no failures, fair | a lone client's handshake completes |
| `hs_dangling` * | 1 client | the memory info may be garbage |
| `life_all` | both nodes, 468 texts, up to 6 types, 2 attempts, every call fails or not | what a text is taken for; what is given back and what is not; where cleanup dies; inductive invariant |
| `recv_loop` | 3 messages, 2 other events, a break, a disconnect, failing calls, fair | wakeups exact and receive posted again while arming succeeds, buffer used once, disconnect ends the loop; inductive invariant |

Runs marked * end in a counterexample: the property states what a comment of
the repository says, and the code does otherwise. `PROJECT.json` quotes the
sentence in each case. The rest pass.

**What the assumptions hide.** Each constant that the properties are conditional
on stands for a defect or a limit of the code; changing it in the cfg named
shows the counterexample.

| change | result |
|---|---|
| `NDEBUG = TRUE` in `MCCache_single.cfg` | `TableExact`, `IInv` violated: `hashmap_set` is inside an assert (`cache.c:119`) |
| `MaxHold = 5` in `MCCache_single.cfg` | `IInv` violated: the fourth token on a slot carries into the I/O bit (the 2^30th in the code), and the next request for it spins (`cache.c:138`) |
| `TokenSeesLatest` without `~qp_err`, `RdmaMayFail = TRUE` | violated: completion statuses are not read (`cache.c:170,192`) |
| `RequestReturns` without `SomeSlotUnpinned` | violated: with all slots pinned the retry loop does not end (`cache.c:175`) |
| `RequestReturns` without `unposted > 0` | violated: the results of `rdma_post_write` and `rdma_post_read` are not read (`cache.c:166,188`) |
| `ReallocZeroed = FALSE` in `MCRuntime_bytes.cfg` | `RuntimeInv` violated: head and tail of a new list are uninitialised (`type.c:33`) |
| `CallocMayFail = TRUE` in `MCRuntime_bytes.cfg` | `RuntimeInv` violated: the process dies on a NULL tail (`alloc.c:32,43`) |
| `CallocMayFail = TRUE` in `MCAlloc_threads.cfg` | `TagIsStart` violated: the block goes behind a full page (`alloc.c:32`) |
| `PageSize = 4` in `MCAlloc_threads.cfg` | `TagIsStart` violated: two threads shift the same tail, which has room for one block (`alloc.c:38-43`) |
| `InPool` or `DrainedOnlyWhenFull` in `MCAlloc_threads.cfg` | violated: the tail is another thread's chunk, beyond the pool; the page of a thread that shifted another's tail holds no block |
| `ReadyHasInfo` in `MCHandshake_all.cfg` | violated, as in `hs_dangling` (`compute/src/rdma.c:43`) |
| `EventPerCompletion` or `ReceiveReposted` without `notify = "failed"` | violated: a failing `ibv_req_notify_cq` goes unnoticed (`rdma.h:100,153`) |
| `RegisteredFreeSafe` without `registers` | violated: `types_count` is ahead of `caches` (`type.c:23`) |
| `CleanupFaultsOnlyIn` without its two windows | violated: `rdma_destroy_qp` on an ID without a queue pair (`rdma.h:69`); three blocks of a NULL array (`context.c:47`) |
| `RetryKeepsHost` with `a.port = m.port` | violated: the second attempt finds `MEMORY_ADDR` without its port (`parse.h:91`) |
| `ParsesMeaning` without its two exceptions | violated: `inet_pton` returns 0 (`parse.h:53,60,94`), trailing bytes (`parse.h:74-76`) |
| `PrePosted = 2` (definition, ReceiveLoop) | `EventPerCompletion` violated: the order drain, arm, refill is safe for one receive only (`rdma.h:153`) |
| a type of size 0 | excluded by `AllocAssumption`: `extract_tag` divides by the size (`addr.c:12`) |

**Bounds.** Two slots and three objects make eviction, refill and pinning
happen together for one thread. `FLAG_IO = 4` leaves two bits of count:
`MaxHold = 2` stays below it. Two threads need three slots: the loser of a race
can push its slot back only if the list is not empty, and with two slots it is
always empty by then (and the push follows the NULL tail). `cache_threads` has
four bits of count, `FLAG_IO = 16`. `MaxPinned` bounds the objects a thread holds
a token of when it makes a request: in `cache_threads` it is 0, a thread requests,
uses and frees one object at a time, and three in the runs of one thread, which
is no bound. `LoadsNotRecorded`, a constraint of `cache_threads`, does not follow
a state in which a load was recorded: a load changes only `loaded`, which no
action and neither of the run's properties reads. Three pages and `MaxGrabs = 4`
drain the pool and take one chunk beyond it. Page size 4 with sizes 2, 3 and 4
gives objects that do and do not divide the page. Three clients
let one be served, one wait in the queue and one arrive late. `MaxTypes = 6`
gives three registrations after the reserved types: one that fails, one that
leaves a gap, one that fills it; each type may be allocated from or not. The pages
of eight bytes of `alloc_threads` have room for one object of each thread, as a
page of 4096 bytes has for the threads of a program with small objects. In
Runtime three objects of one type compete for two slots, and two stores suffice to tell a stale copy from the last one. The
texts of Lifecycle are all combinations of an opening bracket, a host, a scope,
a closing bracket and a tail, each present, absent or malformed. Three messages
let one arrive in each of the windows of the receive loop; the proof shows that
the number does not matter.

**Deadlock** is checked in the single-threaded cache and allocator runs. It is
not where a thread may die (`fault`) or the processes end: `cache_threads`,
`cache_stale_hit`, `alloc_threads`, the handshake, the lifecycle and the receive
loop.

**Fairness.** Cache: a thread inside `cache_request` and the RDMA device keep
going; an evictable slot is eventually drawn, because `rand()` does not avoid it
for ever. The application is not assumed to free anything. Handshake: both
programs keep running, and the connection manager delivers and bounds its
retries. No client is assumed to connect or disconnect. Receive loop: `main` is a
running thread; nothing is assumed of the adapter, the client or the network.

## 4. Proofs

All proofs are by induction over steps, with one lemma per action.

**FreeListProof**: what `new`, `push` and `pop` do to the set of free slots, and
that they keep a list well-formed.

**CacheProof, one thread**, asserts on and `MaxHold < FLAG_IO`. `IInv` (in
CacheProps) adds to the properties what each place of `cache_request` knows:
free slots are invalid (`FreeInv`); a slot in use has the latest value, and so
has the pool if it is clean (`LiveData`); an entry leads to a slot in use or the
one being unmapped or filled (`EntryInv`); the queue holds the waiting thread's
request or its completion (`QueueInv`); the victim's data are the latest until
they are written back (`VictimInv`); the slot being filled is invisible to
others until it is filled (`FillInv`). None of the properties is inductive
alone: `TokenSeesLatest` needs the pool to be up to date when an object comes
back, which needs the write-back to have taken place, which needs the reference
counts to be exact. From `IInv`: `NoFault`, `TableExact`, `RefCountExact`,
`EvictionLosesNothing`, `TokenSeesLatest` (also when RDMA may fail, up to the
first error), and `ImplementsFlatMemory` if RDMA is reliable.

**CacheProof, any set of threads**, with RDMA errors, faults and any build.

* `CompletionsMatchWaiters`, for finitely many threads. `WaitInv` is that
  property with the types it needs: a post adds a waiter and either a request or
  one to `unposted`, the device turns a request into a completion, a wait takes
  one completion and one waiter away. So the send completion queue of 16 entries is enough for 16
  threads (`OneEntryPerThread`), though the queue pair admits 32 requests.
* `SlotInOnePlace`, while fewer than `FLAG_IO` references are made to a slot
  (`SlotNeverShared`). A hit may increment the count of a slot that has since
  been evicted, and its `cache_token_free` may decrement it after the slot was
  reset for another object; so the counts of a slot in a place are not exact.
  `PlaceInv` says what they still are: the word of a slot that is free or in a
  request's hands is that of a reset slot, or of one being fetched, counted on
  from some `n < FLAG_IO` left-over references (`CountedFrom`). Such a word is
  never just `FLAG_VALID`, the one value that can be evicted, so nobody takes the
  slot away from the place it is in. `HoldInv` bounds the references by the
  tokens of every thread and one pending hit each; where that sum is below
  `FLAG_IO` (2^30 in the code) the hypothesis is a fact (`SlotNeverSharedBounded`).

**AllocProof**, one thread, if `calloc` succeeds and new lists happen to be
zero. `AllocInv` says that chunks are whole pages, that the chunk in hand is
newer than every block, that each block starts a page, and that a page the
counter has passed holds a block or is in hand (`NoPageLost`). That a block starts
a page is a consequence of the test of `alloc.c:28`, which is always true (lemma
`AlwaysNeedsChunk`, for pools that are not in the first two pages of the address
space). `Disjoint`, `InPool`, `TagIsStart` and `DrainedOnlyWhenFull` follow: a
thread that finds the pool drained has the page behind the last one in hand, so
that every page of the pool holds a block.

**RuntimeProof**, under the same conditions, for any types, ids and number of
slots. `RuntimeInv` is `AllocInv` and `CacheInv`: the table names exactly the
slots in use (`TableNames`), each of them holds an object that was allocated, and
the last value of every byte is in its slot, in the pool, or in both
(`HoldsLatest`). A type id is below 256, so keys do not collide (`KeyInjective`);
`Disjoint` and the table then give that two slots in use share no byte
(`LinesDiffer`), which is why a write-back or a store changes nobody else's
bytes; `TagIsStart` gives that an access inside an object requests that object.
From it: `LinesApart` and `ImplementsByteMemory`.

**HandshakeProof**, for any set of clients, with failures, timeouts and crashes,
and whatever is read from the acknowledged event. `HandshakeInv` ties each `link`
to the places of both ends and says that an ESTABLISHED event in the server's
channel is about the client in `server->conn`; that is why not looking at the
event's ID is harmless. From it: `ServedIsReady` and `ReadyIsAccepted`.
`ReadyHasInfo` is false of the code and not claimed.

**ReceiveLoopProof**, for any `MAX_POLL` and any number of messages and events.
`LoopInv` says that outside `rdma_conn_poll_ev` the queue is armed exactly when
it is empty, or arming it has failed and it raises no event (`Synced`), and that
while it is drained the one receive is with the loop, so that nothing can
complete before it is armed again. From it: `EventPerCompletion` (no false
positive, and no lost wakeup unless `ibv_req_notify_cq` failed unnoticed) and
`OneReceiveOut`.

**ParseAddrProof**. `ParseComplete`: on a text that `Meaning` gives an address,
`parse_addr` returns that address and no other, and leaves the host (with the
opening bracket, if there was one). `ParseSound`, for texts of every length: what
is accepted, with a host and a port, is the address the text stands for, and what
is left is again a text. `strrchr` is the last position of a character; that a
text which has the character has a last one is shown with the least element of a
set of numbers, because induction over the text is out of reach. A text of the
grammar is cut where the code cuts it because what follows a separator does not
contain it again.

**LifecycleProof**, for every set of texts, any number of types and attempts, any
failure, and either outcome of destroying a missing queue pair; it rests on
`LifecycleAssumption` only. `LifeInv` adds to the properties what is live at each
place: during creation exactly what the steps so far acquired, without what
failed unnoticed (`Creating`); in a created context everything, the blocks of the
types whose registration succeeded and the nodes of the chunk lists in use, with `types_count` ahead of
`caches` only after a failed registration (`Created`); and what earlier attempts
have left of the text (`TextCut`). The properties need it: what a cleanup gives
back is `live` without what the code destroys, in the order in which the library
accepts it. From it and the two theorems on `parse_addr`: `ParsesMeaning`,
`RetryKeepsHost`, `CleanupFaultsOnlyIn`, `RegisteredFreeSafe`,
`FailedCreateReleases` and `FreeLosesDomainAndChunks`.

Only model-checked: the liveness properties `RequestReturns`, `ClientDecides`,
`ServerStops`, `HandshakeCompletes`, `ReceiveReposted` and `DisconnectEnds`
(fairness is out of the prover's reach), and `Disjoint` and `TagIsStart` for
several threads. Every other property of a passing run is stated by a theorem.
The bound on references in `SlotNeverShared` cannot be
dropped: `FLAG_IO` left-over decrements would make a slot evictable that is being
filled.

## 5. Not modelled

* hash map internals, libibverbs, librdmacm and the kernel: external, modelled
  from how the runtime uses them;
* several threads over several cache blocks at once (Runtime is one thread);
* a failing `pthread_rwlock_init` (`type.c:33`, `context.c:51`): it allocates
  nothing, and its positive errno is not noticed either;
* the sizes of the completion queues (16) and of the send queue (32): the queues of
  Cache are unbounded, and `OneEntryPerThread` says how far they fill;
* objects of the reserved types in the cache: they have no block and no
  description, a request for one follows NULL (`addr.c:11`, TODO at
  `context.c:54`); the argument `count` of `disagg_alloc`, which the code ignores;
* memory ordering: atomics are sequentially consistent in the code; the plain
  accesses to `tag` race in the two-thread runs as interleavings only;
* the text of the options (argp) and of messages; `offload` (empty); examples and
  tests, which are programs that use the runtime or sketches of one.

## 6. Plan

Done: FreeList, Cache, FlatMemory, Addr, Alloc, Runtime, Handshake, ReceiveLoop,
ParseAddr and Lifecycle with their properties, and the proofs of section 4.

Next: Runtime with requests that overlap, as in Cache; `Disjoint` proved for
threads whose blocks fit in a page together.
