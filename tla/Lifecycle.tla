------------------------------ MODULE Lifecycle ------------------------------
(***************************************************************************)
(* The resources of a node, from the text that says where it connects or   *)
(* listens to the end of its context:                                      *)
(*  - "compute": compute_context_create with rdma_client_connect, then     *)
(*    register_type with cache_block_init, the nodes that disagg_alloc     *)
(*    adds to the chunk lists, and compute_context_free, which is also the *)
(*    cleanup of a creation that fails half way; a program may create a    *)
(*    context again after a failure or a free;                             *)
(*  - "memory": main of the memory node with memory_context_create and     *)
(*    rdma_server_create, whose context is freed only when that fails.     *)
(* Both create their connection with rdma_conn_create.                     *)
(*                                                                         *)
(* Creation is a sequence of calls any of which may fail; the steps that   *)
(* allocate are named for what they allocate.  The RDMA library is         *)
(* external: it refuses to destroy an object that others are built on      *)
(* (EBUSY, which the code does not look at) and to register memory that is *)
(* not mapped; destroying the queue pair of an ID that has none either     *)
(* does nothing or follows a NULL pointer.                                 *)
(***************************************************************************)
EXTENDS ParseAddr

CONSTANTS
  CallsMayFail,    \* TRUE when allocations and RDMA calls may fail
  ReallocZeroed,   \* TRUE when reallocarray happens to return zeroed memory
  MaxTypes,        \* bound: types_count (255 in register_type)
  MaxTries,        \* bound: how often a program creates a context
  AddrTexts,       \* what MEMORY_ADDR may be set to
  PortTexts        \* what the option -p may be given

ASSUME LifecycleAssumption ==
  /\ CallsMayFail \in BOOLEAN /\ ReallocZeroed \in BOOLEAN
  /\ MaxTypes \in Nat /\ MaxTries \in Nat \ {0}
  /\ AddrTexts \subseteq Seq(Tokens) /\ PortTexts \subseteq Seq(Tokens)

VARIABLES
  side,         \* "compute" or "memory"
  asked,        \* what MEMORY_ADDR or the option -p was set to
  memory_addr,  \* the text now in the environment
  target,       \* {} or {the address that parse_addr made of it}
  tries,        \* how often the context was created
  pc,           \* "parse", "create", "ready", "failed" or "freed"
  step,         \* position in CreateSteps
  live,         \* resources allocated and not yet released, as pairs of a
                \* name and the type it is for (0: the context itself)
  types_count,
  caches,       \* ctx->caches: what is in each cache block; << >> for NULL
  used,         \* the types whose list in type_chunk_refs has nodes
  unnoticed,    \* history: the steps that failed without the code's noticing
  registers,    \* history: did every register_type so far succeed?
  fault

text_vars == <<side, asked, memory_addr, target, tries>>
vars == <<side, asked, memory_addr, target, tries, pc, step, live, types_count,
          caches, used, unnoticed, registers, fault>>

(* The variable, or the option, is not set.                                *)
Unset == <<"unset">>

(* compute_context_create: rdma_client_connect and in it rdma_conn_create. *)
ComputeSteps ==
  <<"ctx", "client", "cm_events", "cm_id", "resolve_addr", "addr_resolved",
    "resolve_route", "route_resolved",
    "conn", "pd", "send_cq", "recv_cq", "send_buf", "recv_buf", "send_mr",
    "recv_mr", "qp", "post_recv",
    "connect", "established",
    "types", "type_chunk_refs", "caches", "addr_trans_table">>

(* memory_context_create: rdma_server_create and in it rdma_conn_create.   *)
MemorySteps ==
  <<"ctx", "mem_pool", "server", "cm_events", "listen_id", "bind_addr",
    "listen", "cm_id",
    "conn", "pd", "send_cq", "cc", "recv_cq", "req_notify", "send_buf",
    "recv_buf", "send_mr", "recv_mr", "qp", "post_recv",
    "mem_pool_mr", "accept", "established">>

CreateSteps == IF side = "compute" THEN ComputeSteps ELSE MemorySteps

(* The steps that allocate nothing.                                        *)
Calls == {"resolve_addr", "addr_resolved", "resolve_route", "route_resolved",
          "bind_addr", "listen", "req_notify", "post_recv", "connect", "accept",
          "established"}
Position(s) == CHOOSE i \in 1..Len(CreateSteps) : CreateSteps[i] = s
Between(a, b) == step \in Position(a)..Position(b)

BlockParts == {"slots", "mr", "metadata", "free_list"}
Block(i)   == BlockParts \X {i}
Own(names) == names \X {0}
Has(L, name) == <<name, 0>> \in L

(* What is built on a resource and keeps it from being destroyed.          *)
Users(r, L) ==
  CASE r = "pd" -> {u \in L : u[1] \in {"send_mr", "recv_mr", "mr",
                                        "mem_pool_mr", "qp"}}
    [] r \in {"send_cq", "recv_cq"} -> L \cap Own({"qp"})
    [] r = "cc"                     -> L \cap Own({"recv_cq"})
    [] OTHER                        -> {}

Destroy(L, r) == IF Users(r, L) = {} THEN L \ Own({r}) ELSE L

(* What nothing is built on: the library never refuses to destroy it.      *)
Leaves == Own({"qp", "cm_id", "send_mr", "recv_mr", "send_buf", "recv_buf"})

(* Bug: the protection domain goes first.                                  *)
DomainFirst(L) ==
  Destroy(Destroy(Destroy(Destroy(L, "pd") \ Leaves, "send_cq"), "recv_cq"), "cc")
    \ Own({"conn"})

rdma_conn_free(L) ==
  Destroy(Destroy(Destroy(Destroy(L \ Leaves, "send_cq"), "recv_cq"), "cc"), "pd")
    \ Own({"conn"})

ConnFreed(L) == IF Has(L, "conn") THEN rdma_conn_free(L) ELSE L

(* rdma_conn_free on an ID whose queue pair was not created yet.           *)
QpFaults == IF Has(live, "conn") /\ ~Has(live, "qp") THEN {"none", "no_qp"}
                                                     ELSE {"none"}

rdma_client_free(L) == ConnFreed(L) \ Own({"cm_events", "client"})

(* The server itself is not freed. *)
rdma_server_free(L) ==
  ConnFreed(L) \ Own({"mem_pool_mr", "listen_id", "cm_events"})

(* ctx->rdma is NULL after a failure and mem_pool_size was never stored:   *)
(* munmap of 0 bytes frees nothing.                                        *)
memory_context_free(L) == L \ Own({"ctx"})

Init ==
  /\ side \in {"compute", "memory"}
  /\ asked \in (IF side = "compute" THEN AddrTexts ELSE PortTexts) \cup {Unset}
  /\ memory_addr = asked /\ target = {} /\ tries = 1
  /\ pc = "parse" /\ step = 1 /\ live = {}
  /\ types_count = 0 /\ caches = << >> /\ used = {}
  /\ unnoticed = {} /\ registers = TRUE /\ fault = "none"

-----------------------------------------------------------------------------
(* Before the context: MEMORY_ADDR, or the option -p. *)

ParseAddrText ==
  LET r == parse_addr(memory_addr) IN
  /\ pc = "parse" /\ side = "compute"
  /\ IF memory_addr = Unset
       THEN pc' = "failed" /\ UNCHANGED <<memory_addr, target>>
       ELSE /\ memory_addr' = r.left
            /\ pc' = IF r.ret = "ok" THEN "create" ELSE "failed"
            /\ target' = IF r.ret = "ok" THEN {r.addr} ELSE {}
  /\ UNCHANGED <<side, asked, tries, step, live, types_count, caches, used,
                 unnoticed, registers, fault>>

(* The port is parsed; memory_context_create then listens on 12345.        *)
ParsePortText ==
  /\ pc = "parse" /\ side = "memory"
  /\ pc' = IF asked # Unset /\ parse_port(asked) \in Errors THEN "failed"
                                                            ELSE "create"
  /\ UNCHANGED <<text_vars, step, live, types_count, caches, used, unnoticed,
                 registers, fault>>

(* The program tries again.  What the last attempt lost stays lost and is  *)
(* not counted a second time.                                              *)
CreateAgain ==
  /\ pc \in {"failed", "freed"} /\ side = "compute" /\ tries < MaxTries
  /\ tries' = tries + 1 /\ target' = {}
  /\ pc' = "parse" /\ step' = 1 /\ live' = {}
  /\ types_count' = 0 /\ caches' = << >> /\ used' = {}
  /\ unnoticed' = {} /\ registers' = TRUE
  /\ UNCHANGED <<side, asked, memory_addr, fault>>

-----------------------------------------------------------------------------
(* compute_context_free: the loop over the cache blocks, then the rest. *)

(* The blocks that cannot be freed: past the array (or NULL), or with      *)
(* pointers that are freed already or were never set.                      *)
BadBlocks(n) ==
  {i \in 1..n : i > Len(caches) \/ caches[i] \in {"dangling", "wild"}}

(* Bug: the last block is left out.                                        *)
BlocksButLast(n) == UNION {Block(i) : i \in 1..(n - 1)}

(* cache_block_free of a block that is zeroed frees nothing.               *)
FreedBlocks(n) == UNION {Block(i) : i \in 1..n}

(* The array type_chunk_refs is freed, the nodes of its lists are not:     *)
(* there is no chunk_ref_list_free.                                        *)
compute_context_free(n, final) ==
  IF BadBlocks(n) # {}
    THEN /\ fault' = "bad_block"
         /\ UNCHANGED <<pc, live>>
    ELSE /\ pc' = final
         /\ live' = (IF Has(live, "client") THEN rdma_client_free(live) ELSE live)
                      \ (Own({"types", "type_chunk_refs", "caches",
                              "addr_trans_table", "ctx"}) \cup FreedBlocks(n))
         /\ UNCHANGED fault

FreeContext ==
  /\ pc = "ready" /\ side = "compute"
  /\ compute_context_free(types_count, "freed")
  /\ UNCHANGED <<text_vars, step, types_count, caches, used, unnoticed, registers>>

-----------------------------------------------------------------------------
(* compute_context_create and memory_context_create. *)

CreateStep ==
  LET s == CreateSteps[step] IN
  /\ pc = "create"
  /\ s = "mem_pool_mr" => Has(live, "mem_pool")
  /\ live' = IF s \in Calls THEN live ELSE live \cup Own({s})
  /\ types_count' = IF s = "types" THEN 3 ELSE types_count
  /\ caches' = IF s = "caches" THEN <<"zero", "zero", "zero">> ELSE caches
  /\ step' = step + 1
  /\ pc' = IF step = Len(CreateSteps) THEN "ready" ELSE pc
  /\ UNCHANGED <<text_vars, used, unnoticed, registers, fault>>

(* The failures that go unnoticed: mmap returns MAP_FAILED, which is not   *)
(* NULL; the result of hashmap_new is not looked at; ibv_req_notify_cq     *)
(* returns a positive errno, which try3 takes for success.  (So does       *)
(* pthread_rwlock_init, which allocates nothing and is no step here.)      *)
Unnoticeable == {"mem_pool", "addr_trans_table", "req_notify"}

CreateWithout ==
  /\ pc = "create" /\ CallsMayFail
  /\ CreateSteps[step] \in Unnoticeable
  /\ unnoticed' = unnoticed \cup {CreateSteps[step]}
  /\ step' = step + 1
  /\ pc' = IF step = Len(CreateSteps) THEN "ready" ELSE pc
  /\ UNCHANGED <<text_vars, live, types_count, caches, used, registers, fault>>

(* Bug: id is not reset once the connection owns it.                       *)
IdStaysLocal == step > Position("cm_id")

(* The local variable id of rdma_client_connect is set.                    *)
IdIsLocal == step > Position("cm_id") /\ step < Position("conn")

(* The ID is destroyed with the connection and, if it is still local, alone.*)
ConnectFaults == IF IdIsLocal /\ Has(live, "conn") THEN {"double_free"}
                                                   ELSE QpFaults

(* rdma_client_connect fails: its cleanup label, after that of             *)
(* rdma_conn_create if the failure is there, and then compute_context_free.*)
ConnectFails ==
  /\ pc = "create" /\ side = "compute" /\ CallsMayFail
  /\ Between("ctx", "established")
  /\ \E f \in ConnectFaults :
       IF f # "none" THEN fault' = f /\ UNCHANGED <<pc, live>>
       ELSE /\ live' = rdma_client_free(live \ Own(IF IdIsLocal THEN {"cm_id"}
                                                               ELSE {}))
                         \ Own({"ctx"})
            /\ pc' = "failed"
            /\ UNCHANGED fault
  /\ UNCHANGED <<text_vars, step, types_count, caches, used, unnoticed, registers>>

(* The types, the chunk lists or the cache blocks cannot be allocated.     *)
CreateFails ==
  /\ pc = "create" /\ side = "compute" /\ CallsMayFail
  /\ Between("types", "caches")
  /\ types_count' = 3
  /\ compute_context_free(3, "failed")
  /\ UNCHANGED <<text_vars, step, caches, used, unnoticed, registers>>

(* rdma_server_create fails: its cleanup label, then that of               *)
(* memory_context_create.                                                  *)
ServerFails ==
  /\ pc = "create" /\ side = "memory" /\ CallsMayFail
  /\ CreateSteps[step] \notin Unnoticeable
  /\ \E f \in QpFaults :
       IF f # "none" THEN fault' = f /\ UNCHANGED <<pc, live>>
       ELSE /\ live' = memory_context_free(rdma_server_free(live))
            /\ pc' = "failed"
            /\ UNCHANGED fault
  /\ UNCHANGED <<text_vars, step, types_count, caches, used, unnoticed, registers>>

-----------------------------------------------------------------------------
(* register_type. *)

Fresh == IF ReallocZeroed THEN {"zero"} ELSE {"zero", "wild"}

(* Bug: the array is grown to the index of the new type, not to the count. *)
GrownToIndex(f, b) ==
  [i \in 1..types_count |-> IF i <= Len(caches) THEN caches[i] ELSE f]

(* caches after reallocarray to types_count + 1 blocks, all of the added   *)
(* ones holding what the memory happens to hold, and the last one b.       *)
Grown(f, b) ==
  [i \in 1..(types_count + 1) |-> IF i <= Len(caches) THEN caches[i]
                                  ELSE IF i <= types_count THEN f ELSE b]

CanRegister == pc = "ready" /\ side = "compute" /\ types_count < MaxTypes

RegisterOk ==
  /\ CanRegister
  /\ types_count' = types_count + 1
  /\ \E f \in Fresh : caches' = Grown(f, "init")
  /\ live' = live \cup Block(types_count + 1)
  /\ UNCHANGED <<text_vars, pc, step, used, unnoticed, registers, fault>>

(* One of the arrays cannot grow: the type is counted all the same.        *)
RegisterNoArray ==
  /\ CanRegister /\ CallsMayFail
  /\ types_count' = types_count + 1
  /\ registers' = FALSE
  /\ UNCHANGED <<text_vars, pc, step, live, caches, used, unnoticed, fault>>

(* cache_block_init fails and frees the block: through pointers it has not *)
(* set, and without clearing those it has.  The mallocs of                 *)
(* cache_free_list_new are not checked and written through at once.        *)
RegisterNoBlock ==
  /\ CanRegister /\ CallsMayFail
  /\ types_count' = types_count + 1
  /\ registers' = FALSE
  /\ \E f \in Fresh, at \in BlockParts :
       IF at = "free_list" \/ f = "wild"
         THEN /\ fault' = IF at = "free_list" THEN "null_list" ELSE "wild_free"
              /\ UNCHANGED caches
         ELSE /\ caches' = Grown(f, IF at = "slots" THEN "zero" ELSE "dangling")
              /\ UNCHANGED fault
  /\ UNCHANGED <<text_vars, pc, step, live, used, unnoticed>>

-----------------------------------------------------------------------------
(* disagg_alloc, when it starts a page for a type: chunk_ref_list_insert   *)
(* allocates a node.  The three reserved types have a list and no block.   *)
AllocChunk ==
  /\ pc = "ready" /\ side = "compute"
  /\ \E i \in 1..3 \cup {j \in DOMAIN caches : caches[j] = "init"} :
       /\ used' = used \cup {i}
       /\ live' = live \cup {<<"chunk_refs", i>>}
  /\ UNCHANGED <<text_vars, pc, step, types_count, caches, unnoticed, registers,
                 fault>>

Next ==
  /\ fault = "none"
  /\ \/ ParseAddrText \/ ParsePortText \/ CreateAgain
     \/ CreateStep \/ CreateWithout \/ ConnectFails \/ CreateFails \/ ServerFails
     \/ RegisterOk \/ RegisterNoArray \/ RegisterNoBlock \/ AllocChunk
     \/ FreeContext

Spec == Init /\ [][Next]_vars

-----------------------------------------------------------------------------
(* Properties. *)

(* A text that stands for an address, in the grammar of "parse ip:port"    *)
(* (parse.h), is parsed to that address.  Of the other texts parse_addr    *)
(* accepts only two kinds: those whose host the library cannot parse, with *)
(* the address left zero, and those with bytes after the bracket, with the *)
(* port left zero.                                                         *)
ParsesMeaning ==
  (side = "compute" /\ tries = 1 /\ pc # "parse") =>
    IF Meaning(asked) # {}
      THEN target = Meaning(asked)
      ELSE \A a \in target : a.host = <<"unset">> \/ a.port = "zero"

(* parse_addr cuts MEMORY_ADDR in place and a program that connects again  *)
(* parses what is left: it reaches the same host or none, never another    *)
(* one, though possibly at the default port instead of the one asked for.  *)
RetryKeepsHost ==
  \A m \in Meaning(asked) : \A a \in target :
    /\ a.host = m.host /\ a.family = m.family
    /\ a.port \in {m.port, "default"}

(* The cleanup of a creation that fails is safe, wherever it fails, but    *)
(* for two windows: in rdma_conn_create before the queue pair exists, and  *)
(* in compute_context_create once types_count is set and before caches is. *)
CleanupFaultsOnlyIn ==
  pc = "create" =>
    \/ fault = "none"
    \/ fault = "no_qp" /\ Between("pd", "qp")
    \/ fault = "bad_block" /\ side = "compute" /\ Between("types", "caches")

(* While no register_type has failed, a created context can be freed:      *)
(* every block the loop of compute_context_free visits lies in the array   *)
(* and was set up by calloc or by cache_block_init, after any number of    *)
(* reallocations.                                                          *)
RegisteredFreeSafe ==
  (pc # "create" /\ registers) => fault = "none"

(* A creation that fails gives back all it acquired, in an order the RDMA  *)
(* library accepts and the ID exactly once, whoever owns it.  Lost are: on *)
(* either side the ID, when the connection itself cannot be allocated; on  *)
(* the memory side also the server, the pool if it was mapped (its size is *)
(* not stored, so that munmap is given 0 bytes) and, once the pool is      *)
(* registered, the protection domain, which is deallocated before it.      *)
LostOnFailure ==
  (IF step = Position("conn") THEN {"cm_id"} ELSE {})
  \cup IF side = "compute" THEN {} ELSE
         (IF step > Position("mem_pool") /\ "mem_pool" \notin unnoticed
            THEN {"mem_pool"} ELSE {})
         \cup (IF step > Position("server") THEN {"server"} ELSE {})
         \cup (IF step > Position("mem_pool_mr") THEN {"pd"} ELSE {})

FailedCreateReleases ==
  pc = "failed" => live = Own(LostOnFailure)

(* compute_context_free releases every resource, in an order the RDMA      *)
(* library accepts, but for two kinds: the protection domain when a type   *)
(* is registered, since it is deallocated with the connection, before the  *)
(* memory regions of the cache blocks, which still use it; and the nodes   *)
(* of the chunk lists, one list for every type that was allocated from.    *)
FreeLosesDomainAndChunks ==
  pc = "freed" =>
    live = Own(IF \E i \in DOMAIN caches : caches[i] = "init" THEN {"pd"} ELSE {})
             \cup ({"chunk_refs"} \X used)

-----------------------------------------------------------------------------
(* The inductive invariant: what is known at each place. *)

BlockStates == {"zero", "init", "dangling", "wild"}

LifeTypes ==
  /\ side \in {"compute", "memory"}
  /\ pc \in {"parse", "create", "ready", "failed", "freed"}
  /\ tries \in Nat \ {0}
  /\ step \in 1 .. Len(CreateSteps) + 1
  /\ types_count \in Nat
  /\ caches \in Seq(BlockStates)
  /\ used \subseteq Nat \ {0} /\ unnoticed \subseteq Unnoticeable
  /\ registers \in BOOLEAN
  /\ asked \in Seq(Tokens) \cup {Unset}
  /\ memory_addr \in Seq(Tokens) \cup {Unset}

(* What the steps so far allocate, if no failure goes unnoticed.           *)
Acquired == {CreateSteps[i] : i \in 1 .. step - 1} \ Calls

(* The steps so far.                                                       *)
Passed == {CreateSteps[i] : i \in 1 .. step - 1}

InitBlocks == UNION {Block(i) : i \in {j \in DOMAIN caches : caches[j] = "init"}}

(* Nothing is there before the creation; during it, what was acquired but  *)
(* for what failed unnoticed.                                              *)
Creating ==
  /\ pc = "parse" => /\ step = 1 /\ live = {} /\ types_count = 0
                      /\ unnoticed = {}
  /\ pc = "create" =>
       /\ step <= Len(CreateSteps)
       /\ unnoticed \subseteq Passed
       /\ live = Own(Acquired \ unnoticed)
       /\ fault = "none" => types_count = IF "types" \in Acquired THEN 3 ELSE 0
  /\ pc \in {"parse", "create"} =>
       /\ registers /\ used = {}
       /\ caches = IF "caches" \in Acquired THEN <<"zero", "zero", "zero">>
                                            ELSE << >>

(* A created compute context holds everything, with the blocks of the      *)
(* types whose registration succeeded and the nodes of the lists in use.   *)
Created ==
  /\ side = "memory" => registers
  /\ (pc = "ready" /\ side = "compute") =>
       /\ step = Len(CreateSteps) + 1
       /\ live = Own(Acquired \ unnoticed) \cup InitBlocks
                   \cup ({"chunk_refs"} \X used)
       /\ Len(caches) <= types_count
       /\ registers => /\ Len(caches) = types_count
                       /\ \A i \in DOMAIN caches : caches[i] \in {"zero", "init"}

(* What the parsings so far can have left of a text that has a meaning.    *)
TextCut ==
  /\ pc = "parse" => target = {} /\ (tries = 1 => memory_addr = asked)
  /\ side = "memory" => target = {}
  /\ side = "compute" => \A m \in Meaning(asked) :
       memory_addr \in {asked, <<"[">> \o m.host}
                        \cup IF m.family = "AF_INET" THEN {m.host} ELSE {}

(* All of it, with the properties.                                         *)
LifeInv ==
  /\ LifeTypes /\ Creating /\ Created /\ TextCut
  /\ ParsesMeaning /\ RetryKeepsHost
  /\ CleanupFaultsOnlyIn /\ RegisteredFreeSafe
  /\ FailedCreateReleases /\ FreeLosesDomainAndChunks
=============================================================================
