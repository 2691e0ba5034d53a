--------------------------- MODULE LifecycleProof ---------------------------
(***************************************************************************)
(* The resources of a node and the text of its address, for every text,    *)
(* any number of types and of attempts, and every failure.                 *)
(***************************************************************************)
EXTENDS Lifecycle, ParseAddrProof

-----------------------------------------------------------------------------
(* Where the steps of a creation are, and what they have allocated. *)

(* What the first n - 1 of some steps allocate.                            *)
Got(steps, n) == {steps[i] : i \in 1 .. n - 1} \ Calls

(* What rdma_conn_free gives back whatever else there is.                  *)
ConnParts == {"qp", "cm_id", "send_mr", "recv_mr", "send_buf", "recv_buf",
              "send_cq", "recv_cq", "cc", "conn"}

(* What compute_context_free gives back besides.                           *)
ClientParts  == {"ctx", "client", "cm_events", "pd"}
ContextParts == {"types", "type_chunk_refs", "caches", "addr_trans_table"}

ServerParts == {"ctx", "mem_pool", "server", "cm_events", "listen_id", "pd",
                "mem_pool_mr"}

(* Everything a context can hold.                                          *)
Names == ConnParts \cup ClientParts \cup ContextParts \cup ServerParts

(* One more step.                                                          *)
LEMMA GotNext ==
  ASSUME NEW steps, NEW n \in Nat \ {0}
  PROVE  Got(steps, n + 1) =
           IF steps[n] \in Calls THEN Got(steps, n)
                                 ELSE Got(steps, n) \cup {steps[n]}
BY DEF Got

(* No step.                                                                *)
LEMMA GotFirst == ASSUME NEW steps PROVE Got(steps, 1) = {}
BY DEF Got

(* Acquired in terms of the steps and a position only.                     *)
LEMMA AcquiredIsGot == Acquired = Got(CreateSteps, step)
BY DEF Acquired, Got

(* The length of the compute node's creation.                              *)
LEMMA ComputeLen == Len(ComputeSteps) = 24
BY DEF ComputeSteps

(* Where its steps are.                                                    *)
LEMMA ComputeAt ==
  ASSUME NEW i \in 1..24
  PROVE  /\ ComputeSteps[i] = "ctx" <=> i = 1
         /\ ComputeSteps[i] = "client" <=> i = 2
         /\ ComputeSteps[i] = "cm_id" <=> i = 4
         /\ ComputeSteps[i] = "conn" <=> i = 9
         /\ ComputeSteps[i] = "pd" <=> i = 10
         /\ ComputeSteps[i] = "qp" <=> i = 17
         /\ ComputeSteps[i] = "established" <=> i = 20
         /\ ComputeSteps[i] = "types" <=> i = 21
         /\ ComputeSteps[i] = "caches" <=> i = 23
         /\ ComputeSteps[i] = "addr_trans_table" <=> i = 24
         /\ ComputeSteps[i] # "mem_pool" /\ ComputeSteps[i] # "mem_pool_mr"
         /\ ComputeSteps[i] # "req_notify"
BY DEF ComputeSteps

(* When it holds what the cleanup asks about.                              *)
LEMMA ComputeGot ==
  ASSUME NEW n \in 1..25
  PROVE  /\ "ctx" \in Got(ComputeSteps, n) <=> n > 1
         /\ "client" \in Got(ComputeSteps, n) <=> n > 2
         /\ "cm_id" \in Got(ComputeSteps, n) <=> n > 4
         /\ "conn" \in Got(ComputeSteps, n) <=> n > 9
         /\ "pd" \in Got(ComputeSteps, n) <=> n > 10
         /\ "qp" \in Got(ComputeSteps, n) <=> n > 17
         /\ "types" \in Got(ComputeSteps, n) <=> n > 21
         /\ "caches" \in Got(ComputeSteps, n) <=> n > 23
         /\ "addr_trans_table" \in Got(ComputeSteps, n) <=> n > 24
         /\ "mem_pool" \notin Got(ComputeSteps, n)
         /\ "mem_pool_mr" \notin Got(ComputeSteps, n)
<1>0. /\ "ctx" \notin Calls /\ "client" \notin Calls /\ "cm_id" \notin Calls
      /\ "conn" \notin Calls /\ "pd" \notin Calls /\ "qp" \notin Calls
      /\ "types" \notin Calls /\ "caches" \notin Calls
      /\ "addr_trans_table" \notin Calls
  BY DEF Calls
<1>1. "ctx" \in Got(ComputeSteps, n) <=> n > 1      BY <1>0, ComputeAt DEF Got
<1>2. "client" \in Got(ComputeSteps, n) <=> n > 2   BY <1>0, ComputeAt DEF Got
<1>3. "cm_id" \in Got(ComputeSteps, n) <=> n > 4    BY <1>0, ComputeAt DEF Got
<1>4. "conn" \in Got(ComputeSteps, n) <=> n > 9     BY <1>0, ComputeAt DEF Got
<1>5. "pd" \in Got(ComputeSteps, n) <=> n > 10      BY <1>0, ComputeAt DEF Got
<1>6. "qp" \in Got(ComputeSteps, n) <=> n > 17      BY <1>0, ComputeAt DEF Got
<1>7. "types" \in Got(ComputeSteps, n) <=> n > 21   BY <1>0, ComputeAt DEF Got
<1>8. "caches" \in Got(ComputeSteps, n) <=> n > 23  BY <1>0, ComputeAt DEF Got
<1>9. "addr_trans_table" \in Got(ComputeSteps, n) <=> n > 24
  BY <1>0, ComputeAt DEF Got
<1>10. "mem_pool" \notin Got(ComputeSteps, n) /\ "mem_pool_mr" \notin Got(ComputeSteps, n)
  BY ComputeAt DEF Got
<1> QED BY <1>1, <1>2, <1>3, <1>4, <1>5, <1>6, <1>7, <1>8, <1>9, <1>10

(* What it can hold at all, within rdma_client_connect, and before the     *)
(* connection.                                                             *)
LEMMA ComputeNames ==
  ASSUME NEW n \in 1..25
  PROVE  /\ Got(ComputeSteps, n) \subseteq ConnParts \cup ClientParts \cup ContextParts
         /\ n <= 20 => Got(ComputeSteps, n) \subseteq ConnParts \cup ClientParts
         /\ n <= 9 => Got(ComputeSteps, n) \subseteq {"ctx", "client", "cm_events", "cm_id"}
<1>1. ASSUME NEW i \in 1..24, ComputeSteps[i] \notin Calls
      PROVE  ComputeSteps[i] \in ConnParts \cup ClientParts \cup ContextParts
  BY <1>1 DEF ComputeSteps, Calls, ConnParts, ClientParts, ContextParts
<1>2. ASSUME NEW i \in 1..19, ComputeSteps[i] \notin Calls
      PROVE  ComputeSteps[i] \in ConnParts \cup ClientParts
  BY <1>2 DEF ComputeSteps, Calls, ConnParts, ClientParts
<1>3. ASSUME NEW i \in 1..8, ComputeSteps[i] \notin Calls
      PROVE  ComputeSteps[i] \in {"ctx", "client", "cm_events", "cm_id"}
  BY <1>3 DEF ComputeSteps, Calls
<1> QED BY <1>1, <1>2, <1>3 DEF Got

(* The length of the memory node's creation.                               *)
LEMMA MemoryLen == Len(MemorySteps) = 23
BY DEF MemorySteps

(* Where its steps are.                                                    *)
LEMMA MemoryAt ==
  ASSUME NEW i \in 1..23
  PROVE  /\ MemorySteps[i] = "ctx" <=> i = 1
         /\ MemorySteps[i] = "mem_pool" <=> i = 2
         /\ MemorySteps[i] = "server" <=> i = 3
         /\ MemorySteps[i] = "cm_id" <=> i = 8
         /\ MemorySteps[i] = "conn" <=> i = 9
         /\ MemorySteps[i] = "pd" <=> i = 10
         /\ MemorySteps[i] = "req_notify" <=> i = 14
         /\ MemorySteps[i] = "qp" <=> i = 19
         /\ MemorySteps[i] = "mem_pool_mr" <=> i = 21
         /\ MemorySteps[i] # "types" /\ MemorySteps[i] # "caches"
         /\ MemorySteps[i] # "addr_trans_table"
BY DEF MemorySteps

(* When it holds what the cleanup asks about.                              *)
LEMMA MemoryGot ==
  ASSUME NEW n \in 1..24
  PROVE  /\ "mem_pool" \in Got(MemorySteps, n) <=> n > 2
         /\ "server" \in Got(MemorySteps, n) <=> n > 3
         /\ "cm_id" \in Got(MemorySteps, n) <=> n > 8
         /\ "conn" \in Got(MemorySteps, n) <=> n > 9
         /\ "pd" \in Got(MemorySteps, n) <=> n > 10
         /\ "qp" \in Got(MemorySteps, n) <=> n > 19
         /\ "mem_pool_mr" \in Got(MemorySteps, n) <=> n > 21
         /\ "types" \notin Got(MemorySteps, n)
         /\ "caches" \notin Got(MemorySteps, n)
<1>0. /\ "mem_pool" \notin Calls /\ "server" \notin Calls /\ "cm_id" \notin Calls
      /\ "conn" \notin Calls /\ "pd" \notin Calls /\ "qp" \notin Calls
      /\ "mem_pool_mr" \notin Calls
  BY DEF Calls
<1>1. "mem_pool" \in Got(MemorySteps, n) <=> n > 2  BY <1>0, MemoryAt DEF Got
<1>2. "server" \in Got(MemorySteps, n) <=> n > 3    BY <1>0, MemoryAt DEF Got
<1>3. "cm_id" \in Got(MemorySteps, n) <=> n > 8     BY <1>0, MemoryAt DEF Got
<1>4. "conn" \in Got(MemorySteps, n) <=> n > 9      BY <1>0, MemoryAt DEF Got
<1>5. "pd" \in Got(MemorySteps, n) <=> n > 10       BY <1>0, MemoryAt DEF Got
<1>6. "qp" \in Got(MemorySteps, n) <=> n > 19       BY <1>0, MemoryAt DEF Got
<1>7. "mem_pool_mr" \in Got(MemorySteps, n) <=> n > 21
  BY <1>0, MemoryAt DEF Got
<1>8. "types" \notin Got(MemorySteps, n) /\ "caches" \notin Got(MemorySteps, n)
  BY MemoryAt DEF Got
<1> QED BY <1>1, <1>2, <1>3, <1>4, <1>5, <1>6, <1>7, <1>8

(* What it can hold at all, and before the connection.                     *)
LEMMA MemoryNames ==
  ASSUME NEW n \in 1..24
  PROVE  /\ Got(MemorySteps, n) \subseteq ConnParts \cup ServerParts
         /\ n <= 9 => Got(MemorySteps, n) \subseteq
                        {"ctx", "mem_pool", "server", "cm_events", "listen_id", "cm_id"}
<1>1. ASSUME NEW i \in 1..23, MemorySteps[i] \notin Calls
      PROVE  MemorySteps[i] \in ConnParts \cup ServerParts
  BY <1>1 DEF MemorySteps, Calls, ConnParts, ServerParts
<1>2. ASSUME NEW i \in 1..8, MemorySteps[i] \notin Calls
      PROVE  MemorySteps[i] \in {"ctx", "mem_pool", "server", "cm_events", "listen_id", "cm_id"}
  BY <1>2 DEF MemorySteps, Calls
<1> QED BY <1>1, <1>2 DEF Got

(* The side decides which steps there are.                                 *)
LEMMA SideSteps ==
  /\ side = "compute" => CreateSteps = ComputeSteps /\ Len(CreateSteps) = 24
  /\ side = "memory" => CreateSteps = MemorySteps /\ Len(CreateSteps) = 23
BY ComputeLen, MemoryLen DEF CreateSteps

(* The positions the cleanups compare with, on the compute node ...        *)
LEMMA ComputePlaces ==
  ASSUME side = "compute"
  PROVE  /\ Position("ctx") = 1 /\ Position("cm_id") = 4 /\ Position("conn") = 9
         /\ Position("pd") = 10 /\ Position("qp") = 17
         /\ Position("established") = 20
         /\ Position("types") = 21 /\ Position("caches") = 23
<1>0. CreateSteps = ComputeSteps BY SideSteps
<1>1. Position("ctx") = 1 /\ Position("cm_id") = 4
  BY <1>0, ComputeLen, ComputeAt DEF Position
<1>2. Position("conn") = 9 /\ Position("pd") = 10
  BY <1>0, ComputeLen, ComputeAt DEF Position
<1>3. Position("qp") = 17 /\ Position("established") = 20
  BY <1>0, ComputeLen, ComputeAt DEF Position
<1>4. Position("types") = 21 /\ Position("caches") = 23
  BY <1>0, ComputeLen, ComputeAt DEF Position
<1> QED BY <1>1, <1>2, <1>3, <1>4

(* ... and on the memory node.                                             *)
LEMMA MemoryPlaces ==
  ASSUME side = "memory"
  PROVE  /\ Position("mem_pool") = 2 /\ Position("server") = 3
         /\ Position("conn") = 9 /\ Position("pd") = 10 /\ Position("qp") = 19
         /\ Position("mem_pool_mr") = 21
<1>0. CreateSteps = MemorySteps BY SideSteps
<1>1. Position("mem_pool") = 2 /\ Position("server") = 3
  BY <1>0, MemoryLen, MemoryAt DEF Position
<1>2. Position("conn") = 9 /\ Position("pd") = 10
  BY <1>0, MemoryLen, MemoryAt DEF Position
<1>3. Position("qp") = 19 /\ Position("mem_pool_mr") = 21
  BY <1>0, MemoryLen, MemoryAt DEF Position
<1> QED BY <1>1, <1>2, <1>3

-----------------------------------------------------------------------------
(* What the cleanups release. *)

(* The resources there can be.                                             *)
Resources == Own(Names) \cup (BlockParts \X Nat) \cup ({"chunk_refs"} \X Nat)

(* Own, element by element.                                                *)
LEMMA OwnIn ==
  /\ \A names, n : <<n, 0>> \in Own(names) <=> n \in names
  /\ \A names, n, i : <<n, i>> \in Own(names) => i = 0
  /\ \A names : \A u \in Own(names) : u = <<u[1], 0>> /\ u[1] \in names
BY DEF Own

(* Own, set by set.                                                        *)
LEMMA OwnSets ==
  ASSUME NEW A, NEW B
  PROVE  /\ Own(A) \ Own(B) = Own(A \ B)
         /\ Own(A) \cup Own(B) = Own(A \cup B)
         /\ A \subseteq B => Own(A) \subseteq Own(B)
         /\ \A n : Has(Own(A), n) <=> n \in A
BY DEF Own, Has

(* rdma_conn_free destroys in an order in which the library refuses        *)
(* nothing but the domain, and that only for the memory regions which are  *)
(* not the connection's own.                                               *)
LEMMA ConnFree ==
  ASSUME NEW L, L \subseteq Resources
  PROVE  rdma_conn_free(L) =
           L \ Own(ConnParts \cup IF \E u \in L : u[1] \in {"mr", "mem_pool_mr"}
                                    THEN {} ELSE {"pd"})
<1> DEFINE L1 == L \ Leaves
           L2 == L1 \ Own({"send_cq"})
           L3 == L2 \ Own({"recv_cq"})
           L4 == L3 \ Own({"cc"})
           busy == \E u \in L : u[1] \in {"mr", "mem_pool_mr"}
<1>1. L1 \cap Own({"qp"}) = {}
  BY DEF Leaves, Own
<1>2. Destroy(L1, "send_cq") = L2
  BY <1>1 DEF Destroy, Users
<1>3. Destroy(L2, "recv_cq") = L3
  BY <1>1 DEF Destroy, Users
<1>4. Destroy(L3, "cc") = L4
  BY DEF Destroy, Users
<1>5. L4 = L \ Own(ConnParts \ {"conn"})
  BY DEF Leaves, Own, ConnParts
<1>6. Users("pd", L4) = {u \in L : u[1] \in {"mr", "mem_pool_mr"}}
  <2>1. Users("pd", L4) =
          {u \in L4 : u[1] \in {"send_mr", "recv_mr", "mr", "mem_pool_mr", "qp"}}
    BY DEF Users
  <2>2. ASSUME NEW u \in L4
        PROVE  u[1] \notin {"send_mr", "recv_mr", "qp"}
    <3>1. CASE u \in Own(Names)
      BY <3>1, <1>5 DEF Own, ConnParts
    <3>2. CASE u \in BlockParts \X Nat
      BY <3>2 DEF BlockParts
    <3>3. CASE u \in {"chunk_refs"} \X Nat
      BY <3>3
    <3> QED BY <3>1, <3>2, <3>3 DEF Resources
  <2>3. ASSUME NEW u \in L, u[1] \in {"mr", "mem_pool_mr"}
        PROVE  u \in L4
    BY <2>3, <1>5 DEF Own, ConnParts
  <2> HIDE DEF L4
  <2>4. L4 \subseteq L BY <1>5
  <2> QED BY <2>1, <2>2, <2>3, <2>4
<1>7. Destroy(L4, "pd") = IF busy THEN L4 ELSE L4 \ Own({"pd"})
  BY <1>6 DEF Destroy
<1>8. rdma_conn_free(L) = Destroy(L4, "pd") \ Own({"conn"})
  BY <1>2, <1>3, <1>4 DEF rdma_conn_free
<1> HIDE DEF L4
<1>9. CASE busy
  BY <1>5, <1>7, <1>8, <1>9 DEF Own, ConnParts
<1>10. CASE ~busy
  BY <1>5, <1>7, <1>8, <1>10 DEF Own, ConnParts
<1> QED BY <1>9, <1>10

(* A set of resources of the context itself.                               *)
LEMMA OwnResources ==
  ASSUME NEW A, A \subseteq Names
  PROVE  /\ Own(A) \subseteq Resources
         /\ (\E u \in Own(A) : u[1] \in {"mr", "mem_pool_mr"})
               <=> ("mr" \in A \/ "mem_pool_mr" \in A)
<1>1. Own(A) \subseteq Resources
  BY OwnSets DEF Resources
<1>2. ASSUME NEW u \in Own(A), u[1] \in {"mr", "mem_pool_mr"}
      PROVE  "mr" \in A \/ "mem_pool_mr" \in A
  BY <1>2, OwnIn
<1>3. ASSUME NEW n \in A
      PROVE  <<n, 0>> \in Own(A) /\ <<n, 0>>[1] = n
  BY <1>3, OwnIn
<1> QED BY <1>1, <1>2, <1>3

(* The client's cleanup, while no type is registered.                      *)
LEMMA ClientFree ==
  ASSUME NEW A, A \subseteq Names, "mr" \notin A, "mem_pool_mr" \notin A
  PROVE  rdma_client_free(Own(A)) =
           Own(A \ ({"cm_events", "client"} \cup
                    IF "conn" \in A THEN ConnParts \cup {"pd"} ELSE {}))
<1>1. CASE "conn" \in A
  <2>1. rdma_conn_free(Own(A)) = Own(A) \ Own(ConnParts \cup {"pd"})
    BY ConnFree, OwnResources
  <2>2. rdma_client_free(Own(A)) = rdma_conn_free(Own(A)) \ Own({"cm_events", "client"})
    BY <1>1, OwnSets DEF rdma_client_free, ConnFreed
  <2> QED BY <1>1, <2>1, <2>2 DEF Own
<1>2. CASE "conn" \notin A
  <2>1. rdma_client_free(Own(A)) = Own(A) \ Own({"cm_events", "client"})
    BY <1>2, OwnSets DEF rdma_client_free, ConnFreed
  <2> QED BY <1>2, <2>1 DEF Own
<1> QED BY <1>1, <1>2

(* The server's cleanup and that of the memory node's context.             *)
LEMMA ServerFree ==
  ASSUME NEW A, A \subseteq Names, "mr" \notin A
  PROVE  memory_context_free(rdma_server_free(Own(A))) =
           Own(A \ ({"ctx", "mem_pool_mr", "listen_id", "cm_events"} \cup
                    IF "conn" \in A
                      THEN ConnParts \cup IF "mem_pool_mr" \in A THEN {} ELSE {"pd"}
                      ELSE {}))
<1>1. CASE "conn" \in A
  <2>1. rdma_conn_free(Own(A)) =
          Own(A) \ Own(ConnParts \cup IF "mem_pool_mr" \in A THEN {} ELSE {"pd"})
    BY ConnFree, OwnResources
  <2>2. memory_context_free(rdma_server_free(Own(A))) =
          (rdma_conn_free(Own(A)) \ Own({"mem_pool_mr", "listen_id", "cm_events"}))
             \ Own({"ctx"})
    BY <1>1, OwnSets DEF rdma_server_free, memory_context_free, ConnFreed
  <2> QED BY <1>1, <2>1, <2>2 DEF Own
<1>2. CASE "conn" \notin A
  <2>1. memory_context_free(rdma_server_free(Own(A))) =
          (Own(A) \ Own({"mem_pool_mr", "listen_id", "cm_events"})) \ Own({"ctx"})
    BY <1>2, OwnSets DEF rdma_server_free, memory_context_free, ConnFreed
  <2> QED BY <1>2, <2>1 DEF Own
<1> QED BY <1>1, <1>2

-----------------------------------------------------------------------------
(* The resources, action by action. *)

(* What the invariant says of the resources.                               *)
ResourceInv ==
  /\ Creating /\ Created
  /\ CleanupFaultsOnlyIn /\ RegisteredFreeSafe
  /\ FailedCreateReleases /\ FreeLosesDomainAndChunks

(* Nothing is acquired before the first step.                              *)
LEMMA NothingYet == step = 1 => Acquired = {}
BY AcquiredIsGot, GotFirst

(* A parsed text: the creation starts, or fails with nothing to release.   *)
LEMMA ParseResources ==
  ASSUME LifeInv, fault = "none", ParseAddrText \/ ParsePortText
  PROVE  ResourceInv'
<1>1. /\ pc = "parse" /\ pc' \in {"create", "failed"}
      /\ UNCHANGED <<side, step, live, types_count, caches, used, unnoticed,
                     registers, fault>>
  BY DEF ParseAddrText, ParsePortText, text_vars
<1>2. /\ side \in {"compute", "memory"}
      /\ step = 1 /\ live = {} /\ types_count = 0 /\ registers /\ caches = << >>
      /\ used = {} /\ unnoticed = {}
  BY <1>1, NothingYet DEF LifeInv, LifeTypes, Creating
<1>3. Acquired' = {} /\ Own({}) = {}
  BY <1>1, <1>2, NothingYet DEF Acquired, Own
<1>4. Len(CreateSteps') >= 1
  BY <1>1, <1>2, SideSteps DEF CreateSteps
<1>5. Creating'
  BY <1>1, <1>2, <1>3, <1>4 DEF Creating, Own
<1>6. LostOnFailure' = {}
  <2>1. Position("conn")' = Position("conn") /\ Position("server")' = Position("server")
        /\ Position("mem_pool_mr")' = Position("mem_pool_mr")
        /\ Position("mem_pool")' = Position("mem_pool")
    BY <1>1 DEF Position, CreateSteps
  <2> QED BY <1>1, <1>2, <2>1, ComputePlaces, MemoryPlaces DEF LostOnFailure
<1> QED
  BY <1>1, <1>2, <1>3, <1>5, <1>6 DEF ResourceInv, Created, CleanupFaultsOnlyIn,
     RegisteredFreeSafe, FailedCreateReleases, FreeLosesDomainAndChunks

(* A new attempt: nothing is held.                                         *)
LEMMA AgainResources ==
  ASSUME LifeInv, fault = "none", CreateAgain
  PROVE  ResourceInv'
<1>1. Acquired' = {}
  BY DEF CreateAgain, Acquired
<1> QED
  BY <1>1 DEF CreateAgain, LifeInv, ResourceInv, Creating, Created,
     CleanupFaultsOnlyIn, RegisteredFreeSafe, FailedCreateReleases,
     FreeLosesDomainAndChunks

(* What the invariant gives while a context is created.                    *)
LEMMA WhileCreating ==
  ASSUME LifeInv, pc = "create"
  PROVE  /\ side \in {"compute", "memory"} /\ registers
         /\ step \in 1 .. Len(CreateSteps)
         /\ live = Own(Acquired \ unnoticed)
         /\ unnoticed \subseteq Passed /\ unnoticed \subseteq Unnoticeable
         /\ used = {}
         /\ fault = "none" => types_count = IF "types" \in Acquired THEN 3 ELSE 0
         /\ caches = IF "caches" \in Acquired THEN <<"zero", "zero", "zero">>
                                              ELSE << >>
         /\ side = "compute" => /\ step \in 1..24 /\ live = Own(Acquired)
                                /\ Acquired = Got(ComputeSteps, step)
                                /\ CreateSteps = ComputeSteps
         /\ side = "memory" => /\ step \in 1..23
                               /\ Acquired = Got(MemorySteps, step)
                               /\ CreateSteps = MemorySteps
<1>1. /\ side \in {"compute", "memory"} /\ registers
      /\ step \in 1 .. Len(CreateSteps) + 1 /\ step <= Len(CreateSteps)
      /\ live = Own(Acquired \ unnoticed)
      /\ unnoticed \subseteq Passed /\ unnoticed \subseteq Unnoticeable
      /\ used = {}
      /\ fault = "none" => types_count = IF "types" \in Acquired THEN 3 ELSE 0
      /\ caches = IF "caches" \in Acquired THEN <<"zero", "zero", "zero">>
                                           ELSE << >>
  BY DEF LifeInv, LifeTypes, Creating
<1>2. Len(CreateSteps) \in Nat
  BY <1>1, SideSteps
<1>3. step \in 1 .. Len(CreateSteps)
  BY <1>1, <1>2
<1>4. ASSUME side = "compute"
      PROVE  /\ step \in 1..24 /\ live = Own(Acquired)
             /\ Acquired = Got(ComputeSteps, step)
             /\ CreateSteps = ComputeSteps
  <2>1. step \in 1..24 /\ CreateSteps = ComputeSteps
    BY <1>3, <1>4, SideSteps
  <2>2. Acquired = Got(ComputeSteps, step)
    BY <2>1, AcquiredIsGot
  <2>3. "mem_pool" \notin Acquired /\ "addr_trans_table" \notin Acquired
    BY <2>1, <2>2, ComputeGot
  <2>4. "req_notify" \notin Acquired
    BY DEF Acquired, Calls
  <2>5. Acquired \ unnoticed = Acquired
    BY <1>1, <2>3, <2>4 DEF Unnoticeable
  <2> QED BY <1>1, <2>1, <2>2, <2>5
<1>5. ASSUME side = "memory"
      PROVE  /\ step \in 1..23
             /\ Acquired = Got(MemorySteps, step)
             /\ CreateSteps = MemorySteps
  BY <1>3, <1>5, SideSteps, AcquiredIsGot
<1> QED BY <1>1, <1>3, <1>4, <1>5

(* A failure that may go unnoticed can happen once.                        *)
LEMMA OnceOnly ==
  ASSUME LifeInv, pc = "create", CreateSteps[step] \in Unnoticeable
  PROVE  CreateSteps[step] \notin Passed
<1>1. SUFFICES ASSUME NEW i \in 1 .. step - 1, CreateSteps[i] = CreateSteps[step]
               PROVE  FALSE
  BY DEF Passed
<1>2. CASE side = "compute"
  <2>1. step \in 1..24 /\ CreateSteps = ComputeSteps
    BY <1>2, WhileCreating
  <2>2. i \in 1..24 /\ i < step
    BY <1>1, <2>1
  <2>3. CreateSteps[step] = "addr_trans_table"
    BY <2>1, ComputeAt DEF Unnoticeable
  <2>4. step = 24 /\ i = 24
    BY <1>1, <2>1, <2>2, <2>3, ComputeAt
  <2> QED BY <2>2, <2>4
<1>3. CASE side = "memory"
  <2>1. step \in 1..23 /\ CreateSteps = MemorySteps
    BY <1>3, WhileCreating
  <2>2. i \in 1..23 /\ i < step
    BY <1>1, <2>1
  <2>3. CreateSteps[step] = "mem_pool" \/ CreateSteps[step] = "req_notify"
    BY <2>1, MemoryAt DEF Unnoticeable
  <2>4. CASE CreateSteps[step] = "mem_pool"
    BY <1>1, <2>1, <2>2, <2>4, MemoryAt
  <2>5. CASE CreateSteps[step] = "req_notify"
    BY <1>1, <2>1, <2>2, <2>5, MemoryAt
  <2> QED BY <2>3, <2>4, <2>5
<1> QED BY <1>2, <1>3, WhileCreating

(* A step that is taken, or that fails unnoticed, without the last one.    *)
LEMMA StepCreating ==
  ASSUME LifeInv, fault = "none", CreateStep \/ CreateWithout
  PROVE  /\ Creating'
         /\ registers' /\ fault' = "none" /\ pc' \in {"create", "ready"}
         /\ live' = Own(Acquired' \ unnoticed') /\ used' = {}
         /\ types_count' = IF "types" \in Acquired' THEN 3 ELSE 0
         /\ caches' = IF "caches" \in Acquired' THEN <<"zero", "zero", "zero">>
                                                ELSE << >>
<1> DEFINE s == CreateSteps[step]
<1>1. pc = "create" /\ UNCHANGED <<side, used, registers, fault>> /\ step' = step + 1
      /\ pc' = IF step = Len(CreateSteps) THEN "ready" ELSE pc
  BY DEF CreateStep, CreateWithout, text_vars
<1>2. step \in Nat \ {0} /\ CreateSteps' = CreateSteps
  BY <1>1, WhileCreating DEF CreateSteps
<1>3. Acquired' = IF s \in Calls THEN Acquired ELSE Acquired \cup {s}
  <2>1. Acquired' = Got(CreateSteps, step + 1)
    BY <1>1, <1>2 DEF Acquired, Got
  <2> QED BY <1>2, <2>1, GotNext, AcquiredIsGot
<1>4. Passed' = Passed \cup {s}
  BY <1>1, <1>2 DEF Passed
<1>5. live = Own(Acquired \ unnoticed) /\ unnoticed \subseteq Passed
      /\ unnoticed \subseteq Unnoticeable
  BY <1>1, WhileCreating
<1>6. s \in Unnoticeable => s \notin Passed
  BY <1>1, OnceOnly
<1>7. Acquired \subseteq Passed /\ Acquired \cap Calls = {}
  BY DEF Acquired, Passed
<1>8. unnoticed' \subseteq Passed' /\ live' = Own(Acquired' \ unnoticed')
  <2>1. CASE CreateStep
    <3>1. /\ unnoticed' = unnoticed
          /\ live' = IF s \in Calls THEN live ELSE live \cup Own({s})
      BY <2>1 DEF CreateStep
    <3>2. s \notin unnoticed
      BY <1>5, <1>6
    <3> HIDE DEF s
    <3>3. Acquired' \ unnoticed' = IF s \in Calls THEN Acquired \ unnoticed
                                   ELSE (Acquired \ unnoticed) \cup {s}
      BY <1>3, <3>1, <3>2
    <3>4. Own((Acquired \ unnoticed) \cup {s}) = Own(Acquired \ unnoticed) \cup Own({s})
      BY OwnSets
    <3> QED BY <1>4, <1>5, <3>1, <3>3, <3>4
  <2>2. CASE CreateWithout
    <3>1. s \in Unnoticeable /\ unnoticed' = unnoticed \cup {s} /\ live' = live
      BY <2>2 DEF CreateWithout
    <3> HIDE DEF s
    <3>2. s \notin Acquired
      BY <1>6, <1>7, <3>1
    <3>3. Acquired' \ unnoticed' = Acquired \ unnoticed
      BY <1>3, <3>1, <3>2
    <3> QED BY <1>4, <1>5, <3>1, <3>3
  <2> QED BY <2>1, <2>2
<1>9. types_count' = IF "types" \in Acquired' THEN 3 ELSE 0
  <2>1. "types" \in Acquired' <=> ("types" \in Acquired \/ s = "types")
    BY <1>3 DEF Calls
  <2>2. types_count = IF "types" \in Acquired THEN 3 ELSE 0
    BY <1>1, WhileCreating
  <2>3. types_count' = IF s = "types" THEN 3 ELSE types_count
    BY DEF CreateStep, CreateWithout, Unnoticeable
  <2> HIDE DEF s
  <2> QED BY <2>1, <2>2, <2>3
<1>10. caches' = IF "caches" \in Acquired' THEN <<"zero", "zero", "zero">>
                                          ELSE << >>
  <2>1. "caches" \in Acquired' <=> ("caches" \in Acquired \/ s = "caches")
    BY <1>3 DEF Calls
  <2>2. caches = IF "caches" \in Acquired THEN <<"zero", "zero", "zero">> ELSE << >>
    BY <1>1, WhileCreating
  <2>3. caches' = IF s = "caches" THEN <<"zero", "zero", "zero">> ELSE caches
    BY DEF CreateStep, CreateWithout, Unnoticeable
  <2> HIDE DEF s
  <2> QED BY <2>1, <2>2, <2>3
<1>11. /\ Len(CreateSteps) \in Nat /\ step \in 1 .. Len(CreateSteps) /\ registers
       /\ used = {}
  BY <1>1, WhileCreating, SideSteps
<1>12. pc' = "create" => step' <= Len(CreateSteps')
  BY <1>1, <1>2, <1>11
<1>13. pc' \in {"create", "ready"}
  BY <1>1
<1>14. Creating'
  BY <1>8, <1>9, <1>10, <1>12, <1>13, <1>11, <1>1 DEF Creating
<1> QED BY <1>1, <1>8, <1>9, <1>10, <1>11, <1>13, <1>14

(* A step that is taken, or that fails unnoticed.                          *)
LEMMA StepResources ==
  ASSUME LifeInv, fault = "none", CreateStep \/ CreateWithout
  PROVE  ResourceInv'
<1>1. /\ pc = "create" /\ UNCHANGED side /\ step' = step + 1
      /\ pc' = IF step = Len(CreateSteps) THEN "ready" ELSE pc
  BY DEF CreateStep, CreateWithout, text_vars
<1>2. /\ Creating' /\ registers' /\ fault' = "none" /\ pc' \in {"create", "ready"}
  BY StepCreating
<1>3. Created'
  <2>1. SUFFICES ASSUME pc' = "ready", side = "compute"
                 PROVE  /\ step' = Len(CreateSteps') + 1
                        /\ live' = Own(Acquired' \ unnoticed')
                        /\ InitBlocks' = {} /\ used' = {}
                        /\ Len(caches') = types_count' /\ types_count' = 3
                        /\ \A i \in DOMAIN caches' : caches'[i] = "zero"
    BY <1>1, <1>2 DEF Created
  <2>2. CreateSteps = ComputeSteps /\ CreateSteps' = CreateSteps /\ Len(CreateSteps) = 24
    BY <1>1, <2>1, SideSteps DEF CreateSteps
  <2>3. step = 24 /\ step' = 25
    BY <1>1, <2>1, <2>2
  <2>4. Acquired' = Got(ComputeSteps, 25)
    BY <2>2, <2>3 DEF Acquired, Got
  <2>5. /\ "types" \in Acquired' /\ "caches" \in Acquired'
    BY <2>4, ComputeGot
  <2>6. types_count' = 3 /\ caches' = <<"zero", "zero", "zero">>
    BY <2>5, StepCreating
  <2>7. Len(caches') = 3 /\ \A i \in DOMAIN caches' : caches'[i] = "zero"
    BY <2>6
  <2>8. InitBlocks' = {}
    BY <2>7 DEF InitBlocks
  <2>9. live' = Own(Acquired' \ unnoticed') /\ used' = {}
    BY StepCreating
  <2> QED BY <2>2, <2>3, <2>6, <2>7, <2>8, <2>9
<1> QED
  BY <1>2, <1>3 DEF ResourceInv, CleanupFaultsOnlyIn, RegisteredFreeSafe,
     FailedCreateReleases, FreeLosesDomainAndChunks

(* A fault during the creation, where CleanupFaultsOnlyIn allows it.       *)
LEMMA CreateFault ==
  ASSUME LifeInv, pc = "create", CleanupFaultsOnlyIn',
         UNCHANGED <<side, pc, step, live, caches, used, unnoticed, registers>>,
         fault' # "none"
  PROVE  ResourceInv'
<1>1. Acquired' = Acquired /\ CreateSteps' = CreateSteps /\ Passed' = Passed
  BY DEF Acquired, CreateSteps, Passed
<1>2. Creating'
  BY <1>1 DEF LifeInv, Creating
<1> QED
  BY <1>2 DEF LifeInv, ResourceInv, Created, RegisteredFreeSafe,
     FailedCreateReleases, FreeLosesDomainAndChunks

(* A creation that fails and releases what it must.                        *)
LEMMA CreateFailed ==
  ASSUME LifeInv, pc = "create", FailedCreateReleases', fault = "none",
         pc' = "failed", UNCHANGED <<side, step, caches, registers, fault>>
  PROVE  ResourceInv'
BY DEF LifeInv, ResourceInv, Creating, Created, CleanupFaultsOnlyIn,
   RegisteredFreeSafe, FreeLosesDomainAndChunks

(* rdma_client_connect fails.                                              *)
LEMMA ConnectResources ==
  ASSUME LifeInv, fault = "none", ConnectFails
  PROVE  ResourceInv'
<1>1. /\ pc = "create" /\ side = "compute"
      /\ UNCHANGED <<side, step, caches, used, unnoticed, registers>>
      /\ step \in 1..20
  BY ComputePlaces DEF ConnectFails, Between, text_vars
<1> DEFINE A == Got(ComputeSteps, step)
<1>2. live = Own(A) /\ Acquired = A
  BY <1>1, WhileCreating
<1>3. PICK n \in 1..20 : n = step BY <1>1
<1>4. /\ "cm_id" \in A <=> step > 4
      /\ "conn" \in A <=> step > 9
      /\ "qp" \in A <=> step > 17
      /\ A \subseteq ConnParts \cup ClientParts
      /\ step <= 9 => A \subseteq {"ctx", "client", "cm_events", "cm_id"}
  <2>1. n \in 1..25 BY <1>3
  <2> QED BY <1>3, <2>1, ComputeGot, ComputeNames
<1>5. Has(live, "conn") <=> step > 9
  BY <1>2, <1>4, OwnSets
<1>6. Has(live, "qp") <=> step > 17
  BY <1>2, <1>4, OwnSets
<1>7. IdIsLocal <=> step \in 5..8
  BY <1>1, ComputePlaces DEF IdIsLocal
<1>8. ConnectFaults = IF step \in 10..17 THEN {"none", "no_qp"} ELSE {"none"}
  BY <1>1, <1>5, <1>6, <1>7 DEF ConnectFaults, QpFaults
<1>9. CASE fault' # "none"
  <2>1. fault' = "no_qp" /\ step \in 10..17 /\ UNCHANGED <<pc, live>>
    BY <1>8, <1>9 DEF ConnectFails
  <2>2. Between("pd", "qp")'
    <3>1. Position("pd")' = Position("pd") /\ Position("qp")' = Position("qp")
      BY <1>1 DEF Position, CreateSteps
    <3> QED BY <1>1, <2>1, <3>1, ComputePlaces DEF Between
  <2> QED BY <1>1, <1>9, <2>1, <2>2, CreateFault DEF CleanupFaultsOnlyIn
<1>10. CASE fault' = "none"
  <2> DEFINE B == A \ IF step \in 5..8 THEN {"cm_id"} ELSE {}
  <2>1. /\ pc' = "failed" /\ fault' = fault
        /\ live' = rdma_client_free(live \ Own(IF IdIsLocal THEN {"cm_id"} ELSE {}))
                     \ Own({"ctx"})
    BY <1>10 DEF ConnectFails
  <2>2. live \ Own(IF IdIsLocal THEN {"cm_id"} ELSE {}) = Own(B)
    BY <1>2, <1>7, OwnSets
  <2>3. /\ B \subseteq Names /\ "mr" \notin B /\ "mem_pool_mr" \notin B
        /\ "conn" \in B <=> step > 9
    <3>1. B \subseteq A BY DEF B
    <3>2. ConnParts \cup ClientParts \subseteq Names
      BY DEF Names
    <3>3. "mr" \notin ConnParts \cup ClientParts /\ "mem_pool_mr" \notin ConnParts \cup ClientParts
      BY DEF ConnParts, ClientParts
    <3>4. "conn" \in B <=> "conn" \in A
      BY DEF B
    <3> HIDE DEF A, B
    <3> QED BY <1>4, <3>1, <3>2, <3>3, <3>4
  <2> HIDE DEF B
  <2>4. live' = Own(B \ ({"cm_events", "client"} \cup
                         IF "conn" \in B THEN ConnParts \cup {"pd"} ELSE {}))
                  \ Own({"ctx"})
    BY <2>1, <2>2, <2>3, ClientFree
  <2>5. live' = Own((B \ ({"cm_events", "client"} \cup
                         IF "conn" \in B THEN ConnParts \cup {"pd"} ELSE {}))
                  \ {"ctx"})
    <3> DEFINE C == B \ ({"cm_events", "client"} \cup
                         IF "conn" \in B THEN ConnParts \cup {"pd"} ELSE {})
    <3> HIDE DEF C
    <3>1. live' = Own(C) \ Own({"ctx"}) BY <2>4 DEF C
    <3>2. live' = Own(C \ {"ctx"}) BY <3>1, OwnSets
    <3> QED BY <3>2 DEF C
  <2> USE DEF B
  <2>6. (B \ ({"cm_events", "client"} \cup
              IF "conn" \in B THEN ConnParts \cup {"pd"} ELSE {})) \ {"ctx"}
          = IF step = 9 THEN {"cm_id"} ELSE {}
    <3>1. CASE step > 9
      BY <1>4, <2>3, <3>1 DEF ConnParts, ClientParts
    <3>2. CASE step = 9
      BY <1>4, <2>3, <3>2
    <3>3. CASE step < 9
      BY <1>1, <1>4, <2>3, <3>3
    <3> QED BY <1>1, <3>1, <3>2, <3>3
  <2>7. LostOnFailure' = IF step = 9 THEN {"cm_id"} ELSE {}
    <3>1. Position("conn")' = Position("conn")
      BY <1>1 DEF Position, CreateSteps
    <3> QED BY <1>1, <3>1, ComputePlaces DEF LostOnFailure
  <2>8. FailedCreateReleases'
    BY <2>5, <2>6, <2>7 DEF FailedCreateReleases
  <2> QED BY <1>1, <2>1, <2>8, CreateFailed
<1> QED BY <1>9, <1>10

(* An array of compute_context_create cannot be allocated.                 *)
LEMMA ArrayResources ==
  ASSUME LifeInv, fault = "none", CreateFails
  PROVE  ResourceInv'
<1>1. /\ pc = "create" /\ side = "compute"
      /\ UNCHANGED <<side, step, caches, used, unnoticed, registers>>
      /\ step \in 21..23
  BY ComputePlaces DEF CreateFails, Between, text_vars
<1>2. PICK n \in 21..23 : n = step BY <1>1
<1>3. "caches" \notin Acquired
  <2>1. n \in 1..25 BY <1>2
  <2>2. Acquired = Got(ComputeSteps, n) BY <1>1, <1>2, WhileCreating
  <2>3. ~(n > 23) BY <1>2
  <2> QED BY <2>1, <2>2, <2>3, ComputeGot
<1>4. caches = << >>
  BY <1>1, <1>3, WhileCreating
<1>5. 1 \in BadBlocks(3)
  BY <1>4 DEF BadBlocks
<1>6. fault' = "bad_block" /\ UNCHANGED <<pc, live>>
  BY <1>5 DEF CreateFails, compute_context_free
<1>7. Between("types", "caches")'
  <2>1. Position("types")' = Position("types") /\ Position("caches")' = Position("caches")
    BY <1>1 DEF Position, CreateSteps
  <2> QED BY <1>1, <2>1, ComputePlaces DEF Between
<1> QED BY <1>1, <1>6, <1>7, CreateFault DEF CleanupFaultsOnlyIn

(* rdma_server_create fails.                                               *)
LEMMA ServerResources ==
  ASSUME LifeInv, fault = "none", ServerFails
  PROVE  ResourceInv'
<1>1. /\ pc = "create" /\ side = "memory"
      /\ UNCHANGED <<side, step, caches, used, unnoticed, registers>>
  BY DEF ServerFails, text_vars
<1>2. /\ step \in 1..23 /\ Acquired = Got(MemorySteps, step)
      /\ live = Own(Acquired \ unnoticed) /\ unnoticed \subseteq Unnoticeable
      /\ CreateSteps = MemorySteps
  BY <1>1, WhileCreating
<1> DEFINE A == Acquired \ unnoticed
<1>3. live = Own(A) /\ step # 2
  BY <1>1, <1>2, MemoryAt DEF ServerFails, Unnoticeable
<1>4. PICK n \in 1..23 : n = step BY <1>2
<1>5. /\ "mem_pool" \in Acquired <=> step > 2
      /\ "server" \in Acquired <=> step > 3
      /\ "cm_id" \in Acquired <=> step > 8
      /\ "conn" \in Acquired <=> step > 9
      /\ "pd" \in Acquired <=> step > 10
      /\ "qp" \in Acquired <=> step > 19
      /\ "mem_pool_mr" \in Acquired <=> step > 21
      /\ Acquired \subseteq ConnParts \cup ServerParts
      /\ step <= 9 => Acquired \subseteq
           {"ctx", "mem_pool", "server", "cm_events", "listen_id", "cm_id"}
  <2>1. n \in 1..24 BY <1>4
  <2> QED BY <1>2, <1>4, <2>1, MemoryGot, MemoryNames
<1>6. A \subseteq Acquired /\ \A m \in Acquired : m \notin Unnoticeable => m \in A
  BY <1>2
<1>7. /\ Has(live, "conn") <=> step > 9
      /\ Has(live, "qp") <=> step > 19
  <2>1. "conn" \in A <=> step > 9 BY <1>5, <1>6 DEF Unnoticeable
  <2>2. "qp" \in A <=> step > 19 BY <1>5, <1>6 DEF Unnoticeable
  <2> HIDE DEF A
  <2> QED BY <1>3, <2>1, <2>2, OwnSets
<1>8. QpFaults = IF step \in 10..19 THEN {"none", "no_qp"} ELSE {"none"}
  BY <1>2, <1>7 DEF QpFaults
<1>9. CASE fault' # "none"
  <2>1. fault' = "no_qp" /\ step \in 10..19 /\ UNCHANGED <<pc, live>>
    BY <1>8, <1>9 DEF ServerFails
  <2>2. Between("pd", "qp")'
    <3>1. Position("pd")' = Position("pd") /\ Position("qp")' = Position("qp")
      BY <1>1 DEF Position, CreateSteps
    <3> QED BY <1>1, <2>1, <3>1, MemoryPlaces DEF Between
  <2> QED BY <1>1, <1>9, <2>1, <2>2, CreateFault DEF CleanupFaultsOnlyIn
<1>10. CASE fault' = "none"
  <2>1. /\ pc' = "failed" /\ fault' = fault
        /\ live' = memory_context_free(rdma_server_free(live))
    BY <1>10 DEF ServerFails
  <2> DEFINE freed == {"ctx", "mem_pool_mr", "listen_id", "cm_events"} \cup
                        IF "conn" \in A
                          THEN ConnParts \cup IF "mem_pool_mr" \in A THEN {} ELSE {"pd"}
                          ELSE {}
             lost == (IF step = 9 THEN {"cm_id"} ELSE {})
                     \cup (IF "mem_pool" \in A THEN {"mem_pool"} ELSE {})
                     \cup (IF step > 3 THEN {"server"} ELSE {})
                     \cup (IF step > 21 THEN {"pd"} ELSE {})
  <2>2. A \subseteq Names /\ "mr" \notin A
    <3>1. ConnParts \cup ServerParts \subseteq Names
      BY DEF Names
    <3>2. "mr" \notin ConnParts \cup ServerParts
      BY DEF ConnParts, ServerParts
    <3> HIDE DEF A
    <3> QED BY <1>5, <1>6, <3>1, <3>2
  <2>3. live' = Own(A \ freed)
    <3> HIDE DEF A
    <3> QED BY <1>3, <2>1, <2>2, ServerFree
  <2>4. A \ freed = lost
    <3> HIDE DEF A
    <3>1. CASE step > 9
      <4>1. /\ "conn" \in A /\ "server" \in A
            /\ "pd" \in A <=> step > 10
            /\ "mem_pool_mr" \in A <=> step > 21
        BY <1>2, <1>5, <1>6, <3>1 DEF Unnoticeable
      <4>2. /\ "cm_id" \in freed /\ "mem_pool" \notin freed /\ "server" \notin freed
            /\ "pd" \in freed <=> ~(step > 21)
            /\ ConnParts \cup {"ctx", "mem_pool_mr", "listen_id", "cm_events"} \subseteq freed
        <5>1. "cm_id" \in ConnParts /\ "mem_pool" \notin ConnParts
              /\ "server" \notin ConnParts /\ "pd" \notin ConnParts
          BY DEF ConnParts
        <5>2. freed = {"ctx", "mem_pool_mr", "listen_id", "cm_events"} \cup
                        (ConnParts \cup IF "mem_pool_mr" \in A THEN {} ELSE {"pd"})
          BY <4>1
        <5> HIDE DEF freed
        <5> QED BY <4>1, <5>1, <5>2
      <4>3. A \subseteq ConnParts \cup ServerParts
        BY <1>5, <1>6
      <4> HIDE DEF freed
      <4>4. ASSUME NEW m \in A, m \notin freed
            PROVE  m = "mem_pool" \/ m = "server" \/ (m = "pd" /\ step > 21)
        <5>1. m \in {"mem_pool", "server", "pd"}
          BY <4>2, <4>3, <4>4 DEF ServerParts
        <5> QED BY <4>2, <4>4, <5>1
      <4>5. step > 21 => "pd" \in A /\ "pd" \notin freed
        BY <1>2, <4>1, <4>2
      <4>6. lost = (IF "mem_pool" \in A THEN {"mem_pool"} ELSE {}) \cup {"server"}
                     \cup (IF step > 21 THEN {"pd"} ELSE {})
        BY <1>2, <3>1
      <4> HIDE DEF lost
      <4> QED BY <4>1, <4>2, <4>4, <4>5, <4>6
    <3>2. CASE step = 9
      BY <1>5, <1>6, <3>2 DEF Unnoticeable
    <3>3. CASE step < 9
      BY <1>2, <1>5, <1>6, <3>3 DEF Unnoticeable
    <3> QED BY <1>2, <3>1, <3>2, <3>3
  <2>5. "mem_pool" \in A <=> step > 2 /\ "mem_pool" \notin unnoticed
    BY <1>5
  <2>6. LostOnFailure' = lost
    <3> HIDE DEF A, freed
    <3>1. /\ Position("conn")' = Position("conn") /\ Position("server")' = Position("server")
          /\ Position("mem_pool_mr")' = Position("mem_pool_mr")
          /\ Position("mem_pool")' = Position("mem_pool")
      BY <1>1 DEF Position, CreateSteps
    <3> QED BY <1>1, <2>5, <3>1, MemoryPlaces DEF LostOnFailure
  <2>7. FailedCreateReleases'
    BY <2>3, <2>4, <2>6 DEF FailedCreateReleases
  <2> QED BY <1>1, <2>1, <2>7, CreateFailed
<1> QED BY <1>9, <1>10

(* What the invariant gives of a created compute node.                     *)
LEMMA WhileReady ==
  ASSUME LifeInv, pc = "ready", side = "compute"
  PROVE  /\ step = 25 /\ CreateSteps = ComputeSteps
         /\ Acquired = Got(ComputeSteps, 25)
         /\ live = Own(Acquired \ unnoticed) \cup InitBlocks \cup ({"chunk_refs"} \X used)
         /\ used \subseteq Nat \ {0} /\ unnoticed \subseteq Unnoticeable
         /\ caches \in Seq(BlockStates) /\ types_count \in Nat
         /\ Len(caches) \in Nat /\ DOMAIN caches = 1..Len(caches)
         /\ Len(caches) <= types_count
         /\ registers => /\ Len(caches) = types_count
                         /\ \A i \in DOMAIN caches : caches[i] \in {"zero", "init"}
<1>1. step = 25 /\ CreateSteps = ComputeSteps
  <2>1. step = Len(CreateSteps) + 1
    BY DEF LifeInv, Created
  <2>2. Len(CreateSteps) = 24 /\ CreateSteps = ComputeSteps
    BY SideSteps
  <2> QED BY <2>1, <2>2
<1>2. Acquired = Got(ComputeSteps, 25)
  BY <1>1, AcquiredIsGot
<1>3. /\ caches \in Seq(BlockStates) /\ types_count \in Nat
      /\ used \subseteq Nat \ {0} /\ unnoticed \subseteq Unnoticeable
  BY DEF LifeInv, LifeTypes
<1>4. Len(caches) \in Nat /\ DOMAIN caches = 1..Len(caches)
  BY <1>3
<1>5. /\ live = Own(Acquired \ unnoticed) \cup InitBlocks \cup ({"chunk_refs"} \X used)
      /\ Len(caches) <= types_count
      /\ registers => /\ Len(caches) = types_count
                      /\ \A i \in DOMAIN caches : caches[i] \in {"zero", "init"}
  BY DEF LifeInv, Created
<1> QED BY <1>1, <1>2, <1>3, <1>4, <1>5

(* The array of cache blocks when it grows.                                *)
LEMMA GrownArray ==
  ASSUME caches \in Seq(BlockStates), types_count \in Nat,
         Len(caches) <= types_count,
         NEW f \in BlockStates, NEW b \in BlockStates
  PROVE  /\ Grown(f, b) \in Seq(BlockStates)
         /\ Len(Grown(f, b)) = types_count + 1
         /\ DOMAIN Grown(f, b) = 1 .. types_count + 1
         /\ \A i \in 1 .. types_count + 1 :
              Grown(f, b)[i] = IF i <= Len(caches) THEN caches[i]
                               ELSE IF i <= types_count THEN f ELSE b
<1>1. Len(caches) \in Nat /\ \A i \in 1..Len(caches) : caches[i] \in BlockStates
  OBVIOUS
<1>2. types_count + 1 \in Nat
  OBVIOUS
<1>3. Grown(f, b) \in [1 .. types_count + 1 -> BlockStates]
  BY <1>1 DEF Grown
<1>4. /\ DOMAIN Grown(f, b) = 1 .. types_count + 1
      /\ \A i \in 1 .. types_count + 1 :
              Grown(f, b)[i] = IF i <= Len(caches) THEN caches[i]
                               ELSE IF i <= types_count THEN f ELSE b
  BY DEF Grown
<1>5. Grown(f, b) \in Seq(BlockStates)
  BY <1>2, <1>3, SeqDef
<1>6. Len(Grown(f, b)) = types_count + 1
  BY <1>2, <1>4, <1>5
<1> QED BY <1>4, <1>5, <1>6

(* What growing changes of the blocks that are set up.                     *)
LEMMA GrownBlocks ==
  ASSUME caches \in Seq(BlockStates), types_count \in Nat,
         Len(caches) <= types_count,
         NEW f \in BlockStates \ {"init"}, NEW b \in BlockStates,
         caches' = Grown(f, b)
  PROVE  InitBlocks' = InitBlocks \cup IF b = "init" THEN Block(types_count + 1) ELSE {}
<1>1. /\ DOMAIN caches' = 1 .. types_count + 1
      /\ \A i \in 1 .. types_count + 1 :
              caches'[i] = IF i <= Len(caches) THEN caches[i]
                           ELSE IF i <= types_count THEN f ELSE b
  BY GrownArray
<1>2. Len(caches) \in Nat /\ DOMAIN caches = 1..Len(caches)
  OBVIOUS
<1> DEFINE was == {j \in DOMAIN caches : caches[j] = "init"}
           is  == {j \in DOMAIN caches' : caches'[j] = "init"}
<1>3. is = was \cup IF b = "init" THEN {types_count + 1} ELSE {}
  BY <1>1, <1>2
<1>4. InitBlocks = UNION {Block(i) : i \in was} /\ InitBlocks' = UNION {Block(i) : i \in is}
  BY DEF InitBlocks, Block
<1> HIDE DEF was, is
<1> QED BY <1>3, <1>4

(* register_type, whether it succeeds or not.                              *)
LEMMA RegisterResources ==
  ASSUME LifeInv, fault = "none", RegisterOk \/ RegisterNoArray \/ RegisterNoBlock
  PROVE  ResourceInv'
<1>1. /\ pc = "ready" /\ side = "compute"
      /\ UNCHANGED <<side, pc, step, used, unnoticed>>
      /\ types_count' = types_count + 1
  BY DEF RegisterOk, RegisterNoArray, RegisterNoBlock, CanRegister, text_vars
<1>2. Acquired' = Acquired /\ CreateSteps' = CreateSteps
  BY <1>1 DEF Acquired, CreateSteps
<1>3. /\ caches \in Seq(BlockStates) /\ types_count \in Nat
      /\ Len(caches) \in Nat /\ DOMAIN caches = 1..Len(caches)
      /\ Len(caches) <= types_count
  BY <1>1, WhileReady
<1>4. SUFFICES
        /\ live' = Own(Acquired \ unnoticed) \cup InitBlocks' \cup ({"chunk_refs"} \X used)
        /\ Len(caches') <= types_count'
        /\ registers' => /\ fault' = "none" /\ Len(caches') = types_count'
                         /\ \A i \in DOMAIN caches' : caches'[i] \in {"zero", "init"}
  BY <1>1, <1>2 DEF LifeInv, ResourceInv, Creating, Created, CleanupFaultsOnlyIn,
     RegisteredFreeSafe, FailedCreateReleases, FreeLosesDomainAndChunks
<1>5. live = Own(Acquired \ unnoticed) \cup InitBlocks \cup ({"chunk_refs"} \X used)
  BY <1>1, WhileReady
<1>6. CASE RegisterOk
  <2>1. PICK f \in Fresh : caches' = Grown(f, "init")
    BY <1>6 DEF RegisterOk
  <2>2. f \in BlockStates \ {"init"} /\ "init" \in BlockStates
    BY <2>1 DEF Fresh, BlockStates
  <2>3. InitBlocks' = InitBlocks \cup Block(types_count + 1)
    BY <1>3, <2>1, <2>2, GrownBlocks
  <2>4. live' = live \cup Block(types_count + 1) /\ UNCHANGED <<registers, fault>>
    BY <1>6 DEF RegisterOk
  <2>5. /\ Len(caches') = types_count + 1
        /\ DOMAIN caches' = 1 .. types_count + 1
        /\ \A i \in 1 .. types_count + 1 :
             caches'[i] = IF i <= Len(caches) THEN caches[i]
                          ELSE IF i <= types_count THEN f ELSE "init"
    BY <1>3, <2>1, <2>2, GrownArray
  <2>6. ASSUME registers'
        PROVE  \A i \in DOMAIN caches' : caches'[i] \in {"zero", "init"}
    <3>1. /\ Len(caches) = types_count
          /\ \A i \in DOMAIN caches : caches[i] \in {"zero", "init"}
      BY <1>1, <2>4, <2>6, WhileReady
    <3> QED BY <1>3, <2>5, <3>1
  <2>7. live' = Own(Acquired \ unnoticed) \cup InitBlocks' \cup ({"chunk_refs"} \X used)
    BY <1>5, <2>3, <2>4
  <2>8. Len(caches') = types_count' /\ Len(caches') <= types_count' /\ fault' = "none"
    BY <1>1, <1>3, <2>4, <2>5
  <2> QED BY <2>6, <2>7, <2>8
<1>7. CASE RegisterNoArray
  <2>1. registers' = FALSE /\ UNCHANGED <<live, caches>>
    BY <1>7 DEF RegisterNoArray
  <2>2. InitBlocks' = InitBlocks
    BY <2>1 DEF InitBlocks, Block
  <2>3. Len(caches') <= types_count'
    BY <1>1, <1>3, <2>1
  <2> QED BY <1>5, <2>1, <2>2, <2>3
<1>8. CASE RegisterNoBlock
  <2>1. registers' = FALSE /\ UNCHANGED live
    BY <1>8 DEF RegisterNoBlock
  <2>2. CASE caches' = caches
    <3>1. InitBlocks' = InitBlocks
      BY <2>2 DEF InitBlocks, Block
    <3>2. Len(caches') <= types_count'
      BY <1>1, <1>3, <2>2
    <3> QED BY <1>5, <2>1, <3>1, <3>2
  <2>3. CASE caches' # caches
    <3>1. PICK f \in Fresh, b \in {"zero", "dangling"} : caches' = Grown(f, b)
      BY <1>8, <2>3 DEF RegisterNoBlock
    <3>2. f \in BlockStates \ {"init"} /\ b \in BlockStates /\ b # "init"
      BY <3>1 DEF Fresh, BlockStates
    <3>3. InitBlocks' = InitBlocks
      BY <1>3, <3>1, <3>2, GrownBlocks
    <3>4. Len(caches') = types_count + 1
      BY <1>3, <3>1, <3>2, GrownArray
    <3>5. Len(caches') <= types_count'
      BY <1>1, <1>3, <3>4
    <3> QED BY <1>5, <2>1, <3>3, <3>5
  <2> QED BY <2>2, <2>3
<1> QED BY <1>6, <1>7, <1>8

(* disagg_alloc adds a node to a chunk list.                               *)
LEMMA ChunkResources ==
  ASSUME LifeInv, fault = "none", AllocChunk
  PROVE  ResourceInv' /\ used' \subseteq Nat \ {0}
<1>1. /\ pc = "ready" /\ side = "compute"
      /\ UNCHANGED <<side, pc, step, types_count, caches, unnoticed, registers, fault>>
  BY DEF AllocChunk, text_vars
<1>2. PICK i \in 1..3 \cup {j \in DOMAIN caches : caches[j] = "init"} :
        used' = used \cup {i} /\ live' = live \cup {<<"chunk_refs", i>>}
  BY DEF AllocChunk
<1>3. /\ live = Own(Acquired \ unnoticed) \cup InitBlocks \cup ({"chunk_refs"} \X used)
      /\ used \subseteq Nat \ {0} /\ DOMAIN caches = 1..Len(caches)
      /\ Len(caches) \in Nat
  BY <1>1, WhileReady
<1> i \in Nat \ {0}
  BY <1>2, <1>3
<1>4. Acquired' = Acquired /\ CreateSteps' = CreateSteps /\ InitBlocks' = InitBlocks
  BY <1>1 DEF Acquired, CreateSteps, InitBlocks, Block
<1>5. {"chunk_refs"} \X used' = ({"chunk_refs"} \X used) \cup {<<"chunk_refs", i>>}
  BY <1>2
<1>6. live' = Own(Acquired' \ unnoticed') \cup InitBlocks' \cup ({"chunk_refs"} \X used')
  BY <1>1, <1>2, <1>3, <1>4, <1>5
<1>7. Created'
  BY <1>1, <1>4, <1>6 DEF LifeInv, Created
<1> QED
  BY <1>1, <1>2, <1>3, <1>7 DEF LifeInv, ResourceInv, Creating, CleanupFaultsOnlyIn,
     RegisteredFreeSafe, FailedCreateReleases, FreeLosesDomainAndChunks

(* A created context is freed.                                             *)
LEMMA FreeResources ==
  ASSUME LifeInv, fault = "none", FreeContext
  PROVE  ResourceInv'
<1>1. /\ pc = "ready" /\ side = "compute"
      /\ UNCHANGED <<side, step, types_count, caches, used, unnoticed, registers>>
      /\ compute_context_free(types_count, "freed")
  BY DEF FreeContext, text_vars
<1>2. Acquired' = Acquired /\ CreateSteps' = CreateSteps /\ InitBlocks' = InitBlocks
  BY <1>1 DEF Acquired, CreateSteps, InitBlocks, Block
<1>3. /\ caches \in Seq(BlockStates) /\ types_count \in Nat
      /\ Len(caches) \in Nat /\ DOMAIN caches = 1..Len(caches)
      /\ Len(caches) <= types_count
      /\ live = Own(Acquired \ unnoticed) \cup InitBlocks \cup ({"chunk_refs"} \X used)
      /\ used \subseteq Nat \ {0} /\ unnoticed \subseteq Unnoticeable
      /\ Acquired = Got(ComputeSteps, 25)
  BY <1>1, WhileReady
<1>4. CASE BadBlocks(types_count) # {}
  <2>1. ~registers
    <3>1. SUFFICES ASSUME registers PROVE FALSE
      OBVIOUS
    <3>2. /\ Len(caches) = types_count
          /\ \A i \in DOMAIN caches : caches[i] \in {"zero", "init"}
      BY <1>1, <3>1, WhileReady
    <3> QED BY <1>3, <1>4, <3>2 DEF BadBlocks
  <2>2. UNCHANGED <<pc, live>>
    BY <1>1, <1>4 DEF compute_context_free
  <2> QED
    BY <1>1, <1>2, <2>1, <2>2 DEF LifeInv, ResourceInv, Creating, Created,
       CleanupFaultsOnlyIn, RegisteredFreeSafe, FailedCreateReleases,
       FreeLosesDomainAndChunks
<1>5. CASE BadBlocks(types_count) = {}
  <2>1. /\ pc' = "freed" /\ fault' = fault
        /\ live' = (IF Has(live, "client") THEN rdma_client_free(live) ELSE live)
                      \ (Own({"types", "type_chunk_refs", "caches",
                              "addr_trans_table", "ctx"}) \cup FreedBlocks(types_count))
    BY <1>1, <1>5 DEF compute_context_free
  <2>2. /\ "client" \in Acquired /\ "conn" \in Acquired /\ "pd" \in Acquired
        /\ Acquired \subseteq ConnParts \cup ClientParts \cup ContextParts
    BY <1>3, ComputeGot, ComputeNames
  <2>3. Has(live, "client") /\ Has(live, "conn") /\ Has(live, "pd")
    <3>1. {"client", "conn", "pd"} \subseteq Acquired \ unnoticed
      BY <1>3, <2>2 DEF Unnoticeable
    <3> QED BY <1>3, <3>1, OwnIn DEF Has
  <2>4. InitBlocks \subseteq BlockParts \X (Nat \ {0})
    BY <1>3 DEF InitBlocks, Block
  <2>5. live \subseteq Resources
    <3>1. Own(Acquired \ unnoticed) \subseteq Own(Names)
      <4>1. PICK B : B = Acquired \ unnoticed OBVIOUS
      <4>2. Names = ConnParts \cup ClientParts \cup ContextParts \cup ServerParts
        BY DEF Names
      <4>3. B \subseteq Names BY <2>2, <4>1, <4>2
      <4>4. Own(B) \subseteq Own(Names) BY <4>3 DEF Own
      <4> QED BY <4>1, <4>4
    <3> QED BY <1>3, <2>4, <3>1 DEF Resources
  <2> DEFINE busy == \E i \in DOMAIN caches : caches[i] = "init"
  <2>6. (\E u \in live : u[1] \in {"mr", "mem_pool_mr"}) <=> busy
    <3>1. ASSUME NEW u \in live, u[1] \in {"mr", "mem_pool_mr"}
          PROVE  busy
      <4>1. "mr" \notin Acquired /\ "mem_pool_mr" \notin Acquired
        BY <2>2 DEF ConnParts, ClientParts, ContextParts
      <4>2. u \in InitBlocks
        <5>1. u \notin Own(Acquired \ unnoticed)
          BY <3>1, <4>1, OwnIn
        <5>2. u \notin {"chunk_refs"} \X used
          BY <3>1
        <5> QED BY <1>3, <5>1, <5>2
      <4> QED BY <4>2 DEF InitBlocks
    <3>2. ASSUME NEW i \in DOMAIN caches, caches[i] = "init"
          PROVE  <<"mr", i>> \in live
      <4>1. <<"mr", i>> \in Block(i)
        BY DEF Block, BlockParts
      <4>2. <<"mr", i>> \in InitBlocks
        BY <3>2, <4>1 DEF InitBlocks
      <4> QED BY <1>3, <4>2
    <3>3. \A i : <<"mr", i>>[1] = "mr"
      OBVIOUS
    <3> QED BY <3>1, <3>2, <3>3
  <2>7. rdma_client_free(live) =
          (live \ Own(ConnParts \cup IF busy THEN {} ELSE {"pd"}))
             \ Own({"cm_events", "client"})
    <3> HIDE DEF busy
    <3>1. rdma_conn_free(live) = live \ Own(ConnParts \cup IF busy THEN {} ELSE {"pd"})
      BY <2>5, <2>6, ConnFree
    <3> QED BY <2>3, <3>1 DEF rdma_client_free, ConnFreed
  <2>8. InitBlocks \subseteq FreedBlocks(types_count)
    BY <1>3 DEF InitBlocks, FreedBlocks
  <2>9. FreedBlocks(types_count) \subseteq BlockParts \X (Nat \ {0})
    BY <1>3 DEF FreedBlocks, Block
  <2>10. live' = Own(IF busy THEN {"pd"} ELSE {}) \cup ({"chunk_refs"} \X used)
    <3> DEFINE gone == Own(ConnParts \cup IF busy THEN {} ELSE {"pd"})
                        \cup Own({"cm_events", "client"})
                        \cup Own({"types", "type_chunk_refs", "caches",
                                  "addr_trans_table", "ctx"})
                        \cup FreedBlocks(types_count)
    <3>1. live' = live \ gone
      BY <2>1, <2>3, <2>7
    <3>2. ASSUME NEW u \in live, u \notin gone
          PROVE  (u = <<"pd", 0>> /\ busy) \/ u \in {"chunk_refs"} \X used
      <4> HIDE DEF busy
      <4> SUFFICES ASSUME u \notin {"chunk_refs"} \X used
                   PROVE  u = <<"pd", 0>> /\ busy
        OBVIOUS
      <4>1. u \in Own(Acquired \ unnoticed)
        BY <1>3, <2>8, <3>2
      <4>2. u = <<u[1], 0>> /\ u[1] \in ConnParts \cup ClientParts \cup ContextParts
        BY <2>2, <4>1, OwnIn
      <4>3. /\ u[1] \notin ConnParts \cup IF busy THEN {} ELSE {"pd"}
            /\ u[1] \notin {"cm_events", "client"}
            /\ u[1] \notin {"types", "type_chunk_refs", "caches", "addr_trans_table", "ctx"}
        BY <3>2, <4>2, OwnIn
      <4>4. u[1] = "pd"
        BY <4>2, <4>3 DEF ClientParts, ContextParts
      <4> QED BY <4>2, <4>3, <4>4
    <3>3. ASSUME busy
          PROVE  <<"pd", 0>> \in live /\ <<"pd", 0>> \notin gone
      <4>1. <<"pd", 0>> \in live
        BY <2>3 DEF Has
      <4>2. <<"pd", 0>> \notin FreedBlocks(types_count)
        BY <2>9
      <4>3. "pd" \notin ConnParts
        BY DEF ConnParts
      <4> HIDE DEF busy
      <4> QED BY <3>3, <4>1, <4>2, <4>3, OwnIn
    <3>4. {"chunk_refs"} \X used \subseteq live \ gone
      <4>1. ASSUME NEW i \in used
            PROVE  <<"chunk_refs", i>> \in live /\ <<"chunk_refs", i>> \notin gone
        <5>1. i \in Nat \ {0} BY <1>3, <4>1
        <5>2. <<"chunk_refs", i>> \in live BY <1>3, <4>1
        <5>3. \A names : <<"chunk_refs", i>> \notin Own(names)
          BY <5>1, OwnIn
        <5>4. <<"chunk_refs", i>> \notin FreedBlocks(types_count)
          <6>1. "chunk_refs" \notin BlockParts BY DEF BlockParts
          <6> QED BY <2>9, <6>1
        <5> HIDE DEF busy
        <5> QED BY <5>2, <5>3, <5>4
      <4> HIDE DEF gone
      <4> QED BY <4>1
    <3> HIDE DEF busy, gone
    <3>5. CASE busy
      <4>1. Own({"pd"}) = {<<"pd", 0>>} BY DEF Own
      <4> QED BY <3>1, <3>2, <3>3, <3>4, <3>5, <4>1
    <3>6. CASE ~busy
      <4>1. Own({}) = {} BY DEF Own
      <4> QED BY <3>1, <3>2, <3>4, <3>6, <4>1
    <3> QED BY <3>5, <3>6
  <2>11. FreeLosesDomainAndChunks'
    BY <1>1, <2>10 DEF FreeLosesDomainAndChunks, Own
  <2> QED
    BY <1>1, <2>1, <2>11 DEF ResourceInv, Creating, Created, CleanupFaultsOnlyIn,
       RegisteredFreeSafe, FailedCreateReleases
<1> QED BY <1>4, <1>5

-----------------------------------------------------------------------------
(* The text, action by action. *)

(* What the invariant says of the text.                                    *)
TextInv == TextCut /\ ParsesMeaning /\ RetryKeepsHost

(* The steps that leave the text alone.                                    *)
LEMMA SameText ==
  ASSUME LifeInv, UNCHANGED text_vars, pc' # "parse",
         pc = "parse" => side = "memory"
  PROVE  TextInv'
<1>1. /\ side' = side /\ asked' = asked /\ memory_addr' = memory_addr
      /\ target' = target /\ tries' = tries
  BY DEF text_vars
<1>2. TextCut /\ ParsesMeaning /\ RetryKeepsHost
  BY DEF LifeInv
<1>3. TextCut'
  BY <1>1, <1>2 DEF TextCut
<1>4. ParsesMeaning'
  BY <1>1, <1>2 DEF ParsesMeaning
<1>5. RetryKeepsHost'
  BY <1>1, <1>2 DEF RetryKeepsHost
<1> QED BY <1>3, <1>4, <1>5 DEF TextInv

(* A new attempt starts with what the last one left.                       *)
LEMMA AgainText ==
  ASSUME LifeInv, CreateAgain
  PROVE  TextInv'
<1>1. /\ side' = side /\ asked' = asked /\ memory_addr' = memory_addr
      /\ target' = {} /\ tries' = tries + 1 /\ pc' = "parse" /\ tries \in Nat \ {0}
  BY DEF LifeInv, LifeTypes, CreateAgain
<1>2. TextCut
  BY DEF LifeInv
<1>3. TextCut'
  <2>1. tries' # 1 BY <1>1
  <2> QED BY <1>1, <1>2, <2>1, Zenon DEF TextCut
<1> QED BY <1>1, <1>3 DEF TextInv, ParsesMeaning, RetryKeepsHost

(* A text has one meaning at most, and only a text has one.                *)
LEMMA OneMeaning ==
  ASSUME NEW s, NEW m \in Meaning(s)
  PROVE  Meaning(s) = {m} /\ s \in Seq(Tokens) /\ s # Unset
<1>1. \A a \in Meaning(s) : a = parse_addr(s).addr
  BY ParseComplete
<1>2. s \in Seq(Tokens)
  BY ParseComplete
<1> QED BY <1>1, <1>2, NotUnset DEF Unset

(* parse_addr, on the text or on what is left of it.                       *)
LEMMA ParseText ==
  ASSUME LifeInv, ParseAddrText
  PROVE  TextInv' /\ memory_addr' \in Seq(Tokens) \cup {Unset}
<1>1. /\ pc = "parse" /\ side = "compute" /\ pc' # "parse"
      /\ side' = side /\ asked' = asked /\ tries' = tries
  BY DEF ParseAddrText
<1>2. /\ memory_addr \in Seq(Tokens) \cup {Unset} /\ target = {}
      /\ tries = 1 => memory_addr = asked
      /\ \A m \in Meaning(asked) :
           memory_addr \in {asked, <<"[">> \o m.host}
                        \cup IF m.family = "AF_INET" THEN {m.host} ELSE {}
  BY <1>1 DEF LifeInv, LifeTypes, TextCut
<1>3. CASE memory_addr = Unset
  <2>1. memory_addr' = memory_addr /\ target' = {}
    BY <1>2, <1>3 DEF ParseAddrText
  <2>2. TextCut'
    BY <1>1, <1>2, <2>1, Zenon DEF TextCut
  <2>3. tries = 1 => Meaning(asked) = {}
    BY <1>2, <1>3, OneMeaning
  <2>4. ParsesMeaning'
    BY <1>1, <2>1, <2>3, Zenon DEF ParsesMeaning
  <2> QED BY <1>2, <2>1, <2>2, <2>4 DEF TextInv, RetryKeepsHost
<1>4. CASE memory_addr # Unset
  <2>1. PICK r : r = parse_addr(memory_addr) OBVIOUS
  <2>2. memory_addr \in Seq(Tokens)
    BY <1>2, <1>4
  <2>3. /\ memory_addr' = r.left
        /\ target' = IF r.ret = "ok" THEN {r.addr} ELSE {}
    BY <1>4, <2>1 DEF ParseAddrText
  <2>4. memory_addr' \in Seq(Tokens)
    BY <2>1, <2>2, <2>3, ParseSound
  <2>5. CASE Meaning(asked) = {}
    <3>1. TextCut' /\ RetryKeepsHost'
      BY <1>1, <2>5, Zenon DEF TextCut, RetryKeepsHost
    <3>2. ASSUME tries = 1, NEW a \in target'
          PROVE  a.host = <<"unset">> \/ a.port = "zero"
      <4>1. a = r.addr /\ r.ret = "ok"
        BY <2>3, <3>2
      <4> QED BY <1>2, <2>1, <2>2, <2>5, <3>2, <4>1, ParseSound
    <3>3. ParsesMeaning'
      BY <1>1, <2>5, <3>2, Zenon DEF ParsesMeaning
    <3> QED BY <2>4, <3>1, <3>3 DEF TextInv
  <2>6. ASSUME NEW m \in Meaning(asked)
        PROVE  TextInv'
    <3>1. Meaning(asked) = {m}
      BY OneMeaning
    <3>2. /\ m.host \in V6Texts \cup {<<"v4">>}
          /\ m.family = "AF_INET" => m.host = <<"v4">>
      BY ParseComplete
    <3>3. SUFFICES
            /\ memory_addr' \in {asked, <<"[">> \o m.host}
                        \cup IF m.family = "AF_INET" THEN {m.host} ELSE {}
            /\ tries = 1 => target' = {m}
            /\ \A a \in target' : /\ a.host = m.host /\ a.family = m.family
                                  /\ a.port \in {m.port, "default"}
      <4>1. ASSUME memory_addr' \in {asked, <<"[">> \o m.host}
                        \cup IF m.family = "AF_INET" THEN {m.host} ELSE {}
            PROVE  TextCut'
        BY <1>1, <3>1, <4>1, Zenon DEF TextCut
      <4>2. ASSUME tries = 1 => target' = {m} PROVE ParsesMeaning'
        BY <1>1, <3>1, <4>2, Zenon DEF ParsesMeaning
      <4>3. ASSUME \A a \in target' : /\ a.host = m.host /\ a.family = m.family
                                      /\ a.port \in {m.port, "default"}
            PROVE  RetryKeepsHost'
        BY <1>1, <3>1, <4>3, Zenon DEF RetryKeepsHost
      <4> QED BY <4>1, <4>2, <4>3 DEF TextInv
    <3>4. CASE memory_addr = asked
      <4>1. /\ r.ret = "ok" /\ r.addr = m
            /\ r.left \in {<<"[">> \o m.host}
                            \cup IF m.family = "AF_INET" THEN {m.host} ELSE {}
        BY <2>1, <3>4, ParseComplete
      <4> QED BY <2>3, <4>1
    <3>5. CASE memory_addr # asked /\ memory_addr = <<"[">> \o m.host
      <4>1. r.ret = "EINVAL" /\ r.left = memory_addr
        BY <2>1, <3>2, <3>5, ParseAgain
      <4>2. memory_addr' = <<"[">> \o m.host /\ target' = {} /\ tries # 1
        BY <1>2, <2>3, <3>5, <4>1
      <4> QED BY <4>2
    <3>6. CASE memory_addr # asked /\ m.family = "AF_INET" /\ memory_addr = m.host
      <4>1. m.host = <<"v4">> /\ tries # 1
        BY <1>2, <3>2, <3>6
      <4>2. r = Accept(<<"v4">>, "AF_INET", <<"v4">>, "none", "default")
        BY <2>1, <3>2, <3>6, <4>1, ParseAgain
      <4>3. /\ r.ret = "ok" /\ r.left = <<"v4">> /\ r.addr.host = <<"v4">>
            /\ r.addr.family = "AF_INET" /\ r.addr.port = "default"
        BY <4>2 DEF Accept
      <4> QED BY <2>3, <3>6, <4>1, <4>3
    <3> QED BY <1>2, <3>4, <3>5, <3>6
  <2> QED BY <2>4, <2>5, <2>6
<1> QED BY <1>3, <1>4

-----------------------------------------------------------------------------
(* The invariant. *)

(* The types of what the actions that are not about the text change.       *)
LEMMA SameTypes ==
  ASSUME LifeTypes, UNCHANGED <<side, asked>>,
         memory_addr' \in Seq(Tokens) \cup {Unset}, tries' \in Nat \ {0},
         pc' \in {"parse", "create", "ready", "failed", "freed"},
         step' \in 1 .. Len(CreateSteps) + 1, types_count' \in Nat,
         caches' \in Seq(BlockStates), registers' \in BOOLEAN,
         used' \subseteq Nat \ {0}, unnoticed' \subseteq Unnoticeable
  PROVE  LifeTypes'
<1>1. CreateSteps' = CreateSteps
  BY DEF CreateSteps
<1> QED BY <1>1, Zenon DEF LifeTypes

(* Every step keeps the types.                                             *)
LEMMA StepTypes ==
  ASSUME LifeInv, fault = "none", Next
  PROVE  LifeTypes'
<1>1. LifeTypes BY DEF LifeInv
<1>2. /\ memory_addr \in Seq(Tokens) \cup {Unset} /\ tries \in Nat \ {0}
      /\ pc \in {"parse", "create", "ready", "failed", "freed"}
      /\ step \in 1 .. Len(CreateSteps) + 1 /\ types_count \in Nat
      /\ caches \in Seq(BlockStates)
      /\ used \subseteq Nat \ {0} /\ unnoticed \subseteq Unnoticeable
      /\ registers \in BOOLEAN
  BY <1>1, Zenon DEF LifeTypes
<1>3. Len(CreateSteps) \in Nat \ {0}
  <2>1. side \in {"compute", "memory"}
    BY <1>1 DEF LifeTypes
  <2>2. Len(CreateSteps) = 24 \/ Len(CreateSteps) = 23
    BY <2>1, SideSteps, Zenon
  <2>3. 23 \in Nat \ {0} /\ 24 \in Nat \ {0}
    OBVIOUS
  <2> QED BY <2>2, <2>3, Zenon
<1>4. << >> \in Seq(BlockStates) /\ <<"zero", "zero", "zero">> \in Seq(BlockStates)
  <2>1. "zero" \in BlockStates BY DEF BlockStates
  <2> QED BY <2>1
<1>5. CASE ParseAddrText
  <2>1. memory_addr' \in Seq(Tokens) \cup {Unset}
    BY <1>5, ParseText
  <2>2. /\ UNCHANGED <<side, asked, tries, step, types_count, caches, used,
                       unnoticed, registers>>
        /\ pc' \in {"create", "failed"}
    BY <1>5 DEF ParseAddrText
  <2> QED BY <1>1, <1>2, <2>1, <2>2, SameTypes, Zenon
<1>6. CASE ParsePortText
  <2>2. /\ UNCHANGED <<side, asked, memory_addr, tries, step, types_count, caches,
                       used, unnoticed, registers>>
        /\ pc' \in {"create", "failed"}
    BY <1>6, Zenon DEF ParsePortText, text_vars
  <2> QED BY <1>1, <1>2, <2>2, SameTypes, Zenon
<1>7. CASE CreateAgain
  <2>1. /\ UNCHANGED <<side, asked, memory_addr>> /\ pc' = "parse"
        /\ caches' = << >> /\ registers' = TRUE /\ used' = {} /\ unnoticed' = {}
    BY <1>7 DEF CreateAgain
  <2>2. tries' \in Nat \ {0} /\ step' \in 1 .. Len(CreateSteps) + 1 /\ types_count' \in Nat
    BY <1>2, <1>3, <1>7 DEF CreateAgain
  <2>3. used' \subseteq Nat \ {0} /\ unnoticed' \subseteq Unnoticeable
    BY <2>1
  <2> QED BY <1>1, <1>2, <1>4, <2>1, <2>2, <2>3, SameTypes, Zenon
<1>8. CASE CreateStep \/ CreateWithout
  <2>1. pc = "create" /\ step <= Len(CreateSteps)
    BY <1>8 DEF CreateStep, CreateWithout, LifeInv, Creating
  <2>2. UNCHANGED <<side, asked, memory_addr, tries, used, registers>>
    BY <1>8, Zenon DEF CreateStep, CreateWithout, text_vars
  <2>3. step' \in 1 .. Len(CreateSteps) + 1 /\ types_count' \in Nat
    BY <1>2, <1>3, <1>8, <2>1 DEF CreateStep, CreateWithout
  <2>4. /\ caches' \in {caches, <<"zero", "zero", "zero">>}
        /\ pc' \in {"create", "ready"}
    BY <1>8, <2>1 DEF CreateStep, CreateWithout
  <2>5. unnoticed' \subseteq Unnoticeable
    BY <1>2, <1>8 DEF CreateStep, CreateWithout
  <2> QED BY <1>1, <1>2, <1>4, <2>2, <2>3, <2>4, <2>5, SameTypes, Zenon
<1>9. CASE ConnectFails \/ CreateFails \/ ServerFails
  <2>1. UNCHANGED <<side, asked, memory_addr, tries, step, caches, used, unnoticed,
                    registers>>
    BY <1>9, Zenon DEF ConnectFails, CreateFails, ServerFails, text_vars
  <2>2. types_count' \in Nat
    BY <1>2, <1>9 DEF ConnectFails, CreateFails, ServerFails
  <2>3. pc' \in {pc, "failed"}
    BY <1>9 DEF ConnectFails, CreateFails, ServerFails, compute_context_free
  <2> QED BY <1>1, <1>2, <2>1, <2>2, <2>3, SameTypes, Zenon
<1>10. CASE RegisterOk \/ RegisterNoArray \/ RegisterNoBlock
  <2>1. UNCHANGED <<side, asked, memory_addr, tries, pc, step, used, unnoticed>>
        /\ CanRegister
    BY <1>10, Zenon DEF RegisterOk, RegisterNoArray, RegisterNoBlock, text_vars
  <2>2. types_count' \in Nat
    BY <1>2, <1>10 DEF RegisterOk, RegisterNoArray, RegisterNoBlock
  <2>3. registers' \in {registers, FALSE}
    BY <1>10, Zenon DEF RegisterOk, RegisterNoArray, RegisterNoBlock
  <2>4. Len(caches) <= types_count
    BY <2>1, WhileReady DEF CanRegister
  <2>5. Fresh \subseteq BlockStates /\ {"init", "zero", "dangling"} \subseteq BlockStates
    BY DEF Fresh, BlockStates
  <2>6. \/ caches' = caches
        \/ \E f \in Fresh, b \in {"init", "zero", "dangling"} : caches' = Grown(f, b)
    BY <1>10 DEF RegisterOk, RegisterNoArray, RegisterNoBlock
  <2>7. caches' \in Seq(BlockStates)
    <3>1. ASSUME NEW f \in Fresh, NEW b \in {"init", "zero", "dangling"}
          PROVE  Grown(f, b) \in Seq(BlockStates)
      <4>1. f \in BlockStates /\ b \in BlockStates
        BY <2>5
      <4>2. caches \in Seq(BlockStates) /\ types_count \in Nat
        BY <1>2
      <4> QED BY <2>4, <4>1, <4>2, GrownArray
    <3>2. CASE caches' = caches
      BY <1>2, <3>2
    <3> QED BY <2>6, <3>1, <3>2, Zenon
  <2> QED BY <1>1, <1>2, <2>1, <2>2, <2>3, <2>7, SameTypes, Zenon
<1>11. CASE FreeContext
  <2>1. UNCHANGED <<side, asked, memory_addr, tries, step, types_count, caches, used,
                    unnoticed, registers>>
    BY <1>11, Zenon DEF FreeContext, text_vars
  <2>2. pc' \in {pc, "freed"}
    BY <1>11 DEF FreeContext, compute_context_free
  <2> QED BY <1>1, <1>2, <2>1, <2>2, SameTypes, Zenon
<1>12. CASE AllocChunk
  <2>1. UNCHANGED <<side, asked, memory_addr, tries, pc, step, types_count, caches,
                    unnoticed, registers>>
    BY <1>12, Zenon DEF AllocChunk, text_vars
  <2>2. used' \subseteq Nat \ {0}
    BY <1>12, ChunkResources
  <2> QED BY <1>1, <1>2, <2>1, <2>2, SameTypes, Zenon
<1> QED BY <1>5, <1>6, <1>7, <1>8, <1>9, <1>10, <1>11, <1>12 DEF Next

(* Every step keeps what is known of the text.                             *)
LEMMA StepText ==
  ASSUME LifeInv, fault = "none", Next
  PROVE  TextInv'
<1>1. CASE ParseAddrText
  BY <1>1, ParseText
<1>2. CASE CreateAgain
  BY <1>2, AgainText
<1>3. CASE ParsePortText
  <2>1. UNCHANGED text_vars /\ pc' # "parse" /\ side = "memory"
    BY <1>3 DEF ParsePortText
  <2> QED BY <2>1, SameText
<1>4. CASE \/ CreateStep \/ CreateWithout \/ ConnectFails \/ CreateFails \/ ServerFails
           \/ RegisterOk \/ RegisterNoArray \/ RegisterNoBlock \/ AllocChunk
           \/ FreeContext
  <2>1. UNCHANGED text_vars
    BY <1>4, Zenon DEF CreateStep, CreateWithout, ConnectFails, CreateFails, ServerFails,
       RegisterOk, RegisterNoArray, RegisterNoBlock, AllocChunk, FreeContext
  <2>2. pc # "parse"
    BY <1>4 DEF CreateStep, CreateWithout, ConnectFails, CreateFails, ServerFails,
       RegisterOk, RegisterNoArray, RegisterNoBlock, AllocChunk, FreeContext, CanRegister
  <2>3. pc' \in {pc, "ready", "failed", "freed"}
    BY <1>4 DEF CreateStep, CreateWithout, ConnectFails, CreateFails, ServerFails,
       RegisterOk, RegisterNoArray, RegisterNoBlock, AllocChunk, FreeContext, compute_context_free
  <2> QED BY <2>1, <2>2, <2>3, SameText
<1> QED BY <1>1, <1>2, <1>3, <1>4 DEF Next

(* Every step keeps what is known of the resources.                        *)
LEMMA StepResource ==
  ASSUME LifeInv, fault = "none", Next
  PROVE  ResourceInv'
BY ParseResources, AgainResources, StepResources, ConnectResources, ArrayResources,
   ServerResources, RegisterResources, ChunkResources, FreeResources DEF Next

(* The invariant holds at the start ...                                    *)
LEMMA LifeInit ==
  ASSUME LifecycleAssumption, Init
  PROVE  LifeInv
<1>1. /\ side \in {"compute", "memory"} /\ memory_addr = asked /\ target = {}
      /\ tries = 1 /\ pc = "parse" /\ step = 1 /\ live = {} /\ types_count = 0
      /\ caches = << >> /\ used = {} /\ unnoticed = {} /\ registers = TRUE
      /\ fault = "none"
  BY DEF Init
<1>2. asked \in Seq(Tokens) \cup {Unset}
  BY DEF Init, LifecycleAssumption
<1>3. Acquired = {}
  BY <1>1, NothingYet
<1>4. LifeTypes
  <2>1. Len(CreateSteps) \in Nat BY <1>1, SideSteps
  <2>2. step \in 1 .. Len(CreateSteps) + 1 /\ tries \in Nat \ {0} /\ types_count \in Nat
    BY <1>1, <2>1
  <2>3. caches \in Seq(BlockStates) BY <1>1
  <2>4. used \subseteq Nat \ {0} /\ unnoticed \subseteq Unnoticeable BY <1>1
  <2> QED BY <1>1, <1>2, <2>2, <2>3, <2>4, Zenon DEF LifeTypes
<1>5. Creating /\ Created
  BY <1>1, <1>3 DEF Creating, Created
<1>6. TextCut /\ ParsesMeaning /\ RetryKeepsHost
  BY <1>1, Zenon DEF TextCut, ParsesMeaning, RetryKeepsHost
<1>7. CleanupFaultsOnlyIn /\ RegisteredFreeSafe /\ FailedCreateReleases /\ FreeLosesDomainAndChunks
  BY <1>1 DEF CleanupFaultsOnlyIn, RegisteredFreeSafe, FailedCreateReleases,
     FreeLosesDomainAndChunks
<1> QED BY <1>4, <1>5, <1>6, <1>7 DEF LifeInv

(* ... and after every step.                                               *)
LEMMA LifeStep ==
  ASSUME LifeInv, [Next]_vars
  PROVE  LifeInv'
<1>1. CASE Next
  <2>1. fault = "none"
    BY <1>1 DEF Next
  <2>2. LifeTypes' /\ TextInv' /\ ResourceInv'
    BY <1>1, <2>1, StepTypes, StepText, StepResource
  <2> QED BY <2>2 DEF TextInv, ResourceInv, LifeInv
<1>2. CASE UNCHANGED vars
  <2>1. /\ side' = side /\ asked' = asked /\ memory_addr' = memory_addr
        /\ target' = target /\ tries' = tries /\ pc' = pc /\ step' = step
        /\ live' = live /\ types_count' = types_count /\ caches' = caches
        /\ used' = used /\ unnoticed' = unnoticed
        /\ registers' = registers /\ fault' = fault
    BY <1>2 DEF vars
  <2>2. /\ CreateSteps' = CreateSteps /\ Acquired' = Acquired /\ InitBlocks' = InitBlocks
        /\ Passed' = Passed /\ \A s : Position(s)' = Position(s)
    BY <2>1 DEF CreateSteps, Acquired, InitBlocks, Passed, Position
  <2>3. LifeTypes' = LifeTypes
    BY <2>1, <2>2, Zenon DEF LifeTypes
  <2>4. Creating' = Creating
    BY <2>1, <2>2, Zenon DEF Creating
  <2>5. Created' = Created
    BY <2>1, <2>2, Zenon DEF Created
  <2>6. TextCut' = TextCut
    BY <2>1, Zenon DEF TextCut
  <2>7. ParsesMeaning' = ParsesMeaning /\ RetryKeepsHost' = RetryKeepsHost
    BY <2>1, Zenon DEF ParsesMeaning, RetryKeepsHost
  <2>8. CleanupFaultsOnlyIn' = CleanupFaultsOnlyIn /\ RegisteredFreeSafe' = RegisteredFreeSafe
    BY <2>1, <2>2, Zenon DEF CleanupFaultsOnlyIn, RegisteredFreeSafe, Between
  <2>9. FailedCreateReleases' = FailedCreateReleases
    BY <2>1, <2>2, Zenon DEF FailedCreateReleases, LostOnFailure
  <2>10. FreeLosesDomainAndChunks' = FreeLosesDomainAndChunks
    BY <2>1, Zenon DEF FreeLosesDomainAndChunks
  <2> QED BY <2>3, <2>4, <2>5, <2>6, <2>7, <2>8, <2>9, <2>10 DEF LifeInv
<1> QED BY <1>1, <1>2

(* The life of a node, for every text, every number of types and attempts. *)
THEOREM LifeInvariant == Spec => []LifeInv
<1>1. Init => LifeInv
  BY LifeInit, LifecycleAssumption
<1>2. LifeInv /\ [Next]_vars => LifeInv'
  BY LifeStep
<1> QED BY <1>1, <1>2, PTL DEF Spec

(* Whatever text the environment holds, of any length, parse_addr makes of *)
(* it the address it stands for; a text outside the grammar is refused, or *)
(* accepted with a zero address or a zero port.                            *)
THEOREM ParsedAsMeant == Spec => []ParsesMeaning
<1>1. LifeInv => ParsesMeaning
  BY DEF LifeInv
<1> QED BY <1>1, LifeInvariant, PTL

(* However often a program connects again with the text that parse_addr    *)
(* has cut, it reaches the host first asked for or none.                   *)
THEOREM SameHostAgain == Spec => []RetryKeepsHost
<1>1. LifeInv => RetryKeepsHost
  BY DEF LifeInv
<1> QED BY <1>1, LifeInvariant, PTL

(* The cleanup labels of compute_context_create, rdma_client_connect,      *)
(* rdma_conn_create and rdma_server_create fault in the two known windows  *)
(* and nowhere else.                                                       *)
THEOREM CleanupSafe == Spec => []CleanupFaultsOnlyIn
<1>1. LifeInv => CleanupFaultsOnlyIn
  BY DEF LifeInv
<1> QED BY <1>1, LifeInvariant, PTL

(* With any number of types, compute_context_free visits only blocks that  *)
(* are set up while every register_type has succeeded.                     *)
THEOREM FreeSafe == Spec => []RegisteredFreeSafe
<1>1. LifeInv => RegisteredFreeSafe
  BY DEF LifeInv
<1> QED BY <1>1, LifeInvariant, PTL

(* Wherever a creation fails, at any attempt, exactly the listed resources *)
(* are lost.                                                               *)
THEOREM FailureReleases == Spec => []FailedCreateReleases
<1>1. LifeInv => FailedCreateReleases
  BY DEF LifeInv
<1> QED BY <1>1, LifeInvariant, PTL

(* compute_context_free gives back everything but the protection domain,   *)
(* which goes too when no type is registered, and the nodes of the chunk   *)
(* lists that disagg_alloc filled, for any number of types and whichever   *)
(* registrations failed.                                                   *)
THEOREM FreeReleases == Spec => []FreeLosesDomainAndChunks
<1>1. LifeInv => FreeLosesDomainAndChunks
  BY DEF LifeInv
<1> QED BY <1>1, LifeInvariant, PTL
=============================================================================
