------------------------------ MODULE Handshake ------------------------------
(***************************************************************************)
(* How compute nodes connect to the memory node: rdma_client_connect and   *)
(* its cleanup on the compute side, rdma_server_create and the event loop  *)
(* of main on the memory side.  Each process reads CM events from its own  *)
(* channel, in order.                                                      *)
(*                                                                         *)
(* The connection manager (librdmacm and the kernel) is external: `link`   *)
(* is what it knows of a client's connection, and the Cm actions are what  *)
(* it does on its own.  The kernel takes a connection down whether its     *)
(* owner destroys it or dies.                                              *)
(***************************************************************************)
EXTENDS Naturals, Sequences

CONSTANTS
  Clients,
  None,
  CallsMayFail,    \* TRUE when a call that try3 guards may fail
  CmMayFail,       \* TRUE when an address does not resolve or a request times out
  CrashesHappen    \* TRUE when a process may die at any point

ASSUME HandshakeAssumption ==
  /\ None \notin Clients
  /\ CallsMayFail \in BOOLEAN /\ CmMayFail \in BOOLEAN
  /\ CrashesHappen \in BOOLEAN

VARIABLES
  spc, conn_id, events,    \* memory node: where it is, server->conn, its channel
  cpc, rdma_events, mem,   \* compute nodes: the same, and client->mem
  link                     \* external

server_vars == <<spc, conn_id, events>>
client_vars == <<cpc, rdma_events, mem>>
vars == <<spc, conn_id, events, cpc, rdma_events, mem, link>>

Outcomes  == IF CallsMayFail THEN {TRUE, FALSE} ELSE {TRUE}
Listening == spc \in {"listen", "accept", "established", "loop"}

Init ==
  /\ spc = "start" /\ conn_id = None /\ events = << >>
  /\ cpc = [c \in Clients |-> "idle"]
  /\ rdma_events = [c \in Clients |-> << >>]
  /\ mem = [c \in Clients |-> "zero"]
  /\ link = [c \in Clients |-> "none"]

(* Bug: the type of the event is not compared.                             *)
AnyEvent(got, type) == TRUE

(* _expect_event: the next event must be of this type.  Which connection   *)
(* it is about is not looked at.                                           *)
Expected(got, type) == got = type

Notify(c, ev) == rdma_events' = [rdma_events EXCEPT ![c] = Append(@, ev)]
SetLink(c, l) == link' = [link EXCEPT ![c] = l]

(* External: the kernel destroys the client's end of a connection.         *)
ClientEndGone(c) ==
  /\ SetLink(c, IF link[c] = "none" THEN "none" ELSE "down")
  /\ events' = CASE link[c] \in {"requested", "accepted"}
                                   -> Append(events, <<"REJECTED", c>>)
                 [] link[c] = "up" -> Append(events, <<"DISCONNECTED", c>>)
                 [] OTHER          -> events

(* External: the memory node's process ends, and with it every connection. *)
ServerEndGone ==
  /\ link' = [c \in Clients |-> IF link[c] \in {"requested", "accepted", "up"}
                                  THEN "down" ELSE link[c]]
  /\ rdma_events' = [c \in Clients |->
       CASE link[c] = "requested"         -> Append(rdma_events[c], "REJECTED")
         [] link[c] \in {"accepted", "up"} ->
                                          Append(rdma_events[c], "DISCONNECTED")
         [] OTHER                         -> rdma_events[c]]
  /\ events' = << >>

-----------------------------------------------------------------------------
(* rdma_client_connect. *)

(* The cleanup label and rdma_client_free: the ID is destroyed, by the     *)
(* connection that owns it or alone.                                       *)
ClientCleanup(c) ==
  /\ cpc' = [cpc EXCEPT ![c] = "failed"]
  /\ ClientEndGone(c)
  /\ UNCHANGED mem

ResolveAddr(c) ==
  /\ cpc[c] = "idle"
  /\ \E ok \in Outcomes :
       cpc' = [cpc EXCEPT ![c] = IF ok THEN "addr" ELSE "failed"]
  /\ UNCHANGED <<server_vars, rdma_events, mem, link>>

(* A step that waits for an event, takes it and goes on with more calls.   *)
TakeEvent(c, l) ==
  /\ cpc[c] = l /\ rdma_events[c] # << >>
  /\ rdma_events' = [rdma_events EXCEPT ![c] = Tail(@)]

AddrResolved(c) ==
  /\ TakeEvent(c, "addr")
  /\ \E ok \in Outcomes :
       IF Expected(Head(rdma_events[c]), "ADDR_RESOLVED") /\ ok
         THEN /\ cpc' = [cpc EXCEPT ![c] = "route"]
              /\ UNCHANGED <<events, mem, link>>
         ELSE ClientCleanup(c)
  /\ UNCHANGED <<spc, conn_id>>

(* Bug: the ID is connected nowhere.                                       *)
NotConnected(c) == UNCHANGED link

rdma_connect(c) == SetLink(c, "sent")

(* rdma_conn_create and rdma_connect.                                      *)
RouteResolved(c) ==
  /\ TakeEvent(c, "route")
  /\ \E ok \in Outcomes :
       IF Expected(Head(rdma_events[c]), "ROUTE_RESOLVED") /\ ok
         THEN /\ cpc' = [cpc EXCEPT ![c] = "connect"]
              /\ rdma_connect(c)
              /\ UNCHANGED <<events, mem>>
         ELSE ClientCleanup(c)
  /\ UNCHANGED <<spc, conn_id>>

(* private_data points into the event that rdma_ack_cm_event has freed,    *)
(* whose memory may hold anything by then; an event without data has a     *)
(* NULL pointer and leaves mem as it is.                                   *)
MemRead(c, ev) == IF ev = "ESTABLISHED" THEN {"info", "garbage"} ELSE {mem[c]}

(* Fetching the event makes librdmacm answer the memory node.              *)
Established(c) ==
  LET ev == Head(rdma_events[c]) IN
  /\ TakeEvent(c, "connect")
  /\ IF Expected(ev, "ESTABLISHED")
       THEN /\ cpc' = [cpc EXCEPT ![c] = "ready"]
            /\ \E m \in MemRead(c, ev) : mem' = [mem EXCEPT ![c] = m]
            /\ IF link[c] = "accepted"
                 THEN /\ SetLink(c, "up")
                      /\ events' = Append(events, <<"ESTABLISHED", c>>)
                 ELSE UNCHANGED <<link, events>>
       ELSE ClientCleanup(c)
  /\ UNCHANGED <<spc, conn_id>>

(* compute_context_free of a connected client. *)
rdma_client_free(c) ==
  /\ cpc[c] = "ready"
  /\ cpc' = [cpc EXCEPT ![c] = "gone"]
  /\ ClientEndGone(c)
  /\ UNCHANGED <<spc, conn_id, rdma_events, mem>>

ClientCrash(c) ==
  /\ CrashesHappen
  /\ cpc[c] \in {"addr", "route", "connect", "ready"}
  /\ cpc' = [cpc EXCEPT ![c] = "gone"]
  /\ ClientEndGone(c)
  /\ UNCHANGED <<spc, conn_id, rdma_events, mem>>

-----------------------------------------------------------------------------
(* The memory node: memory_context_create, rdma_server_create and main. *)

ServerExit(code) == spc' = code /\ ServerEndGone

ServerListen ==
  /\ spc = "start"
  /\ \E ok \in Outcomes : spc' = IF ok THEN "listen" ELSE "exit1"
  /\ UNCHANGED <<conn_id, events, client_vars, link>>

NextEvent(l) == spc = l /\ events # << >>

ConnectRequest ==
  LET ev == Head(events) IN
  /\ NextEvent("listen")
  /\ IF Expected(ev[1], "CONNECT_REQUEST")
       THEN /\ conn_id' = ev[2] /\ spc' = "accept" /\ events' = Tail(events)
            /\ UNCHANGED <<rdma_events, link>>
       ELSE ServerExit("exit1") /\ UNCHANGED conn_id
  /\ UNCHANGED <<cpc, mem>>

(* rdma_conn_create, ibv_reg_mr of the pool and rdma_accept, which fails   *)
(* when the client has given up; the memory info travels with it.          *)
Accept ==
  /\ spc = "accept"
  /\ \E ok \in Outcomes :
       IF ok /\ link[conn_id] = "requested"
         THEN /\ spc' = "established"
              /\ SetLink(conn_id, "accepted")
              /\ Notify(conn_id, "ESTABLISHED")
              /\ UNCHANGED events
         ELSE ServerExit("exit1")
  /\ UNCHANGED <<conn_id, cpc, mem>>

ServerEstablished ==
  /\ NextEvent("established")
  /\ IF Expected(Head(events)[1], "ESTABLISHED")
       THEN spc' = "loop" /\ events' = Tail(events)
            /\ UNCHANGED <<rdma_events, link>>
       ELSE ServerExit("exit1")
  /\ UNCHANGED <<conn_id, cpc, mem>>

(* Bug: every event is only logged.                                        *)
NothingEndsLoop(type) == FALSE

EndsLoop(type) == type = "DISCONNECTED"

(* The loop of main: events other than a disconnect are acknowledged and   *)
(* otherwise ignored, a further connect request among them.                *)
LoopEvent ==
  /\ NextEvent("loop")
  /\ IF EndsLoop(Head(events)[1])
       THEN ServerExit("exit0")
       ELSE events' = Tail(events) /\ UNCHANGED <<spc, rdma_events, link>>
  /\ UNCHANGED <<conn_id, cpc, mem>>

ServerCrash ==
  /\ CrashesHappen /\ Listening
  /\ ServerExit("crashed")
  /\ UNCHANGED <<conn_id, cpc, mem>>

-----------------------------------------------------------------------------
(* External: the connection manager. *)

CmResolve(c, l, good, bad) ==
  /\ cpc[c] = l /\ rdma_events[c] = << >>
  /\ \E ev \in IF CmMayFail THEN {good, bad} ELSE {good} : Notify(c, ev)
  /\ UNCHANGED <<server_vars, cpc, mem, link>>

CmRequest(c) ==
  /\ link[c] = "sent" /\ cpc[c] = "connect"
  /\ IF Listening
       THEN /\ SetLink(c, "requested")
            /\ events' = Append(events, <<"CONNECT_REQUEST", c>>)
            /\ UNCHANGED rdma_events
       ELSE /\ SetLink(c, "down")
            /\ Notify(c, "REJECTED")
            /\ UNCHANGED events
  /\ UNCHANGED <<spc, conn_id, cpc, mem>>

(* Nobody has answered the request in time. *)
CmTimeout(c) ==
  /\ CmMayFail
  /\ link[c] = "requested" /\ cpc[c] = "connect"
  /\ SetLink(c, "down")
  /\ Notify(c, "UNREACHABLE")
  /\ events' = Append(events, <<"REJECTED", c>>)
  /\ UNCHANGED <<spc, conn_id, cpc, mem>>

ClientStep(c) == AddrResolved(c) \/ RouteResolved(c) \/ Established(c)

ServerStep ==
  ServerListen \/ ConnectRequest \/ Accept \/ ServerEstablished \/ LoopEvent

CmStep(c) ==
  \/ CmResolve(c, "addr", "ADDR_RESOLVED", "ADDR_ERROR")
  \/ CmResolve(c, "route", "ROUTE_RESOLVED", "ROUTE_ERROR")
  \/ CmRequest(c)

Next ==
  \/ ServerStep
  \/ ServerCrash
  \/ \E c \in Clients :
       \/ ResolveAddr(c) \/ ClientStep(c) \/ rdma_client_free(c)
       \/ ClientCrash(c)
       \/ CmStep(c) \/ CmTimeout(c)

Spec == Init /\ [][Next]_vars
=============================================================================
