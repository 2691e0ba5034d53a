--------------------------- MODULE HandshakeProps ---------------------------
(***************************************************************************)
(* What the connection of compute and memory nodes guarantees.             *)
(***************************************************************************)
EXTENDS Handshake

(* Every variable of the handshake has its type.                           *)
TypeOK ==
  /\ spc \in {"start", "listen", "accept", "established", "loop", "exit0",
              "exit1", "crashed"}
  /\ conn_id \in Clients \cup {None}
  /\ events \in Seq({"CONNECT_REQUEST", "ESTABLISHED", "REJECTED",
                     "DISCONNECTED"} \X Clients)
  /\ cpc \in [Clients -> {"idle", "addr", "route", "connect", "ready", "failed",
                          "gone"}]
  /\ rdma_events \in [Clients -> Seq({"ADDR_RESOLVED", "ADDR_ERROR",
                        "ROUTE_RESOLVED", "ROUTE_ERROR", "ESTABLISHED",
                        "REJECTED", "UNREACHABLE", "DISCONNECTED"})]
  /\ mem \in [Clients -> {"zero", "info", "garbage"}]
  /\ link \in [Clients -> {"none", "sent", "requested", "accepted", "up",
                           "down"}]

(* When rdma_server_create has returned, the client it keeps in            *)
(* server->conn is one that has finished its own handshake, and no other   *)
(* client has a connection: expect_established does not look at the ID of  *)
(* the event it takes.                                                     *)
ServedIsReady ==
  /\ spc = "loop" => cpc[conn_id] \in {"ready", "gone"}
  /\ \A c \in Clients :
       link[c] = "up" => spc \in {"established", "loop"} /\ c = conn_id

(* rdma_client_connect returns only to the client that the memory node has *)
(* accepted and keeps in server->conn, though others connect at the same   *)
(* time, time out, are turned away or die: no other client ever takes      *)
(* itself for connected.                                                   *)
ReadyIsAccepted ==
  \A c \in Clients :
    cpc[c] = "ready" => c = conn_id /\ spc \notin {"start", "listen", "accept"}

(* "RDMA context, containing remote memory info" (context-internal.h): a   *)
(* client that rdma_client_connect returned has the memory info that the   *)
(* memory node sent when it accepted.                                      *)
ReadyHasInfo == \A c \in Clients : cpc[c] = "ready" => mem[c] = "info"

(***************************************************************************)
(* The inductive invariant behind the first two: a connection that is      *)
(* accepted or up is the one of server->conn, only its client is told so,  *)
(* and an event that tells the memory node of it is only in the channel    *)
(* after its client has finished the handshake.                            *)
(***************************************************************************)
ConnIsSet == spc \in {"accept", "established", "loop"} => conn_id \in Clients

Answered(c) ==
  \E i \in 1..Len(rdma_events[c]) : rdma_events[c][i] = "ESTABLISHED"

LinkInv(c) ==
  /\ cpc[c] \in {"idle", "addr", "route"} => link[c] = "none"
  /\ Answered(c) => link[c] \in {"accepted", "up", "down"}
  /\ link[c] \in {"sent", "requested", "accepted"} => cpc[c] = "connect"
  /\ link[c] = "up" => cpc[c] = "ready"
  /\ Answered(c) \/ cpc[c] = "ready" =>
       c = conn_id /\ spc \notin {"start", "listen", "accept"}
  /\ link[c] \in {"accepted", "up"} =>
       c = conn_id /\ spc \in {"established", "loop"}

EventsInv ==
  \A i \in 1..Len(events) :
    events[i][1] = "ESTABLISHED" =>
      /\ spc \in {"established", "loop"}
      /\ events[i][2] = conn_id /\ cpc[conn_id] \in {"ready", "gone"}

HandshakeInv ==
  /\ TypeOK
  /\ ConnIsSet
  /\ \A c \in Clients : LinkInv(c)
  /\ EventsInv
  /\ spc = "loop" => cpc[conn_id] \in {"ready", "gone"}

-----------------------------------------------------------------------------
(***************************************************************************)
(* Fairness: both programs keep running inside the handshake, and the      *)
(* connection manager delivers requests and bounds its retries.  Nothing   *)
(* is assumed of the application that connects and disconnects.            *)
(***************************************************************************)
FairSpec ==
  /\ Spec
  /\ WF_vars(ServerStep)
  /\ \A c \in Clients : WF_vars(ClientStep(c) \/ CmStep(c) \/ CmTimeout(c))

(* rdma_client_connect returns, connected or not, though the memory node   *)
(* serves one client and never answers the others.                         *)
ClientDecides ==
  \A c \in Clients :
    cpc[c] \in {"addr", "route", "connect"} ~> cpc[c] \in {"ready", "failed", "gone"}

(* "compute side disconnected, exiting" (main.c): once the client that it  *)
(* serves is gone the memory node exits, at whatever point of the          *)
(* handshake the client went.                                              *)
ServerStops ==
  \A c \in Clients :
    (conn_id = c /\ cpc[c] \in {"gone", "failed"})
      ~> (spc \in {"exit0", "exit1", "crashed"})

(* A client that is alone and connects to a memory node that listens gets  *)
(* it to its event loop, even if the client disconnects at once.           *)
HandshakeCompletes ==
  \A c \in Clients :
    [](\A d \in Clients \ {c} : cpc[d] = "idle")
      => ((spc = "listen" /\ cpc[c] = "addr") ~> (spc = "loop"))
=============================================================================
