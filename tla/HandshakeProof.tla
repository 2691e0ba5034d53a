--------------------------- MODULE HandshakeProof ---------------------------
(***************************************************************************)
(* For any number of compute nodes, and whatever calls fail, processes die *)
(* or requests time out, the memory node serves the one client whose       *)
(* handshake finished, and no other client takes itself for connected.     *)
(***************************************************************************)
EXTENDS HandshakeProps, TLAPS

CmEvents == {"ADDR_RESOLVED", "ADDR_ERROR", "ROUTE_RESOLVED", "ROUTE_ERROR",
             "ESTABLISHED", "REJECTED", "UNREACHABLE", "DISCONNECTED"}
ServerEvents ==
  {"CONNECT_REQUEST", "ESTABLISHED", "REJECTED", "DISCONNECTED"} \X Clients

(* Taking the first event of a channel.                                    *)
LEMMA Taken ==
  ASSUME NEW S, NEW s \in Seq(S), s # << >>
  PROVE  /\ Head(s) \in S /\ Head(s) = s[1] /\ 1 \in 1..Len(s)
         /\ Tail(s) \in Seq(S)
         /\ Len(Tail(s)) = Len(s) - 1
         /\ \A i \in 1..Len(Tail(s)) : i + 1 \in 1..Len(s) /\ Tail(s)[i] = s[i + 1]
OBVIOUS

(* Adding an event to a channel.                                           *)
LEMMA Added ==
  ASSUME NEW S, NEW s \in Seq(S), NEW e \in S
  PROVE  /\ Append(s, e) \in Seq(S)
         /\ Len(Append(s, e)) = Len(s) + 1
         /\ \A i \in 1..Len(Append(s, e)) :
              \/ i \in 1..Len(s) /\ Append(s, e)[i] = s[i]
              \/ Append(s, e)[i] = e
OBVIOUS

(* The channel after the first event is taken, or another is added that    *)
(* does not report an establishment, says no more than before.             *)
LEMMA EventsTaken ==
  ASSUME HandshakeInv, events # << >>,
         events' = Tail(events), spc' \in {"established", "loop", spc},
         conn_id' = conn_id, cpc' = cpc
  PROVE  EventsInv' /\ events' \in Seq(ServerEvents)
<1>1. events \in Seq(ServerEvents)
  BY DEF HandshakeInv, TypeOK, ServerEvents
<1>2. /\ events' \in Seq(ServerEvents)
      /\ \A i \in 1..Len(events') :
           i + 1 \in 1..Len(events) /\ events'[i] = events[i + 1]
  BY <1>1, Taken
<1>3. ASSUME NEW i \in 1..Len(events'), events'[i][1] = "ESTABLISHED"
      PROVE  /\ spc' \in {"established", "loop"}
             /\ events'[i][2] = conn_id' /\ cpc'[conn_id'] \in {"ready", "gone"}
  <2>1. i + 1 \in 1..Len(events) /\ events[i + 1][1] = "ESTABLISHED"
        /\ events'[i] = events[i + 1]
    BY <1>2, <1>3
  <2> QED BY <2>1 DEF HandshakeInv, EventsInv
<1> QED BY <1>2, <1>3 DEF EventsInv

(* The same for an event that is added.                                    *)
LEMMA EventsAdded ==
  ASSUME HandshakeInv, NEW e \in ServerEvents,
         events' = Append(events, e),
         spc' = spc, conn_id' = conn_id,
         conn_id \in Clients /\ cpc[conn_id] \in {"ready", "gone"}
           => cpc'[conn_id] \in {"ready", "gone"},
         e[1] = "ESTABLISHED" =>
           /\ spc \in {"established", "loop"}
           /\ e[2] = conn_id /\ cpc'[conn_id] \in {"ready", "gone"}
  PROVE  EventsInv' /\ events' \in Seq(ServerEvents)
<1>1. events \in Seq(ServerEvents)
  BY DEF HandshakeInv, TypeOK, ServerEvents
<1>2. /\ events' \in Seq(ServerEvents)
      /\ \A i \in 1..Len(events') :
           \/ i \in 1..Len(events) /\ events'[i] = events[i]
           \/ events'[i] = e
  BY <1>1, Added
<1>3. ASSUME NEW i \in 1..Len(events'), events'[i][1] = "ESTABLISHED"
      PROVE  /\ spc' \in {"established", "loop"}
             /\ events'[i][2] = conn_id' /\ cpc'[conn_id'] \in {"ready", "gone"}
  <2>1. CASE events'[i] = e
    BY <1>3, <2>1
  <2>2. CASE i \in 1..Len(events) /\ events'[i] = events[i]
    <3>1. /\ spc \in {"established", "loop"} /\ events[i][2] = conn_id
          /\ cpc[conn_id] \in {"ready", "gone"}
      BY <1>3, <2>2 DEF HandshakeInv, EventsInv
    <3> QED BY <2>2, <3>1 DEF HandshakeInv, ConnIsSet
  <2> QED BY <1>2, <1>3, <2>1, <2>2
<1> QED BY <1>2, <1>3 DEF EventsInv

(* No client that was not answered is answered by the step.                *)
NothingAnswered == \A d \in Clients : Answered(d)' => Answered(d)

(* Taking an event of a client's channel answers nobody.                   *)
LEMMA ChannelTaken ==
  ASSUME HandshakeInv, NEW c \in Clients, NEW l, TakeEvent(c, l)
  PROVE  /\ cpc[c] = l
         /\ Head(rdma_events[c]) = "ESTABLISHED" => Answered(c)
         /\ rdma_events' \in [Clients -> Seq(CmEvents)]
         /\ NothingAnswered
<1>1. rdma_events \in [Clients -> Seq(CmEvents)]
  BY DEF HandshakeInv, TypeOK, CmEvents
<1>2. rdma_events[c] \in Seq(CmEvents) /\ rdma_events[c] # << >>
  BY <1>1 DEF TakeEvent
<1> DEFINE ch == rdma_events[c]
<1>3. /\ Tail(ch) \in Seq(CmEvents) /\ Head(ch) = ch[1] /\ 1 \in 1..Len(ch)
      /\ \A i \in 1..Len(Tail(ch)) : i + 1 \in 1..Len(ch) /\ Tail(ch)[i] = ch[i + 1]
  <2> HIDE DEF ch, CmEvents
  <2> QED BY <1>2, Taken DEF ch
<1>4. /\ rdma_events'[c] = Tail(ch)
      /\ \A d \in Clients \ {c} : rdma_events'[d] = rdma_events[d]
      /\ rdma_events' \in [Clients -> Seq(CmEvents)]
  BY <1>1, <1>3 DEF TakeEvent
<1>5. ASSUME NEW d \in Clients, Answered(d)' PROVE Answered(d)
  <2>1. CASE d # c
    BY <1>4, <1>5, <2>1 DEF Answered
  <2>2. CASE d = c
    <3>1. PICK i \in 1..Len(Tail(ch)) : Tail(ch)[i] = "ESTABLISHED"
      BY <1>4, <1>5, <2>2 DEF Answered
    <3>2. i + 1 \in 1..Len(ch) /\ ch[i + 1] = "ESTABLISHED"
      BY <1>3, <3>1
    <3> QED BY <2>2, <3>2 DEF Answered
  <2> QED BY <2>1, <2>2
<1>6. Head(ch) = "ESTABLISHED" => Answered(c)
  BY <1>3 DEF Answered
<1> QED BY <1>4, <1>5, <1>6 DEF TakeEvent, NothingAnswered

(* The same for an event that is added: only ESTABLISHED is an answer.     *)
LEMMA ChannelAdded ==
  ASSUME HandshakeInv, NEW c \in Clients, NEW ev \in CmEvents, Notify(c, ev)
  PROVE  /\ rdma_events' \in [Clients -> Seq(CmEvents)]
         /\ \A d \in Clients : Answered(d)' /\ ~Answered(d)
                                => d = c /\ ev = "ESTABLISHED"
<1>1. rdma_events \in [Clients -> Seq(CmEvents)]
  BY DEF HandshakeInv, TypeOK, CmEvents
<1> DEFINE ch == rdma_events[c]
<1>2. ch \in Seq(CmEvents)
  BY <1>1
<1>3. /\ Append(ch, ev) \in Seq(CmEvents)
      /\ \A i \in 1..Len(Append(ch, ev)) :
           \/ i \in 1..Len(ch) /\ Append(ch, ev)[i] = ch[i]
           \/ Append(ch, ev)[i] = ev
  <2> HIDE DEF ch, CmEvents
  <2> QED BY <1>2, Added
<1>4. /\ rdma_events'[c] = Append(ch, ev)
      /\ \A d \in Clients \ {c} : rdma_events'[d] = rdma_events[d]
      /\ rdma_events' \in [Clients -> Seq(CmEvents)]
  BY <1>1, <1>3 DEF Notify
<1>5. ASSUME NEW d \in Clients, Answered(d)', ~Answered(d)
      PROVE  d = c /\ ev = "ESTABLISHED"
  <2>1. d = c
    BY <1>4, <1>5 DEF Answered
  <2>2. PICK i \in 1..Len(Append(ch, ev)) : Append(ch, ev)[i] = "ESTABLISHED"
    BY <1>4, <1>5, <2>1 DEF Answered
  <2>3. ~ (i \in 1..Len(ch) /\ Append(ch, ev)[i] = ch[i])
    BY <1>5, <2>1, <2>2 DEF Answered
  <2> QED BY <1>3, <2>1, <2>2, <2>3
<1> QED BY <1>4, <1>5

-----------------------------------------------------------------------------
(* A client's end of a connection goes down: its cleanup, its free and its *)
(* crash.                                                                  *)
LEMMA ClientEndPreserves ==
  ASSUME HandshakeInv, NEW c \in Clients, NEW p \in {"failed", "gone"},
         cpc[c] # "gone", cpc[c] = "ready" => p = "gone",
         cpc' = [cpc EXCEPT ![c] = p], ClientEndGone(c),
         rdma_events' \in [Clients -> Seq(CmEvents)], NothingAnswered,
         UNCHANGED <<spc, conn_id, mem>>
  PROVE  HandshakeInv'
<1>1. cpc' \in [Clients -> {"idle", "addr", "route", "connect", "ready", "failed",
                            "gone"}] /\ cpc'[c] = p
      /\ \A d \in Clients \ {c} : cpc'[d] = cpc[d]
  BY DEF HandshakeInv, TypeOK
<1>2. link' \in [Clients -> {"none", "sent", "requested", "accepted", "up",
                             "down"}] /\ link'[c] \in {"none", "down"}
      /\ \A d \in Clients \ {c} : link'[d] = link[d]
  BY DEF HandshakeInv, TypeOK, ClientEndGone, SetLink
<1>3. conn_id \in Clients /\ cpc[conn_id] \in {"ready", "gone"}
        => cpc'[conn_id] \in {"ready", "gone"}
  BY <1>1
<1>4. EventsInv' /\ events' \in Seq(ServerEvents)
  <2>1. CASE link[c] \in {"requested", "accepted"}
    <3>1. events' = Append(events, <<"REJECTED", c>>)
      BY <2>1 DEF ClientEndGone
    <3>2. <<"REJECTED", c>> \in ServerEvents
      BY DEF ServerEvents
    <3> QED BY <1>3, <3>1, <3>2, EventsAdded
  <2>2. CASE link[c] = "up"
    <3>1. events' = Append(events, <<"DISCONNECTED", c>>)
      BY <2>2 DEF ClientEndGone
    <3>2. <<"DISCONNECTED", c>> \in ServerEvents
      BY DEF ServerEvents
    <3> QED BY <1>3, <3>1, <3>2, EventsAdded
  <2>3. CASE link[c] \notin {"requested", "accepted", "up"}
    <3>1. events' = events
      BY <2>3 DEF ClientEndGone
    <3> QED BY <1>3, <3>1 DEF HandshakeInv, TypeOK, EventsInv, ConnIsSet,
              ServerEvents
  <2> QED BY <2>1, <2>2, <2>3
<1>5. TypeOK'
  BY <1>1, <1>2, <1>4 DEF HandshakeInv, TypeOK, ServerEvents, CmEvents
<1>6. ASSUME NEW d \in Clients PROVE LinkInv(d)'
  <2>1. link[d] = "none" => link'[d] = "none"
    BY <1>2 DEF ClientEndGone, SetLink, HandshakeInv, TypeOK
  <2>2. (Answered(d) => link[d] \in {"accepted", "up", "down"})'
    <3>1. Answered(d)' => link[d] # "none"
      BY DEF NothingAnswered, HandshakeInv, LinkInv
    <3>2. link[d] # "none" /\ d = c => link'[d] = "down"
      BY DEF ClientEndGone, SetLink, HandshakeInv, TypeOK
    <3> QED BY <1>2, <3>1, <3>2 DEF NothingAnswered, HandshakeInv, LinkInv
  <2>3. (Answered(d) \/ cpc[d] = "ready" =>
           d = conn_id /\ spc \notin {"start", "listen", "accept"})'
    <3> HIDE DEF Answered
    <3> QED BY <1>1 DEF NothingAnswered, HandshakeInv, LinkInv
  <2> HIDE DEF Answered
  <2>4. LinkInv(d)
    BY DEF HandshakeInv
  <2> QED BY <1>1, <1>2, <2>1, <2>2, <2>3, <2>4 DEF LinkInv
<1>7. ConnIsSet'
  BY <1>1 DEF HandshakeInv, ConnIsSet
<1>8. (spc = "loop" => cpc[conn_id] \in {"ready", "gone"})'
  BY <1>3 DEF HandshakeInv, ConnIsSet
<1> QED BY <1>4, <1>5, <1>6, <1>7, <1>8 DEF HandshakeInv

(* The memory node's process ends.                                         *)
LEMMA ServerExitPreserves ==
  ASSUME HandshakeInv, NEW code \in {"exit0", "exit1", "crashed"},
         ServerExit(code), UNCHANGED <<conn_id, cpc, mem>>
  PROVE  HandshakeInv'
<1>1. spc' = code /\ events' = << >>
  BY DEF ServerExit, ServerEndGone
<1>2. \A c \in Clients : link'[c] = IF link[c] \in {"requested", "accepted", "up"}
                                      THEN "down" ELSE link[c]
  BY DEF ServerExit, ServerEndGone
<1>3. link' \in [Clients -> {"none", "sent", "requested", "accepted", "up",
                             "down"}]
  BY DEF ServerExit, ServerEndGone, HandshakeInv, TypeOK
<1>4. rdma_events' \in [Clients -> Seq(CmEvents)]
  <2>1. ASSUME NEW c \in Clients
        PROVE  /\ rdma_events[c] \in Seq(CmEvents)
               /\ Append(rdma_events[c], "REJECTED") \in Seq(CmEvents)
               /\ Append(rdma_events[c], "DISCONNECTED") \in Seq(CmEvents)
    <3>1. rdma_events[c] \in Seq(CmEvents)
      BY DEF HandshakeInv, TypeOK, CmEvents
    <3>2. "REJECTED" \in CmEvents /\ "DISCONNECTED" \in CmEvents
      BY DEF CmEvents
    <3> QED BY <3>1, <3>2, Added
  <2> HIDE DEF CmEvents
  <2>2. rdma_events' = [c \in Clients |->
          CASE link[c] = "requested" -> Append(rdma_events[c], "REJECTED")
            [] link[c] \in {"accepted", "up"} ->
                 Append(rdma_events[c], "DISCONNECTED")
            [] OTHER -> rdma_events[c]]
    BY DEF ServerExit, ServerEndGone
  <2> QED BY <2>1, <2>2
<1>5. TypeOK'
  BY <1>1, <1>3, <1>4 DEF HandshakeInv, TypeOK, CmEvents
<1>5a. ASSUME NEW d \in Clients, Answered(d)' PROVE Answered(d)
  <2> DEFINE ch == rdma_events[d]
  <2>1. ch \in Seq(CmEvents)
    BY DEF HandshakeInv, TypeOK, CmEvents
  <2>2. PICK ev \in {"REJECTED", "DISCONNECTED"} :
          rdma_events'[d] \in {ch, Append(ch, ev)}
    BY DEF ServerExit, ServerEndGone
  <2>3. ev \in CmEvents /\ ev # "ESTABLISHED"
    BY DEF CmEvents
  <2>4. \A i \in 1..Len(Append(ch, ev)) :
           \/ i \in 1..Len(ch) /\ Append(ch, ev)[i] = ch[i]
           \/ Append(ch, ev)[i] = ev
    <3> HIDE DEF ch, CmEvents
    <3> QED BY <2>1, <2>3, Added
  <2>5. CASE rdma_events'[d] = ch
    BY <1>5a, <2>5 DEF Answered
  <2>6. CASE rdma_events'[d] = Append(ch, ev)
    <3>1. PICK i \in 1..Len(Append(ch, ev)) : Append(ch, ev)[i] = "ESTABLISHED"
      BY <1>5a, <2>6 DEF Answered
    <3>2. i \in 1..Len(ch) /\ Append(ch, ev)[i] = ch[i]
      BY <2>3, <2>4, <3>1
    <3> QED BY <3>1, <3>2 DEF Answered
  <2> QED BY <2>2, <2>5, <2>6
<1>6. ASSUME NEW d \in Clients PROVE LinkInv(d)'
  BY <1>1, <1>2, <1>5a DEF HandshakeInv, LinkInv
<1>7. EventsInv' /\ ConnIsSet'
  BY <1>1 DEF HandshakeInv, EventsInv, ConnIsSet
<1> QED BY <1>1, <1>5, <1>6, <1>7 DEF HandshakeInv

(* Steps of a client before it is connected: only its own place changes.   *)
LEMMA ClientMovePreserves ==
  ASSUME HandshakeInv, NEW c \in Clients,
         NEW p \in {"addr", "route", "connect", "failed"},
         cpc[c] \in {"idle", "addr", "route"},
         cpc' = [cpc EXCEPT ![c] = p],
         NEW l \in {"none", "sent"}, (l = "sent") <=> (p = "connect"),
         link' = [link EXCEPT ![c] = l],
         rdma_events' \in [Clients -> Seq(CmEvents)], NothingAnswered,
         UNCHANGED <<server_vars, mem>>
  PROVE  HandshakeInv'
<1> USE DEF server_vars
<1>1. TypeOK'
  BY DEF HandshakeInv, TypeOK, CmEvents
<1>2. cpc'[c] = p /\ \A d \in Clients \ {c} : cpc'[d] = cpc[d]
  BY DEF HandshakeInv, TypeOK
<1>3. link'[c] = l /\ \A d \in Clients \ {c} : link'[d] = link[d]
  BY DEF HandshakeInv, TypeOK
<1>4. ASSUME NEW d \in Clients PROVE LinkInv(d)'
  BY <1>2, <1>3 DEF HandshakeInv, LinkInv, NothingAnswered
<1>5. conn_id \in Clients /\ cpc[conn_id] \in {"ready", "gone"}
        => cpc'[conn_id] \in {"ready", "gone"}
  BY <1>2
<1>6. EventsInv'
  BY <1>5 DEF HandshakeInv, EventsInv, ConnIsSet
<1>7. ConnIsSet'
  BY <1>2 DEF HandshakeInv, ConnIsSet
<1> QED BY <1>1, <1>4, <1>5, <1>6, <1>7 DEF HandshakeInv, ConnIsSet

-----------------------------------------------------------------------------
(* rdma_client_connect up to rdma_connect. *)

(* The client asks for its address.                                        *)
LEMMA ResolveAddrPreserves ==
  ASSUME HandshakeInv, NEW c \in Clients, ResolveAddr(c)
  PROVE  HandshakeInv'
<1>1. PICK p \in {"addr", "failed"} : cpc' = [cpc EXCEPT ![c] = p]
  BY DEF ResolveAddr
<1>2. link' = [link EXCEPT ![c] = "none"]
  BY DEF ResolveAddr, HandshakeInv, TypeOK, LinkInv
<1>3. rdma_events' \in [Clients -> Seq(CmEvents)] /\ UNCHANGED <<server_vars, mem>>
      /\ cpc[c] = "idle" /\ NothingAnswered
  BY DEF ResolveAddr, HandshakeInv, TypeOK, CmEvents, NothingAnswered, Answered
<1> QED BY <1>1, <1>2, <1>3, ClientMovePreserves

(* The client takes ADDR_RESOLVED, or gives up.                            *)
LEMMA AddrResolvedPreserves ==
  ASSUME HandshakeInv, NEW c \in Clients, AddrResolved(c)
  PROVE  HandshakeInv'
<1>1. cpc[c] = "addr" /\ rdma_events' \in [Clients -> Seq(CmEvents)]
      /\ NothingAnswered
  BY ChannelTaken DEF AddrResolved
<1>2. CASE ClientCleanup(c)
  BY <1>1, <1>2, ClientEndPreserves DEF ClientCleanup, AddrResolved
<1>3. CASE /\ cpc' = [cpc EXCEPT ![c] = "route"]
           /\ UNCHANGED <<events, mem, link>>
  <2>1. link' = [link EXCEPT ![c] = "none"]
    BY <1>1, <1>3 DEF HandshakeInv, TypeOK, LinkInv
  <2>2. UNCHANGED <<server_vars, mem>>
    BY <1>3 DEF AddrResolved, server_vars
  <2> QED BY <1>1, <1>3, <2>1, <2>2, ClientMovePreserves
<1> QED BY <1>2, <1>3 DEF AddrResolved

(* The client takes ROUTE_RESOLVED and connects, or gives up.              *)
LEMMA RouteResolvedPreserves ==
  ASSUME HandshakeInv, NEW c \in Clients, RouteResolved(c)
  PROVE  HandshakeInv'
<1>1. cpc[c] = "route" /\ rdma_events' \in [Clients -> Seq(CmEvents)]
      /\ NothingAnswered
  BY ChannelTaken DEF RouteResolved
<1>2. CASE ClientCleanup(c)
  BY <1>1, <1>2, ClientEndPreserves DEF ClientCleanup, RouteResolved
<1>3. CASE /\ cpc' = [cpc EXCEPT ![c] = "connect"]
           /\ rdma_connect(c)
           /\ UNCHANGED <<events, mem>>
  <2>1. link' = [link EXCEPT ![c] = "sent"]
    BY <1>3 DEF rdma_connect, SetLink
  <2>2. UNCHANGED <<server_vars, mem>>
    BY <1>3 DEF RouteResolved, server_vars
  <2> QED BY <1>1, <1>3, <2>1, <2>2, ClientMovePreserves
<1> QED BY <1>2, <1>3 DEF RouteResolved

(* A client that takes ESTABLISHED from its channel is the client that the *)
(* memory node accepted.                                                   *)
LEMMA EstablishedPreserves ==
  ASSUME HandshakeInv, NEW c \in Clients, Established(c)
  PROVE  HandshakeInv'
<1>1. cpc[c] = "connect" /\ rdma_events' \in [Clients -> Seq(CmEvents)]
      /\ NothingAnswered
  BY ChannelTaken DEF Established
<1>2. CASE ClientCleanup(c)
  BY <1>1, <1>2, ClientEndPreserves DEF ClientCleanup, Established
<1>3. CASE Expected(Head(rdma_events[c]), "ESTABLISHED")
  <2>0. PICK m \in {"info", "garbage"} : mem' = [mem EXCEPT ![c] = m]
    BY <1>3 DEF Established, Expected, MemRead
  <2>1. cpc' = [cpc EXCEPT ![c] = "ready"] /\ UNCHANGED <<spc, conn_id>>
    BY <1>3 DEF Established
  <2>2. /\ cpc' \in [Clients -> {"idle", "addr", "route", "connect", "ready",
                                  "failed", "gone"}]
        /\ mem' \in [Clients -> {"zero", "info", "garbage"}]
        /\ cpc'[c] = "ready" /\ \A d \in Clients \ {c} : cpc'[d] = cpc[d]
    BY <2>0, <2>1 DEF HandshakeInv, TypeOK
  <2>a. c = conn_id /\ spc \notin {"start", "listen", "accept"}
    BY <1>3, ChannelTaken DEF Established, Expected, HandshakeInv, LinkInv
  <2>3. conn_id \in Clients /\ cpc[conn_id] \in {"ready", "gone"}
          => cpc'[conn_id] \in {"ready", "gone"}
    BY <1>1, <2>2
  <2>4. ConnIsSet'
    BY <2>1, <2>2 DEF HandshakeInv, ConnIsSet
  <2>5. (spc = "loop" => cpc[conn_id] \in {"ready", "gone"})'
    BY <2>1, <2>3 DEF HandshakeInv, ConnIsSet
  <2>6. CASE link[c] = "accepted"
    <3>1. /\ link' = [link EXCEPT ![c] = "up"]
          /\ events' = Append(events, <<"ESTABLISHED", c>>)
      BY <1>3, <2>6 DEF Established, SetLink
    <3>2. c = conn_id /\ spc \in {"established", "loop"}
      BY <2>6 DEF HandshakeInv, LinkInv
    <3>3. <<"ESTABLISHED", c>> \in ServerEvents
      BY DEF ServerEvents
    <3>4. EventsInv' /\ events' \in Seq(ServerEvents)
      BY <2>1, <2>2, <2>3, <3>1, <3>2, <3>3, EventsAdded
    <3>5. /\ link' \in [Clients -> {"none", "sent", "requested", "accepted", "up",
                                     "down"}]
          /\ link'[c] = "up" /\ \A d \in Clients \ {c} : link'[d] = link[d]
      BY <3>1 DEF HandshakeInv, TypeOK
    <3>6. TypeOK'
      BY <1>1, <2>1, <2>2, <3>4, <3>5 DEF HandshakeInv, TypeOK, ServerEvents,
         CmEvents
    <3>7. ASSUME NEW d \in Clients PROVE LinkInv(d)'
      <4>1. CASE d = c
        <5>1. link'[d] = "up" /\ cpc'[d] = "ready" /\ d = conn_id'
              /\ spc' \in {"established", "loop"}
          BY <2>1, <2>2, <3>2, <3>5, <4>1
        <5> QED BY <5>1, <2>a DEF LinkInv
      <4>2. CASE d # c
        <5>1. LinkInv(d) /\ (Answered(d)' => Answered(d))
          BY <1>1 DEF HandshakeInv, NothingAnswered
        <5>2. link'[d] = link[d] /\ cpc'[d] = cpc[d] /\ UNCHANGED <<spc, conn_id>>
          BY <2>1, <2>2, <3>5, <4>2
        <5> QED BY <5>1, <5>2 DEF LinkInv
      <4> QED BY <4>1, <4>2
    <3> QED BY <2>4, <2>5, <3>4, <3>6, <3>7 DEF HandshakeInv
  <2>7. CASE link[c] # "accepted"
    <3>1. UNCHANGED <<link, events>>
      BY <1>3, <2>7 DEF Established
    <3>2. TypeOK'
      BY <1>1, <2>1, <2>2, <3>1 DEF HandshakeInv, TypeOK, CmEvents
    <3>3. EventsInv'
      BY <2>1, <2>3, <3>1 DEF HandshakeInv, EventsInv, ConnIsSet
    <3>4. link[c] = "down"
      BY <1>1, <1>3, <2>7, ChannelTaken DEF Established, Expected, HandshakeInv, LinkInv
    <3>5. ASSUME NEW d \in Clients PROVE LinkInv(d)'
      <4>1. CASE d = c
        BY <2>1, <2>2, <2>a, <3>1, <3>4, <4>1 DEF LinkInv
      <4>2. CASE d # c
        BY <1>1, <2>1, <2>2, <3>1, <4>2 DEF HandshakeInv, LinkInv, NothingAnswered
      <4> QED BY <4>1, <4>2
    <3> QED BY <2>4, <2>5, <3>2, <3>3, <3>5 DEF HandshakeInv
  <2> QED BY <2>6, <2>7
<1> QED BY <1>2, <1>3 DEF Established

(* compute_context_free and the death of a client.                         *)
LEMMA ClientLeavesPreserves ==
  ASSUME HandshakeInv, NEW c \in Clients, rdma_client_free(c) \/ ClientCrash(c)
  PROVE  HandshakeInv'
<1>1. /\ cpc[c] # "gone" /\ cpc' = [cpc EXCEPT ![c] = "gone"] /\ ClientEndGone(c)
      /\ UNCHANGED <<spc, conn_id, rdma_events, mem>>
  BY DEF rdma_client_free, ClientCrash
<1>2. rdma_events' \in [Clients -> Seq(CmEvents)] /\ NothingAnswered
  BY <1>1 DEF HandshakeInv, TypeOK, CmEvents, NothingAnswered, Answered
<1> QED BY <1>1, <1>2, ClientEndPreserves

-----------------------------------------------------------------------------
(* The memory node's steps. *)

(* The memory node listens.                                                *)
LEMMA ServerListenPreserves ==
  ASSUME HandshakeInv, ServerListen
  PROVE  HandshakeInv'
<1>1. /\ spc = "start" /\ spc' \in {"listen", "exit1"}
      /\ UNCHANGED <<conn_id, events, cpc, rdma_events, mem, link>>
  BY DEF ServerListen, client_vars
<1>2. TypeOK'
  BY <1>1 DEF HandshakeInv, TypeOK
<1>3. ASSUME NEW d \in Clients PROVE LinkInv(d)'
  BY <1>1 DEF HandshakeInv, LinkInv, Answered
<1>4. EventsInv' /\ ConnIsSet'
  BY <1>1 DEF HandshakeInv, EventsInv, ConnIsSet
<1> QED BY <1>1, <1>2, <1>3, <1>4 DEF HandshakeInv

(* The memory node takes CONNECT_REQUEST, or gives up.                     *)
LEMMA ConnectRequestPreserves ==
  ASSUME HandshakeInv, ConnectRequest
  PROVE  HandshakeInv'
<1>1. CASE ServerExit("exit1") /\ UNCHANGED conn_id
  BY <1>1, ServerExitPreserves DEF ConnectRequest
<1>2. CASE /\ conn_id' = Head(events)[2] /\ spc' = "accept"
           /\ events' = Tail(events)
           /\ UNCHANGED <<rdma_events, link>>
  <2>1. /\ spc = "listen" /\ events # << >> /\ events \in Seq(ServerEvents)
        /\ UNCHANGED <<cpc, mem>>
    BY DEF ConnectRequest, NextEvent, HandshakeInv, TypeOK, ServerEvents
  <2>2. /\ Head(events) \in ServerEvents /\ events' \in Seq(ServerEvents)
        /\ \A i \in 1..Len(events') :
             i + 1 \in 1..Len(events) /\ events'[i] = events[i + 1]
    BY <1>2, <2>1, Taken
  <2>3. conn_id' \in Clients
    BY <1>2, <2>2 DEF ServerEvents
  <2>4. \A i \in 1..Len(events) : events[i][1] # "ESTABLISHED"
    BY <2>1 DEF HandshakeInv, EventsInv
  <2>5. EventsInv'
    BY <2>2, <2>4 DEF EventsInv
  <2>6. TypeOK'
    BY <1>2, <2>1, <2>2, <2>3 DEF HandshakeInv, TypeOK, ServerEvents
  <2>7. ASSUME NEW d \in Clients PROVE LinkInv(d)'
    <3>1. link[d] \notin {"accepted", "up"}
      BY <2>1 DEF HandshakeInv, LinkInv
    <3> QED BY <1>2, <2>1, <3>1 DEF HandshakeInv, LinkInv, Answered
  <2>8. ConnIsSet'
    BY <2>1, <2>3 DEF HandshakeInv, ConnIsSet
  <2> QED BY <1>2, <2>5, <2>6, <2>7, <2>8 DEF HandshakeInv
<1> QED BY <1>1, <1>2 DEF ConnectRequest

(* The memory node accepts, or gives up.                                   *)
LEMMA AcceptPreserves ==
  ASSUME HandshakeInv, Accept
  PROVE  HandshakeInv'
<1>1. CASE ServerExit("exit1")
  BY <1>1, ServerExitPreserves DEF Accept
<1>2. CASE /\ link[conn_id] = "requested" /\ spc' = "established"
           /\ SetLink(conn_id, "accepted") /\ Notify(conn_id, "ESTABLISHED")
           /\ UNCHANGED events
  <2>1. spc = "accept" /\ conn_id \in Clients /\ UNCHANGED <<conn_id, cpc, mem>>
    BY DEF Accept, HandshakeInv, ConnIsSet
  <2>2. /\ link' \in [Clients -> {"none", "sent", "requested", "accepted", "up",
                                   "down"}]
        /\ link'[conn_id] = "accepted"
        /\ \A d \in Clients \ {conn_id} : link'[d] = link[d]
    BY <1>2, <2>1 DEF SetLink, HandshakeInv, TypeOK
  <2>3. /\ rdma_events' \in [Clients -> Seq(CmEvents)]
        /\ \A d \in Clients : Answered(d)' /\ ~Answered(d) => d = conn_id
    <3>1. "ESTABLISHED" \in CmEvents
      BY DEF CmEvents
    <3> QED BY <1>2, <2>1, <3>1, ChannelAdded
  <2>4. TypeOK'
    BY <1>2, <2>1, <2>2, <2>3 DEF HandshakeInv, TypeOK, CmEvents
  <2>5. EventsInv'
    BY <1>2, <2>1 DEF HandshakeInv, EventsInv
  <2>6. ASSUME NEW d \in Clients PROVE LinkInv(d)'
    <3>1. CASE d = conn_id
      BY <1>2, <2>1, <2>2, <3>1 DEF HandshakeInv, LinkInv
    <3>2. CASE d # conn_id
      BY <1>2, <2>1, <2>2, <2>3, <3>2 DEF HandshakeInv, LinkInv
    <3> QED BY <3>1, <3>2
  <2>7. ConnIsSet'
    BY <2>1 DEF HandshakeInv, ConnIsSet
  <2> QED BY <1>2, <2>4, <2>5, <2>6, <2>7 DEF HandshakeInv
<1> QED BY <1>1, <1>2 DEF Accept

(* The memory node takes an event and stays, or goes on to its loop.       *)
LEMMA ServerEventPreserves ==
  ASSUME HandshakeInv, ServerEstablished \/ LoopEvent
  PROVE  HandshakeInv'
<1>1. ASSUME NEW code \in {"exit0", "exit1"}, ServerExit(code) PROVE HandshakeInv'
  BY <1>1, ServerExitPreserves DEF ServerEstablished, LoopEvent
<1>2. ASSUME spc' = "loop", events # << >>, events' = Tail(events),
             UNCHANGED <<rdma_events, link, conn_id, cpc, mem>>,
             spc \in {"established", "loop"},
             cpc[conn_id] \in {"ready", "gone"}
      PROVE  HandshakeInv'
  <2>1. EventsInv' /\ events' \in Seq(ServerEvents)
    BY <1>2, EventsTaken
  <2>2. TypeOK'
    BY <1>2, <2>1 DEF HandshakeInv, TypeOK, ServerEvents
  <2>3. ASSUME NEW d \in Clients PROVE LinkInv(d)'
    BY <1>2 DEF HandshakeInv, LinkInv, Answered
  <2>4. ConnIsSet'
    BY <1>2 DEF HandshakeInv, ConnIsSet
  <2> QED BY <1>2, <2>1, <2>2, <2>3, <2>4 DEF HandshakeInv
<1>3. CASE ServerEstablished /\ Expected(Head(events)[1], "ESTABLISHED")
  <2>1. events # << >> /\ events \in Seq(ServerEvents)
    BY <1>3 DEF ServerEstablished, NextEvent, HandshakeInv, TypeOK, ServerEvents
  <2>2. Head(events) = events[1] /\ 1 \in 1..Len(events)
    BY <2>1, Taken
  <2>3. cpc[conn_id] \in {"ready", "gone"}
    BY <1>3, <2>2 DEF Expected, HandshakeInv, EventsInv
  <2> QED BY <1>2, <1>3, <2>1, <2>3 DEF ServerEstablished, NextEvent
<1>4. CASE LoopEvent /\ ~EndsLoop(Head(events)[1])
  BY <1>2, <1>4 DEF LoopEvent, NextEvent, HandshakeInv
<1> QED BY <1>1, <1>3, <1>4 DEF ServerEstablished, LoopEvent

-----------------------------------------------------------------------------
(* The connection manager's steps. *)

(* An address or a route is resolved, or is not.                           *)
LEMMA CmResolvePreserves ==
  ASSUME HandshakeInv, NEW c \in Clients, NEW l, NEW good \in CmEvents,
         NEW bad \in CmEvents, good # "ESTABLISHED", bad # "ESTABLISHED",
         CmResolve(c, l, good, bad)
  PROVE  HandshakeInv'
<1>1. PICK ev \in {good, bad} : Notify(c, ev)
  BY DEF CmResolve
<1>2. rdma_events' \in [Clients -> Seq(CmEvents)] /\ NothingAnswered
  BY <1>1, ChannelAdded DEF NothingAnswered
<1>3. UNCHANGED <<spc, conn_id, events, cpc, mem, link>>
  BY DEF CmResolve, server_vars
<1>4. TypeOK'
  BY <1>2, <1>3 DEF HandshakeInv, TypeOK, CmEvents
<1>5. ASSUME NEW d \in Clients PROVE LinkInv(d)'
  BY <1>2, <1>3 DEF HandshakeInv, LinkInv, NothingAnswered
<1>6. EventsInv' /\ ConnIsSet'
  BY <1>3 DEF HandshakeInv, EventsInv, ConnIsSet
<1> QED BY <1>3, <1>4, <1>5, <1>6 DEF HandshakeInv

(* A request is delivered, rejected or given up.                           *)
LEMMA CmRequestPreserves ==
  ASSUME HandshakeInv, NEW c \in Clients, CmRequest(c) \/ CmTimeout(c)
  PROVE  HandshakeInv'
<1>1. /\ cpc[c] = "connect" /\ link[c] \in {"sent", "requested"}
      /\ UNCHANGED <<spc, conn_id, cpc, mem>>
  BY DEF CmRequest, CmTimeout
<1>2. PICK l \in {"requested", "down"} :
        /\ link' = [link EXCEPT ![c] = l]
        /\ l = "requested" => UNCHANGED rdma_events
  BY DEF CmRequest, CmTimeout, SetLink
<1>3. /\ link' \in [Clients -> {"none", "sent", "requested", "accepted", "up",
                                 "down"}]
      /\ link'[c] = l /\ \A d \in Clients \ {c} : link'[d] = link[d]
  BY <1>2 DEF HandshakeInv, TypeOK
<1>4. rdma_events' \in [Clients -> Seq(CmEvents)] /\ NothingAnswered
  <2>1. CASE UNCHANGED rdma_events
    BY <2>1 DEF HandshakeInv, TypeOK, CmEvents, NothingAnswered, Answered
  <2>2. ASSUME NEW ev \in {"REJECTED", "UNREACHABLE"}, Notify(c, ev)
        PROVE  rdma_events' \in [Clients -> Seq(CmEvents)] /\ NothingAnswered
    <3>1. ev \in CmEvents /\ ev # "ESTABLISHED"
      BY DEF CmEvents
    <3> QED BY <2>2, <3>1, ChannelAdded DEF NothingAnswered
  <2> QED BY <2>1, <2>2 DEF CmRequest, CmTimeout
<1>5. EventsInv' /\ events' \in Seq(ServerEvents)
  <2>1. CASE UNCHANGED events
    BY <1>1, <2>1 DEF HandshakeInv, TypeOK, ServerEvents, EventsInv
  <2>2. ASSUME NEW type \in {"CONNECT_REQUEST", "REJECTED"},
               events' = Append(events, <<type, c>>)
        PROVE  EventsInv' /\ events' \in Seq(ServerEvents)
    <3>1. <<type, c>> \in ServerEvents /\ <<type, c>>[1] # "ESTABLISHED"
      BY DEF ServerEvents
    <3> QED BY <1>1, <2>2, <3>1, EventsAdded
  <2> QED BY <2>1, <2>2 DEF CmRequest, CmTimeout
<1>6. TypeOK'
  BY <1>1, <1>3, <1>4, <1>5 DEF HandshakeInv, TypeOK, ServerEvents, CmEvents
<1>7. ASSUME NEW d \in Clients PROVE LinkInv(d)'
  <2>1. CASE d = c
    <3>1. ~Answered(c)
      BY <1>1 DEF HandshakeInv, LinkInv
    <3> QED BY <1>1, <1>3, <1>4, <2>1, <3>1 DEF LinkInv, NothingAnswered
  <2>2. CASE d # c
    BY <1>1, <1>3, <1>4, <2>2 DEF HandshakeInv, LinkInv, NothingAnswered
  <2> QED BY <2>1, <2>2
<1>8. ConnIsSet'
  BY <1>1 DEF HandshakeInv, ConnIsSet
<1> QED BY <1>1, <1>5, <1>6, <1>7, <1>8 DEF HandshakeInv

-----------------------------------------------------------------------------
(* The invariant holds when nobody has started.                            *)
LEMMA InitEstablishes == Init => HandshakeInv
<1> SUFFICES ASSUME Init PROVE HandshakeInv
  OBVIOUS
<1>1. TypeOK
  BY DEF Init, TypeOK
<1>2. ASSUME NEW c \in Clients PROVE LinkInv(c)
  BY DEF Init, LinkInv, Answered
<1>3. ConnIsSet /\ EventsInv
  BY DEF Init, ConnIsSet, EventsInv
<1> QED BY <1>1, <1>2, <1>3 DEF HandshakeInv, Init

(* Every step of a process or of the connection manager keeps it.          *)
LEMMA NextPreserves ==
  ASSUME HandshakeInv, [Next]_vars
  PROVE  HandshakeInv'
<1>1. CASE UNCHANGED vars
  BY <1>1 DEF vars, HandshakeInv, TypeOK, ConnIsSet, LinkInv, Answered, EventsInv
<1>2. CASE ServerStep \/ ServerCrash
  BY <1>2, ServerListenPreserves, ConnectRequestPreserves, AcceptPreserves,
     ServerEventPreserves, ServerExitPreserves DEF ServerStep, ServerCrash
<1>3. ASSUME NEW c \in Clients,
             \/ ResolveAddr(c) \/ ClientStep(c) \/ rdma_client_free(c)
             \/ ClientCrash(c)
      PROVE  HandshakeInv'
  BY <1>3, ResolveAddrPreserves, AddrResolvedPreserves, RouteResolvedPreserves,
     EstablishedPreserves, ClientLeavesPreserves DEF ClientStep
<1>4. ASSUME NEW c \in Clients, CmStep(c) \/ CmTimeout(c) PROVE HandshakeInv'
  <2>1. /\ "ADDR_RESOLVED" \in CmEvents /\ "ADDR_ERROR" \in CmEvents
        /\ "ROUTE_RESOLVED" \in CmEvents /\ "ROUTE_ERROR" \in CmEvents
    BY DEF CmEvents
  <2>2. CASE CmResolve(c, "addr", "ADDR_RESOLVED", "ADDR_ERROR")
    BY <2>1, <2>2, CmResolvePreserves
  <2>3. CASE CmResolve(c, "route", "ROUTE_RESOLVED", "ROUTE_ERROR")
    BY <2>1, <2>3, CmResolvePreserves
  <2>4. CASE CmRequest(c) \/ CmTimeout(c)
    BY <2>4, CmRequestPreserves
  <2> QED BY <1>4, <2>2, <2>3, <2>4 DEF CmStep
<1> QED BY <1>1, <1>2, <1>3, <1>4 DEF Next

(* HandshakeInv holds in every state, for any number of clients.           *)
THEOREM HandshakeInvariant == Spec => []HandshakeInv
<1>1. Init => HandshakeInv
  BY InitEstablishes
<1>2. HandshakeInv /\ [Next]_vars => HandshakeInv'
  BY NextPreserves
<1> QED BY <1>1, <1>2, PTL DEF Spec

(* The memory node in its loop serves a client that has finished its       *)
(* handshake, and no other client has a connection.                        *)
THEOREM HandshakeServedIsReady == Spec => []ServedIsReady
<1>1. HandshakeInv => ServedIsReady
  BY DEF HandshakeInv, ServedIsReady, LinkInv
<1> QED BY <1>1, HandshakeInvariant, PTL

(* Only the client that the memory node accepted takes itself for          *)
(* connected.                                                              *)
THEOREM HandshakeReadyIsAccepted == Spec => []ReadyIsAccepted
<1>1. HandshakeInv => ReadyIsAccepted
  BY DEF HandshakeInv, ReadyIsAccepted, LinkInv
<1> QED BY <1>1, HandshakeInvariant, PTL
=============================================================================
