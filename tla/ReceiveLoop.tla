----------------------------- MODULE ReceiveLoop -----------------------------
(***************************************************************************)
(* The event loop of the memory node (main) once a client is connected:    *)
(* one epoll over the channel of the connection manager and the completion *)
(* channel of the receive queue, with rdma_conn_poll_ev.                   *)
(*                                                                         *)
(* The adapter is external, and runs beside the loop.  A completion raises *)
(* an event in the channel only if the queue is armed, which disarms it; a *)
(* receive posted on a broken connection completes with an error at once.  *)
(* Arming the queue may fail like any call, but ibv_req_notify_cq reports  *)
(* that with a positive number, which try takes for a success.             *)
(***************************************************************************)
EXTENDS Naturals, Sequences

CONSTANTS
  MAX_POLL,        \* how many completions main polls at most (16)
  CallsMayFail,    \* TRUE when a call may fail
  MaxSends,        \* bound: messages the client sends
  MaxOther         \* bound: CM events other than the disconnect

ASSUME LoopAssumption ==
  /\ MAX_POLL \in Nat \ {0} /\ CallsMayFail \in BOOLEAN
  /\ MaxSends \in Nat /\ MaxOther \in Nat

VARIABLES
  pc,          \* "epoll", "dispatch", "poll", "rearm", "refill" or an exit
  batch,       \* what is left of the array that epoll_wait filled
  wcs,         \* completions polled and not yet looked at
  cm_events,   \* the CM channel
  client,      \* "up" or "gone"
  cq, posted,  \* external: the receive queue's completions; receives posted
  notify, chan,\* external: the queue is "armed", "off", or arming "failed";
               \* the events in its channel
  qp,          \* external: the queue pair, "rts" or "err"
  sent, other  \* external: counters against the bounds

loop_vars == <<pc, batch, wcs>>
nic_vars  == <<cq, posted, notify, chan>>
env_vars  == <<client, qp, sent, other>>
vars == <<pc, batch, wcs, cm_events, client, cq, posted, notify, chan, qp,
          sent, other>>

Exits == {"exit0", "exit1", "false_positive"}

(* Bug: a second receive is posted into the one buffer.                    *)
TwoPosted == 2

(* rdma_conn_create posts one receive: there is one buffer.                *)
PrePosted == 1

(* External: ibv_req_notify_cq.  Its failure is not noticed.               *)
ibv_req_notify_cq == {"armed"} \cup (IF CallsMayFail THEN {"failed"} ELSE {})

Init ==
  /\ pc = "epoll" /\ batch = << >> /\ wcs = << >>
  /\ cm_events = << >> /\ client = "up"
  /\ cq = << >> /\ posted = PrePosted /\ chan = 0
  /\ notify \in ibv_req_notify_cq         \* called by rdma_conn_create
  /\ qp = "rts" /\ sent = 0 /\ other = 0

(* External: completions are added to the queue, n receives posted now.    *)
Completed(new, n) ==
  /\ cq' = cq \o new /\ posted' = n
  /\ IF new # << >> /\ notify = "armed"
       THEN notify' = "off" /\ chan' = chan + 1
       ELSE UNCHANGED <<notify, chan>>

-----------------------------------------------------------------------------
(* The loop. *)

(* Bug: edge-triggered, and an event left behind by the last round is no   *)
(* edge (only the completion channel is reported again).                   *)
EdgeReady == {fd \in {"cm", "cc"} : IF fd = "cm" THEN Len(cm_events) = 1
                                                 ELSE chan > 0}

(* Level-triggered: whatever has something to read.                        *)
Ready == {fd \in {"cm", "cc"} : IF fd = "cm" THEN cm_events # << >>
                                             ELSE chan > 0}

(* What epoll_wait may store: each descriptor once, in either order.       *)
Batches == {<<"cm">>, <<"cc">>, <<"cm", "cc">>, <<"cc", "cm">>}

Exit(code) == pc' = code /\ UNCHANGED <<batch, wcs>>

EpollWait ==
  /\ pc = "epoll" /\ Ready # {}
  /\ \/ /\ batch' \in {b \in Batches : {b[i] : i \in DOMAIN b} = Ready}
        /\ pc' = "dispatch" /\ UNCHANGED wcs
     \/ CallsMayFail /\ Exit("exit1")
  /\ UNCHANGED <<cm_events, nic_vars, env_vars>>

(* The rest of the batch, then epoll again.                                *)
NextFd ==
  /\ batch' = Tail(batch)
  /\ pc' = IF Tail(batch) = << >> THEN "epoll" ELSE "dispatch"

(* rdma_get_cm_event: events other than a disconnect are logged.           *)
CmEvent ==
  /\ pc = "dispatch" /\ Head(batch) = "cm"
  /\ \/ /\ cm_events' = Tail(cm_events)
        /\ IF Head(cm_events) = "DISCONNECTED"
             THEN Exit("exit0")
             ELSE NextFd /\ UNCHANGED wcs
     \/ CallsMayFail /\ Exit("exit1") /\ UNCHANGED cm_events
  /\ UNCHANGED <<nic_vars, env_vars>>

(* ibv_get_cq_event.                                                       *)
GetCqEvent ==
  /\ pc = "dispatch" /\ Head(batch) = "cc"
  /\ \/ /\ chan' = chan - 1 /\ pc' = "poll"
        /\ UNCHANGED <<batch, wcs>>
     \/ /\ CallsMayFail /\ Exit("exit1") /\ UNCHANGED chan
  /\ UNCHANGED <<cm_events, cq, posted, notify, env_vars>>

(* ibv_poll_cq, which returns what there is up to the room left in wcs.    *)
Poll ==
  LET room  == MAX_POLL - Len(wcs)
      count == IF Len(cq) < room THEN Len(cq) ELSE room
  IN
  /\ pc = "poll"
  /\ \/ /\ count = 0
        /\ IF wcs = << >> THEN Exit("false_positive")
                          ELSE pc' = "rearm" /\ UNCHANGED <<batch, wcs>>
        /\ UNCHANGED cq
     \/ /\ count > 0
        /\ wcs' = wcs \o SubSeq(cq, 1, count)
        /\ cq' = SubSeq(cq, count + 1, Len(cq))
        /\ pc' = IF Len(wcs') < MAX_POLL THEN "poll" ELSE "rearm"
        /\ UNCHANGED batch
     \/ /\ CallsMayFail /\ Exit("exit1") /\ UNCHANGED cq
  /\ UNCHANGED <<cm_events, posted, notify, chan, env_vars>>

(* Bug: the queue is not armed again.                                      *)
NotArmed ==
  /\ pc = "rearm"
  /\ pc' = "refill"
  /\ UNCHANGED <<batch, wcs, cm_events, nic_vars, env_vars>>

(* ibv_ack_cq_events, and the queue is armed, or so the code believes.     *)
Rearm ==
  /\ pc = "rearm"
  /\ notify' \in ibv_req_notify_cq
  /\ pc' = "refill"
  /\ UNCHANGED <<batch, wcs, cm_events, cq, posted, chan, env_vars>>

(* Bug: the receive is posted and the completion looked at again.          *)
KeepsCompletion(s) == s

TakesCompletion(s) == Tail(s)

(* One turn of the loop over wcs.  After an error nothing is posted any    *)
(* more and main returns -1.                                               *)
Refill ==
  /\ pc = "refill" /\ wcs # << >>
  /\ IF Head(wcs) = "SUCCESS"
       THEN \/ /\ wcs' = TakesCompletion(wcs)
               /\ IF qp = "err" THEN Completed(<<"ERROR">>, posted)
                            ELSE Completed(<< >>, posted + 1)
               /\ UNCHANGED <<pc, batch>>
            \/ CallsMayFail /\ Exit("exit1") /\ UNCHANGED nic_vars
       ELSE Exit("exit1") /\ UNCHANGED nic_vars
  /\ UNCHANGED <<cm_events, env_vars>>

RefillEnd ==
  /\ pc = "refill" /\ wcs = << >>
  /\ NextFd
  /\ UNCHANGED <<wcs, cm_events, nic_vars, env_vars>>

LoopStep ==
  EpollWait \/ CmEvent \/ GetCqEvent \/ Poll \/ Rearm \/ Refill \/ RefillEnd

-----------------------------------------------------------------------------
(* External: the client and the network. *)

(* A message needs a posted receive; the sender's adapter retries.         *)
Receive ==
  /\ client = "up" /\ qp = "rts" /\ posted > 0 /\ sent < MaxSends
  /\ Completed(<<"SUCCESS">>, posted - 1)
  /\ sent' = sent + 1
  /\ UNCHANGED <<loop_vars, cm_events, client, qp, other>>

(* An access the adapter refuses breaks the connection: the receives that  *)
(* are posted complete with an error.                                      *)
Break ==
  /\ client = "up" /\ qp = "rts"
  /\ qp' = "err"
  /\ Completed([i \in 1..posted |-> "ERROR"], 0)
  /\ UNCHANGED <<loop_vars, cm_events, client, sent, other>>

Disconnect ==
  /\ client = "up"
  /\ client' = "gone"
  /\ cm_events' = Append(cm_events, "DISCONNECTED")
  /\ UNCHANGED <<loop_vars, nic_vars, qp, sent, other>>

OtherEvent ==
  /\ other < MaxOther
  /\ cm_events' = Append(cm_events, "OTHER")
  /\ other' = other + 1
  /\ UNCHANGED <<loop_vars, nic_vars, client, qp, sent>>

Next ==
  /\ pc \notin Exits
  /\ LoopStep \/ Receive \/ Break \/ Disconnect \/ OtherEvent

(* Fairness: the loop is a running thread; nothing is assumed of others.   *)
Spec == Init /\ [][Next]_vars /\ WF_vars(LoopStep)

-----------------------------------------------------------------------------
(* Properties. *)

(* Every variable of the loop has its type.                                *)
TypeOK ==
  /\ pc \in {"epoll", "dispatch", "poll", "rearm", "refill"} \cup Exits
  /\ batch \in Batches \cup {<< >>}
  /\ wcs \in Seq({"SUCCESS", "ERROR"})
  /\ cm_events \in Seq({"DISCONNECTED", "OTHER"})
  /\ client \in {"up", "gone"}
  /\ cq \in Seq({"SUCCESS", "ERROR"})
  /\ posted \in Nat /\ chan \in Nat /\ sent \in Nat /\ other \in Nat
  /\ notify \in {"armed", "off", "failed"} /\ qp \in {"rts", "err"}

(* rdma_conn_poll_ev drains the queue and only then arms it again: a       *)
(* completion between the two would raise no event, and one that raised an *)
(* event but was drained with an earlier one would be the false positive   *)
(* that ends the process.  While epoll waits there is exactly one event    *)
(* for a completion and none without, unless ibv_req_notify_cq has failed  *)
(* unnoticed; there is no false positive even then.                        *)
EventPerCompletion ==
  /\ pc = "epoll" /\ notify # "failed" => chan = IF cq = << >> THEN 0 ELSE 1
  /\ pc # "false_positive"

(* "currently we only have 1 slot of recv buffer" (main.c): the buffer is  *)
(* at most once with the adapter or with a completion nobody looked at, so *)
(* that no message is overwritten before its turn, whenever main refills.  *)
OneReceiveOut == posted + Len(cq) + Len(wcs) <= 1

(***************************************************************************)
(* The inductive invariant behind both.  Outside rdma_conn_poll_ev the     *)
(* queue is armed exactly when it is empty; inside, while it is not armed, *)
(* the one receive is with the loop and nothing can complete.  Once arming *)
(* has failed the channel stays silent, and the loop never polls again.    *)
(***************************************************************************)
Synced ==
  \/ notify = "armed" /\ cq = << >> /\ chan = 0
  \/ notify = "off" /\ cq # << >> /\ chan = 1
  \/ notify = "failed" /\ chan = 0

InBatch(fd) == \E i \in DOMAIN batch : batch[i] = fd

LoopInv ==
  /\ TypeOK
  /\ OneReceiveOut
  /\ pc = "epoll" => wcs = << >> /\ Synced
  /\ pc = "dispatch" => /\ batch # << >> /\ wcs = << >> /\ Synced
                        /\ InBatch("cc") => chan = 1
  /\ pc \in {"poll", "rearm", "refill"} => batch # << >> /\ Head(batch) = "cc"
  /\ pc # "epoll" /\ pc \notin Exits /\ InBatch("cm") => cm_events # << >>
  /\ pc = "poll" => notify = "off" /\ chan = 0 /\ (cq # << >> \/ wcs # << >>)
  /\ pc = "rearm" => notify = "off" /\ chan = 0 /\ wcs # << >>
  /\ pc = "refill" => IF wcs = << >> THEN Synced
                       ELSE chan = 0 /\ notify \in {"armed", "failed"}
  /\ pc # "false_positive"

(* A message that arrived is taken and its receive posted again, or main   *)
(* returns, or an ibv_req_notify_cq has failed unnoticed.                  *)
ReceiveReposted == posted = 0 ~> (posted = 1 \/ pc \in Exits \/ notify = "failed")

(* "compute side disconnected, exiting" (main.c): main returns once the    *)
(* client is gone, whatever else is in its two channels.                   *)
DisconnectEnds == client = "gone" ~> pc \in Exits
=============================================================================
