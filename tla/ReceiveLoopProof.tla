-------------------------- MODULE ReceiveLoopProof --------------------------
(***************************************************************************)
(* The receive loop of the memory node loses no wakeup while it could arm  *)
(* its queue, and has no false positive, for any MAX_POLL and any number   *)
(* of messages and events.                                                 *)
(***************************************************************************)
EXTENDS ReceiveLoop, TLAPS

Statuses == {"SUCCESS", "ERROR"}

(* A sequence is empty exactly when its length is zero.                    *)
LEMMA EmptyLen ==
  ASSUME NEW S, NEW s \in Seq(S)
  PROVE  Len(s) \in Nat /\ (s = << >> <=> Len(s) = 0)
OBVIOUS

(* The one receive is in one place.                                        *)
LEMMA AtMostOne ==
  ASSUME NEW a \in Nat, NEW b \in Nat, NEW c \in Nat, a + b + c <= 1
  PROVE  /\ a # 0 => a = 1 /\ b = 0 /\ c = 0
         /\ b # 0 => a = 0 /\ b = 1 /\ c = 0
         /\ c # 0 => a = 0 /\ b = 0 /\ c = 1
OBVIOUS

(* How many completions a call of ibv_poll_cq returns.                     *)
LEMMA PollCount ==
  ASSUME NEW m \in Nat \ {0}, NEW q \in 0..1, NEW w \in 0..1, q + w <= 1
  PROVE  LET room == m - w
             count == IF q < room THEN q ELSE room
         IN  (w = 0 => count = q) /\ (count > 0 => w = 0 /\ q = 1 /\ count = 1)
OBVIOUS

(* What the rest of a batch holds.                                         *)
LEMMA BatchTail ==
  ASSUME NEW b \in Batches
  PROVE  /\ Tail(b) \in Batches \cup {<< >>}
         /\ Head(b) \in {"cm", "cc"}
         /\ \E i \in DOMAIN b : b[i] = Head(b)
         /\ \A i \in DOMAIN Tail(b) : Tail(b)[i] # Head(b)
         /\ \A i \in DOMAIN Tail(b) : \E j \in DOMAIN b : b[j] = Tail(b)[i]
<1>1. CASE b = <<"cm">>
  BY <1>1 DEF Batches
<1>2. CASE b = <<"cc">>
  BY <1>2 DEF Batches
<1>3. CASE b = <<"cm", "cc">>
  BY <1>3 DEF Batches
<1>4. CASE b = <<"cc", "cm">>
  BY <1>4 DEF Batches
<1> QED BY <1>1, <1>2, <1>3, <1>4 DEF Batches

(* The loop starts with one receive posted and the queue armed.            *)
LEMMA InitInv == Init => LoopInv
<1> SUFFICES ASSUME Init PROVE LoopInv
  OBVIOUS
<1> QED BY DEF Init, LoopInv, TypeOK, OneReceiveOut, Synced, InBatch, PrePosted,
          Exits, Batches, ibv_req_notify_cq

(* When main returns, only the types and the receive are left to look at.  *)
LEMMA ExitInv ==
  ASSUME TypeOK', OneReceiveOut', pc' \in {"exit0", "exit1"}
  PROVE  LoopInv'
BY DEF LoopInv, Exits

(* An early return leaves everything as it is.                             *)
LEMMA EarlyReturn ==
  ASSUME LoopInv, Exit("exit1"), UNCHANGED <<cm_events, nic_vars, env_vars>>
  PROVE  LoopInv'
<1>1. pc' = "exit1" /\ UNCHANGED <<batch, wcs, cm_events, client, cq, posted,
                                   notify, chan, qp, sent, other>>
  BY DEF Exit, nic_vars, env_vars
<1>2. TypeOK' /\ OneReceiveOut'
  BY <1>1 DEF LoopInv, TypeOK, OneReceiveOut, Exits
<1> QED BY <1>1, <1>2, ExitInv

(* epoll_wait reports a channel only if there is something in it.          *)
LEMMA EpollWaitInv ==
  ASSUME LoopInv, EpollWait
  PROVE  LoopInv'
<1>1. pc = "epoll" /\ UNCHANGED <<cm_events, nic_vars, env_vars>>
  BY DEF EpollWait
<1>2. CASE CallsMayFail /\ Exit("exit1")
  BY <1>1, <1>2, EarlyReturn
<1>3. CASE /\ batch' \in {b \in Batches : {b[i] : i \in DOMAIN b} = Ready}
           /\ pc' = "dispatch" /\ UNCHANGED wcs
  <2>1. /\ batch' \in Batches
        /\ \A fd : (\E i \in DOMAIN batch' : batch'[i] = fd) <=> fd \in Ready
    BY <1>3
  <2>2. UNCHANGED <<cm_events, client, cq, posted, notify, chan, qp, sent, other>>
    BY <1>1 DEF nic_vars, env_vars
  <2>3. TypeOK' /\ OneReceiveOut'
    BY <1>3, <2>1, <2>2 DEF LoopInv, TypeOK, OneReceiveOut
  <2>4. Synced' /\ wcs' = << >>
    BY <1>1, <1>3, <2>2 DEF LoopInv, Synced
  <2>5. batch' # << >>
    BY <2>1 DEF Batches
  <2>6. InBatch("cc")' => chan' = 1
    <3>1. "cc" \in Ready => chan > 0
      BY DEF Ready
    <3>2. chan \in {0, 1}
      BY <2>2, <2>4 DEF Synced
    <3> QED BY <2>1, <2>2, <3>1, <3>2 DEF InBatch
  <2>7. InBatch("cm")' => cm_events' # << >>
    <3>1. "cm" \in Ready => cm_events # << >>
      BY DEF Ready
    <3> QED BY <2>1, <2>2, <3>1 DEF InBatch
  <2> QED BY <1>3, <2>3, <2>4, <2>5, <2>6, <2>7 DEF LoopInv, Exits
<1> QED BY <1>2, <1>3 DEF EpollWait

(* Going on with the batch keeps the invariant once the completion queue   *)
(* is in step with its channel and what was reported is still there.       *)
LEMMA NextFdInv ==
  ASSUME TypeOK, batch # << >>, NextFd,
         UNCHANGED <<client, cq, posted, notify, chan, qp, sent, other>>,
         wcs' = << >>, OneReceiveOut', Synced',
         cm_events' \in Seq({"DISCONNECTED", "OTHER"}),
         InBatch("cc") /\ Head(batch) # "cc" => chan = 1,
         InBatch("cm") /\ Head(batch) # "cm" => cm_events' # << >>
  PROVE  LoopInv'
<1>1. batch \in Batches
  BY DEF TypeOK
<1>2. /\ batch' = Tail(batch) /\ batch' \in Batches \cup {<< >>}
      /\ \A i \in DOMAIN batch' : batch'[i] # Head(batch)
      /\ \A i \in DOMAIN batch' : \E j \in DOMAIN batch : batch[j] = batch'[i]
  BY <1>1, BatchTail DEF NextFd
<1>3. pc' = IF batch' = << >> THEN "epoll" ELSE "dispatch"
  BY <1>2 DEF NextFd
<1>4. TypeOK'
  BY <1>2, <1>3 DEF TypeOK
<1>5. InBatch("cc")' => chan' = 1
  BY <1>2 DEF InBatch
<1>6. InBatch("cm")' => cm_events' # << >>
  BY <1>2 DEF InBatch
<1> QED BY <1>3, <1>4, <1>5, <1>6 DEF LoopInv, Exits

(* A CM event.                                                             *)
LEMMA CmEventInv ==
  ASSUME LoopInv, CmEvent
  PROVE  LoopInv'
<1>1. /\ pc = "dispatch" /\ Head(batch) = "cm" /\ batch # << >>
      /\ batch \in Batches /\ wcs = << >> /\ Synced
      /\ InBatch("cc") => chan = 1
      /\ UNCHANGED <<client, cq, posted, notify, chan, qp, sent, other>>
  BY DEF CmEvent, LoopInv, TypeOK, nic_vars, env_vars
<1>2. CASE CallsMayFail /\ Exit("exit1") /\ UNCHANGED cm_events
  BY <1>2, EarlyReturn DEF CmEvent
<1>3. CASE /\ cm_events' = Tail(cm_events)
           /\ IF Head(cm_events) = "DISCONNECTED"
                THEN Exit("exit0")
                ELSE NextFd /\ UNCHANGED wcs
  <2>1. InBatch("cm")
    BY <1>1, BatchTail DEF InBatch
  <2>2. cm_events # << >> /\ cm_events \in Seq({"DISCONNECTED", "OTHER"})
    BY <1>1, <2>1 DEF LoopInv, TypeOK, Exits
  <2>3. cm_events' \in Seq({"DISCONNECTED", "OTHER"})
    BY <1>3, <2>2
  <2>4. CASE Exit("exit0")
    <3>1. TypeOK' /\ OneReceiveOut'
      BY <1>1, <2>3, <2>4 DEF Exit, LoopInv, TypeOK, OneReceiveOut, Exits
    <3> QED BY <2>4, <3>1, ExitInv DEF Exit
  <2>5. CASE NextFd /\ UNCHANGED wcs
    <3>1. wcs' = << >> /\ OneReceiveOut' /\ Synced'
      BY <1>1, <2>5 DEF LoopInv, OneReceiveOut, Synced
    <3>2. TypeOK
      BY DEF LoopInv
    <3> QED BY <1>1, <2>3, <2>5, <3>1, <3>2, NextFdInv
  <2> QED BY <1>3, <2>4, <2>5
<1> QED BY <1>2, <1>3 DEF CmEvent

(* The event is taken off the channel; the completion is still there.      *)
LEMMA GetCqEventInv ==
  ASSUME LoopInv, GetCqEvent
  PROVE  LoopInv'
<1>1. /\ pc = "dispatch" /\ Head(batch) = "cc" /\ batch # << >>
      /\ batch \in Batches /\ wcs = << >> /\ Synced
      /\ UNCHANGED <<cm_events, client, cq, posted, notify, qp, sent, other>>
  BY DEF GetCqEvent, LoopInv, TypeOK, env_vars
<1>2. CASE CallsMayFail /\ Exit("exit1") /\ UNCHANGED chan
  BY <1>1, <1>2, EarlyReturn DEF GetCqEvent, nic_vars
<1>3. CASE chan' = chan - 1 /\ pc' = "poll" /\ UNCHANGED <<batch, wcs>>
  <2>1. InBatch("cc")
    BY <1>1, BatchTail DEF InBatch
  <2>2. chan = 1 /\ cq # << >> /\ notify = "off"
    BY <1>1, <2>1 DEF LoopInv, Synced
  <2>3. chan' = 0
    BY <1>3, <2>2
  <2>4. TypeOK' /\ OneReceiveOut'
    BY <1>1, <1>3, <2>3 DEF LoopInv, TypeOK, OneReceiveOut
  <2>5. InBatch("cm")' => cm_events' # << >>
    BY <1>1, <1>3 DEF LoopInv, InBatch, Exits
  <2> QED BY <1>1, <1>3, <2>2, <2>3, <2>4, <2>5 DEF LoopInv, Exits
<1> QED BY <1>2, <1>3 DEF GetCqEvent

(* Polling takes the one completion there can be, then finds none.         *)
LEMMA PollInv ==
  ASSUME LoopInv, Poll
  PROVE  LoopInv'
<1> USE LoopAssumption
<1> DEFINE room  == MAX_POLL - Len(wcs)
           count == IF Len(cq) < room THEN Len(cq) ELSE room
<1>1. /\ pc = "poll" /\ batch # << >> /\ Head(batch) = "cc"
      /\ notify = "off" /\ chan = 0 /\ (cq # << >> \/ wcs # << >>)
      /\ cq \in Seq(Statuses) /\ wcs \in Seq(Statuses) /\ posted \in Nat
      /\ posted + Len(cq) + Len(wcs) <= 1
      /\ InBatch("cm") => cm_events # << >>
  BY DEF Poll, LoopInv, TypeOK, OneReceiveOut, Exits, Statuses
<1>2. UNCHANGED <<cm_events, client, posted, notify, chan, qp, sent, other>>
  BY DEF Poll, env_vars
<1>3. Len(cq) \in Nat /\ Len(wcs) \in Nat /\ (cq = << >> <=> Len(cq) = 0)
      /\ (wcs = << >> <=> Len(wcs) = 0)
  BY <1>1, EmptyLen
<1>a. /\ Len(wcs) = 0 => count = Len(cq)
      /\ count > 0 => Len(wcs) = 0 /\ Len(cq) = 1 /\ count = 1 /\ posted = 0
      /\ Len(wcs) = 0 => Len(cq) = 1
  <2>1. MAX_POLL \in Nat \ {0}
    OBVIOUS
  <2> DEFINE q == Len(cq)
             w == Len(wcs)
  <2>2. /\ q \in Nat /\ w \in Nat /\ posted \in Nat /\ posted + q + w <= 1
        /\ q # 0 \/ w # 0
    BY <1>1, <1>3
  <2> HIDE DEF q, w
  <2>3. q \in 0..1 /\ w \in 0..1 /\ q + w <= 1 /\ (q # 0 => posted = 0)
        /\ (w = 0 => q = 1)
    BY <2>2
  <2>4. LET r == MAX_POLL - w
            k == IF q < r THEN q ELSE r
        IN  (w = 0 => k = q) /\ (k > 0 => w = 0 /\ q = 1 /\ k = 1)
    BY <2>1, <2>3, PollCount
  <2> QED BY <2>3, <2>4 DEF q, w
<1>4. CASE CallsMayFail /\ Exit("exit1") /\ UNCHANGED cq
  BY <1>2, <1>4, EarlyReturn DEF nic_vars, env_vars
<1>5. CASE /\ count = 0
           /\ IF wcs = << >> THEN Exit("false_positive")
                             ELSE pc' = "rearm" /\ UNCHANGED <<batch, wcs>>
           /\ UNCHANGED cq
  <2>1. wcs # << >>
    <3>1. SUFFICES ASSUME Len(wcs) = 0 PROVE FALSE
      BY <1>3
    <3> HIDE DEF count
    <3> QED BY <1>5, <1>a, <3>1
  <2>2. pc' = "rearm" /\ UNCHANGED <<batch, wcs, cq>>
    BY <1>5, <2>1
  <2>3. TypeOK' /\ OneReceiveOut'
    BY <1>2, <2>2 DEF LoopInv, TypeOK, OneReceiveOut
  <2>4. InBatch("cm")' => cm_events' # << >>
    BY <1>1, <1>2, <2>2 DEF InBatch
  <2> QED BY <1>1, <1>2, <2>1, <2>2, <2>3, <2>4 DEF LoopInv, Exits
<1>6. CASE /\ count > 0
           /\ wcs' = wcs \o SubSeq(cq, 1, count)
           /\ cq' = SubSeq(cq, count + 1, Len(cq))
           /\ pc' = IF Len(wcs') < MAX_POLL THEN "poll" ELSE "rearm"
           /\ UNCHANGED batch
  <2>1. Len(cq) = 1 /\ Len(wcs) = 0 /\ posted = 0 /\ count = 1
    <3> HIDE DEF count
    <3> QED BY <1>6, <1>a
  <2>2. /\ wcs' \in Seq(Statuses) /\ Len(wcs') = 1
        /\ cq' \in Seq(Statuses) /\ Len(cq') = 0
    <3> HIDE DEF count
    <3>1. SubSeq(cq, 1, 1) \in Seq(Statuses) /\ Len(SubSeq(cq, 1, 1)) = 1
      BY <1>1, <2>1
    <3>2. SubSeq(cq, 2, 1) \in Seq(Statuses) /\ Len(SubSeq(cq, 2, 1)) = 0
      BY <1>1, <2>1
    <3>3. wcs' = wcs \o SubSeq(cq, 1, 1) /\ cq' = SubSeq(cq, 2, 1)
      BY <1>6, <2>1
    <3> QED BY <1>1, <2>1, <3>1, <3>2, <3>3
  <2>3. wcs' # << >>
    BY <2>2
  <2>4. pc' \in {"poll", "rearm"}
    BY <1>6
  <2>5. TypeOK'
    BY <1>2, <1>6, <2>2, <2>4 DEF LoopInv, TypeOK, Statuses
  <2>6. OneReceiveOut'
    BY <1>2, <2>1, <2>2 DEF OneReceiveOut
  <2>7. InBatch("cm")' => cm_events' # << >>
    BY <1>1, <1>2, <1>6 DEF InBatch
  <2> QED BY <1>1, <1>2, <1>6, <2>3, <2>4, <2>5, <2>6, <2>7 DEF LoopInv, Exits
<1> QED BY <1>4, <1>5, <1>6 DEF Poll

(* The queue is armed, or arming fails, while the one receive is with the  *)
(* loop.                                                                   *)
LEMMA RearmInv ==
  ASSUME LoopInv, Rearm
  PROVE  LoopInv'
<1>1. /\ pc = "rearm" /\ batch # << >> /\ Head(batch) = "cc"
      /\ chan = 0 /\ wcs # << >>
      /\ InBatch("cm") => cm_events # << >>
      /\ UNCHANGED <<cm_events, client, cq, posted, chan, qp, sent, other>>
  BY DEF Rearm, LoopInv, Exits, env_vars
<1>2. /\ notify' \in {"armed", "failed"} /\ pc' = "refill"
      /\ UNCHANGED <<batch, wcs>>
  BY DEF Rearm, ibv_req_notify_cq
<1>3. TypeOK' /\ OneReceiveOut'
  BY <1>1, <1>2 DEF LoopInv, TypeOK, OneReceiveOut
<1>4. InBatch("cm")' => cm_events' # << >>
  BY <1>1, <1>2 DEF InBatch
<1> QED BY <1>1, <1>2, <1>3, <1>4 DEF LoopInv, Exits

(* The receive goes back to the adapter, or completes at once on a broken  *)
(* connection: this raises an event if the queue is armed.                 *)
LEMMA RefillInv ==
  ASSUME LoopInv, Refill
  PROVE  LoopInv'
<1>1. /\ pc = "refill" /\ wcs # << >> /\ batch # << >> /\ Head(batch) = "cc"
      /\ notify \in {"armed", "failed"} /\ chan = 0
      /\ InBatch("cm") => cm_events # << >>
      /\ UNCHANGED <<cm_events, client, qp, sent, other>>
      /\ wcs \in Seq(Statuses) /\ cq \in Seq(Statuses) /\ posted \in Nat
      /\ posted + Len(cq) + Len(wcs) <= 1
  BY DEF Refill, LoopInv, TypeOK, OneReceiveOut, Exits, env_vars, Statuses
<1>2. Len(wcs) = 1 /\ cq = << >> /\ posted = 0
  <2>1. Len(cq) \in Nat /\ Len(wcs) \in Nat /\ Len(wcs) # 0
        /\ (cq = << >> <=> Len(cq) = 0)
    BY <1>1, EmptyLen
  <2> QED BY <1>1, <2>1, AtMostOne
<1>3. CASE Exit("exit1") /\ UNCHANGED nic_vars
  BY <1>1, <1>3, EarlyReturn DEF env_vars
<1>4. CASE /\ wcs' = TakesCompletion(wcs)
           /\ IF qp = "err" THEN Completed(<<"ERROR">>, posted)
                            ELSE Completed(<< >>, posted + 1)
           /\ UNCHANGED <<pc, batch>>
  <2>1. wcs' = << >>
    BY <1>1, <1>2, <1>4 DEF TakesCompletion
  <2>2. InBatch("cm")' => cm_events' # << >>
    BY <1>1, <1>4 DEF InBatch
  <2>3. CASE Completed(<<"ERROR">>, posted)
    <3>1. /\ cq' = <<"ERROR">> /\ posted' = 0
          /\ \/ notify' = "off" /\ chan' = 1
             \/ notify' = "failed" /\ chan' = 0
      BY <1>1, <1>2, <2>3 DEF Completed
    <3>2. TypeOK' /\ OneReceiveOut'
      BY <1>1, <1>4, <2>1, <3>1 DEF LoopInv, TypeOK, OneReceiveOut
    <3> QED BY <1>1, <1>4, <2>1, <2>2, <3>1, <3>2 DEF LoopInv, Synced, Exits
  <2>4. CASE Completed(<< >>, posted + 1)
    <3>1. /\ cq' = << >> /\ posted' = 1
          /\ notify' \in {"armed", "failed"} /\ chan' = 0
      BY <1>1, <1>2, <2>4 DEF Completed
    <3>2. TypeOK' /\ OneReceiveOut'
      BY <1>1, <1>4, <2>1, <3>1 DEF LoopInv, TypeOK, OneReceiveOut
    <3> QED BY <1>1, <1>4, <2>1, <2>2, <3>1, <3>2 DEF LoopInv, Synced, Exits
  <2> QED BY <1>4, <2>3, <2>4
<1> QED BY <1>3, <1>4 DEF Refill

(* The end of the loop over the completions.                               *)
LEMMA RefillEndInv ==
  ASSUME LoopInv, RefillEnd
  PROVE  LoopInv'
<1>1. /\ pc = "refill" /\ wcs = << >> /\ batch # << >> /\ Head(batch) = "cc"
      /\ Synced /\ (InBatch("cm") => cm_events # << >>) /\ NextFd
      /\ UNCHANGED <<wcs, cm_events, client, cq, posted, notify, chan, qp, sent,
                     other>>
      /\ TypeOK /\ OneReceiveOut
  BY DEF RefillEnd, LoopInv, Exits, nic_vars, env_vars
<1>2. wcs' = << >> /\ OneReceiveOut' /\ Synced'
  BY <1>1 DEF OneReceiveOut, Synced
<1>3. cm_events' \in Seq({"DISCONNECTED", "OTHER"})
  BY <1>1 DEF TypeOK
<1> QED BY <1>1, <1>2, <1>3, NextFdInv

(* A completion that comes while a receive is posted finds the queue armed *)
(* or the loop about to look at it.                                        *)
LEMMA CompletionInv ==
  ASSUME LoopInv, pc \notin Exits, posted = 1,
         NEW status \in Statuses, Completed(<<status>>, 0),
         UNCHANGED <<pc, batch, wcs, cm_events, client>>,
         qp' \in {"rts", "err"}, sent' \in Nat, other' = other
  PROVE  LoopInv'
<1>1. /\ cq \in Seq(Statuses) /\ wcs \in Seq(Statuses)
      /\ posted + Len(cq) + Len(wcs) <= 1
      /\ chan \in Nat
  BY DEF LoopInv, TypeOK, OneReceiveOut, Statuses
<1>2. cq = << >> /\ wcs = << >>
  BY <1>1
<1>3. pc \in {"epoll", "dispatch", "refill"} /\ Synced
  BY <1>2 DEF LoopInv, TypeOK, Exits
<1>4. /\ cq' = <<status>> /\ posted' = 0
      /\ \/ notify' = "off" /\ chan' = 1
         \/ notify' = "failed" /\ chan' = 0
  BY <1>2, <1>3 DEF Completed, Synced
<1>5. TypeOK' /\ OneReceiveOut'
  BY <1>2, <1>4 DEF LoopInv, TypeOK, OneReceiveOut, Statuses
<1>6. Synced' /\ cq' # << >> /\ (chan = 1 => chan' = 1)
  BY <1>2, <1>3, <1>4 DEF Synced
<1>7. (InBatch("cm")' => InBatch("cm")) /\ (InBatch("cc")' => InBatch("cc"))
  BY DEF InBatch
<1>8. pc' = "dispatch" => /\ batch' # << >> /\ wcs' = << >> /\ Synced'
                          /\ InBatch("cc")' => chan' = 1
  BY <1>2, <1>6, <1>7 DEF LoopInv
<1>9. pc' # "epoll" /\ pc' \notin Exits /\ InBatch("cm")' => cm_events' # << >>
  BY <1>7 DEF LoopInv
<1> QED BY <1>2, <1>3, <1>5, <1>6, <1>8, <1>9 DEF LoopInv, Exits

(* A message arrives, or the connection breaks.                            *)
LEMMA AdapterInv ==
  ASSUME LoopInv, pc \notin Exits, Receive \/ Break
  PROVE  LoopInv'
<1>1. posted \in Nat /\ posted <= 1 /\ sent \in Nat
  <2>1. Len(cq) \in Nat /\ Len(wcs) \in Nat
    BY DEF LoopInv, TypeOK
  <2> QED BY <2>1 DEF LoopInv, TypeOK, OneReceiveOut
<1>2. CASE Receive
  <2>1. posted = 1 /\ posted - 1 = 0
    BY <1>1, <1>2 DEF Receive
  <2>2. Completed(<<"SUCCESS">>, 0)
    BY <1>2, <2>1 DEF Receive
  <2> QED BY <1>1, <1>2, <2>1, <2>2, CompletionInv DEF Receive, loop_vars,
            Statuses, LoopInv, TypeOK
<1>3. CASE Break /\ posted = 1
  <2>1. [i \in 1..posted |-> "ERROR"] = <<"ERROR">>
    BY <1>3
  <2>2. Completed(<<"ERROR">>, 0)
    BY <1>3, <2>1 DEF Break
  <2> QED BY <1>1, <1>3, <2>2, CompletionInv DEF Break, loop_vars, Statuses
<1>4. CASE Break /\ posted = 0
  <2>1. [i \in 1..posted |-> "ERROR"] = << >>
    BY <1>4
  <2>2. Completed(<< >>, 0)
    BY <1>4, <2>1 DEF Break
  <2>3. /\ UNCHANGED <<pc, batch, wcs, cm_events, client, cq, posted, notify,
                       chan, sent, other>>
        /\ qp' = "err"
    <3>1. cq \o << >> = cq
      BY DEF LoopInv, TypeOK
    <3> QED BY <1>4, <2>2, <3>1 DEF Break, Completed, loop_vars
  <2> QED BY <2>3 DEF LoopInv, TypeOK, OneReceiveOut, Synced, InBatch
<1> QED BY <1>1, <1>2, <1>3, <1>4

(* CM events only make the CM channel longer.                              *)
LEMMA CmArrivalInv ==
  ASSUME LoopInv, Disconnect \/ OtherEvent
  PROVE  LoopInv'
<1>1. PICK ev \in {"DISCONNECTED", "OTHER"} : cm_events' = Append(cm_events, ev)
  BY DEF Disconnect, OtherEvent
<1>2. cm_events' \in Seq({"DISCONNECTED", "OTHER"}) /\ cm_events' # << >>
  BY <1>1 DEF LoopInv, TypeOK
<1>3. /\ UNCHANGED <<pc, batch, wcs, cq, posted, notify, chan, qp, sent>>
      /\ client' \in {"up", "gone"} /\ other' \in Nat
  BY DEF Disconnect, OtherEvent, loop_vars, nic_vars, LoopInv, TypeOK
<1> QED BY <1>2, <1>3 DEF LoopInv, TypeOK, OneReceiveOut, Synced, InBatch

(* Every step keeps the invariant.                                         *)
LEMMA NextInv == LoopInv /\ [Next]_vars => LoopInv'
<1> SUFFICES ASSUME LoopInv, [Next]_vars PROVE LoopInv'
  OBVIOUS
<1>1. CASE UNCHANGED vars
  BY <1>1 DEF vars, LoopInv, TypeOK, OneReceiveOut, Synced, InBatch
<1>2. CASE Next
  BY <1>2, EpollWaitInv, CmEventInv, GetCqEventInv, PollInv, RearmInv, RefillInv,
     RefillEndInv, AdapterInv, CmArrivalInv DEF Next, LoopStep
<1> QED BY <1>1, <1>2

-----------------------------------------------------------------------------
(* The invariant holds throughout.                                         *)
THEOREM LoopInvHolds == Spec => []LoopInv
<1>1. Init => LoopInv
  BY InitInv
<1>2. LoopInv /\ [Next]_vars => LoopInv'
  BY NextInv
<1> QED BY <1>1, <1>2, PTL DEF Spec

(* While every ibv_req_notify_cq has succeeded no wakeup of the memory     *)
(* node's loop is lost, and none is ever false, for any MAX_POLL, message  *)
(* count and interleaving with the adapter.                                *)
THEOREM WakeupsExact == Spec => []EventPerCompletion
<1>1. LoopInv => EventPerCompletion
  BY DEF LoopInv, EventPerCompletion, Synced
<1> QED BY <1>1, LoopInvHolds, PTL

(* The one receive buffer is never in two hands.                           *)
THEOREM BufferInOneHand == Spec => []OneReceiveOut
<1>1. LoopInv => OneReceiveOut
  BY DEF LoopInv
<1> QED BY <1>1, LoopInvHolds, PTL
=============================================================================
