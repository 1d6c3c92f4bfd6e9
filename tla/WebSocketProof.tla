---------------------------- MODULE WebSocketProof ----------------------------
(***************************************************************************)
(* Proofs about WebSocket: type correctness, that a sleeping task is armed *)
(* for everything but its idle timers, and that the connection implements  *)
(* SubscriptionProtocol, for all ids, protocols, timers and bounds.        *)
(***************************************************************************)
EXTENDS WebSocket, TLAPS

\* A new connection is well typed.
LEMMA InitTyped == Init => TypeOK
  <1> SUFFICES ASSUME Init PROVE TypeOK
    OBVIOUS
  <1>1. inbox \in Seq(ClientMessages) /\ streams \in [Ids -> {"none", "quiet", "item", "over"}]
    BY DEF Init
  <1>2. wakers \in WakerSet /\ out \in [type : ServerTypes, ids : SUBSET Ids]
    BY DEF Init, WakerSet, Msg, ServerTypes
  <1> QED
    BY <1>1, <1>2 DEF Init, TypeOK, FutureStates

\* What a message carries: the subscription ids of a start or a stop, nothing otherwise.
LEMMA MessagesTyped ==
  ASSUME NEW m \in ClientMessages
  PROVE  /\ m.ids \in SUBSET Ids
         /\ m.type \in {"start", "stop"} => \E i \in Ids : m.ids = {i}
  BY DEF ClientMessages, Msg

\* The top of poll_next.
LEMMA PollTopTyped == TypeOK /\ PollTop => TypeOK'
  <1> SUFFICES ASSUME TypeOK, PollTop PROVE TypeOK'
    OBVIOUS
  <1> USE DEF TypeOK, client, timers, futures, waking
  <1>1. CASE PollClosed
    BY <1>1 DEF PollClosed, Goto
  <1>2. CASE PollTimeout
    BY <1>2 DEF PollTimeout, Unregistered, Reject, Emit, Msg, ServerTypes, WakerSet
  <1>3. CASE PollPing
    BY <1>3 DEF PollPing, TimersPolled, ServerPings, ResetTimer, Unregistered, Emit, Msg,
                ServerTypes, WakerSet
  <1>4. CASE PollTimers
    BY <1>4 DEF PollTimers, TimersPolled, ResetTimer, Goto, WakerSet, Sources
  <1> QED BY <1>1, <1>2, <1>3, <1>4 DEF PollTop

\* Any message restarts the keepalive timer and may drop streams: the waker set stays well typed.
LEMMA HeardTyped ==
  ASSUME TypeOK, NEW S, Heard(S)
  PROVE  /\ wakers' \in WakerSet
         /\ keepalive' \in IF HasKeepalive THEN {"running", "due"} ELSE {"absent"}
  BY DEF TypeOK, Heard, WakerSet

\* Reading a message leaves the rest in the inbox.
LEMMA ReadTyped ==
  ASSUME TypeOK, NEW type, Read(type)
  PROVE  /\ inbox' \in Seq(ClientMessages) /\ Head(inbox) \in ClientMessages
         /\ Head(inbox).type = type /\ pc = "recv"
         /\ UNCHANGED <<woken, eof, sent, pinger, items>>
  BY DEF TypeOK, Read

\* The loop over the client's messages.
LEMMA RecvTyped == TypeOK /\ Recv => TypeOK'
  <1> SUFFICES ASSUME TypeOK, Recv PROVE TypeOK'
    OBVIOUS
  <1>1. CASE RecvPending \/ RecvEnd
    BY <1>1 DEF RecvPending, RecvEnd, Registered, Goto, TypeOK, client, timers, futures, waking,
                WakerSet, Sources
  <1>2. CASE RecvMalformed
    <2>1. Read("malformed")
      BY <1>2 DEF RecvMalformed
    <2> QED
      BY <1>2, <2>1, ReadTyped DEF RecvMalformed, RejectFrame, Emit, Msg, ServerTypes, TypeOK, futures
  <1>3. CASE RecvInit
    <2>1. Read("connection_init") /\ Heard({})
      BY <1>3 DEF RecvInit
    <2>2. /\ onInit' \in BOOLEAN /\ close' \in BOOLEAN
          /\ initFut' \in FutureStates /\ pc' \in {"tail", "send"}
          /\ UNCHANGED <<waiting, pingFut, data, streams>>
      BY <1>3 DEF RecvInit, Reject, Emit, Goto, FutureStates, TypeOK
    <2>3. out' \in [type : ServerTypes, ids : SUBSET Ids]
      BY <1>3 DEF RecvInit, Reject, Emit, Goto, Msg, ServerTypes, TypeOK
    <2> QED
      BY <2>1, <2>2, <2>3, ReadTyped, HeardTyped DEF TypeOK
  <1>4. CASE RecvStart
    <2>1. Read("start") /\ (Heard(Head(inbox).ids) \/ Heard({}))
      BY <1>4 DEF RecvStart
    <2>2. /\ streams' \in [Ids -> {"none", "quiet", "item", "over"}]
          /\ close' \in BOOLEAN /\ pc' \in {"recv", "send"} /\ UNCHANGED <<waiting, futures>>
      BY <1>4 DEF RecvStart, RejectFrame, Emit, Goto, TypeOK
    <2>3. out' \in [type : ServerTypes, ids : SUBSET Ids]
      BY <1>4 DEF RecvStart, RejectFrame, Emit, Goto, Msg, ServerTypes, TypeOK
    <2> QED
      BY <2>1, <2>2, <2>3, ReadTyped, HeardTyped DEF TypeOK, futures
  <1>5. CASE RecvStop
    <2>1. Read("stop") /\ Heard(Head(inbox).ids)
      BY <1>5 DEF RecvStop
    <2>2. Head(inbox).ids \in SUBSET Ids
      BY <2>1, ReadTyped, MessagesTyped
    <2>3. /\ streams' \in [Ids -> {"none", "quiet", "item", "over"}]
          /\ pc' \in {"recv", "send"} /\ UNCHANGED <<waiting, futures, close>>
          /\ out' \in [type : ServerTypes, ids : SUBSET Ids]
      BY <1>5, <2>2 DEF RecvStop, Emit, Goto, Msg, ServerTypes, TypeOK
    <2> QED
      BY <2>1, <2>3, ReadTyped, HeardTyped DEF TypeOK, futures
  <1>6. CASE RecvTerminate
    <2>1. Read("connection_terminate") /\ Heard({})
      BY <1>6 DEF RecvTerminate
    <2> QED
      BY <1>6, <2>1, ReadTyped, HeardTyped DEF RecvTerminate, Goto, TypeOK, futures
  <1>7. CASE RecvPing
    <2>1. Read("ping") /\ Heard({})
      BY <1>7 DEF RecvPing
    <2> QED
      BY <1>7, <2>1, ReadTyped, HeardTyped DEF RecvPing, Goto, FutureStates, TypeOK
  <1>8. CASE RecvPong
    <2>1. Read("pong")
      BY <1>8 DEF RecvPong
    <2> QED
      BY <1>8, <2>1, ReadTyped
      DEF RecvPong, ResetTimer, Unregistered, Goto, WakerSet, TypeOK, futures
  <1> QED
    BY <1>1, <1>2, <1>3, <1>4, <1>5, <1>6, <1>7, <1>8 DEF Recv

\* The callbacks' futures and the streams.
LEMMA PollTailTyped == TypeOK /\ PollTail => TypeOK'
  <1> SUFFICES ASSUME TypeOK, PollTail PROVE TypeOK'
    OBVIOUS
  <1> USE DEF TypeOK, client, timers, futures
  <1>1. CASE PollInitFut
    <2>1. wakers' \in WakerSet
      BY <1>1 DEF PollInitFut, Registered, Unregistered, WakerSet, Sources
    <2>2. out' \in [type : ServerTypes, ids : SUBSET Ids]
      BY <1>1 DEF PollInitFut, Reject, Emit, Goto, Msg, ServerTypes
    <2>3. data' \in BOOLEAN /\ close' \in BOOLEAN
      BY <1>1 DEF PollInitFut, Reject
    <2> QED
      BY <1>1, <2>1, <2>2, <2>3 DEF PollInitFut, ResetTimer, Reject, Emit, Goto, FutureStates
  <1>2. CASE PollPingFut
    <2>1. wakers' \in WakerSet
      BY <1>2 DEF PollPingFut, Registered, WakerSet, Sources
    <2>2. out' \in [type : ServerTypes, ids : SUBSET Ids]
      BY <1>2 DEF PollPingFut, Reject, Emit, Goto, Msg, ServerTypes
    <2>3. close' \in BOOLEAN
      BY <1>2 DEF PollPingFut, Reject
    <2> QED
      BY <1>2, <2>1, <2>2, <2>3 DEF PollPingFut, Reject, Emit, Goto, FutureStates
  <1>3. ASSUME NEW i \in Ids, NEW P \in SUBSET Quiet, PollReadyStream(i, P) PROVE TypeOK'
    BY <1>3 DEF PollReadyStream, Quiet, Emit, Msg, ServerTypes, WakerSet
  <1>4. CASE PollNoStream
    BY <1>4 DEF PollNoStream, Quiet, Goto, WakerSet
  <1> QED BY <1>1, <1>2, <1>3, <1>4 DEF PollTail

\* A source that calls the waker.
LEMMA FireTyped ==
  ASSUME TypeOK, NEW source, Fire(source)
  PROVE  /\ woken' \in BOOLEAN /\ wakers' \in WakerSet
         /\ UNCHANGED <<pc, waiting, onInit, data, streams, close, out, items>>
  <1>1. woken' \in BOOLEAN
    BY Zenon DEF Fire
  <1> QED
    BY <1>1 DEF Fire, TypeOK, WakerSet

\* The polling task and its sources.
LEMMA EnvironmentTyped == TypeOK /\ (Environment \/ Wake \/ SinkAccepts) => TypeOK'
  <1> SUFFICES ASSUME TypeOK, Environment \/ Wake \/ SinkAccepts PROVE TypeOK'
    OBVIOUS
  <1> USE DEF TypeOK, client, timers, futures, waking
  <1>1. CASE Wake \/ SinkAccepts \/ SinkFails
    BY <1>1 DEF Wake, SinkAccepts, SinkFails, Goto
  <1>2. ASSUME NEW m \in ClientMessages, ClientSends(m) PROVE TypeOK'
    <2>1. Fire("stream") /\ inbox' \in Seq(ClientMessages) /\ sent' \in Nat
      BY <1>2 DEF ClientSends
    <2>2. UNCHANGED <<eof, timers, initFut, pingFut>>
      BY <1>2 DEF ClientSends
    <2> QED BY <2>1, <2>2, FireTyped
  <1>3. CASE ClientCloses
    <2>1. Fire("stream") /\ eof' = TRUE /\ UNCHANGED <<inbox, sent, timers, initFut, pingFut>>
      BY <1>3 DEF ClientCloses
    <2> QED BY <2>1, FireTyped
  <1>4. CASE KeepaliveExpires \/ PingerExpires
    <2>1. PICK source : Fire(source)
      BY <1>4 DEF KeepaliveExpires, PingerExpires
    <2>2. /\ keepalive' \in IF HasKeepalive THEN {"running", "due"} ELSE {"absent"}
          /\ pinger' \in IF HasPing THEN {"running", "due"} ELSE {"absent"}
          /\ UNCHANGED <<inbox, eof, sent, initFut, pingFut>>
      BY <1>4 DEF KeepaliveExpires, PingerExpires
    <2> QED BY <2>1, <2>2, FireTyped
  <1>5. CASE InitFutDone \/ PingFutDone
    <2>1. PICK source : Fire(source)
      BY <1>5 DEF InitFutDone, PingFutDone
    <2>2. /\ initFut' \in FutureStates /\ pingFut' \in FutureStates
          /\ UNCHANGED <<inbox, eof, sent, keepalive, pinger>>
      BY <1>5 DEF InitFutDone, PingFutDone, FutureStates
    <2> QED BY <2>1, <2>2, FireTyped
  <1>6. ASSUME NEW i \in Ids, StreamReady(i) PROVE TypeOK'
    <2>1. woken' \in BOOLEAN
      BY <1>6, Zenon DEF StreamReady
    <2> QED BY <1>6, <2>1 DEF StreamReady, WakerSet
  <1> QED BY <1>1, <1>2, <1>3, <1>4, <1>5, <1>6 DEF Environment

\* Every step of the connection keeps the state well typed.
LEMMA NextTyped == TypeOK /\ [Next]_vars => TypeOK'
  <1> SUFFICES ASSUME TypeOK, [Next]_vars PROVE TypeOK'
    OBVIOUS
  <1>1. CASE UNCHANGED vars
    BY <1>1 DEF vars, client, timers, futures, waking, TypeOK
  <1> QED
    BY <1>1, PollTopTyped, RecvTyped, PollTailTyped, EnvironmentTyped DEF Next, Server

(***************************************************************************)
(* Every variable of the connection stays in its type: no timer appears    *)
(* that was not configured, no message goes to an id outside Ids.          *)
(***************************************************************************)
THEOREM TypeCorrect == Spec => []TypeOK
  BY InitTyped, NextTyped, PTL DEF Spec

-----------------------------------------------------------------------------
(***************************************************************************)
(* The inductive invariant, one lemma for each of its conjuncts.           *)
(***************************************************************************)

\* It holds of a new connection.
LEMMA InitIInv == Init => IInv
  BY DEF Init, IInv, InOrder, ClientArmed, CallbackArmed, DeadlinePolled

\* The sources change neither the phase of the connection nor its subscriptions.
LEMMA InOrderKept ==
  ASSUME TypeOK, InOrder, Next
  PROVE  InOrder'
  <1> USE DEF InOrder, TypeOK, client, timers, futures, waking
  <1>1. CASE PollTop
    BY <1>1 DEF PollTop, PollClosed, PollTimeout, PollPing, PollTimers, TimersPolled, Reject, Emit, Goto
  <1>2. CASE RecvPending \/ RecvEnd \/ RecvMalformed \/ RecvInit \/ RecvTerminate
    BY <1>2 DEF RecvPending, RecvEnd, RecvMalformed, RecvInit, RecvTerminate, Read, Reject,
                RejectFrame, Emit, Goto
  <1>3. CASE RecvStart
    BY <1>3 DEF RecvStart, Read, RejectFrame, Emit, Goto
  <1>4. CASE RecvStop \/ RecvPing \/ RecvPong
    BY <1>4 DEF RecvStop, RecvPing, RecvPong, Read, Emit, Goto
  <1>5. CASE PollInitFut
    BY <1>5 DEF PollInitFut, Reject, Emit, Goto
  <1>6. CASE PollPingFut \/ PollNoStream
    BY <1>6 DEF PollPingFut, PollNoStream, Reject, Emit, Goto
  <1>7. ASSUME NEW i \in Ids, NEW P \in SUBSET Quiet, PollReadyStream(i, P) PROVE InOrder'
    BY <1>7 DEF PollReadyStream, Emit
  <1>8. CASE Wake \/ SinkAccepts \/ SinkFails
    BY <1>8 DEF Wake, SinkAccepts, SinkFails, Goto
  <1>9. CASE \/ \E m \in ClientMessages : ClientSends(m)
             \/ ClientCloses \/ KeepaliveExpires \/ PingerExpires \/ InitFutDone \/ PingFutDone
    BY <1>9 DEF ClientSends, ClientCloses, KeepaliveExpires, PingerExpires, InitFutDone,
                PingFutDone, Fire, FutureStates
  <1>10. ASSUME NEW i \in Ids, StreamReady(i) PROVE InOrder'
    BY <1>10 DEF StreamReady
  <1> QED
    BY <1>1, <1>2, <1>3, <1>4, <1>5, <1>6, <1>7, <1>8, <1>9, <1>10
    DEF Next, Server, Recv, PollTail, Environment

\* A message that arrives behind the loop finds the waker the loop has left.
LEMMA ClientArmedKept ==
  ASSUME TypeOK, ClientArmed, Next
  PROVE  ClientArmed'
  <1> USE DEF ClientArmed, TypeOK, client, timers, futures, waking
  <1>1. CASE PollTop
    BY <1>1 DEF PollTop, PollClosed, PollTimeout, PollPing, PollTimers, TimersPolled, Reject, Emit, Goto
  <1>2. CASE RecvPending \/ RecvEnd \/ RecvMalformed \/ RecvInit \/ RecvTerminate
    BY <1>2 DEF RecvPending, RecvEnd, RecvMalformed, RecvInit, RecvTerminate, Read, Reject,
                RejectFrame, Registered, Emit, Goto, WakerSet
  <1>3. CASE RecvStart \/ RecvStop \/ RecvPing \/ RecvPong
    BY <1>3 DEF RecvStart, RecvStop, RecvPing, RecvPong, Read, RejectFrame, Emit, Goto
  <1>4. CASE PollInitFut \/ PollPingFut
    BY <1>4 DEF PollInitFut, PollPingFut, Registered, Reject, Emit, Goto, WakerSet
  <1>5. CASE PollNoStream
    BY <1>5 DEF PollNoStream, Goto, WakerSet
  <1>6. ASSUME NEW i \in Ids, NEW P \in SUBSET Quiet, PollReadyStream(i, P) PROVE ClientArmed'
    BY <1>6 DEF PollReadyStream, Emit
  <1>7. CASE Wake \/ SinkAccepts \/ SinkFails
    BY <1>7 DEF Wake, SinkAccepts, SinkFails, Goto
  <1>8. CASE ClientCloses \/ \E m \in ClientMessages : ClientSends(m)
    BY <1>8 DEF ClientCloses, ClientSends, Fire
  <1>9. CASE KeepaliveExpires \/ PingerExpires \/ InitFutDone \/ PingFutDone
    BY <1>9 DEF KeepaliveExpires, PingerExpires, InitFutDone, PingFutDone, Fire, WakerSet
  <1>10. ASSUME NEW i \in Ids, StreamReady(i) PROVE ClientArmed'
    BY <1>10 DEF StreamReady, WakerSet
  <1> QED
    BY <1>1, <1>2, <1>3, <1>4, <1>5, <1>6, <1>7, <1>8, <1>9, <1>10
    DEF Next, Server, Recv, PollTail, Environment

\* poll_next returns Pending only after it has polled the future or all streams.
LEMMA CallbackArmedKept ==
  ASSUME TypeOK, CallbackArmed, Next
  PROVE  CallbackArmed'
  <1> USE DEF CallbackArmed, TypeOK, client, timers, futures, waking
  <1>1. CASE PollTop \/ Recv \/ Wake \/ SinkAccepts \/ SinkFails
    <2>1. pc' # "idle"
      BY <1>1 DEF PollTop, PollClosed, PollTimeout, PollPing, PollTimers, Recv, RecvPending, RecvEnd,
                  RecvMalformed, RecvInit, RecvStart, RecvStop, RecvTerminate, RecvPing, RecvPong,
                  Wake, SinkAccepts, SinkFails, Reject, RejectFrame, Emit, Goto
    <2> QED BY <2>1
  <1>2. CASE PollInitFut \/ PollPingFut
    BY <1>2 DEF PollInitFut, PollPingFut, Registered, Reject, Emit, Goto, WakerSet
  <1>3. CASE PollNoStream
    BY <1>3 DEF PollNoStream, Quiet, Goto, WakerSet
  <1>4. ASSUME NEW i \in Ids, NEW P \in SUBSET Quiet, PollReadyStream(i, P) PROVE CallbackArmed'
    BY <1>4 DEF PollReadyStream, Emit
  <1>5. CASE \/ \E m \in ClientMessages : ClientSends(m)
             \/ ClientCloses \/ KeepaliveExpires \/ PingerExpires
    BY <1>5 DEF ClientSends, ClientCloses, KeepaliveExpires, PingerExpires, Fire, WakerSet
  <1>6. CASE InitFutDone \/ PingFutDone
    BY <1>6 DEF InitFutDone, PingFutDone, Fire, WakerSet
  <1>7. ASSUME NEW i \in Ids, StreamReady(i) PROVE CallbackArmed'
    BY <1>7 DEF StreamReady, WakerSet
  <1> QED
    BY <1>1, <1>2, <1>3, <1>4, <1>5, <1>6, <1>7
    DEF Next, Server, PollTail, Environment

\* Only a Pong or the deadline itself ends the wait, and only a reset while none is due re-arms the timer.
LEMMA DeadlinePolledKept ==
  ASSUME TypeOK, DeadlinePolled, Next
  PROVE  DeadlinePolled'
  <1> USE DEF DeadlinePolled, TypeOK, client, timers, futures, waking
  <1>1. CASE PollClosed \/ PollTimeout \/ PollPing
    BY <1>1 DEF PollClosed, PollTimeout, PollPing, TimersPolled, Reject, Emit, Goto
  <1>2. CASE PollTimers
    BY <1>2 DEF PollTimers, TimersPolled, DeadlineCounts, ResetTimer, Goto, WakerSet
  <1>3. CASE RecvPending \/ RecvEnd \/ RecvMalformed
    BY <1>3 DEF RecvPending, RecvEnd, RecvMalformed, Read, RejectFrame, Registered, Emit, Goto, WakerSet
  <1>4. ASSUME NEW S, Heard(S), waiting PROVE UNCHANGED keepalive /\ wakers'.fixed = wakers.fixed
    BY <1>4 DEF Heard, WakerSet
  <1>5. CASE RecvInit \/ RecvStart \/ RecvStop \/ RecvTerminate \/ RecvPing
    <2>1. /\ pc = "recv" /\ UNCHANGED <<woken, waiting>>
          /\ \E S : Heard(S)
      BY <1>5 DEF RecvInit, RecvStart, RecvStop, RecvTerminate, RecvPing, Read
    <2> QED BY <1>4, <2>1
  <1>6. CASE RecvPong
    BY <1>6 DEF RecvPong
  <1>7. CASE PollInitFut \/ PollPingFut
    BY <1>7 DEF PollInitFut, PollPingFut, Registered, Unregistered, Reject, Emit, Goto, WakerSet
  <1>8. CASE PollNoStream
    BY <1>8 DEF PollNoStream, Goto, WakerSet
  <1>9. ASSUME NEW i \in Ids, NEW P \in SUBSET Quiet, PollReadyStream(i, P) PROVE DeadlinePolled'
    BY <1>9 DEF PollReadyStream, Emit
  <1>10. CASE Wake \/ SinkAccepts \/ SinkFails
    BY <1>10 DEF Wake, SinkAccepts, SinkFails, Goto
  <1>11. CASE \/ \E m \in ClientMessages : ClientSends(m)
              \/ ClientCloses \/ PingerExpires \/ InitFutDone \/ PingFutDone
    BY <1>11 DEF ClientSends, ClientCloses, PingerExpires, InitFutDone, PingFutDone, Fire, WakerSet
  <1>12. CASE KeepaliveExpires
    BY <1>12 DEF KeepaliveExpires, Fire
  <1>13. ASSUME NEW i \in Ids, StreamReady(i) PROVE DeadlinePolled'
    BY <1>13 DEF StreamReady, WakerSet
  <1> QED
    BY <1>1, <1>2, <1>3, <1>5, <1>6, <1>7, <1>8, <1>9, <1>10, <1>11, <1>12, <1>13
    DEF Next, Server, PollTop, Recv, PollTail, Environment

(***************************************************************************)
(* The inductive invariant holds in every execution.                       *)
(***************************************************************************)
THEOREM Invariance == Spec => [](TypeOK /\ IInv)
  <1>1. TypeOK /\ IInv /\ [Next]_vars => IInv'
    <2> SUFFICES ASSUME TypeOK, IInv, [Next]_vars PROVE IInv'
      OBVIOUS
    <2>1. CASE UNCHANGED vars
      BY <2>1 DEF vars, client, timers, futures, waking, IInv, InOrder, ClientArmed, CallbackArmed,
                  DeadlinePolled
    <2>2. CASE Next
      BY <2>2, InOrderKept, ClientArmedKept, CallbackArmedKept, DeadlinePolledKept DEF IInv
    <2> QED BY <2>1, <2>2
  <1> QED
    BY <1>1, InitTyped, InitIInv, NextTyped, PTL DEF Spec

(***************************************************************************)
(* The task that polls the connection never sleeps through a message, the  *)
(* result of a callback or an item of a subscription.                      *)
(***************************************************************************)
THEOREM NothingIsSleptThrough == Spec => []NoLostWakeup
  <1>1. TypeOK /\ IInv => NoLostWakeup
    BY DEF IInv, ClientArmed, CallbackArmed, NoLostWakeup
  <1> QED
    BY <1>1, Invariance, PTL

(***************************************************************************)
(* While a Pong is awaited the task is armed for its deadline.             *)
(***************************************************************************)
THEOREM DeadlineStaysArmed == Spec => []PongDeadlineArmed
  <1>1. TypeOK /\ IInv => PongDeadlineArmed
    BY DEF IInv, DeadlinePolled, PongDeadlineArmed
  <1> QED
    BY <1>1, Invariance, PTL

-----------------------------------------------------------------------------
(***************************************************************************)
(* The refinement of SubscriptionProtocol: what each kind of step is for   *)
(* the client, then every step of the connection.                          *)
(***************************************************************************)

\* A step without a message, a phase or a subscription is invisible.
LEMMA Invisible ==
  ASSUME UNCHANGED <<close, data, out, Active>>, pc' = "ended" <=> pc = "ended"
  PROVE  UNCHANGED Client!vars
  BY DEF Client!vars, Phase

\* The connection is dropped.
LEMMA Disconnects ==
  ASSUME pc # "ended", pc' = "ended", UNCHANGED <<out, Active>>
  PROVE  Client!Disconnect
  <1>1. Phase # "closed" /\ Phase' = "closed"
    BY DEF Phase
  <1> QED BY <1>1 DEF Client!Disconnect

\* An open connection is closed with a last message.
LEMMA Refuses ==
  ASSUME pc # "ended", ~close, close' = TRUE, UNCHANGED Active, Reject \/ RejectFrame
  PROVE  Client!Refuse
  <1>1. Phase \in {"connecting", "ready"} /\ Phase' = "closing"
    BY DEF Phase, Reject, RejectFrame, Emit
  <1>2. \E t \in {"close", "connection_error"} : Client!Says(t, {})
    BY DEF Client!Says, Reject, RejectFrame, Emit, Msg
  <1> QED BY <1>1, <1>2 DEF Client!Refuse

\* A Ping or a Pong of the server.
LEMMA KeepsAlive ==
  ASSUME pc # "ended", ~close, UNCHANGED <<close, data, Active>>,
         NEW t \in {"ping", "pong"}, Emit(Msg(t, {}))
  PROVE  Client!KeepAlive
  <1>1. Phase \in {"connecting", "ready"} /\ Phase' = Phase
    BY DEF Phase, Emit
  <1> QED BY <1>1 DEF Client!KeepAlive, Client!Says, Emit, Msg

\* The top of poll_next.
LEMMA PollTopRefines ==
  ASSUME TypeOK, IInv, PollTop
  PROVE  [Client!Next]_Client!vars
  <1>1. UNCHANGED Active
    BY DEF PollTop, PollClosed, PollTimeout, PollPing, PollTimers, Active
  <1>2. CASE PollClosed
    BY <1>1, <1>2, Disconnects DEF PollClosed, Goto, Client!Next
  <1>3. CASE PollTimeout
    BY <1>1, <1>3, Refuses DEF PollTimeout, Reject, Client!Next
  <1>4. CASE PollPing
    BY <1>1, <1>4, KeepsAlive DEF PollPing, TimersPolled, futures, Client!Next
  <1>5. CASE PollTimers
    BY <1>1, <1>5, Invisible DEF PollTimers, TimersPolled, Goto, futures
  <1> QED BY <1>2, <1>3, <1>4, <1>5 DEF PollTop

\* A start of the client: the subscription becomes, or stays, active.
LEMMA StartRefines ==
  ASSUME TypeOK, IInv, RecvStart
  PROVE  [Client!Next]_Client!vars
  <1>1. Read("start") /\ pc = "recv" /\ ~close
    BY DEF RecvStart, Read, IInv, InOrder
  <1>2. PICK i \in Ids : Head(inbox).ids = {i}
    BY <1>1, ReadTyped, MessagesTyped
  <1>3. CASE data
    <2>1. /\ streams' = [j \in Ids |-> IF j = i THEN "quiet" ELSE streams[j]]
          /\ pc' = "recv" /\ UNCHANGED <<close, out, data>>
      BY <1>2, <1>3 DEF RecvStart, Goto, futures
    <2>2. Active' = Active \cup {i}
      BY <2>1 DEF Active
    <2>3. Phase = "ready" /\ Phase' = "ready"
      BY <1>1, <1>3, <2>1 DEF Phase
    <2>4. Client!Subscribe(i)
      BY <2>1, <2>2, <2>3 DEF Client!Subscribe
    <2> QED BY <2>4 DEF Client!Next
  <1>4. CASE ~data
    <2>1. RejectFrame /\ UNCHANGED Active
      BY <1>4 DEF RecvStart, Active
    <2> QED BY <1>1, <2>1, Refuses DEF RejectFrame, Client!Next
  <1> QED BY <1>3, <1>4

\* A subscription of an open connection is dropped with a completion.
LEMMA Completes ==
  ASSUME IInv, pc # "ended", ~close, NEW i \in Ids, streams[i] # "none",
         UNCHANGED <<close, data>>, Active' = Active \ {i}, Emit(Msg("complete", {i}))
  PROVE  Client!Complete(i)
  <1>1. data /\ i \in Active
    BY DEF IInv, InOrder, Active
  <1>2. Phase = "ready" /\ Phase' = "ready"
    BY <1>1 DEF Phase, Emit
  <1> QED BY <1>1, <1>2 DEF Client!Complete, Client!Says, Emit, Msg

\* A stop of the client: an active subscription completes.
LEMMA StopRefines ==
  ASSUME TypeOK, IInv, RecvStop
  PROVE  [Client!Next]_Client!vars
  <1>1. Read("stop") /\ pc = "recv" /\ ~close /\ UNCHANGED <<close, data>>
    BY DEF RecvStop, Read, IInv, InOrder, futures
  <1>2. PICK i \in Ids : Head(inbox).ids = {i}
    BY <1>1, ReadTyped, MessagesTyped
  <1>3. streams' = [j \in Ids |-> IF j = i THEN "none" ELSE streams[j]]
    BY <1>2 DEF RecvStop
  <1>4. CASE streams[i] # "none"
    <2>1. Emit(Msg("complete", {i}))
      BY <1>2, <1>4 DEF RecvStop
    <2>2. Active' = Active \ {i}
      BY <1>3 DEF Active
    <2>3. Client!Complete(i)
      BY <1>1, <1>4, <2>1, <2>2, Completes
    <2> QED BY <2>3 DEF Client!Next
  <1>5. CASE streams[i] = "none"
    <2>1. Goto("recv")
      BY <1>2, <1>5 DEF RecvStop
    <2>2. UNCHANGED Active
      BY <1>3, <1>5 DEF Active
    <2> QED BY <1>1, <2>1, <2>2, Invisible DEF Goto
  <1> QED BY <1>4, <1>5

\* The other messages.
LEMMA RecvRefines ==
  ASSUME TypeOK, IInv, Recv
  PROVE  [Client!Next]_Client!vars
  <1>1. pc = "recv" /\ ~close
    BY DEF Recv, RecvPending, RecvEnd, RecvMalformed, RecvInit, RecvStart, RecvStop, RecvTerminate,
           RecvPing, RecvPong, Read, IInv, InOrder
  <1>2. CASE RecvPending \/ RecvPing \/ RecvPong
    <2>1. UNCHANGED <<close, data, out, streams>> /\ pc' # "ended"
      BY <1>2 DEF RecvPending, RecvPing, RecvPong, Goto, futures
    <2> QED BY <1>1, <2>1, Invisible DEF Active
  <1>3. CASE RecvEnd \/ RecvTerminate
    <2>1. UNCHANGED <<out, streams>> /\ pc' = "ended"
      BY <1>3 DEF RecvEnd, RecvTerminate, Goto
    <2> QED BY <1>1, <2>1, Disconnects DEF Active, Client!Next
  <1>4. CASE RecvMalformed
    <2>1. RejectFrame /\ UNCHANGED streams
      BY <1>4 DEF RecvMalformed
    <2> QED BY <1>1, <2>1, Refuses DEF Active, RejectFrame, Client!Next
  <1>5. CASE RecvInit
    <2>1. UNCHANGED <<streams, data>>
      BY <1>5 DEF RecvInit
    <2>2. CASE onInit
      BY <1>1, <1>5, <2>1, <2>2, Invisible DEF RecvInit, Goto, Active
    <2>3. CASE ~onInit
      <3>1. Reject
        BY <1>5, <2>3 DEF RecvInit
      <3> QED BY <1>1, <2>1, <3>1, Refuses DEF Active, Reject, Client!Next
    <2> QED BY <2>2, <2>3
  <1> QED
    BY <1>2, <1>3, <1>4, <1>5, StartRefines, StopRefines DEF Recv

\* The callbacks' futures and the streams.
LEMMA PollTailRefines ==
  ASSUME TypeOK, IInv, PollTail
  PROVE  [Client!Next]_Client!vars
  <1>1. pc = "tail" /\ ~close
    BY DEF PollTail, PollInitFut, PollPingFut, PollReadyStream, PollNoStream, IInv, InOrder
  <1>2. CASE PollInitFut
    <2>1. UNCHANGED Active
      BY <1>2 DEF PollInitFut, Active
    <2>2. CASE initFut = "running"
      BY <1>1, <1>2, <2>1, <2>2, Invisible DEF PollInitFut, Goto
    <2>3. CASE initFut = "ok"
      <3>1. ~data /\ data' = TRUE /\ UNCHANGED close /\ Emit(Msg("connection_ack", {}))
        BY <1>2, <2>3 DEF PollInitFut, IInv, InOrder
      <3>2. Phase = "connecting" /\ Phase' = "ready"
        BY <1>1, <3>1 DEF Phase, Emit
      <3>3. Client!Acknowledge
        BY <2>1, <3>1, <3>2 DEF Client!Acknowledge, Client!Says, Emit, Msg
      <3> QED BY <3>3 DEF Client!Next
    <2>4. CASE initFut = "err"
      <3>1. Reject
        BY <1>2, <2>4 DEF PollInitFut
      <3> QED BY <1>1, <2>1, <3>1, Refuses DEF Reject, Client!Next
    <2> QED BY <1>2, <2>2, <2>3, <2>4 DEF PollInitFut
  <1>3. CASE PollPingFut
    <2>1. UNCHANGED <<Active, data>>
      BY <1>3 DEF PollPingFut, Active
    <2>2. CASE pingFut = "running"
      BY <1>1, <1>3, <2>1, <2>2, Invisible DEF PollPingFut, Goto
    <2>3. CASE pingFut = "ok"
      BY <1>1, <1>3, <2>1, <2>3, KeepsAlive DEF PollPingFut, Client!Next
    <2>4. CASE pingFut = "err"
      <3>1. Reject
        BY <1>3, <2>4 DEF PollPingFut
      <3> QED BY <1>1, <2>1, <3>1, Refuses DEF Reject, Client!Next
    <2> QED BY <1>3, <2>2, <2>3, <2>4 DEF PollPingFut
  <1>4. ASSUME NEW i \in Ids, NEW P \in SUBSET Quiet, PollReadyStream(i, P)
        PROVE  Client!Next
    <2>1. UNCHANGED <<close, data>>
      BY <1>4 DEF PollReadyStream, futures
    <2>2. CASE streams[i] = "item"
      <3>1. streams' = [streams EXCEPT ![i] = "quiet"] /\ Emit(Msg("next", {i}))
        BY <1>4, <2>2 DEF PollReadyStream
      <3>2. UNCHANGED Active /\ i \in Active
        BY <2>2, <3>1 DEF Active, TypeOK
      <3>3. Phase = "ready" /\ Phase' = "ready"
        BY <1>1, <2>1, <2>2, <3>1 DEF Phase, Emit, IInv, InOrder
      <3>4. Client!SendNext(i)
        BY <3>1, <3>2, <3>3 DEF Client!SendNext, Client!Says, Emit, Msg
      <3> QED BY <3>4 DEF Client!Next
    <2>3. CASE streams[i] = "over"
      <3>1. streams' = [streams EXCEPT ![i] = "none"] /\ Emit(Msg("complete", {i}))
        BY <1>4, <2>3 DEF PollReadyStream
      <3>2. Active' = Active \ {i}
        BY <3>1 DEF Active, TypeOK
      <3>3. Client!Complete(i)
        BY <1>1, <2>1, <2>3, <3>1, <3>2, Completes
      <3> QED BY <3>3 DEF Client!Next
    <2> QED BY <1>4, <2>2, <2>3 DEF PollReadyStream
  <1>5. CASE PollNoStream
    BY <1>1, <1>5, Invisible DEF PollNoStream, Goto, Active, futures
  <1> QED BY <1>2, <1>3, <1>4, <1>5 DEF PollTail

\* The polling task and the sources: all the client can see of them is a dropped connection.
LEMMA EnvironmentRefines ==
  ASSUME TypeOK, Environment \/ Wake \/ SinkAccepts
  PROVE  [Client!Next]_Client!vars
  <1>1. CASE Wake \/ SinkAccepts
    BY <1>1, Invisible DEF Wake, SinkAccepts, Goto, Active, futures
  <1>2. CASE SinkFails
    BY <1>2, Disconnects DEF SinkFails, Goto, Active, Client!Next
  <1>3. CASE \/ \E m \in ClientMessages : ClientSends(m)
             \/ ClientCloses \/ KeepaliveExpires \/ PingerExpires \/ InitFutDone \/ PingFutDone
    <2>1. UNCHANGED <<pc, close, data, out, streams>>
      BY <1>3 DEF ClientSends, ClientCloses, KeepaliveExpires, PingerExpires, InitFutDone,
                  PingFutDone, Fire
    <2> QED BY <2>1, Invisible DEF Active
  <1>4. ASSUME NEW i \in Ids, StreamReady(i) PROVE UNCHANGED Client!vars
    <2>1. UNCHANGED <<pc, close, data, out>>
      BY <1>4 DEF StreamReady, futures
    <2>2. UNCHANGED Active
      BY <1>4 DEF StreamReady, Active, TypeOK
    <2> QED BY <2>1, <2>2, Invisible
  <1> QED BY <1>1, <1>2, <1>3, <1>4 DEF Environment

(***************************************************************************)
(* Whatever the client, the timers, the callbacks and the streams do, the  *)
(* conversation is one that SubscriptionProtocol allows: one               *)
(* acknowledgement, results and one completion for active subscriptions    *)
(* only, silence after the close.                                          *)
(***************************************************************************)
THEOREM Refinement == Spec => ImplementsProtocol
  <1>1. Init => Client!Init
    BY DEF Init, Client!Init, Phase, Active, Msg
  <1>2. TypeOK /\ IInv /\ [Next]_vars => [Client!Next]_Client!vars
    <2> SUFFICES ASSUME TypeOK, IInv, [Next]_vars PROVE [Client!Next]_Client!vars
      OBVIOUS
    <2>1. CASE UNCHANGED vars
      BY <2>1, Invisible DEF vars, futures, Active
    <2> QED
      BY <2>1, PollTopRefines, RecvRefines, PollTailRefines, EnvironmentRefines DEF Next, Server
  <1> QED
    BY <1>1, <1>2, Invariance, PTL DEF Spec, ImplementsProtocol, Client!Spec

=============================================================================
