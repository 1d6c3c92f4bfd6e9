------------------------------ MODULE WebSocket ------------------------------
(***************************************************************************)
(* The subscription connection of src/http/websocket.rs: the poll_next of  *)
(* WebSocket, the task that polls it (`serve` of the integrations) and     *)
(* everything that can wake this task.                                     *)
(*                                                                         *)
(* poll_next runs alone, but the client, the timers, the user's callbacks  *)
(* and the subscription streams make progress at any moment of it, so each *)
(* place where it polls one of them is a step of its own.  A source that   *)
(* is polled and not ready keeps the task's waker (`wakers`); when such a  *)
(* source becomes ready the task is woken (`woken`).  A timer that is      *)
(* reset is a new future, which nobody has polled and which wakes nobody.  *)
(***************************************************************************)
EXTENDS Naturals, Sequences

CONSTANTS
  Ids,            \* the subscription ids the client uses
  Protocol,       \* "GraphQLWS" or "SubscriptionsTransportWS"
  HasKeepalive,   \* keepalive_timeout is set
  HasPing,        \* ping_interval is set
  Kinds,          \* the kinds of messages the client sends
  MaxMessages,    \* bound: messages of the client
  MaxInbox,       \* bound: messages received and not yet read
  MaxItems        \* bound: items of all subscription streams

AllKinds == {"connection_init", "start", "stop", "connection_terminate",
             "ping", "pong", "malformed"}

ASSUME ConstantsAssumption ==
  /\ Protocol \in {"GraphQLWS", "SubscriptionsTransportWS"}
  /\ HasKeepalive \in BOOLEAN
  /\ HasPing \in BOOLEAN
  /\ Kinds \subseteq AllKinds
  /\ MaxMessages \in Nat
  /\ MaxInbox \in Nat
  /\ MaxItems \in Nat

VARIABLES
  pc,          \* where the task is
  woken,       \* the task's waker has been called since its last poll
  wakers,      \* the sources that hold the task's waker
  keepalive,   \* keepalive_timer
  pinger,      \* ping_interval_timer
  waiting,     \* waiting_for_pong
  inbox,       \* messages in `stream`
  eof,         \* `stream` ends after the inbox
  onInit,      \* on_connection_init is still there
  initFut,     \* init_fut
  pingFut,     \* ping_fut
  data,        \* data is Some: the handshake is completed
  streams,     \* the HashMap of subscription streams
  close,       \* close
  out,         \* the last message passed to the sink
  sent,        \* messages the client has sent
  items        \* items the subscription streams have produced

client   == <<inbox, eof, sent>>
timers   == <<keepalive, pinger>>
futures  == <<onInit, initFut, pingFut, data>>
waking   == <<woken, wakers>>
vars == <<pc, waking, timers, waiting, client, futures, streams, close, out, items>>

\* A message of the client or of the server; ids has the subscription id if there is one.
Msg(type, S) == [type |-> type, ids |-> S]

ClientMessages ==
  {Msg(t, {}) : t \in Kinds \ {"start", "stop"}} \cup
  {Msg(t, {i}) : t \in Kinds \cap {"start", "stop"}, i \in Ids}

ServerTypes == {"none", "connection_ack", "next", "complete", "ping", "pong",
                "connection_error", "close"}

ServerPings == Protocol = "GraphQLWS" /\ HasPing

FutureStates == {"none", "running", "ok", "err"}
Sources == {"keepalive", "pinger", "stream", "init_fut", "ping_fut"}

\* The wakers of the fixed sources and of the subscription streams.
WakerSet == [fixed : SUBSET Sources, subs : SUBSET Ids]

TypeOK ==
  /\ pc \in {"idle", "top", "recv", "tail", "send", "ended"}
  /\ woken \in BOOLEAN
  /\ wakers \in WakerSet
  /\ keepalive \in IF HasKeepalive THEN {"running", "due"} ELSE {"absent"}
  /\ pinger \in IF HasPing THEN {"running", "due"} ELSE {"absent"}
  /\ waiting \in BOOLEAN
  /\ inbox \in Seq(ClientMessages)
  /\ eof \in BOOLEAN
  /\ onInit \in BOOLEAN
  /\ initFut \in FutureStates
  /\ pingFut \in FutureStates
  /\ data \in BOOLEAN
  /\ streams \in [Ids -> {"none", "quiet", "item", "over"}]
  /\ close \in BOOLEAN
  /\ out \in [type : ServerTypes, ids : SUBSET Ids]
  /\ sent \in Nat
  /\ items \in Nat

Init ==
  /\ pc = "top"
  /\ woken = FALSE
  /\ wakers = [fixed |-> {}, subs |-> {}]
  /\ keepalive = IF HasKeepalive THEN "running" ELSE "absent"
  /\ pinger = IF HasPing THEN "running" ELSE "absent"
  /\ waiting = FALSE
  /\ inbox = << >>
  /\ eof = FALSE
  /\ onInit = TRUE
  /\ initFut = "none"
  /\ pingFut = "none"
  /\ data = FALSE
  /\ streams = [i \in Ids |-> "none"]
  /\ close = FALSE
  /\ out = Msg("none", {})
  /\ sent = 0
  /\ items = 0

-----------------------------------------------------------------------------
(***************************************************************************)
(* Outcomes of poll_next                                                   *)
(***************************************************************************)

\* Poll::Ready(Some(m)): the task passes m to the sink.
Emit(m) == pc' = "send" /\ out' = m

\* close = true and a last message: a close frame, or an error in the older protocol.
Reject ==
  /\ close' = TRUE
  /\ Emit(Msg(IF Protocol = "GraphQLWS" THEN "close" ELSE "connection_error", {}))

\* close = true and a close frame in both protocols.
RejectFrame == close' = TRUE /\ Emit(Msg("close", {}))

\* poll_next goes on, or returns without a message.
Goto(where) == pc' = where /\ UNCHANGED out

Registered(S)   == wakers' = [wakers EXCEPT !.fixed = @ \cup S]
Unregistered(S) == wakers' = [wakers EXCEPT !.fixed = @ \ S]

\* Timer::reset of a timer in state t.
ResetTimer(t) == IF t = "absent" THEN "absent" ELSE "running"

-----------------------------------------------------------------------------
(***************************************************************************)
(* The top of poll_next: the close flag and the timers                     *)
(***************************************************************************)
\* Mutant of DeadlineCounts: waiting_for_pong is not looked at.
DeadlineIgnoresPong == ~ServerPings

\* Without server pings the keepalive timer is an idle timeout, with them the deadline of a Pong.
DeadlineCounts == ~ServerPings \/ waiting

PollClosed ==
  /\ pc = "top"
  /\ close
  /\ Goto("ended")
  /\ UNCHANGED <<waking, timers, waiting, client, futures, streams, close, items>>

\* The keepalive timer is due and counts: the connection is closed.
PollTimeout ==
  /\ pc = "top"
  /\ ~close
  /\ keepalive = "due"
  /\ DeadlineCounts
  /\ keepalive' = "running"
  /\ Unregistered({"keepalive"})
  /\ Reject
  /\ UNCHANGED <<woken, pinger, waiting, client, futures, streams, items>>

\* The timers are polled and the connection stays open.
TimersPolled == pc = "top" /\ ~close /\ ~(keepalive = "due" /\ DeadlineCounts)

\* The ping interval is over: send a Ping and start waiting for the Pong.
PollPing ==
  /\ TimersPolled
  /\ ServerPings
  /\ ~waiting
  /\ pinger = "due"
  /\ pinger' = "running"
  /\ keepalive' = ResetTimer(keepalive)
  /\ waiting' = (keepalive # "absent")
  /\ Unregistered({"keepalive", "pinger"})
  /\ Emit(Msg("ping", {}))
  /\ UNCHANGED <<woken, client, futures, streams, close, items>>

\* No timer stops the poll: those polled and not due hold the waker, a due one was reset.
PollTimers ==
  LET pingPolled == ServerPings /\ ~waiting IN
  /\ TimersPolled
  /\ ~(pingPolled /\ pinger = "due")
  /\ keepalive' = ResetTimer(keepalive)
  /\ wakers' = [wakers EXCEPT !.fixed =
                  (IF keepalive = "due" THEN @ \ {"keepalive"}
                   ELSE IF keepalive = "running" THEN @ \cup {"keepalive"} ELSE @)
                  \cup (IF pingPolled THEN {"pinger"} ELSE {})]
  /\ Goto(IF initFut = "none" /\ pingFut = "none" THEN "recv" ELSE "tail")
  /\ UNCHANGED <<woken, pinger, waiting, client, futures, streams, close, items>>

-----------------------------------------------------------------------------
(***************************************************************************)
(* The loop that reads the client's messages                               *)
(***************************************************************************)
RecvPending ==
  /\ pc = "recv"
  /\ inbox = << >>
  /\ ~eof
  /\ Registered({"stream"})
  /\ Goto("tail")
  /\ UNCHANGED <<woken, timers, waiting, client, futures, streams, close, items>>

RecvEnd ==
  /\ pc = "recv"
  /\ inbox = << >>
  /\ eof
  /\ Goto("ended")
  /\ UNCHANGED <<waking, timers, waiting, client, futures, streams, close, items>>

\* The next message, of the given type, is read.
Read(type) ==
  /\ pc = "recv"
  /\ inbox # << >>
  /\ Head(inbox).type = type
  /\ inbox' = Tail(inbox)
  /\ UNCHANGED <<woken, eof, sent, pinger, items>>

\* Mutant of Heard: any message restarts the timer, also while a Pong is due.
HeardAlwaysResets(S) ==
  /\ keepalive' = IF HasKeepalive THEN "running" ELSE keepalive
  /\ wakers' = [fixed |-> IF HasKeepalive THEN wakers.fixed \ {"keepalive"} ELSE wakers.fixed,
                subs  |-> wakers.subs \ S]

\* Any message that parses restarts the keepalive timer unless a Pong is due; S: streams dropped.
Heard(S) ==
  LET reset == HasKeepalive /\ (~ServerPings \/ ~waiting) IN
  /\ keepalive' = IF reset THEN "running" ELSE keepalive
  /\ wakers' = [fixed |-> IF reset THEN wakers.fixed \ {"keepalive"} ELSE wakers.fixed,
                subs  |-> wakers.subs \ S]

RecvMalformed ==
  /\ Read("malformed")
  /\ RejectFrame
  /\ UNCHANGED <<wakers, keepalive, waiting, futures, streams>>

RecvInit ==
  /\ Read("connection_init")
  /\ Heard({})
  /\ \/ /\ onInit
        /\ onInit' = FALSE
        /\ initFut' = "running"
        /\ Goto("tail")
        /\ UNCHANGED close
     \/ /\ ~onInit
        /\ Reject
        /\ UNCHANGED <<onInit, initFut>>
  /\ UNCHANGED <<waiting, pingFut, data, streams>>

\* Mutant of RecvStart: the loop is left once the stream is started.
RecvStartBreaks ==
  LET S == Head(inbox).ids IN
  /\ Read("start")
  /\ \/ /\ data
        /\ Heard(S)
        /\ streams' = [i \in Ids |-> IF i \in S THEN "quiet" ELSE streams[i]]
        /\ Goto("tail")
        /\ UNCHANGED close
     \/ /\ ~data
        /\ Heard({})
        /\ RejectFrame
        /\ UNCHANGED streams
  /\ UNCHANGED <<waiting, futures>>

\* HashMap::insert: a stream that had the id is dropped.
RecvStart ==
  LET S == Head(inbox).ids IN
  /\ Read("start")
  /\ \/ /\ data
        /\ Heard(S)
        /\ streams' = [i \in Ids |-> IF i \in S THEN "quiet" ELSE streams[i]]
        /\ Goto("recv")
        /\ UNCHANGED close
     \/ /\ ~data
        /\ Heard({})
        /\ RejectFrame
        /\ UNCHANGED streams
  /\ UNCHANGED <<waiting, futures>>

\* Mutant of RecvStop: the stream is looked up and not removed.
RecvStopKeeps ==
  LET S == Head(inbox).ids IN
  /\ Read("stop")
  /\ Heard({})
  /\ UNCHANGED streams
  /\ IF \E i \in S : streams[i] # "none" THEN Emit(Msg("complete", S)) ELSE Goto("recv")
  /\ UNCHANGED <<waiting, futures, close>>

RecvStop ==
  LET S == Head(inbox).ids IN
  /\ Read("stop")
  /\ Heard(S)
  /\ streams' = [i \in Ids |-> IF i \in S THEN "none" ELSE streams[i]]
  /\ IF \E i \in S : streams[i] # "none" THEN Emit(Msg("complete", S)) ELSE Goto("recv")
  /\ UNCHANGED <<waiting, futures, close>>

RecvTerminate ==
  /\ Read("connection_terminate")
  /\ Heard({})
  /\ close' = TRUE
  /\ Goto("ended")
  /\ UNCHANGED <<waiting, futures, streams>>

RecvPing ==
  /\ Read("ping")
  /\ Heard({})
  /\ pingFut' = "running"
  /\ Goto("tail")
  /\ UNCHANGED <<waiting, onInit, initFut, data, streams, close>>

RecvPong ==
  /\ Read("pong")
  /\ waiting' = FALSE
  /\ keepalive' = ResetTimer(keepalive)
  /\ Unregistered({"keepalive"})
  /\ Goto("recv")
  /\ UNCHANGED <<futures, streams, close>>

-----------------------------------------------------------------------------
(***************************************************************************)
(* The callbacks' futures and the subscription streams                     *)
(***************************************************************************)
\* Mutant of PollInitFut: the error of on_connection_init is swallowed.
PollInitFutIgnoresError ==
  /\ pc = "tail"
  /\ \/ /\ initFut = "running"
        /\ Registered({"init_fut"})
        /\ Goto("idle")
        /\ UNCHANGED <<initFut, data, pinger, close>>
     \/ /\ initFut = "ok"
        /\ initFut' = "none"
        /\ data' = TRUE
        /\ pinger' = ResetTimer(pinger)
        /\ Unregistered({"pinger"})
        /\ Emit(Msg("connection_ack", {}))
        /\ UNCHANGED close
     \/ /\ initFut = "err"
        /\ initFut' = "none"
        /\ Goto("idle")
        /\ UNCHANGED <<wakers, data, pinger, close>>
  /\ UNCHANGED <<woken, keepalive, waiting, client, onInit, pingFut, streams, items>>

PollInitFut ==
  /\ pc = "tail"
  /\ \/ /\ initFut = "running"
        /\ Registered({"init_fut"})
        /\ Goto("idle")
        /\ UNCHANGED <<initFut, data, pinger, close>>
     \/ /\ initFut = "ok"
        /\ initFut' = "none"
        /\ data' = TRUE
        /\ pinger' = ResetTimer(pinger)
        /\ Unregistered({"pinger"})
        /\ Emit(Msg("connection_ack", {}))
        /\ UNCHANGED close
     \/ /\ initFut = "err"
        /\ initFut' = "none"
        /\ Reject
        /\ UNCHANGED <<wakers, data, pinger>>
  /\ UNCHANGED <<woken, keepalive, waiting, client, onInit, pingFut, streams, items>>

PollPingFut ==
  /\ pc = "tail"
  /\ initFut = "none"
  /\ \/ /\ pingFut = "running"
        /\ Registered({"ping_fut"})
        /\ Goto("idle")
        /\ UNCHANGED <<pingFut, close>>
     \/ /\ pingFut = "ok"
        /\ pingFut' = "none"
        /\ Emit(Msg("pong", {}))
        /\ UNCHANGED <<wakers, close>>
     \/ /\ pingFut = "err"
        /\ pingFut' = "none"
        /\ Reject
        /\ UNCHANGED wakers
  /\ UNCHANGED <<woken, timers, waiting, client, onInit, initFut, data, streams, items>>

Quiet == {i \in Ids : streams[i] = "quiet"}

\* The iteration over the HashMap meets stream i, which is ready, after the streams P, which are not.
PollReadyStream(i, P) ==
  /\ pc = "tail"
  /\ initFut = "none"
  /\ pingFut = "none"
  /\ wakers' = [wakers EXCEPT !.subs = @ \cup P]
  /\ \/ /\ streams[i] = "item"
        /\ streams' = [streams EXCEPT ![i] = "quiet"]
        /\ Emit(Msg("next", {i}))
     \/ /\ streams[i] = "over"
        /\ streams' = [streams EXCEPT ![i] = "none"]
        /\ Emit(Msg("complete", {i}))
  /\ UNCHANGED <<woken, timers, waiting, client, futures, close, items>>

\* Mutant of PollNoStream: the first stream that is not ready ends the iteration.
PollNoStreamEarly ==
  /\ pc = "tail"
  /\ initFut = "none"
  /\ pingFut = "none"
  /\ Quiet # {} \/ \A i \in Ids : streams[i] = "none"
  /\ wakers' = [wakers EXCEPT !.subs = @ \cup Quiet]
  /\ Goto("idle")
  /\ UNCHANGED <<woken, timers, waiting, client, futures, streams, close, items>>

\* No stream is ready: Poll::Pending.
PollNoStream ==
  /\ pc = "tail"
  /\ initFut = "none"
  /\ pingFut = "none"
  /\ \A i \in Ids : streams[i] \in {"none", "quiet"}
  /\ wakers' = [wakers EXCEPT !.subs = @ \cup Quiet]
  /\ Goto("idle")
  /\ UNCHANGED <<woken, timers, waiting, client, futures, streams, close, items>>

-----------------------------------------------------------------------------
(***************************************************************************)
(* The task that polls: it sleeps until its waker is called, and polls     *)
(* again after every message it has passed to the sink.                    *)
(***************************************************************************)
Wake ==
  /\ pc = "idle"
  /\ woken
  /\ woken' = FALSE
  /\ Goto("top")
  /\ UNCHANGED <<wakers, timers, waiting, client, futures, streams, close, items>>

SinkAccepts ==
  /\ pc = "send"
  /\ Goto("top")
  /\ UNCHANGED <<waking, timers, waiting, client, futures, streams, close, items>>

SinkFails ==
  /\ pc = "send"
  /\ Goto("ended")
  /\ UNCHANGED <<waking, timers, waiting, client, futures, streams, close, items>>

-----------------------------------------------------------------------------
(***************************************************************************)
(* The sources.  They stop when the connection is dropped.                 *)
(***************************************************************************)

\* A source becomes ready: it calls the waker it holds.
Fire(source) ==
  /\ pc # "ended"
  /\ woken' = (woken \/ source \in wakers.fixed)
  /\ wakers' = [wakers EXCEPT !.fixed = @ \ {source}]
  /\ UNCHANGED <<pc, waiting, onInit, data, streams, close, out, items>>

ClientSends(m) ==
  /\ ~eof
  /\ sent < MaxMessages
  /\ Len(inbox) < MaxInbox
  /\ inbox' = Append(inbox, m)
  /\ sent' = sent + 1
  /\ Fire("stream")
  /\ UNCHANGED <<eof, timers, initFut, pingFut>>

ClientCloses ==
  /\ ~eof
  /\ eof' = TRUE
  /\ Fire("stream")
  /\ UNCHANGED <<inbox, sent, timers, initFut, pingFut>>

KeepaliveExpires ==
  /\ keepalive = "running"
  /\ keepalive' = "due"
  /\ Fire("keepalive")
  /\ UNCHANGED <<client, pinger, initFut, pingFut>>

PingerExpires ==
  /\ pinger = "running"
  /\ pinger' = "due"
  /\ Fire("pinger")
  /\ UNCHANGED <<client, keepalive, initFut, pingFut>>

InitFutDone ==
  /\ initFut = "running"
  /\ initFut' \in {"ok", "err"}
  /\ Fire("init_fut")
  /\ UNCHANGED <<client, timers, pingFut>>

PingFutDone ==
  /\ pingFut = "running"
  /\ pingFut' \in {"ok", "err"}
  /\ Fire("ping_fut")
  /\ UNCHANGED <<client, timers, initFut>>

\* A subscription stream has an item, or ends.
StreamReady(i) ==
  /\ pc # "ended"
  /\ streams[i] = "quiet"
  /\ \/ /\ items < MaxItems
        /\ streams' = [streams EXCEPT ![i] = "item"]
        /\ items' = items + 1
     \/ /\ streams' = [streams EXCEPT ![i] = "over"]
        /\ UNCHANGED items
  /\ woken' = (woken \/ i \in wakers.subs)
  /\ wakers' = [wakers EXCEPT !.subs = @ \ {i}]
  /\ UNCHANGED <<pc, timers, waiting, client, futures, close, out>>

-----------------------------------------------------------------------------
PollTop == PollClosed \/ PollTimeout \/ PollPing \/ PollTimers

Recv ==
  \/ RecvPending \/ RecvEnd \/ RecvMalformed \/ RecvInit \/ RecvStart
  \/ RecvStop \/ RecvTerminate \/ RecvPing \/ RecvPong

PollTail ==
  \/ PollInitFut
  \/ PollPingFut
  \/ \E i \in Ids, P \in SUBSET Quiet : PollReadyStream(i, P)
  \/ PollNoStream

Server == PollTop \/ Recv \/ PollTail \/ Wake \/ SinkAccepts

Environment ==
  \/ SinkFails
  \/ \E m \in ClientMessages : ClientSends(m)
  \/ ClientCloses
  \/ KeepaliveExpires
  \/ PingerExpires
  \/ InitFutDone
  \/ PingFutDone
  \/ \E i \in Ids : StreamReady(i)

Next == Server \/ Environment

Spec == Init /\ [][Next]_vars

(***************************************************************************)
(* Fairness: the executor runs a task that is woken, the sink accepts,     *)
(* the timers run out and the user's callbacks answer.  Nothing is assumed *)
(* of the client or of the subscription streams.                           *)
(***************************************************************************)
Fairness ==
  /\ WF_vars(Server)
  /\ WF_vars(KeepaliveExpires)
  /\ WF_vars(PingerExpires)
  /\ WF_vars(InitFutDone)
  /\ WF_vars(PingFutDone)

FairSpec == Spec /\ Fairness

-----------------------------------------------------------------------------
(***************************************************************************)
(* Properties                                                              *)
(***************************************************************************)

(***************************************************************************)
(* A sleeping task misses nothing: unless it is already woken, whatever it *)
(* waits for is not ready and holds its waker: the future of a callback    *)
(* if there is one, otherwise the client and every subscription stream     *)
(* (the contract of Stream::poll_next when it returns Pending).            *)
(***************************************************************************)
NoLostWakeup ==
  pc = "idle" /\ ~woken =>
    CASE initFut # "none" -> initFut = "running" /\ "init_fut" \in wakers.fixed
      [] initFut = "none" /\ pingFut # "none" ->
           pingFut = "running" /\ "ping_fut" \in wakers.fixed
      [] OTHER ->
           /\ inbox = << >> /\ ~eof /\ "stream" \in wakers.fixed
           /\ \A i \in Ids : streams[i] = "none" \/ (streams[i] = "quiet" /\ i \in wakers.subs)

(***************************************************************************)
(* While a Pong is awaited, a sleeping task is always armed for the        *)
(* deadline: whatever else the client sends does not push it away          *)
(* (keepalive_timer with waiting_for_pong).                                *)
(***************************************************************************)
PongDeadlineArmed ==
  pc = "idle" /\ ~woken /\ waiting => keepalive = "running" /\ "keepalive" \in wakers.fixed

(***************************************************************************)
(* The inductive invariant behind the two properties above and behind      *)
(* ImplementsProtocol below.                                               *)
(***************************************************************************)

\* The handshake runs once, subscriptions follow it, and nothing follows the close.
InOrder ==
  /\ close => pc \in {"send", "top", "ended"}
  /\ onInit => ~data /\ initFut = "none"
  /\ initFut # "none" => ~data
  /\ \A i \in Ids : streams[i] # "none" => data

\* While no callback runs, a poll that is past the client's messages has seen all of them.
ClientArmed ==
  pc \in {"tail", "idle"} /\ initFut = "none" /\ pingFut = "none" /\ ~woken =>
    inbox = << >> /\ ~eof /\ "stream" \in wakers.fixed

\* A task that sleeps while a callback runs has polled its future; otherwise it has polled every stream.
CallbackArmed ==
  pc = "idle" /\ ~woken =>
    /\ initFut # "none" => initFut = "running" /\ "init_fut" \in wakers.fixed
    /\ initFut = "none" /\ pingFut # "none" => pingFut = "running" /\ "ping_fut" \in wakers.fixed
    /\ initFut = "none" /\ pingFut = "none" =>
         \A i \in Ids : streams[i] = "none" \/ (streams[i] = "quiet" /\ i \in wakers.subs)

\* While a Pong is awaited, a poll that is past the timers has polled the deadline.
DeadlinePolled ==
  waiting =>
    /\ ServerPings /\ HasKeepalive
    /\ pc \in {"recv", "tail", "idle"} /\ ~woken => keepalive = "running" /\ "keepalive" \in wakers.fixed

IInv == InOrder /\ ClientArmed /\ CallbackArmed /\ DeadlinePolled

\* An unanswered Ping closes the connection (keepalive_timeout with ping_interval).
PingAnsweredOrClosed == waiting ~> (~waiting \/ pc = "ended")

\* Every connection_init the server accepts is answered, with an ack or by closing (init_fut).
HandshakeAnswered == initFut # "none" ~> (data \/ pc = "ended")

(***************************************************************************)
(* Once the other streams and the client are quiet, an item that is ready  *)
(* is sent, or the subscription or the connection ends.                    *)
(***************************************************************************)
ItemsDelivered == \A i \in Ids : streams[i] = "item" ~> (streams[i] # "item" \/ pc = "ended")

(***************************************************************************)
(* The connection implements the protocol its client relies on: the        *)
(* handshake is completed while `data` is set, and the active              *)
(* subscriptions are the entries of `streams`.                             *)
(***************************************************************************)
Phase ==
  CASE pc = "ended" -> "closed"
    [] pc # "ended" /\ close -> "closing"
    [] pc # "ended" /\ ~close /\ data -> "ready"
    [] OTHER -> "connecting"

Active == {i \in Ids : streams[i] # "none"}

Client == INSTANCE SubscriptionProtocol WITH phase <- Phase, subs <- Active, said <- out

\* poll_next, whatever the interleaving, is an execution of SubscriptionProtocol.
ImplementsProtocol == Client!Spec

(***************************************************************************)
(* "the server will send a `Ping` message at this interval after the       *)
(* connection has been acknowledged" (ping_interval): with a keepalive     *)
(* timeout too, an open connection waits for a Pong again and again.       *)
(***************************************************************************)
PingsContinue == data /\ ~waiting ~> (waiting \/ pc = "ended")

(***************************************************************************)
(* The other half of that sentence, "after the connection has been         *)
(* acknowledged" (websocket.rs:299): a Ping of the server follows the ack. *)
(* The ping interval runs from the upgrade, and `data` is not looked at    *)
(* when it is over (websocket.rs:373).                                     *)
(***************************************************************************)
PingsAcknowledged == pc = "send" /\ out = Msg("ping", {}) => data

=============================================================================
