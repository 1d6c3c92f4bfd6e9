------------------------- MODULE SubscriptionProtocol -------------------------
(***************************************************************************)
(* What a client of the WebSocket transport may rely on, without timers,   *)
(* callbacks, queues or wakers: one acknowledgement, results only for a    *)
(* subscription that is active, one completion for each, and silence after *)
(* the message that closes the connection.                                 *)
(***************************************************************************)
CONSTANT Ids   \* subscription ids

VARIABLES
  phase,   \* "connecting", "ready", "closing" or "closed"
  subs,    \* the active subscriptions
  said     \* the last message of the server

vars == <<phase, subs, said>>

Says(type, S) == said' = [type |-> type, ids |-> S]

Init ==
  /\ phase = "connecting"
  /\ subs = {}
  /\ said = [type |-> "none", ids |-> {}]

Acknowledge ==
  /\ phase = "connecting"
  /\ phase' = "ready"
  /\ Says("connection_ack", {})
  /\ UNCHANGED subs

Subscribe(i) ==
  /\ phase = "ready"
  /\ subs' = subs \cup {i}
  /\ UNCHANGED <<phase, said>>

SendNext(i) ==
  /\ phase = "ready"
  /\ i \in subs
  /\ Says("next", {i})
  /\ UNCHANGED <<phase, subs>>

Complete(i) ==
  /\ phase = "ready"
  /\ i \in subs
  /\ subs' = subs \ {i}
  /\ Says("complete", {i})
  /\ UNCHANGED phase

\* A Ping of the server may come before the acknowledgement too, which the documentation of
\* ping_interval rules out: PingsAcknowledged of WebSocket says so, and does not hold.
KeepAlive ==
  /\ phase \in {"connecting", "ready"}
  /\ \E t \in {"ping", "pong"} : Says(t, {})
  /\ UNCHANGED <<phase, subs>>

Refuse ==
  /\ phase \in {"connecting", "ready"}
  /\ phase' = "closing"
  /\ \E t \in {"close", "connection_error"} : Says(t, {})
  /\ UNCHANGED subs

\* The connection ends: after a refusal, or because either side has gone.
Disconnect ==
  /\ phase # "closed"
  /\ phase' = "closed"
  /\ UNCHANGED <<subs, said>>

Next ==
  \/ Acknowledge
  \/ \E i \in Ids : Subscribe(i) \/ SendNext(i) \/ Complete(i)
  \/ KeepAlive
  \/ Refuse
  \/ Disconnect

Spec == Init /\ [][Next]_vars

=============================================================================
