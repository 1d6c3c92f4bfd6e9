----------------------------- MODULE MCWebSocket ------------------------------
(***************************************************************************)
(* Model checking of WebSocket on small instances.                         *)
(***************************************************************************)
EXTENDS WebSocket, TLC

\* The subscription ids are interchangeable.
Symmetry == Permutations(Ids)

Subscribing == {"connection_init", "start", "stop", "ping"}
Handshake   == {"connection_init", "pong"}

=============================================================================
