----------------------------- MODULE LoadService ------------------------------
(***************************************************************************)
(* What the data loader promises to each call, without batches, tasks or   *)
(* cache: for the keys it has to load, a call is answered with values read *)
(* from the data source at some moment between the call and the answer, as *)
(* if it had asked the source alone; or it fails; or its answer is lost.   *)
(***************************************************************************)
EXTENDS Naturals

CONSTANTS Keys, Calls

VARIABLES
  db,      \* the data source: the version of each key
  phase,   \* "idle", "open", "replied", "failed" or "lost", for each call
  asked,   \* the keys each call has to load
  since,   \* the data source when the call was made
  reply    \* the values it is answered with

vars == <<db, phase, asked, since, reply>>

Zero == [k \in Keys |-> 0]

Init ==
  /\ db \in [Keys -> {0, 1}]
  /\ phase = [c \in Calls |-> "idle"]
  /\ asked = [c \in Calls |-> {}]
  /\ since = [c \in Calls |-> Zero]
  /\ reply = [c \in Calls |-> Zero]

\* A call with nothing to load is answered at once.
Submit(c, ks) ==
  /\ phase[c] = "idle"
  /\ phase' = [phase EXCEPT ![c] = IF ks = {} THEN "replied" ELSE "open"]
  /\ asked' = [asked EXCEPT ![c] = ks]
  /\ since' = [since EXCEPT ![c] = [k \in Keys |-> IF k \in ks THEN db[k] ELSE 0]]
  /\ UNCHANGED <<db, reply>>

\* The open calls S are settled with outcome o.
Settle(S, o) ==
  /\ \A c \in S : phase[c] = "open"
  /\ phase' = [c \in Calls |-> IF c \in S THEN o ELSE phase[c]]
  /\ UNCHANGED <<db, asked, since>>

Reply(S) ==
  /\ Settle(S, "replied")
  /\ \A c \in S : \A k \in asked[c] : since[c][k] <= reply'[c][k] /\ reply'[c][k] <= db[k]
  /\ \A c \in Calls \ S : reply'[c] = reply[c]

Fail(S) == Settle(S, "failed") /\ UNCHANGED reply

Lose(S) == Settle(S, "lost") /\ UNCHANGED reply

Write(k) ==
  /\ db' = [db EXCEPT ![k] = @ + 1]
  /\ UNCHANGED <<phase, asked, since, reply>>

Next ==
  \/ \E c \in Calls, ks \in SUBSET Keys : Submit(c, ks)
  \/ \E S \in SUBSET Calls : Reply(S) \/ Fail(S) \/ Lose(S)
  \/ \E k \in Keys : Write(k)

Spec == Init /\ [][Next]_vars

=============================================================================
