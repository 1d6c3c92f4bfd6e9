------------------------------ MODULE MCRequests ------------------------------
(***************************************************************************)
(* A request from its text to its response: the document that is parsed,   *)
(* validated and collected (MCDocuments), and the pipeline of extensions,  *)
(* the batch and the subscription around it (MCExecution).  The pipeline   *)
(* knows a document by the answers of its checks; the two share no state.  *)
(***************************************************************************)
EXTENDS MCDocuments, MCExecution

NoDocument ==
  /\ request = Submit(Single(<<>>), "strict") /\ document = request.doc
  /\ stage = "none" /\ operation = "" /\ outcome = "none" /\ cache = DefaultCache /\ objects = {}

\* Two subscriptions whose streams have ended.
NoBatch ==
  /\ req = [r \in Reqs |-> Ask(sub, None, NoIds, None, FALSE, TRUE, "derived")]
  /\ pc = [r \in Reqs |-> "closed"]
  /\ at = [r \in Reqs |-> 1]
  /\ query = [r \in Reqs |-> sub] /\ parsed = [r \in Reqs |-> None]
  /\ store = [b \in {"lru"} |-> <<>>]
  /\ doc = [r \in Reqs |-> None] /\ root = [r \in Reqs |-> None]
  /\ errors = [r \in Reqs |-> <<>>] /\ analyzer = [r \in Reqs |-> None]
  /\ resp = [r \in Reqs |-> None] /\ out = <<>>
  /\ StreamInit

RequestsInit == (DocumentsInit /\ NoBatch) \/ (ExecutionInit /\ NoDocument)

RequestsNext == (DocumentsNext /\ UNCHANGED allVars) \/ (Next /\ UNCHANGED docVars)

\* The requests of the pipeline are polled as FairSpec says.
RequestsSpec == RequestsInit /\ [][RequestsNext]_<<docVars, allVars>> /\ Fairness
==============================================================================
