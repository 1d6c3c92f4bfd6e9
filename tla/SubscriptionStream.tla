-------------------------- MODULE SubscriptionStream --------------------------
(***************************************************************************)
(* A subscription operation after RequestPipeline has prepared it.  Every  *)
(* root field of the operation becomes a stream; select_all interleaves    *)
(* them; every event of a stream is resolved on its own into a response.   *)
(* All the events of a request share the error list of its environment.    *)
(* Both forms of the code are here: the one the derive macro writes and    *)
(* the one of the dynamic schema.                                          *)
(***************************************************************************)
EXTENDS RequestPipeline

CONSTANTS
  Fields,     \* the root fields an operation may select
  Roots,      \* Roots[t]: the root fields of the operation of document t
  Known,      \* the fields the subscription object defines
  MaxEvents   \* the events of one subscription that the model follows

ASSUME StreamAssumption ==
  /\ Roots \in [Texts -> SUBSET Fields]
  /\ \A t \in Texts : IsFiniteSet(Roots[t])
  /\ Known \subseteq Fields
  /\ MaxEvents \in Nat
  /\ 0 \notin Fields

VARIABLES
  fpc,        \* fpc[r][f]: what the stream of field f of request r does
  raised,     \* raised[r][f]: the errors that each of its events has reported
  delivered   \* delivered[r]: the responses the consumer has received

streamVars == <<fpc, raised, delivered>>
allVars    == <<vars, streamVars>>

FieldRecord(v) == [r \in Reqs |-> [f \in Fields |-> v]]

StreamInit ==
  /\ fpc = FieldRecord("idle")
  /\ raised = FieldRecord(<< >>)
  /\ delivered = [r \in Reqs |-> << >>]

SetField(v, r, f, x) == [v EXCEPT ![r][f] = x]

\* The number of the last event of the stream.
Event(r, f) == Len(raised[r][f])

\* An error of the event numbered n of field f, the k-th it reported; k = 0 is
\* the error that reached the root of the event.
EventErr(f, n, k) == [by |-> f, event |-> n, n |-> k, formatted |-> 0]

EventResponse(f, n, d, es) == [field |-> f, event |-> n, data |-> d, errors |-> es]

Deliver(r, m) == delivered' = [delivered EXCEPT ![r] = Append(@, m)]

PipelineUnchanged == UNCHANGED <<req, at, query, parsed, store, doc, root,
                                 analyzer, resp, out>>

-----------------------------------------------------------------------------
\* The field is known to the object that answers the operation.
Defined(r, f) == f \in Known /\ root[r] = "user"

\* The stream of a field begins.  A field the object does not define is an
\* error response of the derived code; the dynamic one makes no stream of it.
CollectStream(r, f) ==
  /\ pc[r] = "streaming" /\ fpc[r][f] = "idle" /\ f \in Roots[doc[r]]
  /\ IF Defined(r, f)
     THEN /\ fpc' = SetField(fpc, r, f, "create")
          /\ UNCHANGED delivered
     ELSE /\ fpc' = SetField(fpc, r, f, "done")
          /\ IF req[r].schema = "derived"
             THEN Deliver(r, EventResponse(f, 0, FALSE, <<EventErr(f, 0, 0)>>))
             ELSE UNCHANGED delivered
  /\ UNCHANGED <<pc, errors, raised>> /\ PipelineUnchanged

\* The arguments, the guard and the user's function give a stream, or their
\* error is the only response of the field.
CreateFieldStream(r, f) ==
  /\ pc[r] = "streaming" /\ fpc[r][f] = "create"
  /\ \/ /\ fpc' = SetField(fpc, r, f, "open")
        /\ UNCHANGED delivered
     \/ /\ fpc' = SetField(fpc, r, f, "done")
        /\ Deliver(r, EventResponse(f, 0, FALSE, <<EventErr(f, 0, 0)>>))
  /\ UNCHANGED <<pc, errors, raised>> /\ PipelineUnchanged

\* The events of all the streams of a subscription.
EventsOf(r) ==
  Cardinality({fn \in Fields \X (1 .. MaxEvents) : fn[2] <= Event(r, fn[1])})

\* The user's stream gives an event and its resolution starts.
EventArrives(r, f) ==
  /\ pc[r] = "streaming" /\ fpc[r][f] = "open"
  /\ EventsOf(r) < MaxEvents
  /\ fpc' = SetField(fpc, r, f, "resolving")
  /\ raised' = [raised EXCEPT ![r][f] = Append(@, 0)]
  /\ UNCHANGED <<pc, errors, delivered>> /\ PipelineUnchanged

\* A resolver below the event reports an error and goes on: the error joins
\* the list of the whole request.
EventAddError(r, f) ==
  /\ pc[r] = "streaming" /\ fpc[r][f] = "resolving"
  /\ raised[r][f][Event(r, f)] < MaxErrors
  /\ raised' = [raised EXCEPT ![r][f][Event(r, f)] = @ + 1]
  /\ errors' = [errors EXCEPT ![r] =
       Append(@, EventErr(f, Event(r, f), raised[r][f][Event(r, f)] + 1))]
  /\ UNCHANGED <<pc, fpc, delivered>> /\ PipelineUnchanged

\* The derived code takes the whole list into the response of the event.
TakenErrors(r) == IF req[r].schema = "derived" THEN errors[r] ELSE << >>
LeftErrors(r) == IF req[r].schema = "derived" THEN << >> ELSE errors[r]

\* A form of EventResolved that answers a failed event with its error alone.
EventResolvedEarly(r, f) ==
  /\ pc[r] = "streaming" /\ fpc[r][f] = "resolving"
  /\ \/ /\ Deliver(r, EventResponse(f, Event(r, f), FALSE,
                                    <<EventErr(f, Event(r, f), 0)>>))
        /\ UNCHANGED errors
     \/ /\ Deliver(r, EventResponse(f, Event(r, f), TRUE, TakenErrors(r)))
        /\ errors' = [errors EXCEPT ![r] = LeftErrors(r)]
  /\ fpc' = SetField(fpc, r, f, "open")
  /\ UNCHANGED <<pc, raised>> /\ PipelineUnchanged

\* Resolution ends, with the value of the field or with an error.  After a
\* response with errors the dynamic stream stops.
EventResolved(r, f) ==
  /\ pc[r] = "streaming" /\ fpc[r][f] = "resolving"
  /\ \E first \in {<< >>, <<EventErr(f, Event(r, f), 0)>>} :
       LET es == first \o TakenErrors(r)
       IN /\ Deliver(r, EventResponse(f, Event(r, f), first = << >>, es))
          /\ fpc' = SetField(fpc, r, f,
                       IF req[r].schema # "derived" /\ es # << >>
                       THEN "done" ELSE "open")
  /\ errors' = [errors EXCEPT ![r] = LeftErrors(r)]
  /\ UNCHANGED <<pc, raised>> /\ PipelineUnchanged

\* The user's stream ends; a dynamic one may end with an error of its own.
SourceEnds(r, f) ==
  /\ pc[r] = "streaming" /\ fpc[r][f] = "open"
  /\ fpc' = SetField(fpc, r, f, "done")
  /\ \/ UNCHANGED delivered
     \/ /\ req[r].schema # "derived"
        /\ Deliver(r, EventResponse(f, Event(r, f) + 1, FALSE,
                                    <<EventErr(f, Event(r, f) + 1, 0)>>))
  /\ UNCHANGED <<pc, errors, raised>> /\ PipelineUnchanged

\* select_all ends when every stream has ended.
StreamEnds(r) ==
  /\ pc[r] = "streaming"
  /\ \A f \in Roots[doc[r]] : fpc[r][f] = "done"
  /\ Goto(r, "closed")
  /\ UNCHANGED <<errors, streamVars>> /\ PipelineUnchanged

FieldStep(r, f) ==
  \/ CollectStream(r, f) \/ CreateFieldStream(r, f) \/ EventArrives(r, f)
  \/ EventAddError(r, f) \/ EventResolved(r, f) \/ SourceEnds(r, f)

ExecutionInit == Init /\ StreamInit

Next ==
  \/ PipelineNext /\ UNCHANGED streamVars
  \/ \E r \in Reqs : StreamEnds(r) \/ \E f \in Fields : FieldStep(r, f)

Spec == ExecutionInit /\ [][Next]_allVars

\* Executors poll every future again after its waker was called, storages and
\* resolvers answer.  The user's streams may stay silent for ever.
Fairness ==
  /\ \A r \in Reqs :
       /\ WF_allVars(RequestStep(r) /\ UNCHANGED streamVars)
       /\ \A f \in Fields :
            WF_allVars(CollectStream(r, f) \/ CreateFieldStream(r, f)
                         \/ EventResolved(r, f))
  /\ WF_allVars(CollectBatch /\ UNCHANGED streamVars)

FairSpec == Spec /\ Fairness

-----------------------------------------------------------------------------
(* Properties *)

Labels == {"prepare", "get", "set", "validate", "select", "transport", "execute",
           "streaming", "responding", "answered", "collected", "closed"}

\* The errors of a request, seen k times by the formatter: of the request
\* itself and of its root fields, and of the events of its streams.
ErrorsSeen(k) ==
  [by : {0, 1}, n : Nat, formatted : {k}]
  \cup [by : Fields, event : Nat, n : Nat, formatted : {k}]

Answers ==
  [data : Texts \cup {None}, errors : Seq(ErrorsSeen(1)), analyzer : Texts \cup {None}]

EventAnswers ==
  [field : Fields, event : Nat, data : BOOLEAN, errors : Seq(ErrorsSeen(0))]

\* What a storage may hold.
Caches == UNION {[K -> Texts] : K \in SUBSET Hashes}

\* Every variable has its type: the requests keep one of their stages, the
\* storages map at most StoreCap hashes to texts, an error in a list was not
\* formatted and one in a response was, the streams keep one of their stages.
TypeOK ==
  /\ req \in Inputs
  /\ pc \in [Reqs -> Labels]
  /\ at \in [Reqs -> 1 .. Len(Chain) + 1]
  /\ query \in [Reqs -> Texts \cup {Empty}]
  /\ parsed \in [Reqs -> Texts \cup {None}]
  /\ store \in [{Backend[e] : e \in Exts} -> Caches]
  /\ \A b \in DOMAIN store :
       IsFiniteSet(DOMAIN store[b]) /\ Cardinality(DOMAIN store[b]) <= StoreCap
  /\ doc \in [Reqs -> Texts \cup {None}]
  /\ root \in [Reqs -> {None, "user", "empty"}]
  /\ errors \in [Reqs -> Seq(ErrorsSeen(0))]
  /\ analyzer \in [Reqs -> Texts \cup {None}]
  /\ resp \in [Reqs -> Answers \cup {None}]
  /\ out \in Seq([for : Reqs, resp : Answers])
  /\ fpc \in [Reqs -> [Fields -> {"idle", "create", "open", "resolving", "done"}]]
  /\ raised \in [Reqs -> [Fields -> Seq(Nat)]]
  /\ delivered \in [Reqs -> Seq(EventAnswers)]

\* What the request asked to be executed: the id of the last persisted-query
\* extension that has one, or the document attached to it, or its text.
Asked(r, d) ==
  LET with == {n \in DOMAIN Chain : req[r].ids[Chain[n]] # None}
  IN IF with # {}
     THEN \A n \in with : (\A m \in with : m <= n) =>
            req[r].ids[Chain[n]] = Sha256(d)
     ELSE d = IF req[r].parsed # None THEN req[r].parsed ELSE req[r].query

\* The document that is validated and executed is the one the request named,
\* whichever requests fill and evict the storage between its own steps
\* (persisted queries: a hash never yields another text's document).
NamedDocument == \A r \in Reqs : doc[r] # None => Asked(r, doc[r])

\* No operation reaches a root object before its document passed the limits
\* and the rules, wherever the document came from: a text, a storage, or the
\* caller of set_parsed_query (prepare_request).
CheckedDocument ==
  \A r \in Reqs : root[r] # None =>
    LET d == Doc[doc[r]]
    IN d.parses /\ d.depth /\ d.directives /\ d.aliases /\ d.valid

\* The analyzer's figures in a response are those of the request's own
\* document, and a request that produced data has them (Analyzer: the result
\* is kept in the extension between validation and the end of the request).
AnalyzerOwn ==
  \A r \in Batch : pc[r] \in {"answered", "collected"} =>
    /\ resp[r].analyzer \in {None, doc[r]}
    /\ resp[r].data # None => resp[r].analyzer = doc[r]

\* The document of a request is the one it names or sends, and it went through
\* every check of its schema, whichever persisted-query extension supplied it.
RightDocument == NamedDocument /\ CheckedDocument

\* Every error of a response to a query or mutation went through the error
\* formatter once, whichever stage produced it (Schema::format_errors).
FormattedOnce ==
  \A r \in Reqs : resp[r] # None =>
    \A k \in DOMAIN resp[r].errors : resp[r].errors[k].formatted = 1

\* The responses of a batch stand in the order of its requests, each the
\* response of its own request, although they finish in any order.
BatchInOrder ==
  \A i \in DOMAIN out :
    /\ out[i].resp = resp[out[i].for]
    /\ Cardinality({r \in Batch : r < out[i].for}) = i - 1

\* A response goes back to its own request, with the analysis of its own document.
OwnResponse == BatchInOrder /\ AnalyzerOwn

\* The places of error e in the first n responses of request r.
Places(r, e, n) ==
  UNION {{<<i, k>> : k \in {j \in DOMAIN delivered[r][i].errors :
                              delivered[r][i].errors[j] = e}} : i \in 1 .. n}

\* An error that a resolver of an event reports is in exactly one response,
\* and no later than in the response of its event, although the events of
\* several root fields share one error list (derived subscriptions).
ErrorsReportedOnce ==
  \A r \in Reqs : req[r].schema = "derived" => \A f \in Fields :
    \A n \in DOMAIN raised[r][f] : \A k \in 1 .. raised[r][f][n] :
      LET e == EventErr(f, n, k)
      IN /\ Cardinality(Places(r, e, Len(delivered[r]))) <= 1
         /\ \A i \in DOMAIN delivered[r] :
              delivered[r][i].field = f /\ delivered[r][i].event = n =>
                Places(r, e, i) # {}

\* With a single root field a response carries the errors of its own event and
\* of no other, however the events before it ended.
OwnErrors ==
  \A r \in Reqs : req[r].schema = "derived" /\ doc[r] # None
                   /\ Cardinality(Roots[doc[r]]) = 1 =>
    \A i \in DOMAIN delivered[r] : \A k \in DOMAIN delivered[r][i].errors :
      /\ delivered[r][i].errors[k].by = delivered[r][i].field
      /\ delivered[r][i].errors[k].event = delivered[r][i].event

\* The errors of an event leave once, and in the response of their own event.
EventErrors == ErrorsReportedOnce /\ OwnErrors

\* Every request of a batch is collected, streams of other requests open or
\* not, and the events of a subscription whose resolution began are answered.
RequestsAnswered ==
  \A r \in Reqs :
    <>[](/\ r \in Batch => pc[r] = "collected"
         /\ \A f \in Fields : fpc[r][f] # "resolving")
================================================================================
