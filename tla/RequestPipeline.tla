---------------------------- MODULE RequestPipeline ----------------------------
(***************************************************************************)
(* The way of a request through Schema::execute, Schema::execute_batch and *)
(* Schema::execute_stream: the extensions prepare it (Apollo and Relay     *)
(* persisted queries answer or fill a shared store), the document is       *)
(* parsed and limited, validated, an operation is chosen and executed, and *)
(* the response leaves through the extensions and the batch.               *)
(*                                                                         *)
(* The requests run concurrently.  A step of a request is what it does     *)
(* between two awaits; the store is the state that requests share.  What   *)
(* parsing and the rules answer for a document is a field of the document  *)
(* (the modules of the validation rules compute it).                       *)
(***************************************************************************)
EXTENDS Naturals, Sequences, FiniteSets

CONSTANTS
  NReqs,       \* how many requests the batch holds
  Texts,       \* the query texts; a document is named by its text
  Doc,         \* Doc[t]: what the parser and the checks say of text t
  Names,       \* the operation names
  Inputs,      \* the requests that run together: functions over 1 .. NReqs
  Chain,       \* the persisted-query extensions, in registration order
  Backend,     \* Backend[e]: the storage that extension e was given
  StoreCap,    \* the capacity of LruCacheStorage
  MaxErrors,   \* the field errors that one execution may report
  None,
  Empty,       \* the empty query text
  Malformed    \* an id of the wrong shape

Reqs  == 1 .. NReqs
Exts  == {"apollo", "relay"}

\* The digest of a query text: no two texts share one.
Sha256(t) == [sha256 |-> t]
Hashes    == {Sha256(t) : t \in Texts}

\* DocumentOperations: one unnamed operation, or named ones.
DocRecord ==
  [parses : BOOLEAN, depth : BOOLEAN, directives : BOOLEAN, aliases : BOOLEAN,
   valid : BOOLEAN, named : SUBSET Names,
   type : {"query", "mutation", "subscription"}]

\* A client's request.  An id is the value under the extension's key:
\* absent, unusable (wrong shape or version) or a hash.  The schema is a
\* Schema of the derive macros, a dynamic one, or a dynamic one that names no
\* subscription root; introspection is IntrospectionOnly, of the request or
\* of the schema.
InputRecord ==
  [query : Texts \cup {Empty}, parsed : Texts \cup {None},
   ids : [Exts -> Hashes \cup {None, Malformed}],
   name : Names \cup {None}, introspection : BOOLEAN, stream : BOOLEAN,
   schema : {"derived", "dynamic", "bare"}]

ASSUME PipelineAssumption ==
  /\ NReqs \in Nat \ {0}
  /\ StoreCap \in Nat \ {0}
  /\ MaxErrors \in Nat
  /\ Doc \in [Texts -> DocRecord]
  /\ Inputs \subseteq [Reqs -> InputRecord]
  /\ \A i \in Inputs, r \in Reqs : i[r].parsed # None => Doc[i[r].parsed].parses
  /\ Chain \in Seq(Exts)
  /\ \A m, n \in DOMAIN Chain : Chain[m] = Chain[n] => m = n
  /\ DOMAIN Backend = Exts
  /\ None \notin Texts \cup Names \cup Hashes \cup {Malformed}
  /\ Malformed \notin Hashes
  /\ Empty \notin Texts

VARIABLES
  req,       \* req[r]: the request as the client sent it
  pc,        \* pc[r]: the await at which request r stands
  at,        \* at[r]: the extension of Chain that prepare_request has reached
  query,     \* Request::query
  parsed,    \* Request::parsed_query
  store,     \* store[b]: the documents of storage b, by hash
  doc,       \* the document that passed parse_query
  root,      \* the root object that executes the operation
  errors,    \* QueryEnvInner::errors
  analyzer,  \* analyzer[i]: AnalyzerExtension::validation_result of instance i
  resp,      \* the response of the request
  out        \* the responses FuturesOrdered has handed out

vars == <<req, pc, at, query, parsed, store, doc, root, errors, analyzer,
          resp, out>>

\* An error: the part of the operation that reported it (0: the request
\* itself), its number there, and how often the formatter saw it.
Err(by, n) == [by |-> by, n |-> n, formatted |-> 0]

\* Schema::format_errors.
FormatErrors(es) ==
  [k \in DOMAIN es |-> [es[k] EXCEPT !.formatted = @ + 1]]

Response(d, es) == [data |-> d, errors |-> es, analyzer |-> None]

Init ==
  /\ req \in Inputs
  /\ pc = [r \in Reqs |-> "prepare"]
  /\ at = [r \in Reqs |-> 1]
  /\ query = [r \in Reqs |-> req[r].query]
  /\ parsed = [r \in Reqs |-> req[r].parsed]
  /\ store = [b \in {Backend[e] : e \in Exts} |-> << >>]
  /\ doc = [r \in Reqs |-> None]
  /\ root = [r \in Reqs |-> None]
  /\ errors = [r \in Reqs |-> << >>]
  /\ analyzer = [r \in Reqs |-> None]
  /\ resp = [r \in Reqs |-> None]
  /\ out = << >>

Goto(r, l) == pc' = [pc EXCEPT ![r] = l]

\* An error before execution: the response holds it alone, formatted.
Fail(r) ==
  /\ resp' = [resp EXCEPT ![r] = Response(None, FormatErrors(<<Err(0, 1)>>))]
  /\ Goto(r, "responding")

\* The dynamic execute_stream asks for the subscription root first, whatever
\* operation the request holds.
Rootless(r) == req[r].stream /\ req[r].schema = "bare"

NoSubscriptionRoot(r) ==
  /\ pc[r] = "prepare" /\ Rootless(r)
  /\ Fail(r)
  /\ UNCHANGED <<req, at, query, parsed, store, doc, root, errors, analyzer, out>>

-----------------------------------------------------------------------------
(* Persisted queries *)

Ext(r)     == Chain[at[r]]
ClientId(r) == req[r].ids[Ext(r)]
AskedOf(r) == Backend[Ext(r)]

\* prepare_request without the extension's key, of either extension.
PassOn(r) ==
  /\ ClientId(r) = None
  /\ at' = [at EXCEPT ![r] = @ + 1]
  /\ UNCHANGED <<pc, resp>>

\* An id that cannot be used, or that is not the hash of the text that came
\* with it, or a text that does not parse.
Refuse(r) ==
  /\ ClientId(r) # None
  /\ \/ ClientId(r) = Malformed
     \/ /\ query[r] # Empty
        /\ \/ ClientId(r) # Sha256(query[r])
           \/ ~Doc[query[r]].parses
  /\ Fail(r)
  /\ UNCHANGED at

\* A form of AskStorage that trusts the hash the client sent with a text.
AskStorageTrusting(r) ==
  /\ ClientId(r) \in Hashes
  /\ Goto(r, IF query[r] = Empty THEN "get" ELSE "set")
  /\ UNCHANGED <<at, resp>>

\* The request waits for the storage: get without a text, set with one.
AskStorage(r) ==
  /\ ClientId(r) \in Hashes
  /\ \/ /\ query[r] = Empty
        /\ Goto(r, "get")
     \/ /\ query[r] # Empty
        /\ ClientId(r) = Sha256(query[r])
        /\ Doc[query[r]].parses
        /\ Goto(r, "set")
  /\ UNCHANGED <<at, resp>>

ApolloPrepare(r) ==
  /\ pc[r] = "prepare" /\ ~Rootless(r)
  /\ at[r] \in DOMAIN Chain /\ Ext(r) = "apollo"
  /\ PassOn(r) \/ Refuse(r) \/ AskStorage(r)
  /\ UNCHANGED <<req, query, parsed, store, doc, root, errors, analyzer, out>>

RelayPrepare(r) ==
  /\ pc[r] = "prepare" /\ ~Rootless(r)
  /\ at[r] \in DOMAIN Chain /\ Ext(r) = "relay"
  /\ PassOn(r) \/ Refuse(r) \/ AskStorage(r)
  /\ UNCHANGED <<req, query, parsed, store, doc, root, errors, analyzer, out>>

\* CacheStorage::get answers: the stored document replaces parsed_query.
StorageGet(r) ==
  /\ pc[r] = "get"
  /\ IF ClientId(r) \in DOMAIN store[AskedOf(r)]
     THEN /\ parsed' = [parsed EXCEPT ![r] = store[AskedOf(r)][ClientId(r)]]
          /\ at' = [at EXCEPT ![r] = @ + 1]
          /\ Goto(r, "prepare")
          /\ UNCHANGED resp
     ELSE /\ Fail(r)
          /\ UNCHANGED <<at, parsed>>
  /\ UNCHANGED <<req, query, store, doc, root, errors, analyzer, out>>

\* HashCache::put: the cache may drop one other entry, and must when full.
Put(m, h, t) ==
  {[k \in {h} \cup kept |-> IF k = h THEN t ELSE m[k]] :
     kept \in {K \in SUBSET (DOMAIN m \ {h}) :
                 /\ Cardinality((DOMAIN m \ {h}) \ K) <= 1
                 /\ Cardinality(K) < StoreCap}}

\* CacheStorage::set is done: the text is emptied and the document attached.
StorageSet(r) ==
  /\ pc[r] = "set"
  /\ \E m \in Put(store[AskedOf(r)], ClientId(r), query[r]) :
       store' = [store EXCEPT ![AskedOf(r)] = m]
  /\ parsed' = [parsed EXCEPT ![r] = query[r]]
  /\ query' = [query EXCEPT ![r] = Empty]
  /\ at' = [at EXCEPT ![r] = @ + 1]
  /\ Goto(r, "prepare")
  /\ UNCHANGED <<req, doc, root, errors, analyzer, resp, out>>

-----------------------------------------------------------------------------
(* prepare_request: parsing, limits, rules, choice of the operation *)

\* A document attached to the request is used as it is; only a text is parsed.
DocumentOf(r) == IF parsed[r] # None THEN parsed[r] ELSE query[r]

\* check_recursive_depth, check_max_directives and check_alias_count.
Limited(r, d) == Doc[d].depth /\ Doc[d].directives /\ Doc[d].aliases

ParseQuery(r) ==
  /\ pc[r] = "prepare" /\ ~Rootless(r) /\ at[r] \notin DOMAIN Chain
  /\ IF /\ DocumentOf(r) # Empty
        /\ parsed[r] # None \/ Doc[DocumentOf(r)].parses
        /\ Limited(r, DocumentOf(r))
     THEN /\ doc' = [doc EXCEPT ![r] = DocumentOf(r)]
          /\ Goto(r, "validate")
          /\ UNCHANGED resp
     ELSE /\ Fail(r)
          /\ UNCHANGED doc
  /\ UNCHANGED <<req, at, query, parsed, store, root, errors, analyzer, out>>

\* A form of Instance with one analyzer for the schema.
InstanceShared(r) == 1

\* The instance of the analyzer that serves request r: create_extensions makes
\* one for every request.
Instance(r) == r

\* check_rules inside Extensions::validation; the analyzer keeps the result.
Validation(r) ==
  /\ pc[r] = "validate"
  /\ IF Doc[doc[r]].valid
     THEN /\ analyzer' = [analyzer EXCEPT ![Instance(r)] = doc[r]]
          /\ Goto(r, "select")
          /\ UNCHANGED resp
     ELSE /\ Fail(r)
          /\ UNCHANGED analyzer
  /\ UNCHANGED <<req, at, query, parsed, store, doc, root, errors, out>>

\* A name finds its operation among named ones only; without a name the
\* document must hold one operation.
HasOperation(r) ==
  LET named == Doc[doc[r]].named
  IN IF req[r].name # None THEN req[r].name \in named
     ELSE Cardinality(named) <= 1

\* The object that resolves the root fields: QueryRoot, EmptyMutation and
\* EmptySubscription keep an introspection-only request from the user's
\* objects; the dynamic schema looks at the mode for fields, not for streams.
RootOf(r) ==
  IF /\ req[r].introspection
     /\ req[r].schema = "derived" \/ Doc[doc[r]].type # "subscription"
  THEN "empty" ELSE "user"

\* The operation is chosen and the environment built; a subscription goes to
\* its streams, the other operations to execute_once.
SelectOperation(r) ==
  /\ pc[r] = "select"
  /\ IF HasOperation(r)
     THEN /\ root' = [root EXCEPT ![r] = RootOf(r)]
          /\ Goto(r, IF Doc[doc[r]].type = "subscription"
                     THEN IF req[r].stream THEN "streaming" ELSE "transport"
                     ELSE "execute")
          /\ UNCHANGED resp
     ELSE /\ Fail(r)
          /\ UNCHANGED root
  /\ UNCHANGED <<req, at, query, parsed, store, doc, errors, analyzer, out>>

-----------------------------------------------------------------------------
(* execute_once and the response *)

\* A subscription reached a transport that cannot stream.
Unsupported(r) ==
  /\ pc[r] = "transport"
  /\ Fail(r)
  /\ UNCHANGED <<req, at, query, parsed, store, doc, root, errors, analyzer, out>>

\* ContextBase::add_error: a nullable field reports its error and goes on.
AddError(r) ==
  /\ pc[r] = "execute"
  /\ Len(errors[r]) < MaxErrors
  /\ errors' = [errors EXCEPT ![r] = Append(@, Err(1, Len(@) + 1))]
  /\ UNCHANGED <<req, pc, at, query, parsed, store, doc, root, analyzer, resp, out>>

\* A form of ExecuteOnce that adds the reported errors after formatting.
ExecuteOnceLate(r) ==
  /\ pc[r] = "execute"
  /\ \E first \in {<< >>, <<Err(0, 1)>>} :
       resp' = [resp EXCEPT ![r] =
                  Response(IF first = << >> THEN doc[r] ELSE None,
                           FormatErrors(first) \o errors[r])]
  /\ errors' = [errors EXCEPT ![r] = << >>]
  /\ Goto(r, "responding")
  /\ UNCHANGED <<req, at, query, parsed, store, doc, root, analyzer, out>>

\* resolve_container returns: the error that reached the root, if any, comes
\* first, then the reported ones; the environment's list is taken.
ExecuteOnce(r) ==
  /\ pc[r] = "execute"
  /\ \E first \in {<< >>, <<Err(0, 1)>>} :
       resp' = [resp EXCEPT ![r] =
                  Response(IF first = << >> THEN doc[r] ELSE None,
                           FormatErrors(first \o errors[r]))]
  /\ errors' = [errors EXCEPT ![r] = << >>]
  /\ Goto(r, "responding")
  /\ UNCHANGED <<req, at, query, parsed, store, doc, root, analyzer, out>>

\* Extension::request of the analyzer: the result kept by the instance goes
\* into the response.  A streamed response does not pass through that hook.
Respond(r) ==
  /\ pc[r] = "responding"
  /\ IF req[r].stream
     THEN UNCHANGED <<resp, analyzer>>
     ELSE /\ resp' = [resp EXCEPT ![r].analyzer = analyzer[Instance(r)]]
          /\ analyzer' = [analyzer EXCEPT ![Instance(r)] = None]
  /\ Goto(r, "answered")
  /\ UNCHANGED <<req, at, query, parsed, store, doc, root, errors, out>>

\* FuturesOrdered: the futures finish in any order and their outputs come in
\* the order of the requests.
Batch == {r \in Reqs : ~req[r].stream}

\* A form of Collectable that waits for streams.
CollectableAll(r) == \A s \in Reqs : s < r => pc[s] = "collected"

Collectable(r) == \A s \in Batch : s < r => pc[s] = "collected"

CollectBatch ==
  /\ \E r \in Batch :
       /\ pc[r] = "answered"
       /\ Collectable(r)
       /\ out' = Append(out, [for |-> r, resp |-> resp[r]])
       /\ Goto(r, "collected")
  /\ UNCHANGED <<req, at, query, parsed, store, doc, root, errors, analyzer, resp>>

RequestStep(r) ==
  \/ ApolloPrepare(r) \/ RelayPrepare(r) \/ StorageGet(r) \/ StorageSet(r)
  \/ NoSubscriptionRoot(r) \/ ParseQuery(r) \/ Validation(r) \/ SelectOperation(r)
  \/ Unsupported(r) \/ ExecuteOnce(r) \/ Respond(r)

PipelineNext ==
  \/ \E r \in Reqs : RequestStep(r) \/ AddError(r)
  \/ CollectBatch

================================================================================
