# A verification development for gqlrs

gqlrs is a GraphQL server library: it parses, validates and executes requests against a schema
built from Rust types or from values, streams subscriptions over WebSockets, and offers a batching data
loader to resolvers.  This directory holds TLA+ models of the library, the TLC configurations that
check them on small instances, and proofs, checked by TLAPS, of safety properties and refinements of
its concurrent parts for every instance.  `PROJECT.json` maps every definition to the source lines it stands for.

## Inventory

| Component | State it keeps | Operations | What is hard |
|---|---|---|---|
| Data loader (`dataloader/mod.rs`) | per (key, value) type: keys and senders of the next batch, once for `load_many` and once for `load_many_stream`; a cache; two cache switches, one under the entry's lock and one atomic outside it | `load_one`, `load_many`, `load_many_stream`, the spawned tasks, `do_load`, `do_load_stream`, `feed_*`, `clear*`, `enable_*` | concurrent calls share a batch; most of them spawn nothing and rely on another call's task; the loader fails, panics, or is refused by the spawner; switches change while a load is in flight |
| Cache storages (`dataloader/cache.rs`) | a map, bounded for the LRU | `get`, `insert`, `remove`, `clear`, `iter` | eviction between the fill and the use of an entry |
| WebSocket transport (`http/websocket.rs`) | handshake state, two timers, `waiting_for_pong`, two callback futures, the map of subscription streams, the close flag | `poll_next` | one hand-written poll function over five kinds of sources: early returns leave sources unpolled, and an unpolled source wakes nobody |
| Integrations (`integrations/*`), runtime (`runtime.rs`) | the polling task and the sink; timers, spawner | `serve`; `delay`, `spawn` | the sink fails between two messages; a timer holds a waker only when polled; a spawn may be refused |
| Executor (`schema.rs`, `extensions/*`) | the store of persisted queries, shared by requests; the extensions of each request | `execute`, `execute_batch`, `execute_stream`, the hooks | concurrent requests race on the store; a document reaches execution by several ways; early errors; the order of a batch |
| Subscriptions (`subscription.rs`, both macros of it) | one stream per root field, one error list per request | `collect_subscription_streams`, the resolution of an event | events of several fields share the error list |
| Resolvers (`resolver_utils`, `context.rs`, `look_ahead.rs`) | the errors of a request | parallel and serial resolution of fields and lists, collection, merging, look-ahead | errors of concurrent siblings, propagation to the nearest nullable parent; conditions on fragments |
| Validation (`validation`), cache control | visitor state per rule | 22 rules, depth, complexity, cache control | fragment graphs with cycles, variables through fragments, operations in the order of a HashMap |
| Registry (`registry`, `model`) | the types, while they are being registered | `create_output_type`, `create_input_type`, removal, federation, visible types, SDL export | recursive types, clashes of names, what is removed or hidden too early |
| Dynamic schema (`dynamic`) | the types of the builder | `register`, `finish` and its checks, `resolve` | the checks must admit exactly what can be served |
| Derive macros (`derive`) | none | the generated registration, resolvers, entity lookup, parsing | two things generated from one declaration must agree |
| Values, inputs, validators (`value`, `types`, `validators`) | none | `to_value`, `from_value`, printing, parsing, `is_valid`, guards | what each form loses; what validation accepts and Rust refuses |
| Multipart subscriptions, uploads, connections | local | | not modelled, see the end |

Interactions.  A request enters through a transport (an integration, a `WebSocket`), passes the extensions, is parsed,
validated against the registry and executed; the executor resolves the fields of a request, and of each event of a
subscription, with the resolvers that the macros generated.  A resolver calls the data loader, which spawns tasks on the runtime and calls
the user's `Loader`.  An integration owns one `WebSocket` per connection and polls it from a task;
the `WebSocket` calls `Executor::execute_stream` for every subscription, the user's
`on_connection_init` and `on_ping`, and the runtime's timers.  The registry is built once, before the first request, and only read
afterwards.  The data loader and the `WebSocket` share no state.

What makes them correct.
For the data loader: a call gets an answer, the answer is for its own keys
and is not older than the call, batching changes nothing else that a caller can see, no batch is
forgotten, no sender is lost or answered twice, and a disabled cache stays as it was.
For the WebSocket: the polling task never sleeps through an event, the conversation follows the protocol
whatever the client sends, an unanswered Ping closes the connection, and items and handshakes are answered.
For the executor: a request executes the document it named and only if it passed every check, each error is formatted once, a response is its
own request's, and an error of an event is in one response.
For the resolvers: the data depends on the results and not
on their order, errors and nulls explain each other, nothing works for a null, and mutations run one after the other.
For validation: walks end, what is accepted can be executed, limits do not depend on an order, and the cache
control of a response is not weaker than what is in it.
For the registry: no type is named that is not there, no type stands for another, a client sees all that it can meet, and the SDL is
a schema by itself.
For generated code: the schema and the resolvers agree, nulls and errors fit the schema, entities come back in their
places, and values and arguments keep their meaning.
The hazards behind each of these are listed with their lines in `PROJECT.json`.

## Modules

### DataLoader

One `Requests` entry, with all calls, tasks, cache operations and writers of the data source
interleaving.  A step is a section of the code between two awaits or lock operations.

* A **call** `c` runs `Load` (the locked section of `load_many` / `load_many_stream`: `Hits` is the
  cache lookup, `JoinBatch` the choice of `Action`), then `Spawn` or `SpawnRefused` outside the lock,
  then waits for its channel (`Return`, `Cancel`).  `pc[c]` is where it is.
* The **task** spawned by `c` has its state in `tst[c]`, `tkeys[c]`, `tsend[c]`...: it takes the batch
  after its delay (`DelayOver`) or is handed it (`ImmediateLoad`), runs the user's loader
  (`LoaderReturns`, `LoaderReads`, `LoaderFails`, `LoaderPanics`) and applies the result under the
  lock (`ApplyValues`, or `ApplyItem` per item and `LoaderStreamEnds`).
* `keys[m]` and `pending[m]` are `keys`/`pending` for `m = "load"` and `stream_keys`/`stream_pending`
  for `m = "stream"`.  Senders are identified with the call that made them; `chan[c]` is the channel.
* A value is the version of the record it was read from, and 0 is "no value".  `Write` makes a record
  newer.  `floor[c]` is a history variable: the versions when `c` was made.
* Cache storages appear through `Retained`, the key sets each may hold; which key the LRU storage
  evicts is left open.
* The two `disable_cache` flags are separate: `typedOff` is read under the lock whenever it is used,
  `allOff` is copied by `Spawn` into `toff[c]`, as in the code.

**LoadService** is what a caller may assume when it knows nothing of batches: a call is made, and
later either fails, is lost, or is answered with versions between the one at its start and the
current one.  `ImplementsService` states that the data loader is an execution of it, under the
mapping in `DataLoader` (the state of the channel is the outcome of the call).

**MCDataLoader** has the constant sets and the symmetry (permutations of calls and of keys; no
definition tells two of them apart, and no temporal property is checked under symmetry except
refinement steps and invariants).

**DataLoaderProof** has the theorems (below).

### WebSocket

One connection.  `poll_next` is not atomic with respect to its sources, so each place where it polls
one is a step: `PollTop` (close flag and timers), `Recv` (one client message per step, the loop goes
on at `"recv"`), `PollTail` (callback futures, then the streams in an arbitrary order, because a
HashMap has none).  `"send"` is a returned message on its way to the sink, `"idle"` is `Pending`.

The central state is `wakers`: the sources that hold the task's waker because they were polled and
not ready.  A source that becomes ready sets `woken` only if it is in `wakers`; `Timer::reset` replaces
the future, so `ResetTimer` always comes with the removal of the timer from `wakers`.  A model without this
state could not tell a timer that runs from one that will wake somebody.

Payloads, close codes and messages are abstracted; which messages carry a subscription id, and which
protocol decides on a close frame or an error message, is kept.  The environment is the client, the timers, the callbacks
(which may succeed or fail), the subscription streams and the sink (which may fail).

**SubscriptionProtocol** is the conversation a client may rely on: nothing but handshake messages, pings and
pongs before the acknowledgement, `next` only for an active subscription, one `complete` at its end, a
last message when the server closes and nothing after it.  `ImplementsProtocol` states that the
connection is an execution of it.  A second `start` with an active id replaces the stream silently, and the
abstract specification allows that.

**WebSocketProof** has the theorems (below); **MCWebSocket** the constant sets.

### Resolver

The execution of one query or mutation.  A position is a place of the response, and `Up` the chain of `path_node`s around it,
so a position is its own error path and the root stands for the empty path.  `Form[n]` says which of the generated
resolver bodies a position has: they differ in whether a failure of the position's own code leaves null there (`OwnNull`), whether an
error from below ends there (`Catches`), and whether it goes on with a new path (`Rewrites`) or gets one only if it has none
(`Completes`).  `fate[n]` is what the user's code returns for `n` once it runs, chosen at the start: a value, `None`, an error or
a denying guard, a failed argument or directive (both leave `resolve_field` before its own error handling), or `absent`
for a list that ends earlier or a fragment of another type.

`st[n]` is the state of the position's future.  `Start` is its first poll (in order for `try_join_all`, after the field before is
settled for the serial loop), `Resolve`, `ReturnNone`, `FailHere` and `FailUp` its end, `Respond` is
`execute_once`.  An error and everything it drops is one step: `try_join_all` returns the error in the poll in which it
sees it.  The user's code may return in any order.

`Expected` is the reference: what the data must be, from `fate` alone.  **MCResolver** has one request, **ResolverProof** the theorems.  **MCFields** joins it to
`MCTypes` into one run; the two share no state.

### RequestPipeline and SubscriptionStream

**RequestPipeline** is the way of a request through `prepare_request`, `execute` and `execute_batch`, with any number of requests
running concurrently.  A step of a request is what it does between two awaits: the two persisted-query extensions in the order
of `Chain` (`ApolloPrepare`, `RelayPrepare`, each passing the request on, refusing it or asking the storage), the storage's answers
(`StorageGet`, `StorageSet`), `ParseQuery` with its limits, `Validation`, `SelectOperation`, `AddError` and `ExecuteOnce`, `Respond` with the
analyzer's hook, and `CollectBatch`, the place of `FuturesOrdered`.  The state the requests share is `store`; an LRU storage may
drop any other entry when it is filled.  What the parser, the limits and the rules say of a document is a field of it, because
`Documents` computes that.  **SubscriptionStream** extends it with `execute_stream`: the streams of the root fields, the events, and
the one error list that all events of a request share, for the code of the derive macro and for that of dynamic schemas.
**MCExecution** has two requests: persisted or plain ones of one batch, or one of a batch beside a subscription.  **PipelineProof** has the theorems.
**MCRequests** joins it to `MCDocuments` into one run.

### SchemaTypes, Validation, Documents

**SchemaTypes** is the part of the registry that a request meets: type references, kinds, fields, sub-types, possible types,
`is_valid_input_value` and the parsing of an input value.  **Validation** has the visitor and one operator per rule, and
`CheckRules`, which runs the rules of the strict or the fast mode and then the limits, with the order of the operations and of the fragments
as arguments, because the code takes them from HashMaps.  **Documents** takes one request through `Parse` (with the limits on recursion,
directives and aliases), `Validate`, `ChooseOperation`, `RemoveSkippedSelections` and `Execute`, which collects the fields of every object a request can
resolve, for every runtime type.  `Total`, `Depths`, `Reaches` and `Unskipped` are reference definitions: no early stop, no
`visited` set, no pruned document.  The complexity function of a field may read an argument, and then fails where `param_value` does: on an
argument that is missing, does not parse or names a variable without a value; the request is refused in either mode.
**MCDocuments** has the schema and eleven families of requests.

### SchemaRegistry, SdlExport, DynamicSchema

**SchemaRegistry** builds a schema from a Rust program.  The recursion of `create_type_info` is the variable `stack`, so that a type which is
half registered is a state: `todo` are the calls left on each level, `types` is `Registry::types` with the empty fake types.  A name is a
base and a number, since renaming only appends `Input` and a number; `Compiles` says which programs rustc accepts.  After registration come `remove_unused_types`, the types registered
by hand, the federation types (`Finish`), and introspection by a client that may not see some types and members (`Introspect`).  The order in which
introspection passes over the interfaces is that of a map of names and is left open.  A renamed input object is renamed in the types and in the arguments
of directives (`directives`).
**SdlExport** is what `export_sdl` prints of the built registry.  **DynamicSchema** registers types given as values, adds the federation types if the builder
enables federation or a type has keys, has one operator per check of `check.rs`, and resolves the fields of the query, mutation and subscription roots of
an accepted schema with any values their resolvers may return.  A schema with federation whose query type is missing panics in `finish` before the checks
(`registry/mod.rs:1825`), which is the verdict "panic".  `collect_entities_field` is routed by `enable_federation` alone, as in the code; what keeps a request from it is the
strict validation (`EntitiesUnchecked`).  Introspection is enabled; of a subscription stream one event is followed.  A type reference has a name and, from the
outermost list inwards, whether each level is non-null; a non-null of a non-null is left out.  `answer` is one position of the response with what its
value resolves to: a step goes from a root to a field, from an object to one of its fields, or from a list to one of its items, so that the positions of
all responses, at any depth, are states.  The walk of `check_input_object_reference` is a recursive function of the steps left (`Walks`).  **MCSchemas** joins the two ways
to a schema into one run; **MCRegistry** and **MCDynamic** have their instances, and **RegistryProof** and **DynamicProof** the theorems (below).

### ObjectTypes, Entities, Values, InputTypes

What the derive macros generate is modelled as a program that interprets declarations.  **ObjectTypes**: for `Object`, `SimpleObject`,
`ComplexObject`, `MergedObject`, `Interface` and `Subscription`, the fields that registration shows and the resolver that answers a field, and the steps of
that resolver (arguments, guard, call, value) with what each does with an error.  **Entities**: the arms of `find_entity`, the batches, and
`_entities` over a root with several members.  **Values**: data through serde, values through JSON, text and variables.  **InputTypes**: an argument
through the resolution of its variables, validation, parsing with the validators of its fields, and the guards of the fields
that were supplied.  **MCTypes** joins the four into one run; **MCObjects**, **MCEntities**, **MCValues** and **MCInputs** have the instances; **EntitiesProof** has the theorem about `Entities`.

## Runs

There are a dozen runs.  Components that share no state share a run where their instances are small, and a safety and a
liveness property share one where the instance serves both.

| Run | Instance | Shows |
|---|---|---|
| `loader_service` | 2 calls of either kind, LRU of capacity 1, refusing spawner, one write per missing record | `FreshAnswer`, `ImplementsService` |
| `loader_cache` | calls around both cache switches, feeds and clears | `TypedCacheOff` |
| `loader_liveness` | calls of both kinds, `max_batch_size` 2, accepting spawner, fair | `BatchKeysMatch`, `NoOrphanBatch`, `SenderOwnedOnce`, `EveryCallReturns` |
| `socket_safety` | one subscription id, both timers, every kind of message, fair | `NoLostWakeup`, `PongDeadlineArmed`, `ImplementsProtocol`, `PingAnsweredOrClosed`, `HandshakeAnswered` |
| `socket_delivery` | two subscription ids, older protocol, no timers, fair | `ItemsDelivered` |
| `requests` (`Documents`) | some 25,000 requests over one schema, every order of their operations and fragments | `CyclesFound`, `VariablesTraced`, `LimitsExact`, `AcceptedRuns`, `CacheCovers`, `ResponseComplete` |
| `requests` (the pipeline) | 2 concurrent requests, both extensions over a storage of capacity 1, subscriptions with 1 and 2 root fields, fair | `RightDocument`, `FormattedOnce`, `OwnResponse`, `EventErrors`, `RequestsAnswered` |
| `schemas` | every program of a root with up to 2 fields from a menu, over a library of declarations that clash, recurse and merge, and merged query roots whose parts have entities; nine families of dynamic schemas | `RegistryClosed`, `PanicsOnlyOnClash`, `EntitiesServed`, `SdlSound`, `AcceptedSchemaServed`, `ResultConforms` |
| `fields` (`Resolver`) | a serial object, nested objects, a list, all results and orders, fair | `NoOrphanResolver`, `SerialFieldsDoNotOverlap`, `ErrorsFit`, `DataIsDeterministic`, `RequestAnswered` |
| `fields` (generated code) | one field with every attribute; roots of one and two members with up to three representations; some twenty types of data; arguments of every kind | `FieldsServed`, `NullsFit`, `EntitiesFound`, `ValuesKept`, `InputsKept` |
| `socket_pings_stop`, `socket_early_ping`, `schema_covariance`, `schemas_fast` | the instances above or smaller ones | disagreements between the code and its documentation, see Findings |

### Bounds

* Two keys and two calls: a batch needs one call to create it and one to join it or carry it away.
  `max_batch_size` 2 makes each of the three actions (`ImmediateLoad`, `StartFetch`, `Delay`) happen.
* `MaxVersion`: a call can be distinguished from an earlier one by one write between them.
* `Cap` 1: with two keys every second insertion evicts.
* `MaxMessages` and `MaxInbox` bound what the client sends and what is buffered; the handshake, a start, a stop and a
  message behind a running callback fit.  `MaxItems` bounds the items of all streams, so that liveness
  is about streams that become quiet.
* `Toggles` selects which cache switches the application uses.
* The request of `MCResolver` has six of the eight forms of position (the items of a list of `Option` or `Result`, `option_item` and
  `result_item`, are covered by the theorems only), an error that passes a rewriting and a catching position, siblings that fail
  at the same time, and positions nested in the first field of a mutation.  Failures that the model cannot
  tell apart are represented by one of them (`OneErrorOfAKind`).
* `requests`, the pipeline: two requests are enough for one to fill or evict what the other is about to read; two events (`MaxEvents`) are
  the least that can exchange errors, and with two root fields they can be of different streams.
* `requests`, the documents: two fragments give every cycle up to length two and a cycle behind a chain; two operations give every order.  The limits
  are taken around the costs of the documents.  `MaxUsize` stands for the largest `usize`, which the
  sums do not reach, so the overflow of `complexity.rs:108` is not met.
* `schemas`: a clash needs two declarations with one name, and two root fields meet them in both orders.  Three input objects have every form of
  cycle and a path into one; an interface with one field, one argument and six wrappings meets each case of `is_subtype`.
* `fields`: one field suffices for what is generated per field, and two for what one item does to another (flattened members, clashes).
* The theorems do not depend on any of these.

Deadlock is not checked where a run ends with all calls made, the connection closed or the request answered: these systems stop there.

### Fairness

`DataLoader!Fairness`: a call that has released the lock runs on to its spawn (no await in
between), the executor runs a spawned task and its timer fires, the user's loader answers, and a call whose channel
has an answer is polled.  Liveness is claimed only for a spawner that accepts tasks.
`WebSocket!Fairness`: the executor runs the polling task when it is woken, the sink accepts, timers run
out, callbacks answer.  Nothing is assumed of the client or of the streams.
`Resolver!Fairness`: the executor polls the request, and the user's resolvers return.
`SubscriptionStream!FairSpec`: the executor polls each request, storages and resolvers answer; the user's streams may stay silent for
ever, so nothing is claimed about their next event or their end.

## Findings

Four properties that a comment or a document states are violated by the code; each has a run that shows
such a behaviour, and `PROJECT.json` quotes the line.

* `PingsContinue`: `poll_next` resets a timer after it has polled it and then returns `Pending`.  The new timer was
  never polled, so it wakes nobody, and after the first Pong no timer is armed.  The same cause leaves an
  idle connection open whose last message produced no answer.
* `PingsAcknowledged`: the documentation of `ping_interval` promises a Ping "after the connection has been acknowledged".  The interval runs from the
  upgrade and `websocket.rs:373` does not look at the handshake, so a client that is slower than the interval gets a Ping first.  `SubscriptionProtocol` allows
  a Ping while connecting, because that is what a client of this code must expect.
* `ImplementationsCovariant`: the check of a dynamic schema passes the two types of an implemented field to `is_subtype` in the
  wrong order, so a nullable field may implement a non-null one and not the other way round.
* `ExecutorHandlesErrors`: a dynamic schema with `enable_federation` and no type with keys has no `_Entity` type, and the executor routes `_entities` without
  looking for it.  Fast validation lets the field through, and `resolve.rs:438` indexes a missing type: a panic, where `validation/mod.rs:37` says that the
  executor has its own error handling.  A query type with an `_entities` field of its own reaches the same line under strict validation.

Other places where the code and its words differ were met while modelling.  The models follow the code:

* `max_batch_size` (`dataloader/mod.rs:544`): a call adds all its keys before the size is compared, so a batch can exceed it.
* The path of an error (`resolver_utils/object.rs:110`): a field of a `SimpleObject`, a non-async field and a list item replace the
  path of an error from below by their own; other forms of field keep it.
* An input object that is renamed (`registry/mod.rs:1578` says that existing references are rewritten): the fields that an outer `create_type_info` has built so
  far are not in the registry yet, so their arguments keep the old name, which now names the output object.
* A merged object that is met while a part of it is under construction copies the fields of the empty type that stands for the part (`registry/mod.rs:1635`
  says that the empty type allows recursive types to exist); the fields are missing from the merged object for good.
* The key of an entity that is under construction when it is added (`registry/mod.rs:1677`) goes to the empty type and is lost, since the finished type
  replaces it.  The entity resolvers of the query root and of its parts cannot meet this, except for a resolver that returns the query root itself; those
  of a part of a part can, so `EntitiesServed` does not speak of them.
* `docs/en/src/cache_control.md:13` says that a private object makes the response private; the cache control of an object is merged only
  where a selection set is written on the object type itself, not where it is met through an interface or a union (`visitors/cache_control.rs:22`).
* A type that a client may not see is still shown as the type of a visible field or of the argument of a directive
  (`model/schema.rs:102`); `docs/object.md:18` says it is not displayed in introspection.
* The documentation of `Value` (`value/src/lib.rs`) says that serialising a variable fails; it is written as `{"$var": name}` and an object of that form
  is read back as a variable.
* A subscription over a dynamic schema ignores `introspection_only` (`dynamic/subscription.rs:210`), and the errors of its events, as of all events, do
  not pass the error formatter (`schema.rs:731`).
* `write_quoted` prints control characters with the decimal digits of their code (`value/src/lib.rs:516`), which the parser reads as hexadecimal.

Some properties name exceptions, all of them behaviour of the code rather than of the model.  `FieldsServed`: two items of one name, of which the
schema shows the later and the resolvers try the first, and the name of a flattened member among the keys of a `SimpleObject`.  `NullsFit`: the
forms of field whose error goes to the parent although the field is nullable.  `ValuesKept`: what each form loses (`LosesData`, `NotJson`, `NotText`,
`LooksLikeVariable`).  `InputsKept`: what Rust refuses after validation accepted it (`RustRefuses`), guards below a converted field, and
limits on numbers that do not fit `i64` or have a fraction.  `AcceptedRuns`: null for a field with a default, and arguments whose variable is left out, which
validation does not look at.  `ResultConforms`: the lookup of `_Entity` in a schema that has none, where no rule keeps a request from it (`Unserved`).

## Proofs

`DataLoaderProof` proves, for every set of keys and calls, every batch size, cache policy, bound and use of the
switches (the assumption is `ConstantsAssumption`, which only types the constants):

* `TypeCorrect`: `Spec => []TypeOK`.
* `Invariance`: `Spec => [](TypeOK /\ IInv)`, the inductive invariant.
* `AnswersAreFresh`, `BatchesMatchSenders`, `SendersHaveOneOwner`: the invariants of the runs.
* `BatchesHaveATask`: `NoOrphanBatch`, for a spawner that accepts every task.
* `DisabledCacheStays`: the action property `TypedCacheOff`.

Why an inductive invariant is needed.  `FreshAnswer` says what an answered call has; the step that
answers it (`ApplyValues`, `LoaderStreamEnds`) needs to know that the values the task holds, or has already sent, are not older
than any of its senders (`FreshOnTheWay`), which needs every sender of a batch to be unanswered and to have its
keys in the batch (`SendersPlaced`).  That in turn is preserved by `Load` only because a call not yet made has
left no trace (`CallsInOrder`).  `KeysWanted` is the other half of `BatchKeysMatch`.  The proof has one lemma per action or
group of actions with the same footprint (`LoadKeeps`, `DelayOverKeeps`, `ReadKeeps`, `ApplyItemKeeps`, ...), and `TaskEnds`
for what all endings of a task have in common.  `NoOrphanBatch` is a separate induction on top of it: the call
that finds the batch empty undertakes to take it, and gives this up only by emptying it.

Its last part proves `Spec => ImplementsService` on top of that: `Load` is the service's call, the steps that
answer, fail or drop a channel are its outcomes, `Write` is itself, and every other step leaves the mapped variables
alone.  The answer of the service lies between the version at the call and the current one; `FreshAnswer` gives the
lower bound, and `NotFromTheFuture` (no value on its way is newer than its record) the upper one.

`WebSocketProof` proves, for both protocols, every set of ids and every combination of timers and callbacks:

* `TypeCorrect`, and `Invariance`: `Spec => [](TypeOK /\ IInv)`.
* `NothingIsSleptThrough` (`NoLostWakeup`) and `DeadlineStaysArmed` (`PongDeadlineArmed`).
* `Refinement`: `Spec => ImplementsProtocol`.

`NoLostWakeup` speaks of a sleeping task only, and the step that goes to sleep (`PollTail`) has not polled the client.
What it needs is a fact about a poll in progress: once past the client's messages, all of them were seen or the task
was woken again (`ClientArmed`), once past the timers, the deadline was polled (`DeadlinePolled`).  Both speak of `pc`
values inside `poll_next` and are preserved by the environment because a source that becomes ready and holds the waker
sets `woken`.  `InOrder` (the handshake runs once, streams only after it, nothing after the close) is what the
refinement rests on.

`ResolverProof` proves, for every tree of positions, every assignment of forms and every result of the user's code
(`TreeAssumption`: a tree of finite depth; `SiblingsAssumption`, `FormAssumption`: types and one parent for siblings):

* `TypeCorrect`, and `Invariance`: `Spec => [](TypeOK /\ IInv)`.
* `NothingWorksForANull`, `MutationsAreSerial`, and `ErrorsExplainNulls` with `PathsAreDistinct`, which make
  `ErrorsAndNullsFit`: the invariants of the run.
* `OrderDoesNotMatter`: `DataIsDeterministic`.

`OneErrorPerPath` is not inductive: a new error must not find its path used.  `ReportedIsOver` says that a reported position is
failed or gone, while the path of a new error belongs to a position that is still running or resolved.
`DataIsDeterministic` speaks of finished requests only; `StatesHaveReasons` carries, for every state a future can be in, its reason in
`fate`, and the key step (`HitIsOver`) is that a position dropped before it could fail was dropped by an error that ends at or above
the place where its own would have ended.

`PipelineProof` proves, for any number of concurrent requests, every chain of persisted-query extensions, every
storage that evicts, and every set of documents, root fields and events (`PipelineAssumption` and `StreamAssumption`:
types, documents attached by a caller were parsed, and an operation has finitely many root fields):

* `TypeCorrect`, and `Invariance`: `Spec => [](TypeOK /\ IInv)`.
* `RightDocumentHolds`, `FormattedOnceHolds`, `OwnResponseHolds`: three invariants of the `requests` run.
* `StreamInvariance`: `Spec => []EInv`, and from it `EventErrorsHold`: `EventErrors`.

`NamedDocument` speaks of a document once it is chosen.  Before that, `NamedSoFar` says what the extensions passed so far
have made of the request: nothing, or the document of the last id.  It survives `StorageGet` because a storage holds
each document under its own hash (`StoredByHash`), whatever other requests put and evict meanwhile, and
`StorageSet` keeps that because the request waits for the storage only with an id that is the hash of its text (`AsksByHash`).
`CollectedInOrder` says that the requests collected so far are the first ones of the batch.

`EventErrors` compares all the responses of a subscription with all that its events raised.  `EInv` adds what happens in between:
the list of the request holds errors of the events now in resolution (`ListIsCurrent`), a response is that of an event that is
over (`ResponsesArePast`), no raised error is in two places (`Apart`), and each one is in the list or in a response
(`Reported`).  `DeliverStep` shows this for any response that empties the list or leaves it alone; the steps
that deliver are cases of it.

`RegistryProof` proves of every program that compiles, of whatever size and shape, and for every client:

* `RegistryInvariant`: `Spec => []RegistryInv`, type correctness and what the recursion of `create_type_info` maintains.
* `ClosedAlways`: `RegistryClosed`, the invariant of the `schemas` run: in a schema that was built nothing dangles, every reference but an
  argument's means the type it was written for (where no conflict of names is ignored), and introspection lists the types the client can meet and no others.

The assumptions are `ProgramsAssumption`, where `Compiles` says what the trait bounds of the generated code make rustc check (a field
has an output type and an argument an input type; members of unions, parts and roots are objects; a Rust type is one declaration per
kind, as it implements a trait once), and `BasesAssumption`, that the two federation names are names.

`RegistryClosed` speaks of the finished schema only, while `Registry::types` is full of empty types and the references to them sit
in the frames of the recursion.  The inductive invariant therefore has three parts while types are created.  `TypesInv`: a type
that is not finished is the one some frame is still to close, and the references of a finished one exist.  `StackInv`: each frame was called by the
one below it, its calls and references are those its kind of declaration can have, and what is created above an input object
are input objects only.  `MeaningInv`: a reference that is not an argument stands for the declaration it was written for.  The case that needs
all three is the renaming of an input object by an output object that takes its name (`RenameKeeps`): `InputsAbove` gives that no
input object is under construction then, so no frame holds a reference to the old name that would have to move.
`remove_unused_types`, `Finish` and `Introspect` are steps from one finished map to another; they rest on `ReachClosed`: what
`Reach` finds in a finite graph is closed under it, although it stops after as many rounds as the graph has nodes.

Its other two parts prove, from the same assumptions and on top of `RegistryInvariant`, the two invariants about the program that is built:

* `PanicsExplained`: `PanicsOnlyOnClash`.  A build panics only for a program with two declarations, both of which it calls, that clash:
  one name for two Rust types, for two kinds other than an object and an input object, or for a type and an automatic input name; or
  with a merged object two of whose parts have a field of one name, at any depth.
* `EntitiesAlwaysServed`: `EntitiesServed`.  The `_Entity` union holds what the entity resolvers of the query root and of its parts return.

The condition of `PanicsOnlyOnClash` speaks of the program alone, the panic of the map and the stack at that moment.  `OriginInv` connects them.  Each entry of the map
has an origin: a declaration that the build calls, whose name is the entry's, or which is the input side of a Rust type with an
output side and was given the name (`Given`); and the fields of the entry are fields of that declaration or of its parts
(`MergedFields`).  Each frame has made the first k calls of its constructor (`Progress`), and while a merged object takes its parts it has the fields
of the parts so far and no others, so a field it refuses belongs to two of them (`PartsApart`).  `PanicInv` says that a program
without a clash keeps `OriginInv` through the build; the disjuncts of `create_type` that panic contradict it, one by one, in
`CreateOrigins`.  The proof found what the property had to say: it first compared only the direct fields of two parts, while a part may itself
be merged, and it missed the automatic name that meets a kind other than an object of the same Rust type.

For `EntitiesServed` a key must be followed from the call that adds it to the end of the build.  `RootOpen` says what is owed while the query root is
registered: an entity is `Settled` (its type is made, not under construction, and has its key), or the first frame still has the call (`OwedIn`), or it is an entity of
a part which the first frame has yet to create or whose own frame is the second (`OwedByPart`).  A key that is added while its type is under construction
is lost; it cannot happen here because the entity resolvers are the last calls of a frame, made when the root, or the part above it, has
been closed: no type but the query root's is then unfinished (`AddKeysServes`).  After that `AllSettled` stays: a type with a key is never replaced (an output object
takes the name of an input object only), and `remove_unused_types` starts from the types with keys.  `KeysTrue` says that only an
unresolvable declaration marks its type so, which needs that a Rust type is one declaration per kind (`OneSide`).  `FederationTypes` is what
`create_federation_types` adds, and the objects under an interface are in the union because what `Reach` finds is closed (`PossibleEntities`).
The proof narrowed the property, which first spoke of the entity resolvers of every object.

`DynamicProof` proves of every list of types given at run time, and of whatever their resolvers return (`DefinitionsAssumption`: the builder keeps its types
by name, so names are distinct, and none is `_Entity`, the union that federation adds; `ReturnedAssumption` types the values):

* `AcceptedSchemasServe`: `AcceptedSchemaServed`.  What passes the six checks can be served, and what is refused for its input objects deserves it.
* `ResponsesConform`: `ResultConforms`, for every position of a response or an event and without a bound on its depth.  No type is looked up that is not served,
  except `_Entity` where the validation lets `_entities` through.

The first has two arguments.  The possible types of an interface are collected before the checks and read after them; `Created` says from the definition alone
what they are, and `Accepted` what the checks made sure of, so that the fields of an interface are on each of its possible types.  And the walk along
non-null references is right in both directions: one that fails has been round a cycle (`FailedWalkIsCycle`), and one that passes leaves a set of input
objects that is closed under the references and is without the start (`PassedWalkIsSafe`).  The second is the less obvious one, because the walk never enters a type on its
chain: what it finds is closed only up to the chain (`Safe`), and its length is bounded by the types not yet on it.  `Position` carries the
conformance: its step (`PositionResolves`) needs for a composite type that the possible types of that moment are those `Created` says.

`EntitiesProof` proves `EntitiesFound` of every query root, merged or not, with any finders and batches, and of every list of representations
(`GatewaysAssumption`: the methods have arguments and a type, no GraphQL type is named like the two marks for a representation without a
typename, and no interface has them as a type).  `Made` says what the member being asked has found, each for the representation at its place, and
`Asked` that one looked up in vain has no finder in it; `Kept` and `Passed` say the same of the members asked before.  `NextMember` and `Reply` turn
the first pair into the second (`MergedFits`), which rests on every representation being asked again of every member.  `Asked` counts only
lookups of one representation: a batch may answer with too few, and what it left is looked up after it, which is why nothing is passed over.
The answers of a batch go to places in the list of its keys, and `PlaceIdentifies` shows that a place names one representation.  The order
of the lookups is not used: the theorem holds in every order.

`InductionLemmas` has what takes the place of the library's induction theorems, whose operator parameters the provers cannot instantiate: a set of
numbers that holds 0 and each successor holds every number (`SetInduction`, from the injections between finite sets), a recursive
function exists (`RecursionExists`), and its values keep what each step keeps (`RecursionInvariant`).  `Reach`,
`find_visible_types`, the flattening of the members of a declaration and the walk between input objects are reasoned about with them.

Only model-checked: `SdlSound`, the six properties of `Documents`, those of the generated code but `EntitiesFound`, and the liveness properties, because TLAPS does not
reason about fairness.

## Not modelled

* **Multipart subscriptions and the callback protocol** (`http/multipart_subscribe.rs`, `http/callback.rs`): a heartbeat and a stream joined by
  `select!`, and checks of single messages.  A model would restate `select!`.
* **HTTP requests and uploads** (`http/mod.rs`, `http/multipart.rs`): parsing of bytes and headers; nothing outlives a call.
* **Cursor connections** (`types/connection`): conversions of cursors, and four argument checks that are each one guard.
* **The order of the LRU storage**: `Retained` leaves open which key is evicted; the properties of the loader hold for every choice.
* **Union derive, descriptions, tags, stability** in the registry and the macros, and the syntax the macros parse.
* **Logger, tracing and Apollo tracing extensions**: they record what passes.  (Apollo tracing is created once per subscription and never empties its
  list of resolvers, so each event repeats the traces of all earlier ones.)
* **Scalars of one string** (dates, decimals, addresses and the like) and the **grammar**, which is generated.
* **The adapters of the web frameworks**, apart from the loop that polls a connection.

Model-checked only: the six properties of `Documents`, those of the generated code but `EntitiesFound`, and `SdlSound`.  These are short state machines, or none, whose weight is
in operators that recur over the data of a request; the induction that proves such an operator right is one over data, which the provers
cannot do in general.
