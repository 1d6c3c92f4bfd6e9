------------------------------ MODULE DataLoader ------------------------------
(***************************************************************************)
(* The batching data loader of src/dataloader/mod.rs, for one (key type,   *)
(* value type) pair, i.e. one `Requests` entry of the loader.              *)
(*                                                                         *)
(* `load_many` and `load_many_stream` collect the keys of concurrent calls *)
(* under the entry's lock.  The call that finds the batch empty spawns a   *)
(* task that waits for the delay and then takes the batch (StartFetch); a  *)
(* call that fills the batch to max_batch_size takes it at once            *)
(* (ImmediateLoad); every other call relies on one of those two (Delay).   *)
(* A task that has taken a batch runs the user's Loader, updates the cache *)
(* and answers the senders of the batch.                                   *)
(*                                                                         *)
(* Every atomic step of the model is a section of the code between two     *)
(* await points or lock operations; calls, tasks, cache operations and the *)
(* writers of the data source interleave freely between them.              *)
(***************************************************************************)
EXTENDS Integers, FiniteSets

CONSTANTS
  Keys,          \* the keys of type K
  Calls,         \* the calls of load_many and load_many_stream
  ModesUsed,     \* which of the two entry points the calls use
  MaxBatchSize,  \* DataLoader::max_batch_size
  Policy,        \* the cache factory: "NoCache", "HashMapCache", "LruCache"
  Cap,           \* the capacity given to LruCache::new
  MaxVersion,    \* bound: writes to a key of the data source
  SpawnMayFail,  \* whether the spawner may refuse a task
  Toggles        \* which of the two cache switches the application uses

Modes == {"load", "stream"}

ASSUME ConstantsAssumption ==
  /\ ModesUsed \subseteq Modes
  /\ MaxBatchSize \in Nat
  /\ Policy \in {"NoCache", "HashMapCache", "LruCache"}
  /\ Cap \in Nat \ {0}
  /\ MaxVersion \in Nat \ {0}
  /\ SpawnMayFail \in BOOLEAN
  /\ Toggles \subseteq {"typed", "all"}

(***************************************************************************)
(* A value is the version of the record it was read from; NoVal stands for *)
(* Option::None: no record, no cache entry, no answer for the key.         *)
(***************************************************************************)
NoVal  == 0
Vals   == 0 .. MaxVersion
ValMap == [Keys -> Vals]

Nothing == [k \in Keys |-> NoVal]

VARIABLES
  store,     \* the data source the user's Loader reads
  entry,     \* the Requests entry of this (K, V) exists
  keys,      \* Requests.keys and Requests.stream_keys
  pending,   \* Requests.pending and Requests.stream_pending (senders)
  cache,     \* Requests.cache_storage
  typedOff,  \* Requests.disable_cache
  allOff,    \* DataLoader.disable_cache, an AtomicBool outside the lock
  pc,        \* where each call is
  mode,      \* which entry point each call used
  want,      \* keys_set of each call: the keys not answered by the cache
  got,       \* the values each call has received
  chan,      \* the oneshot or mpsc channel of each call
  floor,     \* history: the version of each key of `want` when the call was made
  tst,       \* state of the task spawned by each call
  tkeys,     \* keys of the batch the task has taken
  tleft,     \* keys of the batch the user's Loader has not read yet
  tsend,     \* senders of the batch the task has taken
  toff,      \* the task's copy of DataLoader.disable_cache
  tvals      \* values the Loader has read and the task has not passed on

requests == <<entry, keys, pending, typedOff>>
callVars == <<pc, mode, want, floor>>
taskVars == <<tst, tkeys, tleft, tsend, toff, tvals>>
vars == <<store, requests, cache, allOff, callVars, got, chan, taskVars>>

CallStates == {"idle", "start", "immediate", "waiting",
               "done", "failed", "panicked", "cancelled"}
ChanStates == {"open", "ok", "err", "closed"}
TaskStates == {"none", "hand", "delay", "loading", "loaded", "over"}

TypeOK ==
  /\ store \in ValMap
  /\ entry \in BOOLEAN
  /\ keys \in [Modes -> SUBSET Keys]
  /\ pending \in [Modes -> SUBSET Calls]
  /\ cache \in ValMap
  /\ typedOff \in BOOLEAN
  /\ allOff \in BOOLEAN
  /\ pc \in [Calls -> CallStates]
  /\ mode \in [Calls -> Modes]
  /\ want \in [Calls -> SUBSET Keys]
  /\ got \in [Calls -> ValMap]
  /\ chan \in [Calls -> ChanStates]
  /\ floor \in [Calls -> ValMap]
  /\ tst \in [Calls -> TaskStates]
  /\ tkeys \in [Calls -> SUBSET Keys]
  /\ tleft \in [Calls -> SUBSET Keys]
  /\ tsend \in [Calls -> SUBSET Calls]
  /\ toff \in [Calls -> BOOLEAN]
  /\ tvals \in [Calls -> ValMap]

Init ==
  /\ store \in [Keys -> {NoVal, 1}]
  /\ entry = FALSE
  /\ keys = [m \in Modes |-> {}]
  /\ pending = [m \in Modes |-> {}]
  /\ cache = Nothing
  /\ typedOff = FALSE
  /\ allOff = FALSE
  /\ pc = [c \in Calls |-> "idle"]
  /\ mode = [c \in Calls |-> "load"]
  /\ want = [c \in Calls |-> {}]
  /\ got = [c \in Calls |-> Nothing]
  /\ chan = [c \in Calls |-> "open"]
  /\ floor = [c \in Calls |-> Nothing]
  /\ tst = [c \in Calls |-> "none"]
  /\ tkeys = [c \in Calls |-> {}]
  /\ tleft = [c \in Calls |-> {}]
  /\ tsend = [c \in Calls |-> {}]
  /\ toff = [c \in Calls |-> FALSE]
  /\ tvals = [c \in Calls |-> Nothing]

-----------------------------------------------------------------------------
(***************************************************************************)
(* The cache storage                                                       *)
(***************************************************************************)

(***************************************************************************)
(* The key sets a storage may hold after entries with the keys `dom` have  *)
(* been put into it.  Which key an LruCache evicts is left open here.      *)
(***************************************************************************)
Retained(dom) ==
  CASE Policy = "NoCache"      -> {{}}
    [] Policy = "HashMapCache" -> {dom}
    [] Policy = "LruCache"     ->
         IF Cardinality(dom) <= Cap
         THEN {dom}
         ELSE {S \in SUBSET dom : Cardinality(S) = Cap}

\* CacheStorage::insert of every value of vs (a later value replaces an earlier one).
CacheInsert(vs) ==
  LET merged == [k \in Keys |-> IF vs[k] # NoVal THEN vs[k] ELSE cache[k]]
      dom    == {k \in Keys : merged[k] # NoVal}
  IN  \E S \in Retained(dom) :
        cache' = [k \in Keys |-> IF k \in S THEN merged[k] ELSE NoVal]

-----------------------------------------------------------------------------
(***************************************************************************)
(* Calls                                                                   *)
(***************************************************************************)

\* Mutant of Take: the keys are moved to the task, the pending list is only copied.
TakeCopiesPending(c, m, batchKeys, senders) ==
  /\ keys' = [keys EXCEPT ![m] = {}]
  /\ pending' = pending
  /\ tkeys' = [tkeys EXCEPT ![c] = batchKeys]
  /\ tleft' = [tleft EXCEPT ![c] = batchKeys]
  /\ tsend' = [tsend EXCEPT ![c] = senders]

\* Requests::take and Requests::take_stream, by the task of call c: the batch moves to the task.
Take(c, m, batchKeys, senders) ==
  /\ keys' = [keys EXCEPT ![m] = {}]
  /\ pending' = [pending EXCEPT ![m] = {}]
  /\ tkeys' = [tkeys EXCEPT ![c] = batchKeys]
  /\ tleft' = [tleft EXCEPT ![c] = batchKeys]
  /\ tsend' = [tsend EXCEPT ![c] = senders]

\* The keys the call has to load, and those the cache answers.
Hits(ks) == IF typedOff \/ allOff THEN {} ELSE {k \in ks : cache[k] # NoVal}

\* Mutant of JoinBatch: prev_count is read after the keys were added.
JoinBatchLateCount(c, m, miss) ==
  LET all == keys[m] \cup miss IN
  \/ /\ Cardinality(all) >= MaxBatchSize
     /\ Take(c, m, all, pending[m] \cup {c})
     /\ tst' = [tst EXCEPT ![c] = "hand"]
     /\ pc' = [pc EXCEPT ![c] = "immediate"]
  \/ /\ Cardinality(all) < MaxBatchSize
     /\ keys' = [keys EXCEPT ![m] = all]
     /\ pending' = [pending EXCEPT ![m] = @ \cup {c}]
     /\ pc' = [pc EXCEPT ![c] = IF all = {} THEN "start" ELSE "waiting"]
     /\ UNCHANGED <<tst, tkeys, tleft, tsend>>

\* Mutant of JoinBatch: the batch is taken before the own sender is pushed.
JoinBatchTakesEarly(c, m, miss) ==
  LET all == keys[m] \cup miss IN
  \/ /\ Cardinality(all) >= MaxBatchSize
     /\ Take(c, m, all, pending[m])
     /\ tst' = [tst EXCEPT ![c] = "hand"]
     /\ pc' = [pc EXCEPT ![c] = "immediate"]
  \/ /\ Cardinality(all) < MaxBatchSize
     /\ keys' = [keys EXCEPT ![m] = all]
     /\ pending' = [pending EXCEPT ![m] = @ \cup {c}]
     /\ pc' = [pc EXCEPT ![c] = IF keys[m] = {} THEN "start" ELSE "waiting"]
     /\ UNCHANGED <<tst, tkeys, tleft, tsend>>

\* Mutant of JoinBatch: the batch is taken before the own keys are added.
JoinBatchOldKeys(c, m, miss) ==
  LET all == keys[m] \cup miss IN
  \/ /\ Cardinality(all) >= MaxBatchSize
     /\ Take(c, m, keys[m], pending[m] \cup {c})
     /\ tst' = [tst EXCEPT ![c] = "hand"]
     /\ pc' = [pc EXCEPT ![c] = "immediate"]
  \/ /\ Cardinality(all) < MaxBatchSize
     /\ keys' = [keys EXCEPT ![m] = all]
     /\ pending' = [pending EXCEPT ![m] = @ \cup {c}]
     /\ pc' = [pc EXCEPT ![c] = IF keys[m] = {} THEN "start" ELSE "waiting"]
     /\ UNCHANGED <<tst, tkeys, tleft, tsend>>

\* Mutant of JoinBatch: load_many_stream reads prev_count from the keys of load_many.
JoinBatchSharedCount(c, m, miss) ==
  LET all == keys[m] \cup miss IN
  \/ /\ Cardinality(all) >= MaxBatchSize
     /\ Take(c, m, all, pending[m] \cup {c})
     /\ tst' = [tst EXCEPT ![c] = "hand"]
     /\ pc' = [pc EXCEPT ![c] = "immediate"]
  \/ /\ Cardinality(all) < MaxBatchSize
     /\ keys' = [keys EXCEPT ![m] = all]
     /\ pending' = [pending EXCEPT ![m] = @ \cup {c}]
     /\ pc' = [pc EXCEPT ![c] = IF keys["load"] = {} THEN "start" ELSE "waiting"]
     /\ UNCHANGED <<tst, tkeys, tleft, tsend>>

(***************************************************************************)
(* The locked section of load_many / load_many_stream: look the keys up in *)
(* the cache, join the batch, and decide between ImmediateLoad, StartFetch *)
(* and Delay.                                                              *)
(***************************************************************************)
JoinBatch(c, m, miss) ==
  LET all == keys[m] \cup miss IN
  \/ /\ Cardinality(all) >= MaxBatchSize
     /\ Take(c, m, all, pending[m] \cup {c})
     /\ tst' = [tst EXCEPT ![c] = "hand"]
     /\ pc' = [pc EXCEPT ![c] = "immediate"]
  \/ /\ Cardinality(all) < MaxBatchSize
     /\ keys' = [keys EXCEPT ![m] = all]
     /\ pending' = [pending EXCEPT ![m] = @ \cup {c}]
     /\ pc' = [pc EXCEPT ![c] = IF keys[m] = {} THEN "start" ELSE "waiting"]
     /\ UNCHANGED <<tst, tkeys, tleft, tsend>>

\* A call of load_many or load_many_stream up to the release of the lock.
Load(c, m, ks) ==
  LET hit  == Hits(ks)
      miss == ks \ hit
  IN
  /\ m \in ModesUsed
  /\ pc[c] = "idle"
  /\ entry' = TRUE
  /\ mode' = [mode EXCEPT ![c] = m]
  /\ want' = [want EXCEPT ![c] = miss]
  /\ got' = [got EXCEPT ![c] = [k \in Keys |-> IF k \in hit THEN cache[k] ELSE NoVal]]
  /\ floor' = [floor EXCEPT ![c] = [k \in Keys |-> IF k \in miss THEN store[k] ELSE NoVal]]
  /\ \/ /\ miss = {}
        /\ pc' = [pc EXCEPT ![c] = "done"]
        /\ UNCHANGED <<keys, pending, tst, tkeys, tleft, tsend>>
     \/ /\ miss # {}
        /\ JoinBatch(c, m, miss)
  /\ UNCHANGED <<store, cache, typedOff, allOff, chan, toff, tvals>>

LoadMany(c, ks) == Load(c, "load", ks)

LoadManyStream(c, ks) == Load(c, "stream", ks)

(***************************************************************************)
(* After the lock is released: spawn the task.  It copies the AtomicBool   *)
(* now; the copy is what do_load will use.                                 *)
(***************************************************************************)
Spawn(c) ==
  /\ pc[c] \in {"start", "immediate"}
  /\ pc' = [pc EXCEPT ![c] = "waiting"]
  /\ tst' = [tst EXCEPT ![c] = IF pc[c] = "start" THEN "delay" ELSE "loading"]
  /\ toff' = [toff EXCEPT ![c] = allOff]
  /\ UNCHANGED <<store, requests, cache, allOff, mode, want, floor, got, chan,
                 tkeys, tleft, tsend, tvals>>

\* The task of call c ends and its locals are dropped.
Finish(c) ==
  /\ tst' = [tst EXCEPT ![c] = "over"]
  /\ tkeys' = [tkeys EXCEPT ![c] = {}]
  /\ tleft' = [tleft EXCEPT ![c] = {}]
  /\ tsend' = [tsend EXCEPT ![c] = {}]
  /\ toff' = [toff EXCEPT ![c] = FALSE]
  /\ tvals' = [tvals EXCEPT ![c] = Nothing]

\* The channels of the senders S are dropped without an answer.
DropSenders(S) ==
  chan' = [s \in Calls |-> IF s \in S /\ chan[s] = "open" THEN "closed" ELSE chan[s]]

\* `let _ = self.spawner.spawn(task)`: a refused task is dropped with the batch it holds.
SpawnRefused(c) ==
  /\ SpawnMayFail
  /\ pc[c] \in {"start", "immediate"}
  /\ pc' = [pc EXCEPT ![c] = "waiting"]
  /\ Finish(c)
  /\ DropSenders(tsend[c])
  /\ UNCHANGED <<store, requests, cache, allOff, mode, want, floor, got>>

(***************************************************************************)
(* rx.await.unwrap() of load_many; the end of the stream that              *)
(* load_many_stream returned.  A dropped oneshot sender is a panic, a      *)
(* dropped mpsc sender is a normal end of stream.                          *)
(***************************************************************************)
Return(c) ==
  /\ pc[c] = "waiting"
  /\ chan[c] # "open"
  /\ pc' = [pc EXCEPT ![c] =
              CASE chan[c] = "ok"     -> "done"
                [] chan[c] = "err"    -> "failed"
                [] chan[c] = "closed" ->
                     IF mode[c] = "load" THEN "panicked" ELSE "done"]
  /\ UNCHANGED <<store, requests, cache, allOff, mode, want, floor, got, chan, taskVars>>

\* The caller drops the future or the stream; answers sent later are discarded by the channel.
Cancel(c) ==
  /\ pc[c] = "waiting"
  /\ pc' = [pc EXCEPT ![c] = "cancelled"]
  /\ UNCHANGED <<store, requests, cache, allOff, mode, want, floor, got, chan, taskVars>>

-----------------------------------------------------------------------------
(***************************************************************************)
(* Tasks                                                                   *)
(***************************************************************************)

\* The StartFetch task after timer.delay: take whatever the batch holds now, if anything.
DelayOver(c) ==
  LET m == mode[c] IN
  /\ tst[c] = "delay"
  /\ \/ /\ keys[m] # {}
        /\ Take(c, m, keys[m], pending[m])
        /\ tst' = [tst EXCEPT ![c] = "loading"]
        /\ UNCHANGED <<chan, toff, tvals>>
     \/ /\ keys[m] = {}
        /\ pending' = [pending EXCEPT ![m] = {}]
        /\ DropSenders(pending[m])
        /\ Finish(c)
        /\ UNCHANGED keys
  /\ UNCHANGED <<store, entry, typedOff, cache, allOff, callVars, got>>

\* The user's Loader::load reads the records of the batch's keys and returns them.
LoaderReturns(c) ==
  /\ tst[c] = "loading"
  /\ mode[c] = "load"
  /\ tst' = [tst EXCEPT ![c] = "loaded"]
  /\ tleft' = [tleft EXCEPT ![c] = {}]
  /\ tvals' = [tvals EXCEPT ![c] = [k \in Keys |-> IF k \in tkeys[c] THEN store[k] ELSE NoVal]]
  /\ UNCHANGED <<store, requests, cache, allOff, callVars, got, chan, tkeys, tsend, toff>>

(***************************************************************************)
(* The user's Loader::load_stream reads the record of one key.  The item   *)
(* may be yielded any time later: the default implementation reads all     *)
(* keys with one load and then yields them one by one.                     *)
(***************************************************************************)
LoaderReads(c, k) ==
  /\ tst[c] = "loading"
  /\ mode[c] = "stream"
  /\ k \in tleft[c]
  /\ tleft' = [tleft EXCEPT ![c] = @ \ {k}]
  /\ tvals' = [tvals EXCEPT ![c][k] = store[k]]
  /\ UNCHANGED <<store, requests, cache, allOff, callVars, got, chan, tst, tkeys, tsend, toff>>

\* Every sender of the batch gets the values vs of the keys it asked for.
SendValues(c, vs) ==
  got' = [s \in Calls |->
            IF s \in tsend[c]
            THEN [k \in Keys |-> IF k \in want[s] /\ vs[k] # NoVal
                                 THEN vs[k] ELSE got[s][k]]
            ELSE got[s]]

\* The senders S get the final answer a.
Answer(S, a) ==
  chan' = [s \in Calls |-> IF s \in S THEN a ELSE chan[s]]

\* Mutant of CacheLoaded: the entry's flag is not read again after the load.
CacheLoadedStaleFlag(c, vs) ==
  IF toff[c] THEN UNCHANGED cache ELSE CacheInsert(vs)

\* Cache update of do_load and do_load_stream: the entry's flag now, the task's copy of the other.
CacheLoaded(c, vs) ==
  IF typedOff \/ toff[c] THEN UNCHANGED cache ELSE CacheInsert(vs)

\* do_load once the loader has returned: under the lock, update the cache and answer everyone.
ApplyValues(c) ==
  /\ tst[c] = "loaded"
  /\ CacheLoaded(c, tvals[c])
  /\ SendValues(c, tvals[c])
  /\ Answer(tsend[c], "ok")
  /\ Finish(c)
  /\ UNCHANGED <<store, requests, allOff, callVars>>

\* One turn of the loop of do_load_stream: an item (k, value) goes to the cache and to the senders.
ApplyItem(c, k) ==
  LET item == [Nothing EXCEPT ![k] = tvals[c][k]] IN
  /\ tst[c] = "loading"
  /\ mode[c] = "stream"
  /\ tvals[c][k] # NoVal
  /\ CacheLoaded(c, item)
  /\ SendValues(c, item)
  /\ tvals' = [tvals EXCEPT ![c][k] = NoVal]
  /\ UNCHANGED <<store, requests, allOff, callVars, chan, tst, tkeys, tleft, tsend, toff>>

\* The loader's stream ends: do_load_stream returns and drops the senders of the batch.
LoaderStreamEnds(c) ==
  /\ tst[c] = "loading"
  /\ mode[c] = "stream"
  /\ tleft[c] = {}
  /\ tvals[c] = Nothing
  /\ Finish(c)
  /\ Answer(tsend[c], "ok")
  /\ UNCHANGED <<store, requests, cache, allOff, callVars, got>>

\* Mutant of LoaderFails: do_load_stream goes on after the error it has sent.
LoaderFailsNoBreak(c) ==
  /\ tst[c] = "loading"
  /\ IF mode[c] = "load" THEN Finish(c) ELSE UNCHANGED taskVars
  /\ Answer(tsend[c], "err")
  /\ UNCHANGED <<store, requests, cache, allOff, callVars, got>>

\* The loader fails: the error is cloned to every sender, without taking the lock.
LoaderFails(c) ==
  /\ tst[c] = "loading"
  /\ Finish(c)
  /\ Answer(tsend[c], "err")
  /\ UNCHANGED <<store, requests, cache, allOff, callVars, got>>

\* The loader panics: the task is dropped and its senders with it.
LoaderPanics(c) ==
  /\ tst[c] = "loading"
  /\ Finish(c)
  /\ DropSenders(tsend[c])
  /\ UNCHANGED <<store, requests, cache, allOff, callVars, got>>

-----------------------------------------------------------------------------
(***************************************************************************)
(* Cache control, and the data source                                      *)
(***************************************************************************)

\* feed_many: records the application has read itself, at some time.
FeedMany(vs) ==
  /\ entry' = TRUE
  /\ CacheInsert(vs)
  /\ UNCHANGED <<store, keys, pending, typedOff, allOff, callVars, got, chan, taskVars>>

\* The records an application can have read: no version newer than the store's.
Feeds == {vs \in ValMap : vs # Nothing /\ \A k \in Keys : vs[k] <= store[k]}

\* clear_one
ClearOne(k) ==
  /\ entry' = TRUE
  /\ cache' = [cache EXCEPT ![k] = NoVal]
  /\ UNCHANGED <<store, keys, pending, typedOff, allOff, callVars, got, chan, taskVars>>

\* clear
Clear ==
  /\ entry' = TRUE
  /\ cache' = Nothing
  /\ UNCHANGED <<store, keys, pending, typedOff, allOff, callVars, got, chan, taskVars>>

\* enable_all_cache(~off): a store to the AtomicBool, no lock.
EnableAllCache(off) ==
  /\ "all" \in Toggles
  /\ allOff' = off
  /\ UNCHANGED <<store, requests, cache, callVars, got, chan, taskVars>>

\* enable_cache(~off), under the lock of the entry, which must exist.
EnableCache(off) ==
  /\ "typed" \in Toggles
  /\ entry
  /\ typedOff' = off
  /\ UNCHANGED <<store, entry, keys, pending, cache, allOff, callVars, got, chan, taskVars>>

\* A writer updates a record of the data source.
Write(k) ==
  /\ store[k] < MaxVersion
  /\ store' = [store EXCEPT ![k] = @ + 1]
  /\ UNCHANGED <<requests, cache, allOff, callVars, got, chan, taskVars>>

-----------------------------------------------------------------------------
Task(c) ==
  \/ DelayOver(c)
  \/ LoaderReturns(c)
  \/ \E k \in Keys : LoaderReads(c, k)
  \/ ApplyValues(c)
  \/ \E k \in Keys : ApplyItem(c, k)
  \/ LoaderStreamEnds(c)
  \/ LoaderFails(c)
  \/ LoaderPanics(c)

Call(c) ==
  \/ \E ks \in SUBSET Keys : LoadMany(c, ks)
  \/ \E ks \in SUBSET Keys : LoadManyStream(c, ks)
  \/ Spawn(c)
  \/ SpawnRefused(c)
  \/ Return(c)
  \/ Cancel(c)

Control ==
  \/ \E vs \in Feeds : FeedMany(vs)
  \/ \E k \in Keys : ClearOne(k)
  \/ Clear
  \/ \E off \in BOOLEAN : EnableAllCache(off)
  \/ \E off \in BOOLEAN : EnableCache(off)

Next ==
  \/ \E c \in Calls : Call(c)
  \/ \E c \in Calls : Task(c)
  \/ Control
  \/ \E k \in Keys : Write(k)

Spec == Init /\ [][Next]_vars

(***************************************************************************)
(* Fairness: the executor runs every spawned task, the timer fires, the    *)
(* user's Loader answers, and a call that has an answer is polled.         *)
(***************************************************************************)
Fairness ==
  \A c \in Calls : WF_vars(Spawn(c)) /\ WF_vars(Return(c)) /\ WF_vars(Task(c))

FairSpec == Spec /\ Fairness

-----------------------------------------------------------------------------
(***************************************************************************)
(* Properties                                                              *)
(***************************************************************************)

\* The task of call t owns a batch.
Owns(t) == tst[t] \in {"hand", "loading", "loaded"}

\* Call c had keys to load and its channel has seen no final answer; it may have been cancelled.
Unanswered(c) == want[c] # {} /\ chan[c] = "open"

(***************************************************************************)
(* The keys waiting in the entry are exactly the keys the waiting senders  *)
(* asked for: no key is loaded for nobody, none is missing from the batch  *)
(* its sender waits for (Requests.keys against Requests.pending).          *)
(***************************************************************************)
BatchKeysMatch ==
  \A m \in Modes : keys[m] = UNION {want[c] : c \in pending[m]}

(***************************************************************************)
(* A batch that is not empty always has a task on its way to take it: the  *)
(* call that made it non-empty is about to spawn one, or it is waiting for *)
(* its delay.  The Delay action of load_many relies on it.                 *)
(***************************************************************************)
NoOrphanBatch ==
  \A m \in Modes :
    keys[m] # {} => \E c \in Calls : mode[c] = m /\ (pc[c] = "start" \/ tst[c] = "delay")

(***************************************************************************)
(* A sender without a final answer is in exactly one place: the entry's    *)
(* pending list, or the batch of exactly one task, whose keys include all  *)
(* the keys the sender asked for.  It cannot be lost or answered twice.    *)
(***************************************************************************)
SenderOwnedOnce ==
  /\ \A c \in Calls :
       Unanswered(c) =>
         \/ /\ c \in pending[mode[c]]
            /\ \A t \in Calls : ~(Owns(t) /\ c \in tsend[t])
         \/ /\ c \notin pending[mode[c]]
            /\ \E t \in Calls : Owns(t) /\ c \in tsend[t] /\ mode[t] = mode[c] /\ want[c] \subseteq tkeys[t]
  /\ \A t, u \in Calls : Owns(t) /\ Owns(u) /\ t # u => tsend[t] \cap tsend[u] = {}

(***************************************************************************)
(* A call that is answered gets, for every key the cache did not answer, a *)
(* value read after the call was made, whichever batch carried the key:    *)
(* never one read for an earlier batch (do_load, do_load_stream).          *)
(***************************************************************************)
FreshAnswer ==
  \A c \in Calls : chan[c] = "ok" => \A k \in want[c] : got[c][k] >= floor[c][k]

(***************************************************************************)
(* The inductive invariant behind the four properties above.               *)
(***************************************************************************)

\* A call that has not been made has left no trace; only an ImmediateLoad hands its task a batch.
CallsInOrder ==
  \A c \in Calls :
    /\ pc[c] = "idle" => want[c] = {} /\ chan[c] = "open" /\ tst[c] = "none"
    /\ pc[c] = "start" => tst[c] = "none"
    /\ tst[c] = "hand" <=> pc[c] = "immediate"
    /\ tst[c] = "loaded" => tleft[c] = {}
    /\ ~Owns(c) => tsend[c] = {}
    /\ tst[c] \notin {"loading", "loaded"} => tvals[c] = Nothing

\* A sender in the entry or in a batch of mode m is a call of this mode that is not answered.
Waits(c, m) == mode[c] = m /\ Unanswered(c)

\* Where the senders are: never in two places, and nowhere only when they have been answered.
SendersPlaced ==
  /\ \A m \in Modes : \A c \in pending[m] : Waits(c, m) /\ want[c] \subseteq keys[m]
  /\ \A t \in Calls : \A c \in tsend[t] : Waits(c, mode[t]) /\ want[c] \subseteq tkeys[t]
  /\ \A m \in Modes, t \in Calls : pending[m] \cap tsend[t] = {}
  /\ \A t, u \in Calls : t # u => tsend[t] \cap tsend[u] = {}
  /\ \A c \in Calls : Unanswered(c) => c \in pending[mode[c]] \/ \E t \in Calls : c \in tsend[t]

\* Every key of a batch is wanted by one of its senders.
KeysWanted ==
  \A m \in Modes : \A k \in keys[m] : \E c \in pending[m] : k \in want[c]

(***************************************************************************)
(* What a sender of a batch will get for a key: it is still to be read, or *)
(* has been read after the sender's call, or has been sent to it.          *)
(***************************************************************************)
FreshOnTheWay ==
  /\ \A c \in Calls, k \in Keys : floor[c][k] <= store[k]
  /\ \A t \in Calls : \A c \in tsend[t] : \A k \in want[c] :
       /\ tvals[t][k] # NoVal => tvals[t][k] >= floor[c][k]
       /\ k \in tleft[t] \/ tvals[t][k] # NoVal \/ got[c][k] >= floor[c][k]

IInv == CallsInOrder /\ SendersPlaced /\ KeysWanted /\ FreshOnTheWay /\ FreshAnswer

(***************************************************************************)
(* The loader implements LoadService: the state of a call's channel is the *)
(* outcome, and the answer is what the call has received for its own keys. *)
(***************************************************************************)
Outcome(c) ==
  CASE pc[c] = "idle" -> "idle"
    [] pc[c] # "idle" /\ (want[c] = {} \/ chan[c] = "ok") -> "replied"
    [] pc[c] # "idle" /\ want[c] # {} /\ chan[c] = "err" -> "failed"
    [] pc[c] # "idle" /\ want[c] # {} /\ chan[c] = "closed" -> "lost"
    [] OTHER -> "open"

Received(c) ==
  [k \in Keys |-> IF chan[c] = "ok" /\ k \in want[c] THEN got[c][k] ELSE NoVal]

Outcomes == [c \in Calls |-> Outcome(c)]
Replies  == [c \in Calls |-> Received(c)]

Service ==
  INSTANCE LoadService WITH
    db <- store, phase <- Outcomes, asked <- want, since <- floor, reply <- Replies

\* load_many and load_many_stream, batched and concurrent, are an execution of LoadService.
ImplementsService == Service!Spec

(***************************************************************************)
(* While the cache of the entry is disabled, a batch that completes adds   *)
(* nothing to it, even one that started before (enable_cache, do_load).    *)
(***************************************************************************)
TypedCacheOff ==
  [][typedOff /\ (got' # got \/ chan' # chan) => cache' = cache]_vars

(***************************************************************************)
(* When the executor accepts every task, every call that waits for a batch *)
(* is eventually answered or cancelled.                                    *)
(***************************************************************************)
EveryCallReturns ==
  \A c \in Calls :
    pc[c] \in {"start", "immediate", "waiting"} ~>
      pc[c] \in {"done", "failed", "panicked", "cancelled"}

=============================================================================
