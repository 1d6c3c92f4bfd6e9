--------------------------- MODULE DataLoaderProof ----------------------------
(***************************************************************************)
(* Proofs about DataLoader, for any number of keys, calls and writes, any  *)
(* batch size and every cache storage.                                     *)
(***************************************************************************)
EXTENDS DataLoader, TLAPS

\* Nothing and the versions are well typed.
LEMMA ValuesTyped ==
  /\ NoVal \in Vals /\ 1 \in Vals /\ Vals \subseteq Nat
  /\ Nothing \in ValMap
  BY ConstantsAssumption DEF NoVal, Vals, ValMap, Nothing

\* Whatever a storage evicts, it holds values.
LEMMA CacheInsertTyped ==
  ASSUME TypeOK, NEW vs \in ValMap, CacheInsert(vs)
  PROVE  cache' \in ValMap
  BY ValuesTyped DEF TypeOK, CacheInsert, ValMap

-----------------------------------------------------------------------------
(***************************************************************************)
(* Type correctness                                                        *)
(***************************************************************************)

\* The initial state is well typed.
LEMMA InitTyped == Init => TypeOK
  <1> SUFFICES ASSUME Init PROVE TypeOK
    OBVIOUS
  <1>1. store \in ValMap
    BY ValuesTyped DEF Init, ValMap
  <1>2. /\ got \in [Calls -> ValMap]
        /\ floor \in [Calls -> ValMap]
        /\ tvals \in [Calls -> ValMap]
        /\ cache \in ValMap
    BY ValuesTyped DEF Init
  <1>3. /\ keys \in [Modes -> SUBSET Keys]
        /\ pending \in [Modes -> SUBSET Calls]
        /\ mode \in [Calls -> Modes]
        /\ want \in [Calls -> SUBSET Keys]
        /\ tkeys \in [Calls -> SUBSET Keys]
        /\ tleft \in [Calls -> SUBSET Keys]
        /\ tsend \in [Calls -> SUBSET Calls]
        /\ toff \in [Calls -> BOOLEAN]
    BY DEF Init, Modes
  <1>4. /\ pc \in [Calls -> CallStates]
        /\ chan \in [Calls -> ChanStates]
        /\ tst \in [Calls -> TaskStates]
        /\ entry \in BOOLEAN /\ typedOff \in BOOLEAN /\ allOff \in BOOLEAN
    BY DEF Init, CallStates, ChanStates, TaskStates
  <1> QED
    BY <1>1, <1>2, <1>3, <1>4 DEF TypeOK

\* The batch moves from the entry to the task.
LEMMA TakeTyped ==
  ASSUME TypeOK, NEW c \in Calls, NEW m \in Modes, NEW ks \in SUBSET Keys, NEW S \in SUBSET Calls,
         Take(c, m, ks, S)
  PROVE  /\ keys' \in [Modes -> SUBSET Keys]
         /\ pending' \in [Modes -> SUBSET Calls]
         /\ tkeys' \in [Calls -> SUBSET Keys]
         /\ tleft' \in [Calls -> SUBSET Keys]
         /\ tsend' \in [Calls -> SUBSET Calls]
  BY DEF Take, TypeOK

\* A task that ends leaves well-typed locals.
LEMMA FinishTyped ==
  ASSUME TypeOK, NEW c \in Calls, Finish(c)
  PROVE  /\ tst' \in [Calls -> TaskStates]
         /\ tkeys' \in [Calls -> SUBSET Keys]
         /\ tleft' \in [Calls -> SUBSET Keys]
         /\ tsend' \in [Calls -> SUBSET Calls]
         /\ toff' \in [Calls -> BOOLEAN]
         /\ tvals' \in [Calls -> ValMap]
  BY ValuesTyped DEF Finish, TypeOK, TaskStates

\* Answering and dropping senders keeps the channels well typed.
LEMMA ChanTyped ==
  ASSUME TypeOK, NEW S, NEW a \in ChanStates, DropSenders(S) \/ Answer(S, a)
  PROVE  chan' \in [Calls -> ChanStates]
  BY DEF DropSenders, Answer, TypeOK, ChanStates

\* The steps of a call keep the state well typed.
LEMMA CallTyped ==
  ASSUME TypeOK, NEW c \in Calls, Call(c)
  PROVE  TypeOK'
  <1>1. ASSUME NEW m \in Modes, NEW ks \in SUBSET Keys, Load(c, m, ks)
        PROVE  TypeOK'
    <2> DEFINE hit == Hits(ks)
               miss == ks \ hit
    <2>1. hit \subseteq Keys /\ miss \subseteq Keys
      BY DEF Hits
    <2>2. /\ got' \in [Calls -> ValMap]
          /\ floor' \in [Calls -> ValMap]
      BY <1>1, <2>1, ValuesTyped DEF Load, TypeOK, ValMap
    <2>3. /\ keys' \in [Modes -> SUBSET Keys]
          /\ pending' \in [Modes -> SUBSET Calls]
          /\ pc' \in [Calls -> CallStates]
          /\ tst' \in [Calls -> TaskStates]
          /\ tkeys' \in [Calls -> SUBSET Keys]
          /\ tleft' \in [Calls -> SUBSET Keys]
          /\ tsend' \in [Calls -> SUBSET Calls]
      <3>1. CASE miss = {}
        BY <1>1, <3>1 DEF Load, TypeOK, CallStates
      <3>2. CASE miss # {}
        <4>1. JoinBatch(c, m, miss)
          BY <1>1, <3>2 DEF Load
        <4>2. keys[m] \cup miss \in SUBSET Keys /\ pending[m] \cup {c} \in SUBSET Calls
          BY <2>1 DEF TypeOK
        <4>3. CASE /\ Take(c, m, keys[m] \cup miss, pending[m] \cup {c})
                   /\ tst' = [tst EXCEPT ![c] = "hand"]
                   /\ pc' = [pc EXCEPT ![c] = "immediate"]
          BY <4>2, <4>3, TakeTyped DEF TypeOK, CallStates, TaskStates
        <4>4. CASE /\ keys' = [keys EXCEPT ![m] = keys[m] \cup miss]
                   /\ pending' = [pending EXCEPT ![m] = @ \cup {c}]
                   /\ pc' = [pc EXCEPT ![c] = IF keys[m] = {} THEN "start" ELSE "waiting"]
                   /\ UNCHANGED <<tst, tkeys, tleft, tsend>>
          BY <4>2, <4>4 DEF TypeOK, CallStates
        <4> QED
          BY <4>1, <4>3, <4>4 DEF JoinBatch
      <3> QED BY <3>1, <3>2
    <2>4. /\ mode' \in [Calls -> Modes]
          /\ want' \in [Calls -> SUBSET Keys]
          /\ entry' \in BOOLEAN
      BY <1>1, <2>1 DEF Load, TypeOK
    <2>5. UNCHANGED <<store, cache, typedOff, allOff, chan, toff, tvals>>
      BY <1>1 DEF Load
    <2> QED
      BY <2>2, <2>3, <2>4, <2>5 DEF TypeOK
  <1>2. ASSUME Spawn(c) PROVE TypeOK'
    BY <1>2 DEF Spawn, TypeOK, requests, CallStates, TaskStates
  <1>3. ASSUME SpawnRefused(c) PROVE TypeOK'
    BY <1>3, FinishTyped, ChanTyped DEF SpawnRefused, TypeOK, requests, CallStates, ChanStates
  <1>4. ASSUME Return(c) PROVE TypeOK'
    BY <1>4 DEF Return, TypeOK, requests, taskVars, CallStates, ChanStates
  <1>5. ASSUME Cancel(c) PROVE TypeOK'
    BY <1>5 DEF Cancel, TypeOK, requests, taskVars, CallStates
  <1> QED
    <2>1. CASE \E ks \in SUBSET Keys : LoadMany(c, ks) \/ LoadManyStream(c, ks)
      BY <1>1, <2>1 DEF LoadMany, LoadManyStream, Modes
    <2> QED
      BY <1>2, <1>3, <1>4, <1>5, <2>1 DEF Call

\* The steps of a task keep the state well typed.
LEMMA TaskTyped ==
  ASSUME TypeOK, NEW c \in Calls, Task(c)
  PROVE  TypeOK'
  <1>1. ASSUME DelayOver(c) PROVE TypeOK'
    <2> mode[c] \in Modes /\ keys[mode[c]] \in SUBSET Keys /\ pending[mode[c]] \in SUBSET Calls
      BY DEF TypeOK
    <2>1. CASE keys[mode[c]] # {}
      BY <1>1, <2>1, TakeTyped DEF DelayOver, TypeOK, callVars, TaskStates
    <2>2. CASE keys[mode[c]] = {}
      BY <1>1, <2>2, FinishTyped, ChanTyped DEF DelayOver, TypeOK, callVars, ChanStates
    <2> QED BY <2>1, <2>2
  <1>2. ASSUME LoaderReturns(c) PROVE TypeOK'
    <2>1. tvals' \in [Calls -> ValMap]
      BY <1>2, ValuesTyped DEF LoaderReturns, TypeOK, ValMap
    <2> QED
      BY <1>2, <2>1 DEF LoaderReturns, TypeOK, requests, callVars, TaskStates
  <1>3. ASSUME NEW k \in Keys, LoaderReads(c, k) PROVE TypeOK'
    <2>1. tvals' \in [Calls -> ValMap]
      BY <1>3, ValuesTyped DEF LoaderReads, TypeOK, ValMap
    <2> QED
      BY <1>3, <2>1 DEF LoaderReads, TypeOK, requests, callVars
  <1>4. ASSUME NEW vs \in ValMap, CacheLoaded(c, vs), SendValues(c, vs)
        PROVE  cache' \in ValMap /\ got' \in [Calls -> ValMap]
    <2>1. cache' \in ValMap
      BY <1>4, CacheInsertTyped DEF CacheLoaded, TypeOK
    <2>2. got' \in [Calls -> ValMap]
      BY <1>4 DEF SendValues, TypeOK, ValMap
    <2> QED BY <2>1, <2>2
  <1>5. ASSUME ApplyValues(c) PROVE TypeOK'
    <2>1. cache' \in ValMap /\ got' \in [Calls -> ValMap]
      BY <1>4, <1>5 DEF ApplyValues, TypeOK
    <2> QED
      BY <1>5, <2>1, FinishTyped, ChanTyped
      DEF ApplyValues, TypeOK, requests, callVars, ChanStates
  <1>6. ASSUME NEW k \in Keys, ApplyItem(c, k) PROVE TypeOK'
    <2> DEFINE item == [Nothing EXCEPT ![k] = tvals[c][k]]
    <2>1. item \in ValMap
      BY ValuesTyped DEF TypeOK, ValMap
    <2>2. cache' \in ValMap /\ got' \in [Calls -> ValMap]
      BY <1>4, <1>6, <2>1 DEF ApplyItem
    <2>3. tvals' \in [Calls -> ValMap]
      BY <1>6, ValuesTyped DEF ApplyItem, TypeOK, ValMap
    <2> QED
      BY <1>6, <2>2, <2>3 DEF ApplyItem, TypeOK, requests, callVars
  <1>7. ASSUME LoaderStreamEnds(c) \/ LoaderFails(c) \/ LoaderPanics(c) PROVE TypeOK'
    BY <1>7, FinishTyped, ChanTyped
    DEF LoaderStreamEnds, LoaderFails, LoaderPanics, TypeOK, requests, callVars, ChanStates
  <1> QED
    BY <1>1, <1>2, <1>3, <1>5, <1>6, <1>7 DEF Task

\* Cache control and the writers keep the state well typed.
LEMMA ControlTyped ==
  ASSUME TypeOK, Control \/ \E k \in Keys : Write(k)
  PROVE  TypeOK'
  <1>1. ASSUME NEW vs \in Feeds, FeedMany(vs) PROVE TypeOK'
    <2>1. cache' \in ValMap
      BY <1>1, CacheInsertTyped DEF FeedMany, Feeds
    <2> QED
      BY <1>1, <2>1 DEF FeedMany, TypeOK, callVars, taskVars
  <1>2. ASSUME NEW k \in Keys, ClearOne(k) PROVE TypeOK'
    BY <1>2, ValuesTyped DEF ClearOne, TypeOK, callVars, taskVars, ValMap
  <1>3. ASSUME Clear PROVE TypeOK'
    BY <1>3, ValuesTyped DEF Clear, TypeOK, callVars, taskVars
  <1>4. ASSUME NEW off \in BOOLEAN, EnableAllCache(off) \/ EnableCache(off) PROVE TypeOK'
    BY <1>4 DEF EnableAllCache, EnableCache, TypeOK, requests, callVars, taskVars
  <1>5. ASSUME NEW k \in Keys, Write(k) PROVE TypeOK'
    <2>1. store' \in ValMap
      BY <1>5, ConstantsAssumption DEF Write, TypeOK, ValMap, Vals
    <2> QED
      BY <1>5, <2>1 DEF Write, TypeOK, requests, callVars, taskVars
  <1> QED
    BY <1>1, <1>2, <1>3, <1>4, <1>5 DEF Control

\* Every step of the data loader keeps the state well typed.
LEMMA NextTyped == TypeOK /\ [Next]_vars => TypeOK'
  <1>1. CASE UNCHANGED vars
    BY <1>1 DEF TypeOK, vars, requests, callVars, taskVars
  <1> QED
    BY <1>1, CallTyped, TaskTyped, ControlTyped DEF Next

(***************************************************************************)
(* The state of the entry, of the calls and of the tasks is well formed in *)
(* every execution of load_many, load_many_stream and their tasks.         *)
(***************************************************************************)
THEOREM TypeCorrect == Spec => []TypeOK
  BY InitTyped, NextTyped, PTL DEF Spec

-----------------------------------------------------------------------------
(***************************************************************************)
(* The inductive invariant                                                 *)
(***************************************************************************)

\* The variables the inductive invariant is about.
tracked == <<keys, pending, pc, mode, want, got, chan, floor, store, tst, tkeys, tleft, tsend, tvals>>

\* The inductive invariant holds before the first call.
LEMMA InitIInv == Init => IInv
  <1> SUFFICES ASSUME Init PROVE IInv
    OBVIOUS
  <1>1. CallsInOrder /\ KeysWanted /\ FreshAnswer
    BY DEF Init, CallsInOrder, KeysWanted, FreshAnswer, Owns, Modes
  <1>2. SendersPlaced
    BY DEF Init, SendersPlaced, Unanswered, Modes
  <1>3. FreshOnTheWay
    BY DEF Init, FreshOnTheWay, Nothing, NoVal
  <1> QED
    BY <1>1, <1>2, <1>3 DEF IInv

\* A step that leaves the variables of the inductive invariant alone preserves it.
LEMMA TrackedUnchanged ==
  ASSUME IInv, UNCHANGED tracked
  PROVE  IInv'
  BY DEF IInv, tracked, CallsInOrder, SendersPlaced, KeysWanted, FreshOnTheWay, FreshAnswer,
         Owns, Waits, Unanswered

(***************************************************************************)
(* A step of a call that moves its pc past the spawn, and nothing else.    *)
(***************************************************************************)
LEMMA PcMoves ==
  ASSUME IInv, TypeOK, NEW c \in Calls, NEW p \in CallStates \ {"idle", "start", "immediate"},
         pc[c] = "waiting", pc' = [pc EXCEPT ![c] = p],
         UNCHANGED <<keys, pending, mode, want, got, chan, floor, store, tst, tkeys, tleft, tsend, tvals>>
  PROVE  IInv'
  <1>1. CallsInOrder'
    BY DEF IInv, CallsInOrder, Owns, TypeOK
  <1>2. (SendersPlaced /\ KeysWanted /\ FreshOnTheWay /\ FreshAnswer)'
    BY DEF IInv, SendersPlaced, KeysWanted, FreshOnTheWay, FreshAnswer, Waits, Unanswered
  <1> QED
    BY <1>1, <1>2 DEF IInv

(***************************************************************************)
(* A task ends and its senders S = tsend[c] get the final answer a.        *)
(***************************************************************************)
LEMMA TaskEnds ==
  ASSUME IInv, TypeOK, NEW c \in Calls, NEW a \in ChanStates \ {"open"},
         Finish(c), Answer(tsend[c], a),
         pc' \in [Calls -> CallStates],
         \A s \in Calls : s # c => pc'[s] = pc[s],
         pc[c] # "idle", pc'[c] \notin {"idle", "start", "immediate"},
         UNCHANGED <<keys, pending, mode, want, floor, store>>,
         got' \in [Calls -> ValMap],
         \A s \in Calls \ tsend[c] : got'[s] = got[s],
         a = "ok" => \A s \in tsend[c] : \A k \in want[s] : got'[s][k] >= floor[s][k]
  PROVE  IInv'
  <1>1. /\ tst' = [tst EXCEPT ![c] = "over"]
        /\ tsend' = [tsend EXCEPT ![c] = {}]
        /\ tleft' = [tleft EXCEPT ![c] = {}]
        /\ tkeys' = [tkeys EXCEPT ![c] = {}]
        /\ tvals' = [tvals EXCEPT ![c] = Nothing]
        /\ chan' = [s \in Calls |-> IF s \in tsend[c] THEN a ELSE chan[s]]
    BY DEF Finish, Answer
  <1>2. \A s \in tsend[c] : s \in Calls /\ want[s] # {} /\ chan[s] = "open"
    BY DEF IInv, SendersPlaced, Waits, Unanswered, TypeOK
  <1>3. CallsInOrder'
    <2> SUFFICES ASSUME NEW s \in Calls
                 PROVE  /\ pc'[s] = "idle" => want'[s] = {} /\ chan'[s] = "open" /\ tst'[s] = "none"
                        /\ pc'[s] = "start" => tst'[s] = "none"
                        /\ tst'[s] = "hand" <=> pc'[s] = "immediate"
                        /\ tst'[s] = "loaded" => tleft'[s] = {}
                        /\ ~Owns(s)' => tsend'[s] = {}
                        /\ tst'[s] \notin {"loading", "loaded"} => tvals'[s] = Nothing
      BY DEF CallsInOrder
    <2>1. CASE s = c
      BY <1>1, <2>1 DEF Owns, TypeOK
    <2>2. CASE s # c
      BY <1>1, <1>2, <2>2 DEF IInv, CallsInOrder, Owns, TypeOK
    <2> QED BY <2>1, <2>2
  <1>4. SendersPlaced'
    <2>1. \A m \in Modes : \A s \in pending[m] : Waits(s, m)' /\ want'[s] \subseteq keys'[m]
      BY <1>1 DEF IInv, SendersPlaced, Waits, Unanswered, TypeOK
    <2>2. \A t \in Calls : \A s \in tsend'[t] : Waits(s, mode[t])' /\ want'[s] \subseteq tkeys'[t]
      BY <1>1 DEF IInv, SendersPlaced, Waits, Unanswered, TypeOK
    <2>3. /\ \A m \in Modes, t \in Calls : pending'[m] \cap tsend'[t] = {}
          /\ \A t, u \in Calls : t # u => tsend'[t] \cap tsend'[u] = {}
      BY <1>1 DEF IInv, SendersPlaced, TypeOK
    <2>4. ASSUME NEW s \in Calls, Unanswered(s)'
          PROVE  s \in pending'[mode'[s]] \/ \E t \in Calls : s \in tsend'[t]
      <3>1. s \notin tsend[c] /\ Unanswered(s)
        BY <1>1, <2>4 DEF Unanswered
      <3> QED
        BY <1>1, <3>1 DEF IInv, SendersPlaced, TypeOK
    <2> QED
      BY <2>1, <2>2, <2>3, <2>4 DEF SendersPlaced, Waits, Unanswered
  <1>5. KeysWanted'
    BY DEF IInv, KeysWanted
  <1>6. FreshOnTheWay'
    BY <1>1 DEF IInv, FreshOnTheWay, SendersPlaced, TypeOK
  <1>7. FreshAnswer'
    BY <1>1 DEF IInv, FreshAnswer, TypeOK
  <1> QED
    BY <1>3, <1>4, <1>5, <1>6, <1>7 DEF IInv

(***************************************************************************)
(* A call looks its keys up, joins a batch and perhaps takes it at once.   *)
(***************************************************************************)
LEMMA LoadKeeps ==
  ASSUME IInv, TypeOK, NEW c \in Calls, NEW m \in Modes, NEW ks \in SUBSET Keys, Load(c, m, ks)
  PROVE  IInv'
  <1> DEFINE miss == ks \ Hits(ks)
  <1>1. /\ pc[c] = "idle" /\ want[c] = {} /\ chan[c] = "open" /\ tst[c] = "none" /\ tsend[c] = {}
        /\ tvals[c] = Nothing
        /\ miss \subseteq Keys
    BY DEF Load, IInv, CallsInOrder, Owns
  <1>2. /\ mode' = [mode EXCEPT ![c] = m]
        /\ want' = [want EXCEPT ![c] = miss]
        /\ UNCHANGED <<store, chan, tvals>>
        /\ \A s \in Calls : s # c => got'[s] = got[s] /\ floor'[s] = floor[s]
        /\ \A k \in Keys : floor'[c][k] = IF k \in miss THEN store[k] ELSE NoVal
    BY DEF Load, TypeOK, ValMap
  <1>3. c \notin pending[m] /\ \A n \in Modes : c \notin pending[n]
    BY <1>1 DEF IInv, SendersPlaced, Waits, Unanswered
  <1>4. \A t \in Calls : c \notin tsend[t]
    BY <1>1 DEF IInv, SendersPlaced, Waits, Unanswered
  <1>5. \A s \in Calls, k \in Keys : floor'[s][k] <= store'[k]
    <2> SUFFICES ASSUME NEW s \in Calls, NEW k \in Keys PROVE floor'[s][k] <= store[k]
      BY <1>2
    <2>1. store[k] \in Nat
      BY ValuesTyped DEF TypeOK, ValMap
    <2>2. CASE s = c
      BY <1>2, <2>1, <2>2 DEF NoVal
    <2>3. CASE s # c
      BY <1>2, <2>3 DEF IInv, FreshOnTheWay
    <2> QED BY <2>2, <2>3
  <1>6. FreshAnswer'
    BY <1>1, <1>2 DEF IInv, FreshAnswer, TypeOK
  <1>7. CASE miss = {}
    <2>1. /\ pc' = [pc EXCEPT ![c] = "done"]
          /\ UNCHANGED <<keys, pending, tst, tkeys, tleft, tsend>>
      BY <1>7 DEF Load
    <2>2. want' = want
      BY <1>1, <1>2, <1>7 DEF TypeOK
    <2>3. CallsInOrder'
      BY <1>1, <1>2, <2>1, <2>2 DEF IInv, CallsInOrder, Owns, TypeOK
    <2>4. \A n \in Modes : \A s \in pending[n] : mode'[s] = mode[s]
      BY <1>2, <1>3 DEF TypeOK
    <2>5. \A t \in Calls : \A s \in tsend[t] : mode'[s] = mode[s] /\ mode'[t] = mode[t]
      BY <1>1, <1>2, <1>4 DEF TypeOK
    <2>6. SendersPlaced'
      <3>1. /\ \A n \in Modes : \A s \in pending'[n] : Waits(s, n)' /\ want'[s] \subseteq keys'[n]
            /\ \A t \in Calls : \A s \in tsend'[t] : Waits(s, mode[t])' /\ want'[s] \subseteq tkeys'[t]
        BY <1>2, <2>1, <2>2, <2>4, <2>5 DEF IInv, SendersPlaced, Waits, Unanswered
      <3>2. \A s \in Calls : Unanswered(s)' =>
              s \in pending'[mode'[s]] \/ \E t \in Calls : s \in tsend'[t]
        <4> SUFFICES ASSUME NEW s \in Calls, Unanswered(s)'
                     PROVE  s \in pending[mode'[s]] \/ \E t \in Calls : s \in tsend[t]
          BY <2>1
        <4>1. Unanswered(s) /\ s # c
          BY <1>1, <1>2, <2>2 DEF Unanswered
        <4>2. mode'[s] = mode[s]
          BY <1>2, <4>1 DEF TypeOK
        <4> QED
          BY <4>1, <4>2 DEF IInv, SendersPlaced
      <3> QED
        BY <2>1, <3>1, <3>2 DEF IInv, SendersPlaced, Waits, Unanswered
    <2>7. KeysWanted'
      BY <2>1, <2>2 DEF IInv, KeysWanted
    <2>8. FreshOnTheWay'
      BY <1>2, <1>4, <1>5, <2>1, <2>2 DEF IInv, FreshOnTheWay, TypeOK
    <2> QED
      BY <1>6, <2>3, <2>6, <2>7, <2>8 DEF IInv
  <1>8. CASE miss # {}
    <2> DEFINE all == keys[m] \cup miss
    <2>1. JoinBatch(c, m, miss)
      BY <1>8 DEF Load
    <2>2. \A s \in pending[m] : s \in Calls /\ s # c /\ mode[s] = m /\ want[s] \subseteq keys[m]
                                /\ Unanswered(s)
      BY <1>3 DEF IInv, SendersPlaced, Waits, TypeOK
    <2>3. CASE /\ Take(c, m, all, pending[m] \cup {c})
               /\ tst' = [tst EXCEPT ![c] = "hand"]
               /\ pc' = [pc EXCEPT ![c] = "immediate"]
      <3>1. /\ keys' = [keys EXCEPT ![m] = {}]
            /\ pending' = [pending EXCEPT ![m] = {}]
            /\ tkeys' = [tkeys EXCEPT ![c] = all]
            /\ tleft' = [tleft EXCEPT ![c] = all]
            /\ tsend' = [tsend EXCEPT ![c] = pending[m] \cup {c}]
        BY <2>3 DEF Take
      <3>2. CallsInOrder'
        BY <1>1, <1>2, <2>3, <3>1 DEF IInv, CallsInOrder, Owns, TypeOK
      <3>3. SendersPlaced'
        <4>1. \A n \in Modes : \A s \in pending'[n] : Waits(s, n)' /\ want'[s] \subseteq keys'[n]
          BY <1>2, <1>3, <3>1 DEF IInv, SendersPlaced, Waits, Unanswered, TypeOK
        <4>2. \A s \in tsend'[c] : Waits(s, m)' /\ want'[s] \subseteq tkeys'[c]
          BY <1>1, <1>2, <1>8, <2>2, <3>1 DEF Waits, Unanswered, TypeOK
        <4>3. \A t \in Calls : t # c =>
                \A s \in tsend'[t] : Waits(s, mode[t])' /\ want'[s] \subseteq tkeys'[t]
          BY <1>2, <1>4, <3>1 DEF IInv, SendersPlaced, Waits, Unanswered, TypeOK
        <4>4. \A n \in Modes, t \in Calls : pending'[n] \cap tsend'[t] = {}
          BY <1>3, <2>2, <3>1 DEF IInv, SendersPlaced, Waits, TypeOK
        <4>5. \A t, u \in Calls : t # u => tsend'[t] \cap tsend'[u] = {}
          BY <1>4, <3>1 DEF IInv, SendersPlaced, TypeOK
        <4>6. ASSUME NEW s \in Calls, Unanswered(s)'
              PROVE  s \in pending'[mode'[s]] \/ \E t \in Calls : s \in tsend'[t]
          <5>1. CASE s \in tsend'[c]
            BY <5>1
          <5>2. CASE s \notin tsend'[c]
            <6>1. s # c /\ s \notin pending[m] /\ Unanswered(s) /\ mode'[s] = mode[s]
              BY <1>2, <3>1, <4>6, <5>2 DEF Unanswered, TypeOK
            <6>2. CASE s \in pending[mode[s]]
              BY <3>1, <6>1, <6>2 DEF TypeOK
            <6>3. CASE \E t \in Calls : s \in tsend[t]
              BY <1>1, <3>1, <6>3 DEF TypeOK
            <6> QED
              BY <6>1, <6>2, <6>3 DEF IInv, SendersPlaced
          <5> QED BY <5>1, <5>2
        <4>7. mode'[c] = m
          BY <1>2 DEF TypeOK
        <4> QED
          BY <4>1, <4>2, <4>3, <4>4, <4>5, <4>6, <4>7 DEF SendersPlaced, Waits, Unanswered
      <3>4. KeysWanted'
        BY <1>2, <1>3, <3>1 DEF IInv, KeysWanted, TypeOK
      <3>5. FreshOnTheWay'
        <4>1. \A s \in tsend'[c] : \A k \in want'[s] : k \in tleft'[c] /\ tvals'[c][k] = NoVal
          BY <1>1, <1>2, <2>2, <3>1 DEF TypeOK, Nothing
        <4>2. \A t \in Calls : t # c => tsend'[t] = tsend[t] /\ tleft'[t] = tleft[t]
          BY <3>1 DEF TypeOK
        <4>3. \A t \in Calls : t # c => \A s \in tsend[t] :
                s \in Calls /\ s # c /\ want'[s] = want[s] /\ got'[s] = got[s] /\ floor'[s] = floor[s]
          BY <1>2, <1>4 DEF TypeOK
        <4> QED
          BY <1>2, <1>5, <4>1, <4>2, <4>3 DEF IInv, FreshOnTheWay
      <3> QED
        BY <1>6, <3>2, <3>3, <3>4, <3>5 DEF IInv
    <2>4. CASE /\ keys' = [keys EXCEPT ![m] = all]
               /\ pending' = [pending EXCEPT ![m] = @ \cup {c}]
               /\ pc' = [pc EXCEPT ![c] = IF keys[m] = {} THEN "start" ELSE "waiting"]
               /\ UNCHANGED <<tst, tkeys, tleft, tsend>>
      <3>1. CallsInOrder'
        BY <1>1, <1>2, <2>4 DEF IInv, CallsInOrder, Owns, TypeOK
      <3>2. SendersPlaced'
        <4>1. \A n \in Modes : \A s \in pending'[n] : Waits(s, n)' /\ want'[s] \subseteq keys'[n]
          BY <1>1, <1>2, <1>3, <1>8, <2>4 DEF IInv, SendersPlaced, Waits, Unanswered, TypeOK
        <4>2. \A t \in Calls : \A s \in tsend'[t] : Waits(s, mode[t])' /\ want'[s] \subseteq tkeys'[t]
          BY <1>1, <1>2, <1>4, <2>4 DEF IInv, SendersPlaced, Waits, Unanswered, TypeOK
        <4>3. /\ \A n \in Modes, t \in Calls : pending'[n] \cap tsend'[t] = {}
              /\ \A t, u \in Calls : t # u => tsend'[t] \cap tsend'[u] = {}
          BY <1>4, <2>4 DEF IInv, SendersPlaced, TypeOK
        <4>4. ASSUME NEW s \in Calls, Unanswered(s)'
              PROVE  s \in pending'[mode'[s]] \/ \E t \in Calls : s \in tsend'[t]
          <5>1. CASE s = c
            BY <1>2, <2>4, <5>1 DEF TypeOK
          <5>2. CASE s # c
            <6>1. Unanswered(s) /\ mode'[s] = mode[s]
              BY <1>2, <4>4, <5>2 DEF Unanswered, TypeOK
            <6> QED
              BY <2>4, <6>1 DEF IInv, SendersPlaced, TypeOK
          <5> QED BY <5>1, <5>2
        <4> QED
          BY <4>1, <4>2, <4>3, <4>4 DEF SendersPlaced, Waits, Unanswered
      <3>3. KeysWanted'
        <4> SUFFICES ASSUME NEW n \in Modes, NEW k \in keys'[n]
                     PROVE  \E s \in pending'[n] : k \in want'[s]
          BY DEF KeysWanted
        <4>1. CASE n = m /\ k \in miss
          BY <1>2, <2>4, <4>1 DEF TypeOK
        <4>2. CASE k \in keys[n]
          <5>1. PICK s \in pending[n] : k \in want[s]
            BY <4>2 DEF IInv, KeysWanted
          <5>2. s \in pending'[n] /\ want'[s] = want[s]
            BY <1>2, <1>3, <2>4, <5>1 DEF TypeOK
          <5> QED BY <5>1, <5>2
        <4> QED
          BY <2>4, <4>1, <4>2 DEF TypeOK
      <3>4. FreshOnTheWay'
        BY <1>2, <1>4, <1>5, <2>4 DEF IInv, FreshOnTheWay, TypeOK
      <3> QED
        BY <1>6, <3>1, <3>2, <3>3, <3>4 DEF IInv
    <2> QED
      BY <2>1, <2>3, <2>4 DEF JoinBatch
  <1> QED
    BY <1>7, <1>8

\* The other steps of a call.
LEMMA CallKeeps ==
  ASSUME IInv, TypeOK, TypeOK', NEW c \in Calls, Call(c)
  PROVE  IInv'
  <1>1. CASE \E ks \in SUBSET Keys : LoadMany(c, ks) \/ LoadManyStream(c, ks)
    BY <1>1, LoadKeeps DEF LoadMany, LoadManyStream, Modes
  <1>2. CASE Spawn(c)
    <2>1. CallsInOrder'
      BY <1>2 DEF Spawn, IInv, CallsInOrder, Owns, TypeOK
    <2>2. (SendersPlaced /\ KeysWanted /\ FreshOnTheWay /\ FreshAnswer)'
      BY <1>2
      DEF Spawn, requests, IInv, SendersPlaced, KeysWanted, FreshOnTheWay, FreshAnswer, Waits,
          Unanswered
    <2> QED BY <2>1, <2>2 DEF IInv
  <1>3. CASE SpawnRefused(c)
    <2>1. \A s \in tsend[c] : s \in Calls /\ chan[s] = "open"
      BY DEF IInv, SendersPlaced, Waits, Unanswered, TypeOK
    <2>2. Answer(tsend[c], "closed")
      BY <1>3, <2>1 DEF SpawnRefused, DropSenders, Answer
    <2>3. /\ Finish(c)
          /\ pc' \in [Calls -> CallStates]
          /\ \A s \in Calls : s # c => pc'[s] = pc[s]
          /\ pc[c] # "idle" /\ pc'[c] \notin {"idle", "start", "immediate"}
          /\ UNCHANGED <<keys, pending, mode, want, floor, store, got>>
      BY <1>3 DEF SpawnRefused, requests, TypeOK
    <2> QED
      BY <2>2, <2>3, TaskEnds DEF ChanStates, TypeOK
  <1>4. CASE Return(c)
    <2>1. PICK p \in {"done", "failed", "panicked"} : pc' = [pc EXCEPT ![c] = p]
      BY <1>4 DEF Return, TypeOK, ChanStates
    <2> QED
      BY <1>4, <2>1, PcMoves DEF Return, requests, taskVars, CallStates
  <1>5. CASE Cancel(c)
    BY <1>5, PcMoves DEF Cancel, requests, taskVars, CallStates
  <1> QED
    BY <1>1, <1>2, <1>3, <1>4, <1>5 DEF Call

(***************************************************************************)
(* The delay is over: the task takes the batch, or finds that an           *)
(* ImmediateLoad has taken it; then no sender is left either.              *)
(***************************************************************************)
LEMMA DelayOverKeeps ==
  ASSUME IInv, TypeOK, TypeOK', NEW c \in Calls, DelayOver(c)
  PROVE  IInv'
  <1> DEFINE m == mode[c]
  <1>1. /\ m \in Modes /\ tst[c] = "delay" /\ tsend[c] = {} /\ tvals[c] = Nothing
        /\ pc[c] \notin {"idle", "start", "immediate"}
        /\ UNCHANGED <<store, pc, mode, want, floor, got>>
    BY DEF DelayOver, callVars, IInv, CallsInOrder, Owns, TypeOK
  <1>2. CASE keys[m] = {}
    <2>1. pending[m] = {}
      BY <1>1, <1>2 DEF IInv, SendersPlaced, Waits, Unanswered, TypeOK
    <2>2. /\ Finish(c) /\ UNCHANGED <<keys, pending>> /\ chan' = chan
      <3>1. /\ Finish(c) /\ UNCHANGED keys
            /\ pending' = [pending EXCEPT ![m] = {}] /\ DropSenders(pending[m])
        BY <1>2 DEF DelayOver
      <3>2. pending' = pending
        BY <1>1, <2>1, <3>1 DEF TypeOK
      <3>3. chan' = chan
        BY <2>1, <3>1 DEF DropSenders, TypeOK
      <3> QED BY <3>1, <3>2, <3>3
    <2>3. Answer(tsend[c], "closed")
      BY <1>1, <2>2 DEF Answer, TypeOK
    <2> QED
      BY <1>1, <2>2, <2>3, TaskEnds DEF ChanStates, TypeOK
  <1>3. CASE keys[m] # {}
    <2>1. /\ keys' = [keys EXCEPT ![m] = {}]
          /\ pending' = [pending EXCEPT ![m] = {}]
          /\ tkeys' = [tkeys EXCEPT ![c] = keys[m]]
          /\ tleft' = [tleft EXCEPT ![c] = keys[m]]
          /\ tsend' = [tsend EXCEPT ![c] = pending[m]]
          /\ tst' = [tst EXCEPT ![c] = "loading"]
          /\ UNCHANGED <<chan, tvals>>
      BY <1>3 DEF DelayOver, Take
    <2>2. CallsInOrder'
      BY <1>1, <2>1 DEF IInv, CallsInOrder, Owns, TypeOK
    <2>3. SendersPlaced'
      <3>1. /\ \A n \in Modes : \A s \in pending'[n] : Waits(s, n)' /\ want'[s] \subseteq keys'[n]
            /\ \A t \in Calls : \A s \in tsend'[t] : Waits(s, mode[t])' /\ want'[s] \subseteq tkeys'[t]
        BY <1>1, <2>1 DEF IInv, SendersPlaced, Waits, Unanswered, TypeOK
      <3>2. /\ \A n \in Modes, t \in Calls : pending'[n] \cap tsend'[t] = {}
            /\ \A t, u \in Calls : t # u => tsend'[t] \cap tsend'[u] = {}
        BY <1>1, <2>1 DEF IInv, SendersPlaced, Waits, TypeOK
      <3>3. \A s \in Calls : Unanswered(s)' =>
              s \in pending'[mode'[s]] \/ \E t \in Calls : s \in tsend'[t]
        <4> SUFFICES ASSUME NEW s \in Calls, Unanswered(s)
                     PROVE  s \in pending'[mode[s]] \/ \E t \in Calls : s \in tsend'[t]
          BY <1>1, <2>1 DEF Unanswered
        <4>1. CASE \E t \in Calls : s \in tsend[t]
          BY <1>1, <2>1, <4>1 DEF TypeOK
        <4>2. CASE s \in pending[mode[s]]
          BY <1>1, <2>1, <4>2 DEF TypeOK
        <4> QED
          BY <4>1, <4>2 DEF IInv, SendersPlaced
      <3> QED
        BY <1>1, <3>1, <3>2, <3>3 DEF SendersPlaced, Waits, Unanswered
    <2>4. KeysWanted'
      BY <1>1, <2>1 DEF IInv, KeysWanted, TypeOK
    <2>5. FreshOnTheWay'
      <3>1. \A s \in tsend'[c] : \A k \in want[s] : k \in tleft'[c] /\ tvals'[c][k] = NoVal
        BY <1>1, <2>1 DEF IInv, SendersPlaced, TypeOK, Nothing
      <3>2. \A t \in Calls : t # c => tsend'[t] = tsend[t] /\ tleft'[t] = tleft[t]
        BY <2>1 DEF TypeOK
      <3> QED
        BY <1>1, <2>1, <3>1, <3>2 DEF IInv, FreshOnTheWay
    <2>6. FreshAnswer'
      BY <1>1, <2>1 DEF IInv, FreshAnswer
    <2> QED
      BY <2>2, <2>3, <2>4, <2>5, <2>6 DEF IInv
  <1> QED
    BY <1>2, <1>3

(***************************************************************************)
(* The loader reads records: what it reads is no older than any call whose *)
(* sender is in the batch.                                                 *)
(***************************************************************************)
LEMMA ReadKeeps ==
  ASSUME IInv, TypeOK, TypeOK', NEW c \in Calls,
         LoaderReturns(c) \/ \E k \in Keys : LoaderReads(c, k)
  PROVE  IInv'
  <1>1. /\ UNCHANGED <<store, keys, pending, pc, mode, want, floor, got, chan, tkeys, tsend>>
        /\ tst[c] = "loading"
        /\ \A t \in Calls : t # c => tst'[t] = tst[t] /\ tleft'[t] = tleft[t] /\ tvals'[t] = tvals[t]
    BY DEF LoaderReturns, LoaderReads, requests, callVars, TypeOK
  <1>2. /\ tst'[c] \in {"loading", "loaded"}
        /\ tst'[c] = "loaded" => tleft'[c] = {}
        /\ \A k \in tkeys[c] :
             \/ tvals'[c][k] = store[k]
             \/ tvals'[c][k] = tvals[c][k] /\ (k \in tleft[c] => k \in tleft'[c])
    <2>1. CASE LoaderReturns(c)
      BY <2>1 DEF LoaderReturns, TypeOK, ValMap
    <2>2. CASE \E k \in Keys : LoaderReads(c, k)
      BY <1>1, <2>2 DEF LoaderReads, TypeOK, ValMap
    <2> QED BY <2>1, <2>2
  <1>3. CallsInOrder'
    <2> SUFFICES ASSUME NEW s \in Calls
                 PROVE  /\ pc'[s] = "idle" => want'[s] = {} /\ chan'[s] = "open" /\ tst'[s] = "none"
                        /\ pc'[s] = "start" => tst'[s] = "none"
                        /\ tst'[s] = "hand" <=> pc'[s] = "immediate"
                        /\ tst'[s] = "loaded" => tleft'[s] = {}
                        /\ ~Owns(s)' => tsend'[s] = {}
                        /\ tst'[s] \notin {"loading", "loaded"} => tvals'[s] = Nothing
      BY DEF CallsInOrder
    <2>1. CASE s = c
      BY <1>1, <1>2, <2>1 DEF IInv, CallsInOrder, Owns
    <2>2. CASE s # c
      BY <1>1, <2>2 DEF IInv, CallsInOrder, Owns
    <2> QED BY <2>1, <2>2
  <1>4. (SendersPlaced /\ KeysWanted /\ FreshAnswer)'
    BY <1>1 DEF IInv, SendersPlaced, KeysWanted, FreshAnswer, Waits, Unanswered
  <1>5. FreshOnTheWay'
    <2>1. ASSUME NEW s \in tsend[c], NEW k \in want[s]
          PROVE  /\ tvals'[c][k] # NoVal => tvals'[c][k] >= floor[s][k]
                 /\ k \in tleft'[c] \/ tvals'[c][k] # NoVal \/ got[s][k] >= floor[s][k]
      <3>1. s \in Calls /\ k \in Keys /\ k \in tkeys[c] /\ floor[s][k] <= store[k]
        BY DEF IInv, SendersPlaced, FreshOnTheWay, TypeOK
      <3>2. floor[s][k] \in Nat /\ store[k] \in Nat /\ got[s][k] \in Nat
        BY <3>1, ValuesTyped DEF TypeOK, ValMap
      <3>3. /\ tvals[c][k] # NoVal => tvals[c][k] >= floor[s][k]
            /\ k \in tleft[c] \/ tvals[c][k] # NoVal \/ got[s][k] >= floor[s][k]
        BY DEF IInv, FreshOnTheWay
      <3> QED
        BY <1>2, <3>1, <3>2, <3>3 DEF NoVal
    <2> QED
      BY <1>1, <2>1 DEF IInv, FreshOnTheWay
  <1> QED
    BY <1>3, <1>4, <1>5 DEF IInv

\* The senders of a batch get values; whoever gets one gets it for a key it asked for.
LEMMA SendValuesKeeps ==
  ASSUME IInv, TypeOK, NEW c \in Calls, NEW vs \in ValMap, SendValues(c, vs)
  PROVE  /\ got' \in [Calls -> ValMap]
         /\ \A s \in Calls \ tsend[c] : got'[s] = got[s]
         /\ \A s \in tsend[c] : \A k \in want[s] :
              got'[s][k] = IF vs[k] # NoVal THEN vs[k] ELSE got[s][k]
  <1>1. got' \in [Calls -> ValMap]
    BY DEF SendValues, TypeOK, ValMap
  <1>2. \A s \in Calls \ tsend[c] : got'[s] = got[s]
    BY DEF SendValues
  <1>3. \A s \in tsend[c] : \A k \in want[s] :
          got'[s][k] = IF vs[k] # NoVal THEN vs[k] ELSE got[s][k]
    BY DEF SendValues, TypeOK
  <1> QED BY <1>1, <1>2, <1>3

\* A task that has a batch belongs to a call that is past its spawn.
LEMMA TaskRuns ==
  ASSUME IInv, NEW c \in Calls, tst[c] \in {"loading", "loaded"}
  PROVE  pc[c] \notin {"idle", "start", "immediate"}
  BY DEF IInv, CallsInOrder

\* do_load answers all senders of its batch and ends.
LEMMA ApplyValuesKeeps ==
  ASSUME IInv, TypeOK, TypeOK', NEW c \in Calls, ApplyValues(c)
  PROVE  IInv'
  <1>1. /\ Finish(c) /\ Answer(tsend[c], "ok") /\ tvals[c] \in ValMap /\ SendValues(c, tvals[c])
        /\ tst[c] = "loaded" /\ tleft[c] = {}
        /\ UNCHANGED <<keys, pending, pc, mode, want, floor, store>>
    BY DEF ApplyValues, requests, callVars, IInv, CallsInOrder, TypeOK
  <1>2. ASSUME NEW s \in tsend[c], NEW k \in want[s]
        PROVE  got'[s][k] >= floor[s][k]
    <2>1. s \in Calls /\ k \in Keys
      BY DEF TypeOK
    <2>2. floor[s][k] \in Nat /\ tvals[c][k] \in Nat /\ got[s][k] \in Nat
      BY <2>1, ValuesTyped DEF TypeOK, ValMap
    <2>3. /\ tvals[c][k] # NoVal => tvals[c][k] >= floor[s][k]
          /\ tvals[c][k] # NoVal \/ got[s][k] >= floor[s][k]
      BY <1>1 DEF IInv, FreshOnTheWay
    <2>4. got'[s][k] = IF tvals[c][k] # NoVal THEN tvals[c][k] ELSE got[s][k]
      BY <1>1, SendValuesKeeps
    <2> QED BY <2>2, <2>3, <2>4
  <1> QED
    BY <1>1, <1>2, SendValuesKeeps, TaskRuns, TaskEnds DEF ChanStates, TypeOK

\* One item of a streaming loader is passed on; the batch stays with the task.
LEMMA ApplyItemKeeps ==
  ASSUME IInv, TypeOK, TypeOK', NEW c \in Calls, NEW k \in Keys, ApplyItem(c, k)
  PROVE  IInv'
  <1> DEFINE item == [Nothing EXCEPT ![k] = tvals[c][k]]
  <1>1. /\ tst[c] = "loading" /\ tvals[c][k] # NoVal
        /\ SendValues(c, item)
        /\ tvals' = [tvals EXCEPT ![c][k] = NoVal]
        /\ UNCHANGED <<store, keys, pending, pc, mode, want, floor, chan, tst, tkeys, tleft, tsend>>
    BY DEF ApplyItem, requests, callVars
  <1>2. item \in ValMap /\ item[k] = tvals[c][k] /\ \A j \in Keys : j # k => item[j] = NoVal
    BY ValuesTyped DEF TypeOK, ValMap, Nothing
  <1>3. /\ \A s \in Calls \ tsend[c] : got'[s] = got[s]
        /\ \A s \in tsend[c] : \A j \in want[s] :
             got'[s][j] = IF item[j] # NoVal THEN item[j] ELSE got[s][j]
    BY <1>1, <1>2, SendValuesKeeps
  <1>4. \A s \in tsend[c] : s \in Calls /\ chan[s] = "open"
    BY DEF IInv, SendersPlaced, Waits, Unanswered, TypeOK
  <1>5. /\ tvals'[c][k] = NoVal
        /\ \A j \in Keys : j # k => tvals'[c][j] = tvals[c][j]
        /\ \A t \in Calls : t # c => tvals'[t] = tvals[t]
    BY <1>1 DEF TypeOK, ValMap
  <1>6. CallsInOrder'
    BY <1>1, <1>5 DEF IInv, CallsInOrder, Owns
  <1>7. (SendersPlaced /\ KeysWanted)'
    BY <1>1 DEF IInv, SendersPlaced, KeysWanted, Waits, Unanswered
  <1>8. FreshAnswer'
    <2> SUFFICES ASSUME NEW s \in Calls, chan[s] = "ok"
                 PROVE  \A j \in want[s] : got'[s][j] >= floor[s][j]
      BY <1>1 DEF FreshAnswer
    <2>1. got'[s] = got[s]
      BY <1>3, <1>4
    <2> QED
      BY <2>1 DEF IInv, FreshAnswer
  <1>9. FreshOnTheWay'
    <2>1. ASSUME NEW s \in tsend[c], NEW j \in want[s]
          PROVE  /\ tvals'[c][j] # NoVal => tvals'[c][j] >= floor[s][j]
                 /\ j \in tleft[c] \/ tvals'[c][j] # NoVal \/ got'[s][j] >= floor[s][j]
      <3>1. j \in Keys
        BY <1>4 DEF TypeOK
      <3>2. /\ tvals[c][j] # NoVal => tvals[c][j] >= floor[s][j]
            /\ j \in tleft[c] \/ tvals[c][j] # NoVal \/ got[s][j] >= floor[s][j]
        BY DEF IInv, FreshOnTheWay
      <3>3. CASE j = k
        BY <1>1, <1>2, <1>3, <1>5, <3>2, <3>3
      <3>4. CASE j # k
        BY <1>2, <1>3, <1>5, <3>1, <3>2, <3>4
      <3> QED BY <3>3, <3>4
    <2>2. ASSUME NEW t \in Calls, t # c, NEW s \in tsend[t]
          PROVE  got'[s] = got[s]
      BY <1>3, <2>2 DEF IInv, SendersPlaced, TypeOK
    <2> QED
      BY <1>1, <1>5, <2>1, <2>2 DEF IInv, FreshOnTheWay
  <1> QED
    BY <1>6, <1>7, <1>8, <1>9 DEF IInv

\* The loader's stream ends, or the loader fails or panics.
LEMMA LoaderEndsKeeps ==
  ASSUME IInv, TypeOK, TypeOK', NEW c \in Calls,
         LoaderStreamEnds(c) \/ LoaderFails(c) \/ LoaderPanics(c)
  PROVE  IInv'
  <1>1. /\ Finish(c) /\ tst[c] = "loading"
        /\ UNCHANGED <<keys, pending, pc, mode, want, floor, store, got>>
    BY DEF LoaderStreamEnds, LoaderFails, LoaderPanics, requests, callVars
  <1>2. CASE LoaderStreamEnds(c)
    <2>1. Answer(tsend[c], "ok") /\ tleft[c] = {} /\ tvals[c] = Nothing
      BY <1>2 DEF LoaderStreamEnds
    <2>2. \A s \in tsend[c] : \A k \in want[s] : got'[s][k] >= floor[s][k]
      <3> SUFFICES ASSUME NEW s \in tsend[c], NEW k \in want[s]
                   PROVE  got[s][k] >= floor[s][k]
        BY <1>1
      <3>1. k \in Keys
        BY DEF TypeOK
      <3>2. tvals[c][k] = NoVal
        BY <2>1, <3>1 DEF Nothing
      <3> QED
        BY <2>1, <3>2 DEF IInv, FreshOnTheWay
    <2> QED
      BY <1>1, <2>1, <2>2, TaskRuns, TaskEnds DEF ChanStates, TypeOK
  <1>3. CASE LoaderFails(c)
    <2>1. Answer(tsend[c], "err")
      BY <1>3 DEF LoaderFails
    <2> QED
      BY <1>1, <2>1, TaskRuns, TaskEnds DEF ChanStates, TypeOK
  <1>4. CASE LoaderPanics(c)
    <2>1. \A s \in tsend[c] : chan[s] = "open"
      BY DEF IInv, SendersPlaced, Waits, Unanswered
    <2>2. Answer(tsend[c], "closed")
      BY <1>4, <2>1 DEF LoaderPanics, DropSenders, Answer
    <2> QED
      BY <1>1, <2>2, TaskRuns, TaskEnds DEF ChanStates, TypeOK
  <1> QED
    BY <1>2, <1>3, <1>4

\* A writer only makes records newer.
LEMMA WriteKeeps ==
  ASSUME IInv, TypeOK, TypeOK', NEW k \in Keys, Write(k)
  PROVE  IInv'
  <1>1. /\ store' = [store EXCEPT ![k] = @ + 1]
        /\ UNCHANGED <<keys, pending, pc, mode, want, got, chan, floor, tst, tkeys, tleft, tsend, tvals>>
    BY DEF Write, requests, callVars, taskVars
  <1>2. \A j \in Keys : store[j] \in Nat /\ store[j] <= store'[j]
    <2> SUFFICES ASSUME NEW j \in Keys PROVE store[j] \in Nat /\ store[j] <= store'[j]
      OBVIOUS
    <2>1. store[j] \in Nat
      BY ValuesTyped DEF TypeOK, ValMap
    <2>2. store'[j] = IF j = k THEN store[j] + 1 ELSE store[j]
      BY <1>1 DEF TypeOK, ValMap
    <2> QED BY <2>1, <2>2
  <1>3. \A c \in Calls, j \in Keys : floor[c][j] \in Nat /\ floor[c][j] <= store[j]
    BY ValuesTyped DEF IInv, FreshOnTheWay, TypeOK, ValMap
  <1>4. \A c \in Calls, j \in Keys : floor'[c][j] <= store'[j]
    <2> SUFFICES ASSUME NEW c \in Calls, NEW j \in Keys PROVE floor[c][j] <= store'[j]
      BY <1>1
    <2>1. store'[j] \in Nat
      BY ValuesTyped DEF TypeOK, ValMap
    <2> QED BY <1>2, <1>3, <2>1
  <1>5. FreshOnTheWay'
    BY <1>1, <1>4 DEF IInv, FreshOnTheWay
  <1>6. (CallsInOrder /\ SendersPlaced /\ KeysWanted /\ FreshAnswer)'
    BY <1>1 DEF IInv, CallsInOrder, SendersPlaced, KeysWanted, FreshAnswer, Owns, Waits, Unanswered
  <1> QED
    BY <1>5, <1>6 DEF IInv

\* Every step of the data loader preserves the inductive invariant.
LEMMA NextIInv == TypeOK /\ TypeOK' /\ IInv /\ [Next]_vars => IInv'
  <1> SUFFICES ASSUME TypeOK, TypeOK', IInv, [Next]_vars
               PROVE  IInv'
    OBVIOUS
  <1>1. CASE UNCHANGED vars
    BY <1>1, TrackedUnchanged DEF vars, tracked, requests, callVars, taskVars
  <1>2. ASSUME NEW c \in Calls, Call(c) PROVE IInv'
    BY <1>2, CallKeeps
  <1>3. ASSUME NEW c \in Calls, Task(c) PROVE IInv'
    BY <1>3, DelayOverKeeps, ReadKeeps, ApplyValuesKeeps, ApplyItemKeeps, LoaderEndsKeeps DEF Task
  <1>4. CASE Control
    <2>1. UNCHANGED tracked
      BY <1>4
      DEF Control, FeedMany, ClearOne, Clear, EnableAllCache, EnableCache, tracked, requests,
          callVars, taskVars
    <2> QED BY <2>1, TrackedUnchanged
  <1>5. ASSUME NEW k \in Keys, Write(k) PROVE IInv'
    BY <1>5, WriteKeeps
  <1> QED
    BY <1>1, <1>2, <1>3, <1>4, <1>5 DEF Next

(***************************************************************************)
(* The inductive invariant holds in every execution.                       *)
(***************************************************************************)
THEOREM Invariance == Spec => [](TypeOK /\ IInv)
  <1>1. TypeOK /\ IInv /\ [Next]_vars => (TypeOK /\ IInv)'
    BY NextTyped, NextIInv
  <1> QED
    BY <1>1, InitTyped, InitIInv, PTL DEF Spec

(***************************************************************************)
(* Every answer of do_load and do_load_stream is at least as new as the    *)
(* call it answers, for every key the cache did not have.                  *)
(***************************************************************************)
THEOREM AnswersAreFresh == Spec => []FreshAnswer
  BY Invariance, PTL DEF IInv

(***************************************************************************)
(* Requests.keys is exactly what the pending senders asked for.            *)
(***************************************************************************)
THEOREM BatchesMatchSenders == Spec => []BatchKeysMatch
  <1>1. TypeOK /\ IInv => BatchKeysMatch
    BY DEF IInv, SendersPlaced, KeysWanted, BatchKeysMatch, TypeOK
  <1> QED
    BY <1>1, Invariance, PTL

(***************************************************************************)
(* No sender is lost and none has two owners.                              *)
(***************************************************************************)
THEOREM SendersHaveOneOwner == Spec => []SenderOwnedOnce
  <1>1. TypeOK /\ IInv => SenderOwnedOnce
    BY DEF IInv, CallsInOrder, SendersPlaced, SenderOwnedOnce, Waits, TypeOK
  <1> QED
    BY <1>1, Invariance, PTL

-----------------------------------------------------------------------------
(***************************************************************************)
(* No orphan batch.  Only here does it matter that the spawner accepts     *)
(* every task: SpawnRefused leaves the keys of a batch without a task.     *)
(***************************************************************************)

\* Call c has undertaken to take the batch of mode m.
WillTake(c, m) == mode[c] = m /\ (pc[c] = "start" \/ tst[c] = "delay")

\* A step that adds no key to an empty batch and releases no undertaking of a call leaves no orphan.
LEMMA UndertakingsKept ==
  ASSUME NoOrphanBatch,
         \A m \in Modes : keys'[m] # {} => keys[m] # {},
         \A c \in Calls, m \in Modes : keys'[m] # {} /\ WillTake(c, m) => WillTake(c, m)'
  PROVE  NoOrphanBatch'
  BY DEF NoOrphanBatch, WillTake

\* The locked section of a call: the call that finds the batch empty is the one that undertakes.
LEMMA LoadLeavesNoOrphan ==
  ASSUME TypeOK, IInv, NoOrphanBatch, NEW c \in Calls, NEW m \in Modes,
         NEW ks \in SUBSET Keys, Load(c, m, ks)
  PROVE  NoOrphanBatch'
  <1> DEFINE miss == ks \ Hits(ks)
  <1>1. /\ pc[c] = "idle" /\ tst[c] = "none"
        /\ mode' = [mode EXCEPT ![c] = m]
    BY DEF Load, IInv, CallsInOrder
  <1>2. CASE miss = {}
    <2>1. UNCHANGED <<keys, tst>> /\ pc' = [pc EXCEPT ![c] = "done"]
      BY <1>2 DEF Load
    <2>2. \A d \in Calls, n \in Modes : WillTake(d, n) => WillTake(d, n)'
      BY <1>1, <2>1 DEF WillTake, TypeOK
    <2> QED BY <2>1, <2>2, UndertakingsKept
  <1>3. CASE miss # {}
    <2>1. JoinBatch(c, m, miss)
      BY <1>3 DEF Load
    <2>2. CASE Take(c, m, keys[m] \cup miss, pending[m] \cup {c})
               /\ tst' = [tst EXCEPT ![c] = "hand"] /\ pc' = [pc EXCEPT ![c] = "immediate"]
      <3>1. keys' = [keys EXCEPT ![m] = {}]
        BY <2>2 DEF Take
      <3>2. \A d \in Calls, n \in Modes : WillTake(d, n) => WillTake(d, n)'
        BY <1>1, <2>2 DEF WillTake, TypeOK
      <3> QED BY <3>1, <3>2, UndertakingsKept DEF TypeOK
    <2>3. CASE /\ keys' = [keys EXCEPT ![m] = keys[m] \cup miss]
               /\ pc' = [pc EXCEPT ![c] = IF keys[m] = {} THEN "start" ELSE "waiting"]
               /\ UNCHANGED tst
      <3>1. \A d \in Calls, n \in Modes : WillTake(d, n) => WillTake(d, n)'
        BY <1>1, <2>3 DEF WillTake, TypeOK
      <3>2. CASE keys[m] = {}
        <4>1. WillTake(c, m)'
          BY <1>1, <2>3, <3>2 DEF WillTake, TypeOK
        <4>2. \A n \in Modes : n # m => keys'[n] = keys[n]
          BY <2>3 DEF TypeOK
        <4> QED BY <3>1, <4>1, <4>2 DEF NoOrphanBatch, WillTake
      <3>3. CASE keys[m] # {}
        BY <2>3, <3>1, <3>3, UndertakingsKept DEF TypeOK
      <3> QED BY <3>2, <3>3
    <2> QED BY <2>1, <2>2, <2>3 DEF JoinBatch
  <1> QED BY <1>2, <1>3

\* The other steps of a call: Spawn turns the undertaking into a task.
LEMMA CallLeavesNoOrphan ==
  ASSUME ~SpawnMayFail, TypeOK, IInv, NoOrphanBatch, NEW c \in Calls, Call(c)
  PROVE  NoOrphanBatch'
  <1>1. ASSUME NEW ks \in SUBSET Keys, LoadMany(c, ks) \/ LoadManyStream(c, ks)
        PROVE  NoOrphanBatch'
    BY <1>1, LoadLeavesNoOrphan DEF LoadMany, LoadManyStream, Modes
  <1>2. CASE Spawn(c) \/ Return(c) \/ Cancel(c)
    <2>1. UNCHANGED <<keys, mode>>
      BY <1>2 DEF Spawn, Return, Cancel, requests, callVars
    <2>2. \A d \in Calls, n \in Modes : WillTake(d, n) => WillTake(d, n)'
      <3>1. CASE Spawn(c)
        BY <3>1 DEF Spawn, WillTake, TypeOK, IInv, CallsInOrder
      <3>2. CASE Return(c) \/ Cancel(c)
        <4>1. pc[c] = "waiting" /\ UNCHANGED <<mode, tst>> /\ \A d \in Calls : d # c => pc'[d] = pc[d]
          BY <3>2 DEF Return, Cancel, taskVars, TypeOK
        <4> QED BY <4>1 DEF WillTake
      <3> QED BY <1>2, <3>1, <3>2
    <2> QED BY <2>1, <2>2, UndertakingsKept
  <1> QED BY <1>1, <1>2 DEF Call, SpawnRefused

\* The steps of a task: it gives up its undertaking only by emptying the batch, or finding it empty.
LEMMA TaskLeavesNoOrphan ==
  ASSUME TypeOK, IInv, NoOrphanBatch, NEW c \in Calls, Task(c)
  PROVE  NoOrphanBatch'
  <1>1. UNCHANGED <<pc, mode>>
    BY DEF Task, DelayOver, LoaderReturns, LoaderReads, ApplyValues, ApplyItem, LoaderStreamEnds,
           LoaderFails, LoaderPanics, callVars
  <1>2. \A d \in Calls : d # c => tst'[d] = tst[d]
    BY DEF Task, DelayOver, LoaderReturns, LoaderReads, ApplyValues, ApplyItem, LoaderStreamEnds,
           LoaderFails, LoaderPanics, Finish, TypeOK, taskVars
  <1>3. CASE DelayOver(c)
    <2>1. \A n \in Modes : IF n = mode[c] THEN keys'[n] = {} ELSE keys'[n] = keys[n]
      BY <1>3 DEF DelayOver, Take, TypeOK
    <2>2. \A d \in Calls, n \in Modes : keys'[n] # {} /\ WillTake(d, n) => WillTake(d, n)'
      BY <1>1, <1>2, <2>1 DEF WillTake
    <2> QED BY <2>1, <2>2, UndertakingsKept
  <1>4. CASE ~DelayOver(c)
    <2>1. UNCHANGED keys /\ tst[c] # "delay"
      BY <1>4 DEF Task, LoaderReturns, LoaderReads, ApplyValues, ApplyItem, LoaderStreamEnds,
                  LoaderFails, LoaderPanics, requests
    <2>2. \A d \in Calls, n \in Modes : WillTake(d, n) => WillTake(d, n)'
      BY <1>1, <1>2, <2>1 DEF WillTake
    <2> QED BY <2>1, <2>2, UndertakingsKept
  <1> QED BY <1>3, <1>4

(***************************************************************************)
(* When the spawner accepts every task, a batch with keys always has a     *)
(* task on its way: the calls that load_many leaves to Delay are not       *)
(* forgotten.                                                              *)
(***************************************************************************)
THEOREM BatchesHaveATask ==
  ASSUME ~SpawnMayFail
  PROVE  Spec => []NoOrphanBatch
  <1>1. Init => NoOrphanBatch
    BY DEF Init, NoOrphanBatch, Modes
  <1>2. TypeOK /\ IInv /\ NoOrphanBatch /\ [Next]_vars => NoOrphanBatch'
    <2> SUFFICES ASSUME TypeOK, IInv, NoOrphanBatch, [Next]_vars
                 PROVE  NoOrphanBatch'
      OBVIOUS
    <2>1. CASE UNCHANGED <<keys, pc, mode, tst>>
      BY <2>1 DEF NoOrphanBatch
    <2>2. CASE Control \/ \E k \in Keys : Write(k)
      <3>1. UNCHANGED <<keys, pc, mode, tst>>
        BY <2>2 DEF Control, FeedMany, ClearOne, Clear, EnableAllCache, EnableCache, Write,
                    requests, callVars, taskVars
      <3> QED BY <2>1, <3>1
    <2>3. CASE UNCHANGED vars
      BY <2>1, <2>3 DEF vars, requests, callVars, taskVars
    <2> QED
      BY <2>2, <2>3, CallLeavesNoOrphan, TaskLeavesNoOrphan DEF Next
  <1> QED
    BY <1>1, <1>2, Invariance, PTL DEF Spec

-----------------------------------------------------------------------------
(***************************************************************************)
(* While the entry's cache is disabled, no completing batch changes it.    *)
(***************************************************************************)
THEOREM DisabledCacheStays == Spec => TypedCacheOff
  <1>1. [Next]_vars => [typedOff /\ (got' # got \/ chan' # chan) => cache' = cache]_vars
    <2> SUFFICES ASSUME [Next]_vars, typedOff, got' # got \/ chan' # chan
                 PROVE  cache' = cache
      OBVIOUS
    <2>1. CASE UNCHANGED vars
      BY <2>1 DEF vars
    <2>2. ASSUME NEW c \in Calls, Call(c) PROVE cache' = cache
      BY <2>2 DEF Call, LoadMany, LoadManyStream, Load, Spawn, SpawnRefused, Return, Cancel
    <2>3. ASSUME NEW c \in Calls, Task(c) PROVE cache' = cache
      BY <2>3 DEF Task, DelayOver, LoaderReturns, LoaderReads, ApplyValues, ApplyItem, CacheLoaded,
                  LoaderStreamEnds, LoaderFails, LoaderPanics
    <2>4. CASE Control \/ \E k \in Keys : Write(k)
      <3>1. UNCHANGED <<got, chan>>
        BY <2>4 DEF Control, FeedMany, ClearOne, Clear, EnableAllCache, EnableCache, Write
      <3> QED BY <3>1
    <2> QED BY <2>1, <2>2, <2>3, <2>4 DEF Next
  <1> QED
    BY <1>1, PTL DEF Spec, TypedCacheOff


-----------------------------------------------------------------------------
(***************************************************************************)
(* The data loader implements LoadService, for all keys, calls, batch      *)
(* sizes, cache policies and switches: batching is invisible to callers.   *)
(***************************************************************************)

(***************************************************************************)
(* What AnswersAreFresh does not say: no answer comes from the future.  A  *)
(* version on its way to a caller, or received, exists in the data source. *)
(***************************************************************************)
NotFromTheFuture ==
  \A c \in Calls, k \in Keys :
    /\ tvals[c][k] <= store[k]
    /\ k \in want[c] => got[c][k] <= store[k]

\* Versions are natural numbers, so they can be compared.
LEMMA VersionsAreNat ==
  ASSUME TypeOK, NEW c \in Calls, NEW k \in Keys
  PROVE  store[k] \in Nat /\ got[c][k] \in Nat /\ tvals[c][k] \in Nat /\ floor[c][k] \in Nat
  <1>1. \A f \in ValMap : f[k] \in Nat
    BY ValuesTyped DEF ValMap
  <1>2. store \in ValMap /\ got[c] \in ValMap /\ tvals[c] \in ValMap /\ floor[c] \in ValMap
    BY DEF TypeOK
  <1> QED BY <1>1, <1>2

\* It is enough to look at what changes in a step that does not write to the source.
LEMMA FutureKept ==
  ASSUME TypeOK, NotFromTheFuture, UNCHANGED store,
         \A c \in Calls, k \in Keys :
           /\ tvals'[c][k] \in {tvals[c][k], store[k], NoVal}
           /\ k \in want'[c] =>
                \/ got'[c][k] = NoVal
                \/ \E t \in Calls : got'[c][k] = tvals[t][k]
                \/ k \in want[c] /\ got'[c][k] = got[c][k]
  PROVE  NotFromTheFuture'
  <1> SUFFICES ASSUME NEW c \in Calls, NEW k \in Keys
               PROVE  tvals'[c][k] <= store[k] /\ (k \in want'[c] => got'[c][k] <= store[k])
    BY DEF NotFromTheFuture
  <1>1. store[k] \in Nat /\ NoVal <= store[k] /\ store[k] <= store[k]
    BY VersionsAreNat DEF NoVal
  <1> QED
    BY <1>1 DEF NotFromTheFuture

\* The locked section of a call: a key the call has to load has no value yet.
LEMMA LoadNotFuture ==
  ASSUME TypeOK, NotFromTheFuture, NEW c \in Calls, NEW m \in Modes, NEW ks \in SUBSET Keys,
         Load(c, m, ks)
  PROVE  NotFromTheFuture'
  <1>1. /\ UNCHANGED <<store, tvals>>
        /\ want' = [want EXCEPT ![c] = ks \ Hits(ks)]
        /\ got' = [got EXCEPT ![c] = [k \in Keys |-> IF k \in Hits(ks) THEN cache[k] ELSE NoVal]]
    BY DEF Load
  <1>2. \A d \in Calls, k \in Keys :
          k \in want'[d] => got'[d][k] = NoVal \/ (k \in want[d] /\ got'[d][k] = got[d][k])
    BY <1>1 DEF TypeOK
  <1> QED BY <1>1, <1>2, FutureKept

\* The steps of a task.
LEMMA TaskNotFuture ==
  ASSUME TypeOK, IInv, NotFromTheFuture, NEW c \in Calls, Task(c)
  PROVE  NotFromTheFuture'
  <1>1. UNCHANGED <<store, want>>
    BY DEF Task, DelayOver, LoaderReturns, LoaderReads, ApplyValues, ApplyItem, LoaderStreamEnds,
           LoaderFails, LoaderPanics, callVars
  <1>2. \A d \in Calls, k \in Keys : tvals'[d][k] \in {tvals[d][k], store[k], NoVal}
    <2>1. CASE DelayOver(c) \/ ApplyValues(c) \/ LoaderStreamEnds(c) \/ LoaderFails(c) \/ LoaderPanics(c)
      <3>1. UNCHANGED tvals \/ tvals' = [tvals EXCEPT ![c] = Nothing]
        BY <2>1 DEF DelayOver, ApplyValues, LoaderStreamEnds, LoaderFails, LoaderPanics, Finish
      <3> QED BY <3>1 DEF Nothing, TypeOK
    <2>2. CASE LoaderReturns(c)
      BY <2>2 DEF LoaderReturns, TypeOK
    <2>3. ASSUME NEW j \in Keys, LoaderReads(c, j) \/ ApplyItem(c, j)
          PROVE  \A d \in Calls, k \in Keys : tvals'[d][k] \in {tvals[d][k], store[k], NoVal}
      <3>1. \E v \in {store[j], NoVal} : tvals' = [tvals EXCEPT ![c][j] = v]
        BY <2>3 DEF LoaderReads, ApplyItem
      <3> QED BY <3>1 DEF TypeOK, ValMap
    <2> QED BY <2>1, <2>2, <2>3 DEF Task
  <1>3. \A d \in Calls : \A k \in want[d] :
          got'[d][k] = got[d][k] \/ \E t \in Calls : got'[d][k] = tvals[t][k]
    <2>1. CASE UNCHANGED got
      BY <2>1
    <2>2. ASSUME NEW vs \in ValMap, SendValues(c, vs), \A k \in Keys : vs[k] \in {tvals[c][k], NoVal}
          PROVE  \A d \in Calls : \A k \in want[d] :
                   got'[d][k] = got[d][k] \/ \E t \in Calls : got'[d][k] = tvals[t][k]
      <3> SUFFICES ASSUME NEW d \in Calls, NEW k \in want[d]
                   PROVE  got'[d][k] = got[d][k] \/ got'[d][k] = tvals[c][k]
        OBVIOUS
      <3>1. CASE d \in tsend[c]
        <4>1. got'[d][k] = IF vs[k] # NoVal THEN vs[k] ELSE got[d][k]
          BY <2>2, <3>1, SendValuesKeeps
        <4>2. k \in Keys
          BY DEF TypeOK
        <4> QED BY <2>2, <4>1, <4>2
      <3>2. CASE d \notin tsend[c]
        BY <2>2, <3>2, SendValuesKeeps
      <3> QED BY <3>1, <3>2
    <2>3. CASE ApplyValues(c)
      <3>1. tvals[c] \in ValMap /\ SendValues(c, tvals[c])
        BY <2>3 DEF ApplyValues, TypeOK
      <3> QED BY <2>2, <3>1
    <2>4. ASSUME NEW j \in Keys, ApplyItem(c, j)
          PROVE  \A d \in Calls : \A k \in want[d] :
                   got'[d][k] = got[d][k] \/ \E t \in Calls : got'[d][k] = tvals[t][k]
      <3> DEFINE item == [Nothing EXCEPT ![j] = tvals[c][j]]
      <3>1. SendValues(c, item)
        BY <2>4 DEF ApplyItem
      <3>2. item \in ValMap /\ \A k \in Keys : item[k] \in {tvals[c][k], NoVal}
        BY ValuesTyped DEF ValMap, Nothing, TypeOK
      <3> HIDE DEF item
      <3> QED BY <2>2, <3>1, <3>2
    <2>5. CASE DelayOver(c) \/ LoaderReturns(c) \/ LoaderStreamEnds(c) \/ LoaderFails(c)
               \/ LoaderPanics(c) \/ \E k \in Keys : LoaderReads(c, k)
      <3>1. UNCHANGED got
        BY <2>5 DEF DelayOver, LoaderReturns, LoaderStreamEnds, LoaderFails, LoaderPanics, LoaderReads
      <3> QED BY <2>1, <3>1
    <2> QED BY <2>3, <2>4, <2>5 DEF Task
  <1> QED BY <1>1, <1>2, <1>3, FutureKept

\* Every step keeps what is on its way out of the future.
LEMMA NextNotFuture == TypeOK /\ TypeOK' /\ IInv /\ NotFromTheFuture /\ [Next]_vars => NotFromTheFuture'
  <1> SUFFICES ASSUME TypeOK, TypeOK', IInv, NotFromTheFuture, [Next]_vars
               PROVE  NotFromTheFuture'
    OBVIOUS
  <1>1. CASE UNCHANGED <<store, tvals, want, got>>
    BY <1>1 DEF NotFromTheFuture
  <1>2. ASSUME NEW c \in Calls, Call(c) PROVE NotFromTheFuture'
    <2>1. ASSUME NEW ks \in SUBSET Keys, LoadMany(c, ks) \/ LoadManyStream(c, ks)
          PROVE  NotFromTheFuture'
      BY <2>1, LoadNotFuture DEF LoadMany, LoadManyStream, Modes
    <2>2. CASE Spawn(c) \/ Return(c) \/ Cancel(c)
      BY <1>1, <2>2 DEF Spawn, Return, Cancel, taskVars
    <2>3. CASE SpawnRefused(c)
      <3>1. UNCHANGED <<store, want, got>> /\ tvals' = [tvals EXCEPT ![c] = Nothing]
        BY <2>3 DEF SpawnRefused, Finish
      <3>2. \A d \in Calls, k \in Keys : tvals'[d][k] \in {tvals[d][k], NoVal}
        BY <3>1 DEF Nothing, TypeOK
      <3> QED BY <3>1, <3>2, FutureKept
    <2> QED BY <1>2, <2>1, <2>2, <2>3 DEF Call
  <1>3. CASE Control
    BY <1>1, <1>3 DEF Control, FeedMany, ClearOne, Clear, EnableAllCache, EnableCache, callVars, taskVars
  <1>4. ASSUME NEW j \in Keys, Write(j) PROVE NotFromTheFuture'
    <2> SUFFICES ASSUME NEW c \in Calls, NEW k \in Keys
                 PROVE  tvals'[c][k] <= store'[k] /\ (k \in want'[c] => got'[c][k] <= store'[k])
      BY DEF NotFromTheFuture
    <2>1. UNCHANGED <<tvals, want, got>> /\ store'[k] = IF k = j THEN store[k] + 1 ELSE store[k]
      BY <1>4 DEF Write, callVars, taskVars, TypeOK, ValMap
    <2> QED BY <2>1, VersionsAreNat DEF NotFromTheFuture
  <1>5. CASE UNCHANGED vars
    BY <1>1, <1>5 DEF vars, callVars, taskVars
  <1> QED BY <1>2, <1>3, <1>4, <1>5, TaskNotFuture DEF Next

-----------------------------------------------------------------------------
(***************************************************************************)
(* What each kind of step is for the callers                               *)
(***************************************************************************)

\* A step that changes no channel and no answer that was given is invisible.
LEMMA Invisible ==
  ASSUME UNCHANGED <<store, want, floor, chan>>,
         \A c \in Calls : pc'[c] = "idle" <=> pc[c] = "idle",
         \A c \in Calls : chan[c] = "ok" => got'[c] = got[c]
  PROVE  UNCHANGED Service!vars
  <1>1. \A c \in Calls : Outcome(c)' = Outcome(c)
    BY DEF Outcome
  <1>2. \A c \in Calls : Received(c)' = Received(c)
    BY DEF Received
  <1> QED
    BY <1>1, <1>2 DEF Service!vars, Outcomes, Replies

\* An unanswered call that has been made is open, and has received nothing final.
LEMMA UnansweredIsOpen ==
  ASSUME IInv, NEW c \in Calls, Unanswered(c)
  PROVE  pc[c] # "idle" /\ Outcome(c) = "open" /\ Received(c) = Nothing
  <1>1. pc[c] # "idle" /\ want[c] # {} /\ chan[c] = "open"
    BY DEF IInv, CallsInOrder, Unanswered
  <1> QED BY <1>1 DEF Outcome, Received, Nothing

\* The senders of a batch are unanswered calls.
LEMMA SendersUnanswered ==
  ASSUME IInv, TypeOK, NEW c \in Calls
  PROVE  \A s \in tsend[c] : s \in Calls /\ Unanswered(s)
  BY DEF IInv, SendersPlaced, Waits, TypeOK

\* The senders S are answered without values: they all fail, or are all lost.
LEMMA Settled ==
  ASSUME IInv, NEW S \in SUBSET Calls, \A s \in S : Unanswered(s),
         NEW a \in {"err", "closed"}, Answer(S, a),
         UNCHANGED <<store, want, floor, got>>,
         \A c \in Calls : pc'[c] = "idle" <=> pc[c] = "idle"
  PROVE  Service!Fail(S) \/ Service!Lose(S)
  <1> DEFINE o == IF a = "err" THEN "failed" ELSE "lost"
  <1>1. \A s \in S : Outcomes[s] = "open"
    BY UnansweredIsOpen DEF Outcomes
  <1>2. ASSUME NEW c \in S PROVE Outcome(c)' = o /\ Received(c)' = Received(c)
    <2>1. pc'[c] # "idle" /\ want'[c] # {} /\ chan'[c] = a /\ Received(c) = Nothing
      BY UnansweredIsOpen DEF Unanswered, Answer
    <2> QED BY <2>1 DEF Outcome, Received, Nothing
  <1>3. ASSUME NEW c \in Calls \ S PROVE Outcome(c)' = Outcome(c) /\ Received(c)' = Received(c)
    <2>1. chan'[c] = chan[c]
      BY DEF Answer
    <2> QED BY <2>1 DEF Outcome, Received
  <1>4. UNCHANGED Replies
    BY <1>2, <1>3 DEF Replies
  <1>5. Outcomes' = [c \in Calls |-> IF c \in S THEN o ELSE Outcomes[c]]
    BY <1>2, <1>3 DEF Outcomes
  <1> QED
    BY <1>1, <1>4, <1>5 DEF Service!Fail, Service!Lose, Service!Settle

\* The senders S are answered with values read between their calls and now.
LEMMA Replied ==
  ASSUME IInv, TypeOK, NEW S \in SUBSET Calls, \A s \in S : Unanswered(s), Answer(S, "ok"),
         UNCHANGED <<store, want, floor, pc>>,
         \A s \in S : \A k \in want[s] : floor[s][k] <= got'[s][k] /\ got'[s][k] <= store[k],
         \A c \in Calls \ S : got'[c] = got[c]
  PROVE  Service!Reply(S)
  <1>1. \A s \in S : Outcomes[s] = "open"
    BY UnansweredIsOpen DEF Outcomes
  <1>2. ASSUME NEW c \in S PROVE Outcome(c)' = "replied" /\ \A k \in want[c] : Received(c)'[k] = got'[c][k]
    <2>1. pc'[c] # "idle" /\ chan'[c] = "ok"
      BY UnansweredIsOpen DEF Answer
    <2>2. want[c] \subseteq Keys
      BY DEF TypeOK
    <2> QED BY <2>1, <2>2 DEF Outcome, Received
  <1>3. ASSUME NEW c \in Calls \ S PROVE Outcome(c)' = Outcome(c) /\ Received(c)' = Received(c)
    <2>1. chan'[c] = chan[c] /\ got'[c] = got[c]
      BY DEF Answer
    <2> QED BY <2>1 DEF Outcome, Received
  <1>4. Outcomes' = [c \in Calls |-> IF c \in S THEN "replied" ELSE Outcomes[c]]
    BY <1>2, <1>3 DEF Outcomes
  <1>5. Service!Settle(S, "replied")
    BY <1>1, <1>4 DEF Service!Settle
  <1>6. \A c \in S : \A k \in want[c] : floor[c][k] <= Replies'[c][k] /\ Replies'[c][k] <= store[k]
    BY <1>2 DEF Replies
  <1>7. \A c \in Calls \ S : Replies'[c] = Replies[c]
    BY <1>3 DEF Replies
  <1> QED BY <1>5, <1>6, <1>7 DEF Service!Reply

\* The locked section of a call submits the keys the cache did not answer.
LEMMA LoadSubmits ==
  ASSUME IInv, TypeOK, NEW c \in Calls, NEW m \in Modes, NEW ks \in SUBSET Keys, Load(c, m, ks)
  PROVE  Service!Submit(c, ks \ Hits(ks))
  <1> DEFINE miss == ks \ Hits(ks)
  <1>1. /\ pc[c] = "idle" /\ want[c] = {} /\ chan[c] = "open"
        /\ want' = [want EXCEPT ![c] = miss]
        /\ floor' = [floor EXCEPT ![c] = [k \in Keys |-> IF k \in miss THEN store[k] ELSE NoVal]]
        /\ UNCHANGED <<store, chan>>
    BY DEF Load, IInv, CallsInOrder
  <1>2. /\ \A d \in Calls : d # c => pc'[d] = pc[d] /\ got'[d] = got[d]
        /\ pc'[c] # "idle"
    <2>1. CASE miss = {}
      BY <2>1 DEF Load, TypeOK
    <2>2. CASE miss # {}
      BY <2>2 DEF Load, JoinBatch, TypeOK
    <2> QED BY <2>1, <2>2
  <1>3. ASSUME NEW d \in Calls, d # c PROVE Outcome(d)' = Outcome(d) /\ Received(d)' = Received(d)
    <2>1. want'[d] = want[d] /\ chan'[d] = chan[d] /\ pc'[d] = pc[d] /\ got'[d] = got[d]
      BY <1>1, <1>2, <1>3 DEF TypeOK
    <2> QED BY <2>1 DEF Outcome, Received
  <1>4. want'[c] = miss /\ chan'[c] = "open"
    BY <1>1 DEF TypeOK
  <1>5. Outcome(c) = "idle" /\ Outcome(c)' = IF miss = {} THEN "replied" ELSE "open"
    <2>1. Outcome(c) = "idle"
      BY <1>1 DEF Outcome
    <2>2. Outcome(c)' = IF want'[c] = {} THEN "replied" ELSE "open"
      BY <1>2, <1>4 DEF Outcome
    <2> QED BY <1>4, <2>1, <2>2
  <1>6. Received(c)' = Received(c)
    BY <1>1 DEF Received
  <1>7. Outcomes' = [Outcomes EXCEPT ![c] = IF miss = {} THEN "replied" ELSE "open"]
    BY <1>3, <1>5 DEF Outcomes
  <1>8. UNCHANGED Replies
    BY <1>3, <1>6 DEF Replies
  <1>9. Outcomes[c] = "idle"
    BY <1>5 DEF Outcomes
  <1> QED
    BY <1>1, <1>7, <1>8, <1>9 DEF Service!Submit, NoVal

\* The steps of a call.
LEMMA CallRefines ==
  ASSUME IInv, TypeOK, NEW c \in Calls, Call(c)
  PROVE  [Service!Next]_Service!vars
  <1>1. ASSUME NEW ks \in SUBSET Keys, LoadMany(c, ks) \/ LoadManyStream(c, ks)
        PROVE  Service!Next
    <2>1. Service!Submit(c, ks \ Hits(ks)) /\ ks \ Hits(ks) \in SUBSET Keys
      BY <1>1, LoadSubmits DEF LoadMany, LoadManyStream, Modes
    <2> QED BY <2>1 DEF Service!Next
  <1>2. CASE Spawn(c) \/ Return(c) \/ Cancel(c)
    <2>1. UNCHANGED <<store, want, floor, chan, got>>
      BY <1>2 DEF Spawn, Return, Cancel
    <2>2. \A d \in Calls : pc'[d] = "idle" <=> pc[d] = "idle"
      <3>1. pc[c] # "idle" /\ \A d \in Calls : d # c => pc'[d] = pc[d]
        BY <1>2 DEF Spawn, Return, Cancel, TypeOK
      <3>2. pc'[c] # "idle"
        BY <1>2 DEF Spawn, Return, Cancel, TypeOK, ChanStates
      <3> QED BY <3>1, <3>2
    <2> QED BY <2>1, <2>2, Invisible
  <1>3. CASE SpawnRefused(c)
    <2>1. Answer(tsend[c], "closed")
      BY <1>3, SendersUnanswered DEF SpawnRefused, DropSenders, Answer, Unanswered
    <2>2. \A d \in Calls : pc'[d] = "idle" <=> pc[d] = "idle"
      BY <1>3 DEF SpawnRefused, TypeOK
    <2>3. UNCHANGED <<store, want, floor, got>> /\ tsend[c] \in SUBSET Calls
      BY <1>3 DEF SpawnRefused, TypeOK
    <2> QED BY <2>1, <2>2, <2>3, SendersUnanswered, Settled DEF Service!Next
  <1> QED BY <1>1, <1>2, <1>3 DEF Call

\* The end of a batch: do_load has values for every sender, a stream has sent them all.
LEMMA BatchReplies ==
  ASSUME IInv, TypeOK, TypeOK', IInv', NotFromTheFuture, NotFromTheFuture', NEW c \in Calls,
         ApplyValues(c) \/ LoaderStreamEnds(c)
  PROVE  Service!Reply(tsend[c])
  <1>1. Answer(tsend[c], "ok") /\ UNCHANGED <<store, want, floor, pc>> /\ tsend[c] \in SUBSET Calls
    BY DEF ApplyValues, LoaderStreamEnds, callVars, TypeOK
  <1>2. \A d \in Calls \ tsend[c] : got'[d] = got[d]
    <2>1. CASE ApplyValues(c)
      BY <2>1 DEF ApplyValues, SendValues
    <2>2. CASE LoaderStreamEnds(c)
      BY <2>2 DEF LoaderStreamEnds
    <2> QED BY <2>1, <2>2
  <1>3. ASSUME NEW s \in tsend[c], NEW k \in want[s]
        PROVE  floor[s][k] <= got'[s][k] /\ got'[s][k] <= store[k]
    <2>1. s \in Calls /\ k \in Keys /\ chan'[s] = "ok"
      BY <1>1 DEF Answer, TypeOK
    <2>2. got'[s][k] >= floor'[s][k]
      BY <1>1, <2>1 DEF IInv, FreshAnswer
    <2>3. got'[s][k] <= store'[k]
      BY <1>1, <2>1 DEF NotFromTheFuture
    <2>4. floor[s][k] \in Nat /\ got'[s][k] \in Nat
      <3>1. \A f \in ValMap : f[k] \in Nat
        BY <2>1, ValuesTyped DEF ValMap
      <3>2. floor[s] \in ValMap /\ got'[s] \in ValMap
        BY <2>1 DEF TypeOK
      <3> QED BY <3>1, <3>2
    <2> QED BY <1>1, <2>2, <2>3, <2>4
  <1> QED BY <1>1, <1>2, <1>3, SendersUnanswered, Replied

\* The steps of a task.
LEMMA TaskRefines ==
  ASSUME IInv, TypeOK, TypeOK', IInv', NotFromTheFuture, NotFromTheFuture', NEW c \in Calls, Task(c)
  PROVE  [Service!Next]_Service!vars
  <1>1. UNCHANGED <<store, want, floor, pc>>
    BY DEF Task, DelayOver, LoaderReturns, LoaderReads, ApplyValues, ApplyItem, LoaderStreamEnds,
           LoaderFails, LoaderPanics, callVars
  <1>2. CASE DelayOver(c)
    <2>1. chan' = chan /\ got' = got
      <3>1. CASE keys[mode[c]] # {}
        BY <1>2, <3>1 DEF DelayOver
      <3>2. CASE keys[mode[c]] = {}
        <4>1. pending[mode[c]] = {}
          BY <3>2 DEF IInv, SendersPlaced, Waits, Unanswered, TypeOK
        <4> QED BY <1>2, <3>2, <4>1 DEF DelayOver, DropSenders, TypeOK
      <3> QED BY <3>1, <3>2
    <2> QED BY <1>1, <2>1, Invisible
  <1>3. CASE LoaderReturns(c) \/ \E k \in Keys : LoaderReads(c, k)
    BY <1>1, <1>3, Invisible DEF LoaderReturns, LoaderReads
  <1>4. ASSUME NEW k \in Keys, ApplyItem(c, k) PROVE UNCHANGED Service!vars
    <2>1. chan' = chan /\ \A d \in Calls \ tsend[c] : got'[d] = got[d]
      BY <1>4 DEF ApplyItem, SendValues
    <2>2. \A d \in tsend[c] : chan[d] # "ok"
      BY SendersUnanswered DEF Unanswered
    <2> QED BY <1>1, <2>1, <2>2, Invisible
  <1>5. CASE ApplyValues(c) \/ LoaderStreamEnds(c)
    <2>1. Service!Reply(tsend[c]) /\ tsend[c] \in SUBSET Calls
      BY <1>5, BatchReplies DEF TypeOK
    <2> QED BY <2>1 DEF Service!Next
  <1>6. CASE LoaderFails(c) \/ LoaderPanics(c)
    <2>1. got' = got /\ tsend[c] \in SUBSET Calls
      BY <1>6 DEF LoaderFails, LoaderPanics, TypeOK
    <2>2. Answer(tsend[c], "err") \/ Answer(tsend[c], "closed")
      BY <1>6, SendersUnanswered DEF LoaderFails, LoaderPanics, DropSenders, Answer, Unanswered
    <2> QED BY <1>1, <2>1, <2>2, SendersUnanswered, Settled DEF Service!Next
  <1> QED BY <1>2, <1>3, <1>4, <1>5, <1>6 DEF Task

(***************************************************************************)
(* Batched, cached and concurrent, load_many and load_many_stream are an   *)
(* execution of LoadService: each call is answered once, with values read  *)
(* between the call and its answer, or fails, or is lost with its task.    *)
(***************************************************************************)
THEOREM Refinement == Spec => ImplementsService
  <1>1. Init => Service!Init
    <2> SUFFICES ASSUME Init PROVE Service!Init
      OBVIOUS
    <2>1. \A c \in Calls : Outcome(c) = "idle" /\ Received(c) = Nothing
      BY DEF Init, Outcome, Received, Nothing
    <2> QED
      BY <2>1 DEF Init, Service!Init, Service!Zero, Outcomes, Replies, Nothing, NoVal
  <1>2. Init => NotFromTheFuture
    <2> SUFFICES ASSUME Init PROVE NotFromTheFuture
      OBVIOUS
    <2>1. TypeOK
      BY InitTyped
    <2> QED BY <2>1, VersionsAreNat DEF Init, NotFromTheFuture, Nothing, NoVal
  <1>3. /\ TypeOK /\ IInv /\ NotFromTheFuture
        /\ TypeOK' /\ IInv' /\ NotFromTheFuture'
        /\ [Next]_vars
        => [Service!Next]_Service!vars
    <2> SUFFICES ASSUME TypeOK, IInv, NotFromTheFuture, TypeOK', IInv', NotFromTheFuture', [Next]_vars
                 PROVE  [Service!Next]_Service!vars
      OBVIOUS
    <2>1. CASE UNCHANGED vars
      BY <2>1, Invisible DEF vars, callVars
    <2>2. CASE Control
      <3>1. UNCHANGED <<store, want, floor, chan, pc, got>>
        BY <2>2 DEF Control, FeedMany, ClearOne, Clear, EnableAllCache, EnableCache, callVars
      <3> QED BY <3>1, Invisible
    <2>3. ASSUME NEW k \in Keys, Write(k) PROVE Service!Next
      <3>1. store' = [store EXCEPT ![k] = @ + 1] /\ UNCHANGED <<want, floor, chan, pc, got>>
        BY <2>3 DEF Write, callVars
      <3>2. UNCHANGED <<Outcomes, Replies>>
        BY <3>1 DEF Outcomes, Replies, Outcome, Received
      <3>3. Service!Write(k)
        BY <3>1, <3>2 DEF Service!Write
      <3> QED BY <3>3 DEF Service!Next
    <2> QED
      BY <2>1, <2>2, <2>3, CallRefines, TaskRefines DEF Next
  <1> QED
    BY <1>1, <1>2, <1>3, Invariance, NextNotFuture, PTL DEF Spec, ImplementsService, Service!Spec

==============================================================================
