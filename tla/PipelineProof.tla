----------------------------- MODULE PipelineProof -----------------------------
(***************************************************************************)
(* RequestPipeline and SubscriptionStream, proved for any number of        *)
(* concurrent requests, every storage, chain of extensions and document.   *)
(***************************************************************************)
EXTENDS SubscriptionStream, FiniteSetTheorems, SequenceTheorems, TLAPS

Preparing(r) == pc[r] \in {"prepare", "get", "set"}

\* Before the extension at `at` is asked: nobody has named a document and the
\* request is as it came, or the last extension that has an id has attached
\* the document of that id.
NamedSoFar(r) ==
  \/ /\ \A n \in 1 .. at[r] - 1 : req[r].ids[Chain[n]] = None
     /\ parsed[r] = req[r].parsed /\ query[r] = req[r].query
  \/ /\ parsed[r] # None
     /\ \E n \in 1 .. at[r] - 1 :
          /\ req[r].ids[Chain[n]] = Sha256(parsed[r])
          /\ \A m \in n + 1 .. at[r] - 1 : req[r].ids[Chain[m]] = None

\* What a request asks of the storage, or gives to it.
AsksByHash(r) ==
  /\ pc[r] \in {"get", "set"} => at[r] \in DOMAIN Chain /\ ClientId(r) \in Hashes
  /\ pc[r] = "set" => /\ query[r] # Empty
                      /\ ClientId(r) = Sha256(query[r])
                      /\ Doc[query[r]].parses

Prepared(r) ==
  /\ Preparing(r) => NamedSoFar(r) /\ doc[r] = None /\ root[r] = None
                     /\ resp[r] = None /\ analyzer[r] = None
  /\ AsksByHash(r)
  /\ parsed[r] # None => Doc[parsed[r]].parses

\* A document is there once it passed the limits, and an operation is executed
\* once it passed the rules.
Passed(r) ==
  /\ doc[r] # None => /\ Asked(r, doc[r])
                      /\ Doc[doc[r]].parses /\ Limited(r, doc[r])
  /\ pc[r] \in {"validate", "select", "transport", "execute", "streaming"} => doc[r] # None
  /\ pc[r] \in {"select", "transport", "execute", "streaming"} => Doc[doc[r]].valid
  /\ root[r] # None => doc[r] # None /\ Doc[doc[r]].valid

\* The analyzer of a request holds the figures of its document until they are
\* in its response.
Analyzed(r) ==
  /\ analyzer[r] \in {None, doc[r]}
  /\ pc[r] \in {"select", "transport", "execute"} => analyzer[r] = doc[r]
  /\ pc[r] \in {"responding", "answered", "collected"} => resp[r] \in Answers
  /\ pc[r] = "responding" /\ resp[r].data # None => analyzer[r] = doc[r]
  /\ pc[r] \in {"answered", "collected"} /\ r \in Batch =>
       /\ resp[r].analyzer \in {None, doc[r]}
       /\ resp[r].data # None => resp[r].analyzer = doc[r]

\* What one request brings to every step of any other.
RequestInv(r) == Prepared(r) /\ Passed(r) /\ Analyzed(r)

\* A storage holds every document under its own hash, and parsed ones only.
StoredByHash ==
  \A b \in DOMAIN store : \A h \in DOMAIN store[b] :
    h = Sha256(store[b][h]) /\ Doc[store[b][h]].parses

\* The responses handed out are those of the first requests of the batch.
Collected == {r \in Batch : pc[r] = "collected"}

CollectedInOrder ==
  /\ \A r \in Collected, s \in Batch : s < r => s \in Collected
  /\ Len(out) = Cardinality(Collected)
  /\ \A i \in DOMAIN out : out[i].for \in Collected

RequestInvs == \A r \in Reqs : RequestInv(r)

\* A stream that resolves an event has received one.
EventInHand == \A r \in Reqs, f \in Fields : fpc[r][f] = "resolving" => Event(r, f) # 0

IInv ==
  /\ RequestInvs
  /\ StoredByHash
  /\ CollectedInOrder
  /\ BatchInOrder
  /\ EventInHand

-----------------------------------------------------------------------------
(* Types *)

\* Every variable has its type initially.
LEMMA InitTypes == ASSUME PipelineAssumption, StreamAssumption PROVE ExecutionInit => TypeOK
<1> SUFFICES ASSUME ExecutionInit PROVE TypeOK
  OBVIOUS
<1> USE PipelineAssumption, StreamAssumption
<1> USE DEF PipelineAssumption, StreamAssumption, ExecutionInit, Init, StreamInit, FieldRecord, Reqs, InputRecord
<1>1. req \in Inputs /\ req \in [Reqs -> InputRecord]
  OBVIOUS
<1>2. query \in [Reqs -> Texts \cup {Empty}] /\ parsed \in [Reqs -> Texts \cup {None}]
  BY <1>1
<1>3. /\ << >> \in Caches
      /\ IsFiniteSet(DOMAIN << >>) /\ Cardinality(DOMAIN << >>) <= StoreCap
  <2>1. DOMAIN << >> = {} /\ << >> \in [{} -> Texts]
    OBVIOUS
  <2>2. << >> \in Caches
    BY ONLY <2>1 DEF Caches
  <2>3. IsFiniteSet({}) /\ Cardinality({}) <= StoreCap
    BY FS_EmptySet
  <2> QED
    BY ONLY <2>1, <2>2, <2>3
<1>4. at \in [Reqs -> 1 .. Len(Chain) + 1]
  OBVIOUS
<1>5. /\ pc \in [Reqs -> Labels]
      /\ doc \in [Reqs -> Texts \cup {None}] /\ root \in [Reqs -> {None, "user", "empty"}]
      /\ analyzer \in [Reqs -> Texts \cup {None}]
      /\ resp \in [Reqs -> Answers \cup {None}]
  BY DEF Labels
<1>6. /\ errors \in [Reqs -> Seq(ErrorsSeen(0))] /\ out \in Seq([for : Reqs, resp : Answers])
  OBVIOUS
<1>7. /\ fpc \in [Reqs -> [Fields -> {"idle", "create", "open", "resolving", "done"}]]
      /\ raised \in [Reqs -> [Fields -> Seq(Nat)]]
      /\ delivered \in [Reqs -> Seq(EventAnswers)]
  OBVIOUS
<1>8. /\ store \in [{Backend[e] : e \in Exts} -> Caches]
      /\ \A b \in DOMAIN store :
           IsFiniteSet(DOMAIN store[b]) /\ Cardinality(DOMAIN store[b]) <= StoreCap
  BY <1>3
<1> QED
  BY ONLY <1>1, <1>2, <1>4, <1>5, <1>6, <1>7, <1>8 DEF TypeOK

\* A failed request has a response whose error was formatted once.
LEMMA FailTypes ==
  ASSUME TypeOK, NEW r \in Reqs, Fail(r)
  PROVE  pc' \in [Reqs -> Labels] /\ resp' \in [Reqs -> Answers \cup {None}]
<1>1. FormatErrors(<<Err(0, 1)>>) \in Seq(ErrorsSeen(1))
  BY DEF FormatErrors, Err, ErrorsSeen
<1>2. Response(None, FormatErrors(<<Err(0, 1)>>)) \in Answers
  BY <1>1 DEF Response, Answers
<1> QED
  BY <1>2 DEF Fail, Goto, TypeOK, Labels

\* The formatter counts once more on every error.
LEMMA FormatTypes ==
  ASSUME NEW es \in Seq(ErrorsSeen(0)) PROVE FormatErrors(es) \in Seq(ErrorsSeen(1))
<1>1. ASSUME NEW e \in ErrorsSeen(0) PROVE [e EXCEPT !.formatted = @ + 1] \in ErrorsSeen(1)
  <2>1. CASE e \in [by : {0, 1}, n : Nat, formatted : {0}]
    BY <2>1 DEF ErrorsSeen
  <2>2. CASE e \in [by : Fields, event : Nat, n : Nat, formatted : {0}]
    BY <2>2 DEF ErrorsSeen
  <2> QED
    BY <1>1, <2>1, <2>2 DEF ErrorsSeen
<1>2. \A k \in DOMAIN es : es[k] \in ErrorsSeen(0)
  OBVIOUS
<1>3. DOMAIN FormatErrors(es) = 1 .. Len(es)
  BY DEF FormatErrors
<1>4. \A k \in 1 .. Len(es) : FormatErrors(es)[k] \in ErrorsSeen(1)
  BY <1>1, <1>2 DEF FormatErrors
<1>5. Len(es) \in Nat
  OBVIOUS
<1> QED
  BY <1>3, <1>4, <1>5 DEF FormatErrors

(* TypeOK in four parts, which a step changes apart from each other.       *)
RequestTypes ==
  /\ req \in Inputs
  /\ pc \in [Reqs -> Labels]
  /\ at \in [Reqs -> 1 .. Len(Chain) + 1]
  /\ query \in [Reqs -> Texts \cup {Empty}]
  /\ parsed \in [Reqs -> Texts \cup {None}]
  /\ doc \in [Reqs -> Texts \cup {None}]
  /\ root \in [Reqs -> {None, "user", "empty"}]
  /\ analyzer \in [Reqs -> Texts \cup {None}]

StoreTypes ==
  /\ store \in [{Backend[e] : e \in Exts} -> Caches]
  /\ \A b \in DOMAIN store :
       IsFiniteSet(DOMAIN store[b]) /\ Cardinality(DOMAIN store[b]) <= StoreCap

AnswerTypes ==
  /\ errors \in [Reqs -> Seq(ErrorsSeen(0))]
  /\ resp \in [Reqs -> Answers \cup {None}]
  /\ out \in Seq([for : Reqs, resp : Answers])

StreamTypes ==
  /\ fpc \in [Reqs -> [Fields -> {"idle", "create", "open", "resolving", "done"}]]
  /\ raised \in [Reqs -> [Fields -> Seq(Nat)]]
  /\ delivered \in [Reqs -> Seq(EventAnswers)]

\* TypeOK in the parts that a step disturbs together.
LEMMA TypeParts == TypeOK <=> RequestTypes /\ StoreTypes /\ AnswerTypes /\ StreamTypes
  BY DEF TypeOK, RequestTypes, StoreTypes, AnswerTypes, StreamTypes

\* Types after a step that only fails the request.
LEMMA FailKeepsTypes ==
  ASSUME PipelineAssumption, TypeOK, NEW r \in Reqs, Fail(r),
         UNCHANGED <<req, at, query, parsed, store, doc, root, errors, analyzer, out, streamVars>>
  PROVE  TypeOK'
<1>1. RequestTypes'
  BY FailTypes, TypeParts DEF RequestTypes
<1>2. StoreTypes'
  BY TypeParts DEF StoreTypes
<1>3. AnswerTypes'
  BY FailTypes, TypeParts DEF AnswerTypes
<1>4. StreamTypes'
  BY TypeParts DEF StreamTypes, streamVars
<1> QED
  BY <1>1, <1>2, <1>3, <1>4 DEF TypeOK, RequestTypes, StoreTypes, AnswerTypes, StreamTypes

(* A step on the way to the execution that writes no response.             *)
LEMMA PrepareKeepsTypes ==
  ASSUME TypeOK, RequestTypes', StoreTypes', UNCHANGED <<errors, resp, out, streamVars>>
  PROVE  TypeOK'
<1>1. AnswerTypes' /\ StreamTypes'
  BY TypeParts DEF AnswerTypes, StreamTypes, streamVars
<1> QED
  BY <1>1 DEF TypeOK, RequestTypes, StoreTypes, AnswerTypes, StreamTypes

\* Types after a persisted-query extension looked at the request.
LEMMA ExtensionTypes ==
  ASSUME PipelineAssumption, TypeOK, NEW r \in Reqs, at[r] \in DOMAIN Chain,
         PassOn(r) \/ Refuse(r) \/ AskStorage(r),
         UNCHANGED <<req, query, parsed, store, doc, root, errors, analyzer, out, streamVars>>
  PROVE  TypeOK'
<1>1. CASE PassOn(r)
  <2>1. at' \in [Reqs -> 1 .. Len(Chain) + 1]
    BY <1>1, TypeParts DEF RequestTypes, PassOn, PipelineAssumption
  <2>2. RequestTypes' /\ StoreTypes'
    BY <1>1, <2>1, TypeParts DEF RequestTypes, StoreTypes, PassOn
  <2> QED
    BY <1>1, <2>2, PrepareKeepsTypes DEF PassOn
<1>2. CASE Refuse(r)
  BY <1>2, FailKeepsTypes DEF Refuse
<1>3. CASE AskStorage(r)
  <2>1. RequestTypes' /\ StoreTypes'
    BY <1>3, TypeParts DEF RequestTypes, StoreTypes, AskStorage, Goto, Labels
  <2> QED
    BY <1>3, <2>1, PrepareKeepsTypes DEF AskStorage
<1> QED
  BY <1>1, <1>2, <1>3

(* What a storage may hold after it took one more document.                *)
LEMMA PutTypes ==
  ASSUME PipelineAssumption, NEW m \in Caches, IsFiniteSet(DOMAIN m),
         NEW h \in Hashes, NEW t \in Texts, NEW n \in Put(m, h, t)
  PROVE  /\ n \in Caches
         /\ \A k \in DOMAIN n : IF k = h THEN n[k] = t ELSE k \in DOMAIN m /\ n[k] = m[k]
         /\ IsFiniteSet(DOMAIN n) /\ Cardinality(DOMAIN n) <= StoreCap
<1>1. PICK kept \in SUBSET (DOMAIN m \ {h}) :
        /\ Cardinality(kept) < StoreCap
        /\ n = [k \in {h} \cup kept |-> IF k = h THEN t ELSE m[k]]
  BY DEF Put
<1>2. IsFiniteSet(kept) /\ h \notin kept
  BY <1>1, FS_Subset
<1>3. IsFiniteSet(kept \cup {h}) /\ Cardinality(kept \cup {h}) = Cardinality(kept) + 1
  BY <1>2, FS_AddElement
<1>4. Cardinality(kept) \in Nat
  BY <1>2, FS_CardinalityType
<1>5. DOMAIN n = kept \cup {h}
  BY <1>1
<1>6. IsFiniteSet(DOMAIN n) /\ Cardinality(DOMAIN n) <= StoreCap
  <2>1. Cardinality(kept) + 1 <= StoreCap
    BY <1>1, <1>4 DEF PipelineAssumption
  <2>2. IsFiniteSet(kept \cup {h}) /\ Cardinality(kept \cup {h}) <= StoreCap
    BY <1>3, <2>1
  <2> QED
    BY ONLY <1>5, <2>2, Zenon
<1>7. PICK S \in SUBSET Hashes : m \in [S -> Texts]
  BY DEF Caches
<1>8. n \in [{h} \cup kept -> Texts] /\ {h} \cup kept \in SUBSET Hashes
  BY <1>1, <1>7
<1>9. n \in Caches
  BY <1>8 DEF Caches
<1>10. \A k \in DOMAIN n : IF k = h THEN n[k] = t ELSE k \in DOMAIN m /\ n[k] = m[k]
  BY <1>1
<1> QED
  BY <1>6, <1>9, <1>10

\* Types after a storage answered.
LEMMA StorageTypes ==
  ASSUME PipelineAssumption, TypeOK, NEW r \in Reqs, at[r] \in DOMAIN Chain,
         ClientId(r) \in Hashes, query[r] \in Texts,
         NEW m \in Put(store[AskedOf(r)], ClientId(r), query[r]),
         store' = [store EXCEPT ![AskedOf(r)] = m]
  PROVE  StoreTypes'
<1>1. AskedOf(r) \in DOMAIN store
  BY TypeParts DEF StoreTypes, AskedOf, Ext, PipelineAssumption
<1>2. store[AskedOf(r)] \in Caches /\ IsFiniteSet(DOMAIN store[AskedOf(r)])
  BY <1>1, TypeParts DEF StoreTypes
<1>3. m \in Caches /\ IsFiniteSet(DOMAIN m) /\ Cardinality(DOMAIN m) <= StoreCap
  BY <1>2, PutTypes
<1>4. \A b \in DOMAIN store : store'[b] = IF b = AskedOf(r) THEN m ELSE store[b]
  BY <1>1, TypeParts DEF StoreTypes
<1> QED
  BY <1>1, <1>3, <1>4, TypeParts DEF StoreTypes

(* The response of an executed operation.                                  *)
LEMMA ExecuteAnswers ==
  ASSUME TypeOK, NEW r \in Reqs, ExecuteOnce(r)
  PROVE  \E a \in Answers : resp' = [resp EXCEPT ![r] = a]
<1>1. PICK first \in {<< >>, <<Err(0, 1)>>} :
        resp' = [resp EXCEPT ![r] = Response(IF first = << >> THEN doc[r] ELSE None,
                                             FormatErrors(first \o errors[r]))]
  BY DEF ExecuteOnce
<1>2. Err(0, 1) \in ErrorsSeen(0)
  BY DEF Err, ErrorsSeen
<1>3. << >> \in Seq(ErrorsSeen(0)) /\ <<Err(0, 1)>> \in Seq(ErrorsSeen(0))
  BY ONLY <1>2
<1>4. first \in Seq(ErrorsSeen(0)) /\ errors[r] \in Seq(ErrorsSeen(0))
  BY <1>1, <1>3, TypeParts DEF AnswerTypes
<1>5. first \o errors[r] \in Seq(ErrorsSeen(0))
  BY <1>4
<1>6. FormatErrors(first \o errors[r]) \in Seq(ErrorsSeen(1))
  BY <1>5, FormatTypes
<1>7. (IF first = << >> THEN doc[r] ELSE None) \in Texts \cup {None}
  BY TypeParts DEF RequestTypes
<1>8. Response(IF first = << >> THEN doc[r] ELSE None, FormatErrors(first \o errors[r])) \in Answers
  BY <1>6, <1>7 DEF Response, Answers
<1> QED
  BY <1>1, <1>8

\* Types after a step of one request.
LEMMA RequestStepTypes ==
  ASSUME PipelineAssumption, TypeOK, RequestInvs, NEW r \in Reqs, RequestStep(r),
         UNCHANGED streamVars
  PROVE  TypeOK'
<1> USE DEF PipelineAssumption, Goto
<1>1. CASE ApolloPrepare(r) \/ RelayPrepare(r)
  BY <1>1, ExtensionTypes DEF ApolloPrepare, RelayPrepare, streamVars
<1>2. CASE StorageGet(r)
  <2>1. CASE ClientId(r) \in DOMAIN store[AskedOf(r)]
    <3>1. at[r] \in DOMAIN Chain
      BY <1>2 DEF RequestInvs, RequestInv, Prepared, AsksByHash, StorageGet
    <3>2. AskedOf(r) \in DOMAIN store
      BY <3>1, TypeParts DEF StoreTypes, AskedOf, Ext
    <3>3. store[AskedOf(r)][ClientId(r)] \in Texts
      BY <2>1, <3>2, TypeParts DEF StoreTypes, Caches
    <3>5. at' = [at EXCEPT ![r] = @ + 1] /\ Len(Chain) \in Nat /\ DOMAIN Chain = 1 .. Len(Chain)
      BY <1>2, <2>1 DEF StorageGet
    <3>6. at' \in [Reqs -> 1 .. Len(Chain) + 1]
      BY <3>1, <3>5, TypeParts DEF RequestTypes
    <3>4. RequestTypes'
      BY <1>2, <2>1, <3>6, <3>3, TypeParts DEF StorageGet, RequestTypes, Labels
    <3>7. StoreTypes'
      BY <1>2, TypeParts DEF StoreTypes, StorageGet
    <3> QED
      BY <1>2, <2>1, <3>4, <3>7, PrepareKeepsTypes DEF StorageGet
  <2>2. CASE ClientId(r) \notin DOMAIN store[AskedOf(r)]
    BY <1>2, <2>2, FailKeepsTypes DEF StorageGet
  <2> QED
    BY <2>1, <2>2
<1>3. CASE StorageSet(r)
  <2>1. at[r] \in DOMAIN Chain /\ ClientId(r) \in Hashes /\ query[r] \in Texts
    BY <1>3, TypeParts DEF RequestInvs, RequestInv, Prepared, AsksByHash, StorageSet, RequestTypes
  <2>2. RequestTypes'
    BY <1>3, <2>1, TypeParts DEF StorageSet, RequestTypes, Labels
  <2>3. StoreTypes'
    BY <1>3, <2>1, StorageTypes DEF StorageSet
  <2> QED
    BY <1>3, <2>2, <2>3, PrepareKeepsTypes DEF StorageSet
<1>4. CASE NoSubscriptionRoot(r)
  BY <1>4, FailKeepsTypes DEF NoSubscriptionRoot
<1>5. CASE ParseQuery(r)
  <2>1. CASE Fail(r) /\ UNCHANGED doc
    BY <1>5, <2>1, FailKeepsTypes DEF ParseQuery
  <2>2. CASE /\ DocumentOf(r) # Empty /\ UNCHANGED resp /\ Goto(r, "validate")
             /\ doc' = [doc EXCEPT ![r] = DocumentOf(r)]
    <3>1. DocumentOf(r) \in Texts
      BY <2>2, TypeParts DEF RequestTypes, DocumentOf
    <3>2. RequestTypes' /\ StoreTypes'
      BY <1>5, <2>2, <3>1, TypeParts DEF ParseQuery, RequestTypes, StoreTypes, Labels
    <3> QED
      BY <1>5, <2>2, <3>2, PrepareKeepsTypes DEF ParseQuery
  <2> QED
    BY <1>5, <2>1, <2>2 DEF ParseQuery
<1>6. CASE Validation(r)
  <2>1. CASE Fail(r) /\ UNCHANGED analyzer
    BY <1>6, <2>1, FailKeepsTypes DEF Validation
  <2>2. CASE /\ UNCHANGED resp /\ Goto(r, "select")
             /\ analyzer' = [analyzer EXCEPT ![Instance(r)] = doc[r]]
    <3>1. RequestTypes' /\ StoreTypes'
      BY <1>6, <2>2, TypeParts DEF Validation, RequestTypes, StoreTypes, Labels, Instance
    <3> QED
      BY <1>6, <2>2, <3>1, PrepareKeepsTypes DEF Validation
  <2> QED
    BY <1>6, <2>1, <2>2 DEF Validation
<1>7. CASE SelectOperation(r)
  <2>1. CASE Fail(r) /\ UNCHANGED root
    BY <1>7, <2>1, FailKeepsTypes DEF SelectOperation
  <2>2. CASE HasOperation(r)
    <3>1. RootOf(r) \in {"user", "empty"}
      BY DEF RootOf
    <3>2. PICK l \in {"streaming", "transport", "execute"} : Goto(r, l)
      BY <1>7, <2>2 DEF SelectOperation
    <3>3. UNCHANGED resp /\ root' = [root EXCEPT ![r] = RootOf(r)]
      BY <1>7, <2>2 DEF SelectOperation
    <3>4. RequestTypes' /\ StoreTypes'
      BY <1>7, <3>1, <3>2, <3>3, TypeParts DEF SelectOperation, RequestTypes, StoreTypes, Labels
    <3> QED
      BY <1>7, <3>3, <3>4, PrepareKeepsTypes DEF SelectOperation
  <2> QED
    BY <1>7, <2>1, <2>2 DEF SelectOperation
<1>8. CASE Unsupported(r)
  BY <1>8, FailKeepsTypes DEF Unsupported
<1>9. CASE ExecuteOnce(r)
  <2>1. AnswerTypes'
    <3>1. PICK a \in Answers : resp' = [resp EXCEPT ![r] = a]
      BY <1>9, ExecuteAnswers
    <3>2. /\ errors \in [Reqs -> Seq(ErrorsSeen(0))] /\ resp \in [Reqs -> Answers \cup {None}]
          /\ out \in Seq([for : Reqs, resp : Answers])
      BY TypeParts DEF AnswerTypes
    <3>3. errors' \in [Reqs -> Seq(ErrorsSeen(0))] /\ out' = out
      BY <1>9, <3>2 DEF ExecuteOnce
    <3>4. resp' \in [Reqs -> Answers \cup {None}]
      BY ONLY <3>1, <3>2
    <3> QED
      BY <3>2, <3>3, <3>4 DEF AnswerTypes
  <2>2. RequestTypes' /\ StoreTypes' /\ StreamTypes'
    BY <1>9, TypeParts DEF RequestTypes, StoreTypes, StreamTypes, ExecuteOnce, streamVars, Labels
  <2> QED
    BY <2>1, <2>2 DEF TypeOK, RequestTypes, StoreTypes, AnswerTypes, StreamTypes
<1>10. CASE Respond(r)
  <2>1. resp[r] \in Answers
    BY <1>10 DEF RequestInvs, RequestInv, Analyzed, Respond
  <2>2. analyzer[r] \in Texts \cup {None}
    BY TypeParts DEF RequestTypes
  <2>3. [resp[r] EXCEPT !.analyzer = analyzer[r]] \in Answers
    BY <2>1, <2>2 DEF Answers
  <2>7. \/ UNCHANGED resp
        \/ resp' = [resp EXCEPT ![r] = [resp[r] EXCEPT !.analyzer = analyzer[r]]]
    BY <1>10 DEF Respond, Instance
  <2>4. resp' \in [Reqs -> Answers \cup {None}]
    BY <2>3, <2>7, TypeParts DEF AnswerTypes
  <2>5. AnswerTypes'
    BY <1>10, <2>4, TypeParts DEF Respond, AnswerTypes
  <2>6. RequestTypes' /\ StoreTypes' /\ StreamTypes'
    BY <1>10, TypeParts DEF RequestTypes, StoreTypes, StreamTypes, Respond, streamVars, Labels, Instance
  <2> QED
    BY <2>5, <2>6 DEF TypeOK, RequestTypes, StoreTypes, AnswerTypes, StreamTypes
<1> QED
  BY <1>1, <1>2, <1>3, <1>4, <1>5, <1>6, <1>7, <1>8, <1>9, <1>10 DEF RequestStep

(* A step of a stream sends at most one response and may add or take errors. *)
LEMMA StreamKeepsTypes ==
  ASSUME TypeOK, UNCHANGED pc, PipelineUnchanged,
         errors' \in [Reqs -> Seq(ErrorsSeen(0))], StreamTypes'
  PROVE  TypeOK'
<1>1. RequestTypes' /\ StoreTypes' /\ AnswerTypes'
  BY TypeParts DEF RequestTypes, StoreTypes, AnswerTypes, PipelineUnchanged
<1> QED
  BY <1>1 DEF TypeOK, RequestTypes, StoreTypes, AnswerTypes, StreamTypes

\* Types after a response left.
LEMMA DeliverTypes ==
  ASSUME TypeOK, NEW r \in Reqs, NEW f \in Fields, NEW n \in Nat, NEW d \in BOOLEAN,
         NEW es \in Seq(ErrorsSeen(0)), Deliver(r, EventResponse(f, n, d, es))
  PROVE  delivered' \in [Reqs -> Seq(EventAnswers)]
<1>1. EventResponse(f, n, d, es) \in EventAnswers
  BY DEF EventResponse, EventAnswers
<1> QED
  BY <1>1, TypeParts DEF StreamTypes, Deliver

\* Errors of events are errors of a list.
LEMMA EventErrTypes ==
  ASSUME NEW f \in Fields, NEW n \in Nat, NEW k \in Nat
  PROVE  /\ EventErr(f, n, k) \in ErrorsSeen(0)
         /\ << >> \in Seq(ErrorsSeen(0)) /\ <<EventErr(f, n, k)>> \in Seq(ErrorsSeen(0))
  BY DEF EventErr, ErrorsSeen

\* Types after a step of the stream of a field.
LEMMA FieldStepTypes ==
  ASSUME TypeOK, EventInHand, NEW r \in Reqs, NEW f \in Fields, FieldStep(r, f)
  PROVE  TypeOK'
<1> DEFINE Stages == {"idle", "create", "open", "resolving", "done"}
<1>1. /\ errors \in [Reqs -> Seq(ErrorsSeen(0))] /\ delivered \in [Reqs -> Seq(EventAnswers)]
      /\ fpc \in [Reqs -> [Fields -> Stages]] /\ raised \in [Reqs -> [Fields -> Seq(Nat)]]
      /\ Event(r, f) \in Nat
  BY TypeParts DEF AnswerTypes, StreamTypes, Event
<1>2. ASSUME NEW l \in Stages PROVE SetField(fpc, r, f, l) \in [Reqs -> [Fields -> Stages]]
  BY <1>1 DEF SetField
<1>3. CASE CollectStream(r, f)
  <2>1. fpc' \in [Reqs -> [Fields -> Stages]]
    BY <1>2, <1>3 DEF CollectStream
  <2>2. delivered' \in [Reqs -> Seq(EventAnswers)]
    BY <1>1, <1>3, DeliverTypes, EventErrTypes DEF CollectStream
  <2> QED
    BY <1>1, <1>3, <2>1, <2>2, StreamKeepsTypes DEF CollectStream, StreamTypes
<1>4. CASE CreateFieldStream(r, f)
  <2>1. fpc' \in [Reqs -> [Fields -> Stages]]
    BY <1>2, <1>4 DEF CreateFieldStream
  <2>2. delivered' \in [Reqs -> Seq(EventAnswers)]
    BY <1>1, <1>4, DeliverTypes, EventErrTypes DEF CreateFieldStream
  <2> QED
    BY <1>1, <1>4, <2>1, <2>2, StreamKeepsTypes DEF CreateFieldStream, StreamTypes
<1>5. CASE EventArrives(r, f)
  <2>1. fpc' \in [Reqs -> [Fields -> Stages]]
    BY <1>2, <1>5 DEF EventArrives
  <2>2. raised' \in [Reqs -> [Fields -> Seq(Nat)]]
    BY <1>1, <1>5 DEF EventArrives
  <2> QED
    BY <1>1, <1>5, <2>1, <2>2, StreamKeepsTypes DEF EventArrives, StreamTypes
<1>6. CASE EventAddError(r, f)
  <2>1. Event(r, f) # 0 => raised[r][f][Event(r, f)] \in Nat
    BY <1>1 DEF Event
  <2>2. Event(r, f) # 0
    BY <1>6 DEF EventAddError, EventInHand
  <2>6. [raised[r][f] EXCEPT ![Event(r, f)] = @ + 1] \in Seq(Nat)
    BY <1>1, <2>1, <2>2 DEF Event
  <2>3. raised' \in [Reqs -> [Fields -> Seq(Nat)]]
    BY <1>1, <1>6, <2>6 DEF EventAddError
  <2>4. EventErr(f, Event(r, f), raised[r][f][Event(r, f)] + 1) \in ErrorsSeen(0)
    BY <1>1, <2>1, <2>2, EventErrTypes
  <2>5. errors' \in [Reqs -> Seq(ErrorsSeen(0))]
    BY <1>1, <1>6, <2>4 DEF EventAddError
  <2> QED
    BY <1>1, <1>6, <2>3, <2>5, StreamKeepsTypes DEF EventAddError, StreamTypes
<1>7. CASE EventResolved(r, f)
  <2>1. PICK first \in {<< >>, <<EventErr(f, Event(r, f), 0)>>} :
          /\ Deliver(r, EventResponse(f, Event(r, f), first = << >>, first \o TakenErrors(r)))
          /\ fpc' \in {SetField(fpc, r, f, "done"), SetField(fpc, r, f, "open")}
    BY <1>7 DEF EventResolved
  <2>2. first \in Seq(ErrorsSeen(0))
    BY <1>1, <2>1, EventErrTypes
  <2>3. TakenErrors(r) \in Seq(ErrorsSeen(0)) /\ LeftErrors(r) \in Seq(ErrorsSeen(0))
    BY <1>1, EventErrTypes DEF TakenErrors, LeftErrors
  <2>4. first \o TakenErrors(r) \in Seq(ErrorsSeen(0)) /\ (first = << >>) \in BOOLEAN
    BY <2>2, <2>3
  <2>5. delivered' \in [Reqs -> Seq(EventAnswers)]
    BY <1>1, <2>1, <2>4, DeliverTypes
  <2>6. fpc' \in [Reqs -> [Fields -> Stages]]
    BY <1>2, <2>1
  <2>7. errors' \in [Reqs -> Seq(ErrorsSeen(0))]
    BY <1>1, <1>7, <2>3 DEF EventResolved
  <2> QED
    BY <1>1, <1>7, <2>5, <2>6, <2>7, StreamKeepsTypes DEF EventResolved, StreamTypes
<1>8. CASE SourceEnds(r, f)
  <2>1. fpc' \in [Reqs -> [Fields -> Stages]]
    BY <1>2, <1>8 DEF SourceEnds
  <2>2. Event(r, f) + 1 \in Nat
    BY <1>1
  <2>3. delivered' \in [Reqs -> Seq(EventAnswers)]
    BY <1>1, <1>8, <2>2, DeliverTypes, EventErrTypes DEF SourceEnds
  <2> QED
    BY <1>1, <1>8, <2>1, <2>3, StreamKeepsTypes DEF SourceEnds, StreamTypes
<1> QED
  BY <1>3, <1>4, <1>5, <1>6, <1>7, <1>8 DEF FieldStep

\* Every step keeps the types.
LEMMA TypeStep ==
  ASSUME PipelineAssumption, TypeOK, IInv, [Next]_allVars PROVE TypeOK'
<1> USE DEF PipelineAssumption, Goto
<1>1. ASSUME UNCHANGED streamVars, NEW r \in Reqs, RequestStep(r) PROVE TypeOK'
  BY <1>1, RequestStepTypes DEF IInv
<1>2. ASSUME UNCHANGED streamVars, NEW r \in Reqs, AddError(r) PROVE TypeOK'
  <2>1. Err(1, Len(errors[r]) + 1) \in ErrorsSeen(0)
    BY TypeParts DEF AnswerTypes, Err, ErrorsSeen
  <2>2. AnswerTypes'
    BY <1>2, <2>1, TypeParts DEF AnswerTypes, AddError
  <2>3. RequestTypes' /\ StoreTypes' /\ StreamTypes'
    BY <1>2, TypeParts DEF RequestTypes, StoreTypes, StreamTypes, AddError, streamVars
  <2> QED
    BY <2>2, <2>3 DEF TypeOK, RequestTypes, StoreTypes, AnswerTypes, StreamTypes
<1>3. ASSUME UNCHANGED streamVars, CollectBatch PROVE TypeOK'
  <2>1. PICK r \in Batch : /\ pc[r] = "answered"
                           /\ out' = Append(out, [for |-> r, resp |-> resp[r]])
                           /\ Goto(r, "collected")
    BY <1>3 DEF CollectBatch
  <2>2. r \in Reqs /\ resp[r] \in Answers
    BY <2>1 DEF Batch, IInv, RequestInvs, RequestInv, Analyzed
  <2>3. AnswerTypes'
    BY <1>3, <2>1, <2>2, TypeParts DEF AnswerTypes, CollectBatch
  <2>4. RequestTypes' /\ StoreTypes' /\ StreamTypes'
    BY <1>3, <2>1, TypeParts DEF RequestTypes, StoreTypes, StreamTypes, CollectBatch, streamVars, Labels
  <2> QED
    BY <2>3, <2>4 DEF TypeOK, RequestTypes, StoreTypes, AnswerTypes, StreamTypes
<1>4. ASSUME NEW r \in Reqs, StreamEnds(r) PROVE TypeOK'
  <2>1. RequestTypes' /\ StoreTypes' /\ AnswerTypes' /\ StreamTypes'
    BY <1>4, TypeParts DEF RequestTypes, StoreTypes, AnswerTypes, StreamTypes, StreamEnds,
                           PipelineUnchanged, streamVars, Labels
  <2> QED
    BY <2>1 DEF TypeOK, RequestTypes, StoreTypes, AnswerTypes, StreamTypes
<1>5. ASSUME NEW r \in Reqs, NEW f \in Fields, FieldStep(r, f) PROVE TypeOK'
  BY <1>5, FieldStepTypes DEF IInv
<1>6. CASE UNCHANGED allVars
  <2>1. RequestTypes' /\ StoreTypes' /\ AnswerTypes' /\ StreamTypes'
    BY <1>6, TypeParts DEF RequestTypes, StoreTypes, AnswerTypes, StreamTypes, allVars, vars, streamVars
  <2> QED
    BY <2>1 DEF TypeOK, RequestTypes, StoreTypes, AnswerTypes, StreamTypes
<1> QED
  BY <1>1, <1>2, <1>3, <1>4, <1>5, <1>6 DEF Next, PipelineNext

-----------------------------------------------------------------------------
(* The invariant *)

\* A step of request r leaves the others as they were.
Local(r) ==
  /\ req' = req /\ out' = out
  /\ \A s \in Reqs \ {r} :
       /\ pc'[s] = pc[s] /\ at'[s] = at[s] /\ query'[s] = query[s] /\ parsed'[s] = parsed[s]
       /\ doc'[s] = doc[s] /\ root'[s] = root[s] /\ resp'[s] = resp[s]
       /\ analyzer'[s] = analyzer[s]

\* A step of a request leaves what the others hold alone.
LEMMA RequestStepLocal ==
  ASSUME TypeOK, NEW r \in Reqs, RequestStep(r)
  PROVE  Local(r) /\ pc[r] # "collected" /\ pc'[r] # "collected"
<1> USE TypeParts DEF RequestTypes, AnswerTypes, Local, Goto, Fail
<1>1. CASE ApolloPrepare(r) \/ RelayPrepare(r)
  BY <1>1 DEF ApolloPrepare, RelayPrepare, PassOn, Refuse, AskStorage
<1>2. CASE StorageGet(r)
  BY <1>2 DEF StorageGet
<1>3. CASE StorageSet(r)
  BY <1>3 DEF StorageSet
<1>4. CASE NoSubscriptionRoot(r)
  BY <1>4 DEF NoSubscriptionRoot
<1>5. CASE ParseQuery(r)
  BY <1>5 DEF ParseQuery
<1>6. CASE Validation(r)
  BY <1>6 DEF Validation, Instance
<1>7. CASE SelectOperation(r)
  BY <1>7 DEF SelectOperation
<1>8. CASE Unsupported(r)
  BY <1>8 DEF Unsupported
<1>9. CASE ExecuteOnce(r)
  BY <1>9 DEF ExecuteOnce
<1>10. CASE Respond(r)
  BY <1>10 DEF Respond, Instance
<1> QED
  BY <1>1, <1>2, <1>3, <1>4, <1>5, <1>6, <1>7, <1>8, <1>9, <1>10 DEF RequestStep

\* The invariant of a request holds after a step of another.
LEMMA OthersKept ==
  ASSUME NEW r \in Reqs, Local(r), NEW s \in Reqs \ {r}, RequestInv(s) PROVE RequestInv(s)'
<1>1. Prepared(s)'
  BY DEF Local, RequestInv, Prepared, Preparing, NamedSoFar, AsksByHash, ClientId, Ext
<1>2. Passed(s)'
  BY DEF Local, RequestInv, Passed, Asked, Limited
<1>3. Analyzed(s)'
  BY DEF Local, RequestInv, Analyzed, Batch
<1> QED
  BY <1>1, <1>2, <1>3 DEF RequestInv

\* The order of the responses holds after a step that collects none.
LEMMA BatchKept ==
  ASSUME TypeOK, CollectedInOrder, BatchInOrder, NEW r \in Reqs, Local(r),
         pc[r] # "collected", pc'[r] # "collected"
  PROVE  CollectedInOrder' /\ BatchInOrder'
<1>1. Batch' = Batch
  BY DEF Local, Batch
<1>2. Collected' = Collected
  BY <1>1 DEF Local, Collected, Batch
<1>3. CollectedInOrder'
  BY <1>1, <1>2 DEF CollectedInOrder, Local
<1>4. \A i \in DOMAIN out : resp'[out[i].for] = resp[out[i].for]
  BY DEF CollectedInOrder, Collected, Local, Batch
<1>5. BatchInOrder'
  BY <1>1, <1>4 DEF BatchInOrder, Local
<1> QED
  BY <1>3, <1>5

(* A request that fails has no data in its response.                       *)
LEMMA FailedInv ==
  ASSUME TypeOK, NEW r \in Reqs, RequestInv(r),
         Fail(r), UNCHANGED <<req, at, query, parsed, doc, root, analyzer>>
  PROVE  RequestInv(r)'
<1>1. pc'[r] = "responding" /\ resp'[r] = Response(None, FormatErrors(<<Err(0, 1)>>))
  BY TypeParts DEF RequestTypes, AnswerTypes, Fail, Goto
<1>2. resp'[r] \in Answers /\ resp'[r].data = None
  <2>1. FormatErrors(<<Err(0, 1)>>) \in Seq(ErrorsSeen(1))
    BY DEF FormatErrors, Err, ErrorsSeen
  <2> QED
    BY <1>1, <2>1 DEF Response, Answers
<1>3. Prepared(r)'
  BY <1>1 DEF RequestInv, Prepared, Preparing, AsksByHash
<1>4. Passed(r)'
  BY <1>1 DEF RequestInv, Passed, Asked, Limited
<1>5. Analyzed(r)'
  BY <1>1, <1>2 DEF RequestInv, Analyzed
<1> QED
  BY <1>3, <1>4, <1>5 DEF RequestInv

(* A request that goes on to prepare keeps what needs a document.          *)
LEMMA StillPreparing ==
  ASSUME TypeOK, NEW r \in Reqs, RequestInv(r), Preparing(r), Preparing(r)',
         UNCHANGED <<req, doc, root, analyzer, resp>>, NamedSoFar(r)', AsksByHash(r)',
         parsed'[r] # None => Doc[parsed'[r]].parses
  PROVE  RequestInv(r)'
<1>1. Prepared(r)'
  BY DEF RequestInv, Prepared
<1>2. Passed(r)' /\ Analyzed(r)'
  BY DEF RequestInv, Prepared, Preparing, Passed, Analyzed
<1> QED
  BY <1>1, <1>2 DEF RequestInv

\* The invariant of a request after an extension looked at it.
LEMMA ExtensionInv ==
  ASSUME PipelineAssumption, TypeOK, NEW r \in Reqs, RequestInv(r), pc[r] = "prepare",
         at[r] \in DOMAIN Chain, PassOn(r) \/ Refuse(r) \/ AskStorage(r),
         UNCHANGED <<req, query, parsed, store, doc, root, errors, analyzer, out>>
  PROVE  RequestInv(r)'
<1>1. CASE PassOn(r)
  <2>1. at'[r] = at[r] + 1 /\ pc' = pc /\ resp' = resp /\ at[r] \in Nat
    BY <1>1, TypeParts DEF RequestTypes, PassOn, PipelineAssumption
  <2>2. NamedSoFar(r)
    BY DEF RequestInv, Prepared, Preparing
  <2>3. req[r].ids[Chain[at[r]]] = None
    BY <1>1 DEF PassOn, ClientId, Ext
  <2>4. NamedSoFar(r)'
    <3>1. \A n \in 1 .. at'[r] - 1 : n = at[r] \/ n \in 1 .. at[r] - 1
      BY <2>1
    <3>2. \A n \in 1 .. at[r] - 1 : n \in 1 .. at'[r] - 1
      BY <2>1
    <3>3. CASE \A n \in 1 .. at[r] - 1 : req[r].ids[Chain[n]] = None
      BY <2>2, <2>3, <3>1, <3>2, <3>3 DEF NamedSoFar
    <3>4. CASE ~ \A n \in 1 .. at[r] - 1 : req[r].ids[Chain[n]] = None
      <4>1. parsed[r] # None
        BY <2>2, <3>4 DEF NamedSoFar
      <4>2. PICK n \in 1 .. at[r] - 1 :
              /\ req[r].ids[Chain[n]] = Sha256(parsed[r])
              /\ \A m \in n + 1 .. at[r] - 1 : req[r].ids[Chain[m]] = None
        BY <2>2, <3>4 DEF NamedSoFar
      <4>3. \A m \in n + 1 .. at'[r] - 1 : req[r].ids[Chain[m]] = None
        BY <2>1, <2>3, <4>2
      <4> QED
        BY <3>2, <4>1, <4>2, <4>3 DEF NamedSoFar
    <3> QED
      BY <3>3, <3>4
  <2>5. AsksByHash(r)' /\ Preparing(r)'
    BY <2>1 DEF AsksByHash, Preparing
  <2> QED
    BY <2>1, <2>4, <2>5, StillPreparing DEF RequestInv, Prepared, Preparing
<1>2. CASE Refuse(r)
  BY <1>2, FailedInv DEF Refuse
<1>3. CASE AskStorage(r)
  <2>1. pc'[r] \in {"get", "set"} /\ at' = at /\ resp' = resp
    BY <1>3, TypeParts DEF RequestTypes, AskStorage, Goto
  <2>2. NamedSoFar(r)'
    BY <2>1 DEF RequestInv, Prepared, Preparing, NamedSoFar
  <2>3. pc'[r] = "set" => /\ query[r] # Empty /\ ClientId(r) = Sha256(query[r])
                          /\ Doc[query[r]].parses
    BY <1>3, TypeParts DEF RequestTypes, AskStorage, Goto
  <2>4. AsksByHash(r)'
    BY <1>3, <2>1, <2>3 DEF AsksByHash, AskStorage, ClientId, Ext
  <2> QED
    BY <2>1, <2>2, <2>4, StillPreparing DEF RequestInv, Prepared, Preparing
<1> QED
  BY <1>1, <1>2, <1>3

(* The document of an id is attached, whether the storage had it or gets it. *)
LEMMA AttachedInv ==
  ASSUME PipelineAssumption, TypeOK, NEW r \in Reqs, RequestInv(r), pc[r] \in {"get", "set"},
         NEW t \in Texts, ClientId(r) = Sha256(t), Doc[t].parses,
         parsed' = [parsed EXCEPT ![r] = t], at' = [at EXCEPT ![r] = @ + 1], Goto(r, "prepare"),
         UNCHANGED <<req, doc, root, analyzer, resp>>
  PROVE  RequestInv(r)'
<1>1. parsed'[r] = t /\ at'[r] = at[r] + 1 /\ pc'[r] = "prepare" /\ at[r] \in 1 .. Len(Chain) + 1
  BY TypeParts DEF RequestTypes, Goto
<1>2. at[r] \in 1 .. at'[r] - 1 /\ \A m \in at[r] + 1 .. at'[r] - 1 : FALSE
  BY <1>1 DEF PipelineAssumption
<1>3. t # None
  BY DEF PipelineAssumption
<1>4. NamedSoFar(r)'
  BY <1>1, <1>2, <1>3 DEF NamedSoFar, ClientId, Ext
<1>5. AsksByHash(r)' /\ Preparing(r) /\ Preparing(r)'
  BY <1>1 DEF AsksByHash, Preparing
<1> QED
  BY <1>1, <1>4, <1>5, StillPreparing

(* When every extension was asked, the document at hand is the one asked for. *)
LEMMA NamedIsAsked ==
  ASSUME PipelineAssumption, TypeOK, NEW r \in Reqs, NamedSoFar(r), at[r] \notin DOMAIN Chain
  PROVE  Asked(r, DocumentOf(r))
<1>1. at[r] - 1 = Len(Chain) /\ DOMAIN Chain = 1 .. Len(Chain) /\ Len(Chain) \in Nat
  BY TypeParts DEF RequestTypes, PipelineAssumption
<1> DEFINE with == {n \in DOMAIN Chain : req[r].ids[Chain[n]] # None}
<1>2. CASE /\ \A n \in 1 .. at[r] - 1 : req[r].ids[Chain[n]] = None
           /\ parsed[r] = req[r].parsed /\ query[r] = req[r].query
  <2>1. with = {}
    BY <1>1, <1>2
  <2>2. DocumentOf(r) = IF req[r].parsed # None THEN req[r].parsed ELSE req[r].query
    BY <1>2 DEF DocumentOf
  <2> QED
    BY <2>1, <2>2 DEF Asked
<1>3. CASE /\ parsed[r] # None
           /\ \E n \in 1 .. at[r] - 1 :
                /\ req[r].ids[Chain[n]] = Sha256(parsed[r])
                /\ \A m \in n + 1 .. at[r] - 1 : req[r].ids[Chain[m]] = None
  <2>1. PICK n \in 1 .. Len(Chain) : /\ req[r].ids[Chain[n]] = Sha256(parsed[r])
                                     /\ \A m \in n + 1 .. Len(Chain) : req[r].ids[Chain[m]] = None
    BY <1>1, <1>3
  <2>2. Sha256(parsed[r]) # None
    BY <1>3, TypeParts DEF RequestTypes, PipelineAssumption, Hashes
  <2>3. n \in with
    BY <1>1, <2>1, <2>2
  <2>4. \A m \in with : m <= n
    BY <1>1, <2>1
  <2>5. \A k \in with : (\A m \in with : m <= k) => req[r].ids[Chain[k]] = Sha256(parsed[r])
    <3> SUFFICES ASSUME NEW k \in with, \A m \in with : m <= k PROVE k = n
      BY <2>1
    <3>1. n <= k /\ k <= n /\ k \in Nat /\ n \in Nat
      BY <1>1, <2>3, <2>4
    <3> QED
      BY <3>1
  <2> QED
    BY <1>3, <2>3, <2>5 DEF Asked, DocumentOf
<1> QED
  BY <1>2, <1>3 DEF NamedSoFar

\* The invariant of a request after a step of its own.
LEMMA RequestStepInv ==
  ASSUME PipelineAssumption, TypeOK, IInv, NEW r \in Reqs, RequestStep(r)
  PROVE  RequestInv(r)'
<1>1. RequestInv(r)
  BY DEF IInv, RequestInvs
<1>2. CASE ApolloPrepare(r) \/ RelayPrepare(r)
  BY <1>1, <1>2, ExtensionInv DEF ApolloPrepare, RelayPrepare
<1>3. CASE StorageGet(r)
  <2>1. CASE ClientId(r) \in DOMAIN store[AskedOf(r)]
    <3>1. at[r] \in DOMAIN Chain
      BY <1>1, <1>3 DEF RequestInv, Prepared, AsksByHash, StorageGet
    <3>2. AskedOf(r) \in DOMAIN store
      BY <3>1, TypeParts DEF StoreTypes, AskedOf, Ext, PipelineAssumption
    <3>3. store[AskedOf(r)][ClientId(r)] \in Texts
      BY <2>1, <3>2, TypeParts DEF StoreTypes, Caches
    <3>4. /\ ClientId(r) = Sha256(store[AskedOf(r)][ClientId(r)])
          /\ Doc[store[AskedOf(r)][ClientId(r)]].parses
      BY <2>1, <3>2 DEF IInv, StoredByHash
    <3> QED
      BY <1>1, <1>3, <2>1, <3>3, <3>4, AttachedInv DEF StorageGet
  <2>2. CASE ClientId(r) \notin DOMAIN store[AskedOf(r)]
    BY <1>1, <1>3, <2>2, FailedInv DEF StorageGet
  <2> QED
    BY <2>1, <2>2
<1>4. CASE StorageSet(r)
  <2>1. query[r] \in Texts /\ ClientId(r) = Sha256(query[r]) /\ Doc[query[r]].parses
    BY <1>1, <1>4, TypeParts DEF RequestTypes, RequestInv, Prepared, AsksByHash, StorageSet
  <2> QED
    BY <1>1, <1>4, <2>1, AttachedInv DEF StorageSet
<1>5. CASE NoSubscriptionRoot(r)
  BY <1>1, <1>5, FailedInv DEF NoSubscriptionRoot
<1>6. CASE ParseQuery(r)
  <2>1. CASE Fail(r) /\ UNCHANGED doc
    BY <1>1, <1>6, <2>1, FailedInv DEF ParseQuery
  <2>2. CASE /\ DocumentOf(r) # Empty
             /\ parsed[r] # None \/ Doc[DocumentOf(r)].parses
             /\ Limited(r, DocumentOf(r))
             /\ doc' = [doc EXCEPT ![r] = DocumentOf(r)]
             /\ Goto(r, "validate") /\ UNCHANGED resp
    <3>1. /\ doc'[r] = DocumentOf(r) /\ pc'[r] = "validate"
          /\ UNCHANGED <<req, at, query, parsed, root, analyzer, resp>>
      BY <1>6, <2>2, TypeParts DEF RequestTypes, ParseQuery, Goto
    <3>2. /\ NamedSoFar(r) /\ root[r] = None /\ analyzer[r] = None
          /\ parsed[r] # None => Doc[parsed[r]].parses
      BY <1>1, <1>6 DEF RequestInv, Prepared, Preparing, ParseQuery
    <3>3. Asked(r, DocumentOf(r)) /\ Doc[DocumentOf(r)].parses
      BY <1>6, <2>2, <3>2, NamedIsAsked DEF ParseQuery, DocumentOf
    <3>4. DocumentOf(r) # None
      BY <2>2, TypeParts DEF RequestTypes, DocumentOf, PipelineAssumption
    <3>5. Prepared(r)'
      BY <3>1, <3>2 DEF Prepared, Preparing, AsksByHash
    <3>6. Passed(r)'
      BY <2>2, <3>1, <3>2, <3>3, <3>4 DEF Passed, Asked, Limited
    <3>7. Analyzed(r)'
      BY <3>1, <3>2 DEF Analyzed
    <3> QED
      BY <3>5, <3>6, <3>7 DEF RequestInv
  <2> QED
    BY <1>6, <2>1, <2>2 DEF ParseQuery
<1>7. CASE Validation(r)
  <2>1. CASE Fail(r) /\ UNCHANGED analyzer
    BY <1>1, <1>7, <2>1, FailedInv DEF Validation
  <2>2. CASE /\ Doc[doc[r]].valid /\ UNCHANGED resp /\ Goto(r, "select")
             /\ analyzer' = [analyzer EXCEPT ![Instance(r)] = doc[r]]
    <3>1. /\ analyzer'[r] = doc[r] /\ pc'[r] = "select" /\ pc[r] = "validate"
          /\ UNCHANGED <<req, at, query, parsed, doc, root, resp>>
      BY <1>7, <2>2, TypeParts DEF RequestTypes, Validation, Goto, Instance
    <3>2. Prepared(r)' /\ Passed(r)' /\ Analyzed(r)'
      BY <1>1, <2>2, <3>1 DEF RequestInv, Prepared, Preparing, AsksByHash, Passed, Analyzed, Asked, Limited
    <3> QED
      BY <3>2 DEF RequestInv
  <2> QED
    BY <1>7, <2>1, <2>2 DEF Validation
<1>8. CASE SelectOperation(r)
  <2>1. CASE Fail(r) /\ UNCHANGED root
    BY <1>1, <1>8, <2>1, FailedInv DEF SelectOperation
  <2>2. CASE HasOperation(r)
    <3>1. /\ pc'[r] \in {"streaming", "transport", "execute"} /\ pc[r] = "select"
          /\ UNCHANGED <<req, at, query, parsed, doc, analyzer, resp>>
      BY <1>8, <2>2, TypeParts DEF RequestTypes, SelectOperation, Goto
    <3>2. Prepared(r)' /\ Passed(r)' /\ Analyzed(r)'
      BY <1>1, <3>1 DEF RequestInv, Prepared, Preparing, AsksByHash, Passed, Analyzed, Asked, Limited
    <3> QED
      BY <3>2 DEF RequestInv
  <2> QED
    BY <1>8, <2>1, <2>2 DEF SelectOperation
<1>9. CASE Unsupported(r)
  BY <1>1, <1>9, FailedInv DEF Unsupported
<1>10. CASE ExecuteOnce(r)
  <2>2. resp'[r] \in Answers
    BY <1>10, ExecuteAnswers, TypeParts DEF AnswerTypes
  <2>3. /\ pc'[r] = "responding" /\ pc[r] = "execute"
        /\ UNCHANGED <<req, at, query, parsed, doc, root, analyzer>>
    BY <1>10, TypeParts DEF RequestTypes, ExecuteOnce, Goto
  <2>4. Prepared(r)' /\ Passed(r)'
    BY <1>1, <2>3 DEF RequestInv, Prepared, Preparing, AsksByHash, Passed, Asked, Limited
  <2>5. Analyzed(r)'
    BY <1>1, <2>2, <2>3 DEF RequestInv, Analyzed
  <2> QED
    BY <2>4, <2>5 DEF RequestInv
<1>11. CASE Respond(r)
  <2>1. /\ pc'[r] = "answered" /\ pc[r] = "responding"
        /\ UNCHANGED <<req, at, query, parsed, doc, root>>
        /\ analyzer'[r] \in {None, doc[r]}
    BY <1>1, <1>11, TypeParts DEF RequestTypes, Respond, Goto, Instance, RequestInv, Analyzed
  <2>2. resp[r] \in Answers
    BY <1>1, <1>11 DEF Respond, RequestInv, Analyzed
  <2>3. Prepared(r)' /\ Passed(r)'
    BY <1>1, <2>1 DEF RequestInv, Prepared, Preparing, AsksByHash, Passed, Asked, Limited
  <2>4. CASE req[r].stream
    BY <1>1, <1>11, <2>1, <2>3, <2>4 DEF RequestInv, Analyzed, Respond, Batch
  <2>5. CASE ~req[r].stream
    <3>1. resp'[r] = [resp[r] EXCEPT !.analyzer = analyzer[r]]
      BY <1>11, <2>5, TypeParts DEF AnswerTypes, Respond, Instance
    <3>2. /\ resp'[r] \in Answers /\ resp'[r].analyzer = analyzer[r]
          /\ resp'[r].data = resp[r].data
      BY <2>2, <3>1, TypeParts DEF RequestTypes, Answers
    <3>3. Analyzed(r)'
      BY <1>1, <1>11, <2>1, <3>2 DEF RequestInv, Analyzed, Respond
    <3> QED
      BY <2>3, <3>3 DEF RequestInv
  <2> QED
    BY <2>4, <2>5
<1> QED
  BY <1>2, <1>3, <1>4, <1>5, <1>6, <1>7, <1>8, <1>9, <1>10, <1>11 DEF RequestStep

\* Storages hold documents under their own hash after every step of a request.
LEMMA StoredStep ==
  ASSUME PipelineAssumption, TypeOK, IInv, NEW r \in Reqs, RequestStep(r)
  PROVE  StoredByHash'
<1>1. CASE StorageSet(r)
  <2>1. RequestInv(r)
    BY DEF IInv, RequestInvs
  <2>2. /\ at[r] \in DOMAIN Chain /\ ClientId(r) \in Hashes /\ query[r] \in Texts
        /\ ClientId(r) = Sha256(query[r]) /\ Doc[query[r]].parses
    BY <1>1, <2>1, TypeParts DEF RequestTypes, RequestInv, Prepared, AsksByHash, StorageSet
  <2>3. AskedOf(r) \in DOMAIN store
    BY <2>2, TypeParts DEF StoreTypes, AskedOf, Ext, PipelineAssumption
  <2>4. store[AskedOf(r)] \in Caches /\ IsFiniteSet(DOMAIN store[AskedOf(r)])
    BY <2>3, TypeParts DEF StoreTypes
  <2>5. PICK m \in Put(store[AskedOf(r)], ClientId(r), query[r]) :
          store' = [store EXCEPT ![AskedOf(r)] = m]
    BY <1>1 DEF StorageSet
  <2>6. \A k \in DOMAIN m : IF k = ClientId(r) THEN m[k] = query[r]
                            ELSE k \in DOMAIN store[AskedOf(r)] /\ m[k] = store[AskedOf(r)][k]
    BY <2>2, <2>4, <2>5, PutTypes
  <2>7. \A h \in DOMAIN m : h = Sha256(m[h]) /\ Doc[m[h]].parses
    BY <2>2, <2>3, <2>6 DEF IInv, StoredByHash
  <2>8. \A b \in DOMAIN store : store'[b] = IF b = AskedOf(r) THEN m ELSE store[b]
    BY <2>3, <2>5, TypeParts DEF StoreTypes
  <2>9. DOMAIN store' = DOMAIN store
    BY <2>5, TypeParts DEF StoreTypes
  <2> QED
    BY <2>7, <2>8, <2>9 DEF IInv, StoredByHash
<1>2. CASE ~StorageSet(r)
  <2>1. store' = store
    BY <1>2 DEF RequestStep, ApolloPrepare, RelayPrepare, StorageGet, NoSubscriptionRoot,
                ParseQuery, Validation, SelectOperation, Unsupported, ExecuteOnce, Respond
  <2> QED
    BY <2>1 DEF IInv, StoredByHash
<1> QED
  BY <1>1, <1>2

\* A batch has finitely many requests.
LEMMA BatchFinite == IsFiniteSet(Batch)
<1>1. NReqs \in Int
  BY PipelineAssumption DEF PipelineAssumption
<1>2. IsFiniteSet(Reqs)
  BY <1>1, FS_Interval DEF Reqs
<1>3. Batch \in SUBSET Reqs
  BY DEF Batch
<1> QED
  BY <1>2, <1>3, FS_Subset

(* The request collected next is the first of the batch that was not.      *)
LEMMA CollectStep ==
  ASSUME PipelineAssumption, TypeOK, IInv, CollectBatch
  PROVE  RequestInvs' /\ CollectedInOrder' /\ BatchInOrder'
<1>1. PICK r \in Batch : /\ pc[r] = "answered" /\ Collectable(r)
                         /\ out' = Append(out, [for |-> r, resp |-> resp[r]])
                         /\ Goto(r, "collected")
  BY DEF CollectBatch
<1>2. UNCHANGED <<req, at, query, parsed, store, doc, root, errors, analyzer, resp>>
  BY DEF CollectBatch
<1>3. r \in Reqs /\ Batch' = Batch
  BY <1>1, <1>2 DEF Batch
<1>4. \A s \in Reqs : pc'[s] = IF s = r THEN "collected" ELSE pc[s]
  BY <1>1, <1>3, TypeParts DEF Goto, RequestTypes
<1>5. RequestInvs'
  <2> SUFFICES ASSUME NEW s \in Reqs PROVE RequestInv(s)'
    BY DEF RequestInvs
  <2>1. RequestInv(s)
    BY DEF IInv, RequestInvs
  <2>2. Prepared(s)' /\ Passed(s)'
    BY <1>1, <1>2, <1>4, <2>1 DEF RequestInv, Prepared, Preparing, NamedSoFar, AsksByHash, ClientId,
                                  Ext, Passed, Asked, Limited
  <2>3. Analyzed(s)'
    BY <1>1, <1>2, <1>3, <1>4, <2>1 DEF RequestInv, Analyzed
  <2> QED
    BY <2>2, <2>3 DEF RequestInv
<1>6. Collected' = Collected \cup {r} /\ r \notin Collected
  BY <1>1, <1>3, <1>4 DEF Collected, Batch
<1>7. Collected = {s \in Batch : s < r}
  <2>1. ASSUME NEW s \in Batch, s < r PROVE s \in Collected
    BY <1>1, <2>1 DEF Collectable, Collected
  <2>2. ASSUME NEW s \in Collected PROVE s \in Batch /\ s < r
    <3>1. s \in Batch /\ s # r
      BY <1>1, <2>2 DEF Collected
    <3>2. ~(r < s)
      BY <1>1, <1>6, <2>2 DEF IInv, CollectedInOrder
    <3>3. s \in Nat /\ r \in Nat
      BY <1>3, <3>1 DEF Batch, Reqs
    <3> QED
      BY <3>1, <3>2, <3>3
  <2> QED
    BY <2>1, <2>2 DEF Collected
<1>8. IsFiniteSet(Collected)
  BY <1>7, BatchFinite, FS_Subset
<1>9. Cardinality(Collected') = Cardinality(Collected) + 1
  BY <1>6, <1>8, FS_AddElement
<1>10. /\ Len(out') = Len(out) + 1 /\ out'[Len(out) + 1] = [for |-> r, resp |-> resp[r]]
       /\ \A i \in DOMAIN out : out'[i] = out[i]
       /\ DOMAIN out' = DOMAIN out \cup {Len(out) + 1}
       /\ Len(out) = Cardinality(Collected)
  BY <1>1, <1>3, TypeParts DEF AnswerTypes, IInv, CollectedInOrder, RequestInvs, RequestInv, Analyzed
<1>11. CollectedInOrder'
  <2>1. \A u \in Collected', s \in Batch' : s < u => s \in Collected'
    BY <1>3, <1>6, <1>7 DEF IInv, CollectedInOrder
  <2>2. \A i \in DOMAIN out' : out'[i].for \in Collected'
    BY <1>6, <1>10 DEF IInv, CollectedInOrder
  <2> QED
    BY <1>9, <1>10, <2>1, <2>2 DEF CollectedInOrder
<1>12. BatchInOrder'
  <2> SUFFICES ASSUME NEW i \in DOMAIN out'
               PROVE  /\ out'[i].resp = resp[out'[i].for]
                      /\ Cardinality({s \in Batch : s < out'[i].for}) = i - 1
    BY <1>2, <1>3 DEF BatchInOrder
  <2>1. CASE i \in DOMAIN out
    BY <1>10, <2>1 DEF IInv, BatchInOrder
  <2>2. CASE i = Len(out) + 1
    <3>1. out'[i].for = r /\ out'[i].resp = resp[r]
      BY <1>10, <2>2
    <3>2. Len(out) \in Nat /\ i - 1 = Len(out)
      BY <2>2, TypeParts DEF AnswerTypes
    <3>3. {s \in Batch : s < out'[i].for} = Collected
      BY <1>7, <3>1
    <3> QED
      BY <1>10, <3>1, <3>2, <3>3
  <2> QED
    BY <1>10, <2>1, <2>2
<1> QED
  BY <1>5, <1>11, <1>12

\* A stream resolves an event only after one arrived.
LEMMA EventStep ==
  ASSUME TypeOK, EventInHand, [Next]_allVars PROVE EventInHand'
<1> SUFFICES ASSUME NEW s \in Reqs, NEW g \in Fields, fpc'[s][g] = "resolving"
             PROVE  Event(s, g)' # 0
  BY DEF EventInHand
<1>1. CASE UNCHANGED streamVars
  BY <1>1 DEF EventInHand, Event, streamVars
<1>2. ASSUME NEW r \in Reqs, NEW f \in Fields, FieldStep(r, f) PROVE Event(s, g)' # 0
  <2>1. /\ fpc \in [Reqs -> [Fields -> {"idle", "create", "open", "resolving", "done"}]]
        /\ raised \in [Reqs -> [Fields -> Seq(Nat)]]
    BY TypeParts DEF StreamTypes
  <2>2. CASE EventArrives(r, f)
    <3>1. raised' = [raised EXCEPT ![r][f] = Append(@, 0)]
      BY <2>2 DEF EventArrives
    <3>2. CASE s = r /\ g = f
      BY <2>1, <3>1, <3>2 DEF Event
    <3>3. CASE ~(s = r /\ g = f)
      BY <2>1, <2>2, <3>1, <3>3 DEF EventArrives, SetField, EventInHand, Event
    <3> QED
      BY <3>2, <3>3
  <2>3. CASE EventAddError(r, f)
    <3>1. Len(raised'[s][g]) = Len(raised[s][g]) /\ fpc' = fpc
      BY <2>1, <2>3 DEF EventAddError
    <3> QED
      BY <3>1 DEF EventInHand, Event
  <2>4. CASE CollectStream(r, f) \/ CreateFieldStream(r, f) \/ EventResolved(r, f) \/ SourceEnds(r, f)
    <3>1. raised' = raised /\ \E l \in {"create", "open", "done"} :
                                 fpc' = SetField(fpc, r, f, l)
      BY <2>4 DEF CollectStream, CreateFieldStream, EventResolved, SourceEnds
    <3>2. fpc[s][g] = "resolving"
      BY <2>1, <3>1 DEF SetField
    <3> QED
      BY <3>1, <3>2 DEF EventInHand, Event
  <2> QED
    BY <1>2, <2>2, <2>3, <2>4 DEF FieldStep
<1> QED
  BY <1>1, <1>2 DEF Next, PipelineNext, StreamEnds, allVars

\* Every step keeps the invariant.
LEMMA InvariantStep ==
  ASSUME PipelineAssumption, TypeOK, IInv, [Next]_allVars PROVE IInv'
<1>1. EventInHand'
  BY EventStep DEF IInv
<1>2. ASSUME UNCHANGED streamVars, NEW r \in Reqs, RequestStep(r) PROVE IInv'
  <2>1. Local(r) /\ pc[r] # "collected" /\ pc'[r] # "collected"
    BY <1>2, RequestStepLocal
  <2>2. RequestInvs'
    BY <1>2, <2>1, RequestStepInv, OthersKept DEF IInv, RequestInvs
  <2>3. StoredByHash'
    BY <1>2, StoredStep
  <2>4. CollectedInOrder' /\ BatchInOrder'
    BY <2>1, BatchKept DEF IInv
  <2> QED
    BY <1>1, <2>2, <2>3, <2>4 DEF IInv
<1>3. ASSUME CollectBatch PROVE IInv'
  <2>1. StoredByHash'
    BY <1>3 DEF CollectBatch, IInv, StoredByHash
  <2> QED
    BY <1>1, <1>3, <2>1, CollectStep DEF IInv
<1>4. ASSUME NEW r \in Reqs, StreamEnds(r) PROVE IInv'
  <2>1. Local(r) /\ pc[r] = "streaming" /\ pc'[r] = "closed"
    BY <1>4, TypeParts DEF RequestTypes, StreamEnds, Goto, PipelineUnchanged, Local
  <2>2. RequestInv(r)'
    <3>1. RequestInv(r) /\ UNCHANGED <<req, at, query, parsed, doc, root, analyzer, resp>>
      BY <1>4 DEF IInv, RequestInvs, StreamEnds, PipelineUnchanged
    <3>2. Prepared(r)' /\ Passed(r)' /\ Analyzed(r)'
      BY <2>1, <3>1 DEF RequestInv, Prepared, Preparing, AsksByHash, Passed, Asked, Limited, Analyzed
    <3> QED
      BY <3>2 DEF RequestInv
  <2>3. RequestInvs'
    BY <2>1, <2>2, OthersKept DEF IInv, RequestInvs
  <2>4. CollectedInOrder' /\ BatchInOrder'
    BY <2>1, BatchKept DEF IInv
  <2>5. StoredByHash'
    BY <1>4 DEF StreamEnds, PipelineUnchanged, IInv, StoredByHash
  <2> QED
    BY <1>1, <2>3, <2>4, <2>5 DEF IInv
<1>5. ASSUME UNCHANGED <<req, pc, at, query, parsed, store, doc, root, analyzer, resp, out>>
      PROVE  IInv'
  <2>1. ASSUME NEW s \in Reqs PROVE RequestInv(s)'
    <3>1. RequestInv(s)
      BY DEF IInv, RequestInvs
    <3>2. Prepared(s)' /\ Passed(s)' /\ Analyzed(s)'
      BY <1>5, <3>1 DEF RequestInv, Prepared, Preparing, NamedSoFar, AsksByHash, ClientId, Ext,
                        Passed, Asked, Limited, Analyzed, Batch
    <3> QED
      BY <3>2 DEF RequestInv
  <2>2. StoredByHash'
    BY <1>5 DEF IInv, StoredByHash
  <2>4. Batch' = Batch /\ Collected' = Collected
    BY <1>5 DEF Batch, Collected
  <2>3. CollectedInOrder' /\ BatchInOrder'
    BY <1>5, <2>4 DEF IInv, CollectedInOrder, BatchInOrder
  <2> QED
    BY <1>1, <2>1, <2>2, <2>3 DEF IInv, RequestInvs
<1>6. ASSUME NEW r \in Reqs, AddError(r) PROVE IInv'
  BY <1>5, <1>6 DEF AddError
<1>7. ASSUME NEW r \in Reqs, NEW f \in Fields, FieldStep(r, f) PROVE IInv'
  <2>1. UNCHANGED pc /\ PipelineUnchanged
    BY <1>7 DEF FieldStep, CollectStream, CreateFieldStream, EventArrives, EventAddError,
                EventResolved, SourceEnds
  <2> QED
    BY <1>5, <2>1 DEF PipelineUnchanged
<1>8. CASE UNCHANGED allVars
  BY <1>5, <1>8 DEF allVars, vars
<1> QED
  BY <1>2, <1>3, <1>4, <1>6, <1>7, <1>8 DEF Next, PipelineNext

\* The invariant holds initially.
LEMMA InvariantInit ==
  ASSUME PipelineAssumption, StreamAssumption, ExecutionInit PROVE IInv
<1> USE DEF ExecutionInit, Init, StreamInit, FieldRecord
<1>1. ASSUME NEW r \in Reqs PROVE RequestInv(r)
  <2>1. /\ pc[r] = "prepare" /\ at[r] = 1 /\ query[r] = req[r].query /\ parsed[r] = req[r].parsed
        /\ doc[r] = None /\ root[r] = None /\ analyzer[r] = None /\ resp[r] = None
    OBVIOUS
  <2>2. req \in Inputs /\ (req[r].parsed # None => Doc[req[r].parsed].parses)
    BY DEF PipelineAssumption
  <2>3. NamedSoFar(r)
    BY <2>1 DEF NamedSoFar
  <2> QED
    BY <2>1, <2>2, <2>3 DEF RequestInv, Prepared, Preparing, AsksByHash, Passed, Analyzed
<1>2. StoredByHash
  BY DEF StoredByHash
<1>3. Collected = {}
  BY DEF Collected, Batch
<1>4. CollectedInOrder /\ BatchInOrder
  BY <1>3, FS_EmptySet DEF CollectedInOrder, BatchInOrder
<1>5. EventInHand
  BY DEF EventInHand
<1> QED
  BY <1>1, <1>2, <1>4, <1>5 DEF IInv, RequestInvs

\* The types and the invariant hold in every reachable state, whatever the
\* requests, documents, extensions and storages (RequestPipeline and the
\* streams it hands to SubscriptionStream).
THEOREM Invariance == Spec => [](TypeOK /\ IInv)
<1>1. ExecutionInit => TypeOK /\ IInv
  BY PipelineAssumption, StreamAssumption, InitTypes, InvariantInit
<1>2. TypeOK /\ IInv /\ [Next]_allVars => TypeOK' /\ IInv'
  BY PipelineAssumption, TypeStep, InvariantStep
<1> QED
  BY <1>1, <1>2, PTL DEF Spec

\* Every variable has its type in every reachable state: no storage exceeds
\* its capacity, and errors are formatted when they leave and not before.
THEOREM TypeCorrect == Spec => []TypeOK
  BY Invariance, PTL

\* The document that is executed is the one the request named, and it passed
\* the limits and the rules, whichever requests fill and evict the storage
\* between the steps of this one (prepare_request).
THEOREM RightDocumentHolds == Spec => []RightDocument
<1>1. TypeOK /\ IInv => RightDocument
  <2> SUFFICES ASSUME TypeOK, IInv, NEW r \in Reqs
               PROVE  /\ doc[r] # None => Asked(r, doc[r])
                      /\ root[r] # None => LET d == Doc[doc[r]]
                                           IN d.parses /\ d.depth /\ d.directives /\ d.aliases /\ d.valid
    BY DEF RightDocument, NamedDocument, CheckedDocument
  <2> QED
    BY DEF IInv, RequestInvs, RequestInv, Passed, Limited
<1> QED
  BY <1>1, Invariance, PTL

\* The formatter has seen every error of a response once (format_errors).
THEOREM FormattedOnceHolds == Spec => []FormattedOnce
<1>1. TypeOK => FormattedOnce
  <2> SUFFICES ASSUME TypeOK, NEW r \in Reqs, resp[r] # None, NEW k \in DOMAIN resp[r].errors
               PROVE  resp[r].errors[k].formatted = 1
    BY DEF FormattedOnce
  <2>1. resp[r] \in Answers
    BY TypeParts DEF AnswerTypes
  <2>2. resp[r].errors[k] \in ErrorsSeen(1)
    BY <2>1 DEF Answers
  <2> QED
    BY <2>2 DEF ErrorsSeen
<1> QED
  BY <1>1, TypeCorrect, PTL

\* A response goes back to its own request with the analysis of its own
\* document, in whatever order the requests of a batch finish (execute_batch,
\* FuturesOrdered, Analyzer).
THEOREM OwnResponseHolds == Spec => []OwnResponse
<1>1. TypeOK /\ IInv => OwnResponse
  BY DEF IInv, RequestInvs, RequestInv, Analyzed, OwnResponse, AnalyzerOwn, Batch
<1> QED
  BY <1>1, Invariance, PTL

-----------------------------------------------------------------------------
(* The errors of the events of a subscription of the derived code.         *)

Has(es, e) == \E j \in DOMAIN es : es[j] = e
Distinct(es) == \A j, k \in DOMAIN es : es[j] = es[k] => j = k

\* Before it streams, a request has neither events nor their errors.
NotStreaming(r) ==
  /\ pc[r] \notin {"streaming", "closed"} =>
       /\ delivered[r] = << >>
       /\ \A f \in Fields : fpc[r][f] = "idle" /\ raised[r][f] = << >>
  /\ pc[r] \notin {"execute", "streaming", "closed"} => errors[r] = << >>

\* Only the fields of the operation become streams.
FieldsOfRoots(r) ==
  pc[r] \in {"streaming", "closed"} =>
    /\ doc[r] # None
    /\ \A f \in Fields : fpc[r][f] # "idle" => f \in Roots[doc[r]]

\* An error of the event that its field is resolving.
IsCurrent(st, ra, e) ==
  /\ e.by \in Fields /\ st[e.by] = "resolving"
  /\ e = EventErr(e.by, Len(ra[e.by]), e.n)
  /\ e.n \in 1 .. ra[e.by][Len(ra[e.by])]

\* The list holds errors of the events that are being resolved, each once.
ListIsCurrent(r) ==
  /\ Distinct(errors[r])
  /\ \A k \in DOMAIN errors[r] : IsCurrent(fpc[r], raised[r], errors[r][k])

\* An error that an event has raised, or the one that reached its root.
WasRaised(ra, e) ==
  /\ e.by \in Fields /\ e = EventErr(e.by, e.event, e.n)
  /\ e.event \in 0 .. Len(ra[e.by])
  /\ e.n \in 0 .. IF e.event = 0 THEN 0 ELSE ra[e.by][e.event]

\* A response is that of an event that is over.
IsPast(st, ra, d) ==
  /\ d.event <= Len(ra[d.field])
  /\ st[d.field] = "resolving" => d.event # Len(ra[d.field])
  /\ Distinct(d.errors)
  /\ \A j \in DOMAIN d.errors : WasRaised(ra, d.errors[j])

ResponsesArePast(r) ==
  \A i \in DOMAIN delivered[r] : IsPast(fpc[r], raised[r], delivered[r][i])

\* No raised error is in two responses, or in one and in the list.
Apart(r) ==
  \A i \in DOMAIN delivered[r] : \A j \in DOMAIN delivered[r][i].errors :
    LET e == delivered[r][i].errors[j]
    IN e.n # 0 => /\ \A k \in DOMAIN delivered[r] : Has(delivered[r][k].errors, e) => k = i
                  /\ ~Has(errors[r], e)

\* A raised error is in the list or in a response, and no later than in the
\* response of its event.
Reported(r) ==
  \A f \in Fields : \A n \in DOMAIN raised[r][f] : \A m \in 1 .. raised[r][f][n] :
    /\ \/ Has(errors[r], EventErr(f, n, m))
       \/ \E i \in DOMAIN delivered[r] : Has(delivered[r][i].errors, EventErr(f, n, m))
    /\ \A i \in DOMAIN delivered[r] :
         delivered[r][i].field = f /\ delivered[r][i].event = n =>
           \E k \in 1 .. i : Has(delivered[r][k].errors, EventErr(f, n, m))

\* With one root field, a response shows the errors of its own event.
OwnEvents(r) ==
  \A g \in Fields : Roots[doc[r]] = {g} =>
    \A i \in DOMAIN delivered[r] : \A j \in DOMAIN delivered[r][i].errors :
      /\ delivered[r][i].errors[j].by = delivered[r][i].field
      /\ delivered[r][i].errors[j].event = delivered[r][i].event

Derived(r) == pc[r] \in {"streaming", "closed"} /\ req[r].schema = "derived"

StreamInv(r) ==
  /\ NotStreaming(r) /\ FieldsOfRoots(r)
  /\ Derived(r) => ListIsCurrent(r) /\ ResponsesArePast(r) /\ Apart(r) /\ Reported(r) /\ OwnEvents(r)

EInv == \A r \in Reqs : StreamInv(r)

\* A request that a step does not touch keeps its invariant.
LEMMA StreamFrame ==
  ASSUME NEW s \in Reqs, StreamInv(s), req' = req, pc'[s] = pc[s], doc'[s] = doc[s],
         errors'[s] = errors[s], fpc'[s] = fpc[s], raised'[s] = raised[s],
         delivered'[s] = delivered[s]
  PROVE  StreamInv(s)'
<1>1. NotStreaming(s)' /\ FieldsOfRoots(s)'
  BY DEF StreamInv, NotStreaming, FieldsOfRoots
<1>2. Derived(s)' <=> Derived(s)
  BY DEF Derived
<1>3. ListIsCurrent(s) => ListIsCurrent(s)'
  BY DEF ListIsCurrent, IsCurrent, Distinct
<1>4. ResponsesArePast(s) => ResponsesArePast(s)'
  BY DEF ResponsesArePast, IsPast, WasRaised, Distinct
<1>5. Apart(s) => Apart(s)'
  BY DEF Apart, Has
<1>6. Reported(s) => Reported(s)'
  BY DEF Reported, Has
<1>7. OwnEvents(s) => OwnEvents(s)'
  BY DEF OwnEvents
<1> QED
  BY <1>1, <1>2, <1>3, <1>4, <1>5, <1>6, <1>7 DEF StreamInv

\* What a step of a request may do to its error list and its stage.
LEMMA RequestStepStages ==
  ASSUME TypeOK, NEW r \in Reqs, RequestStep(r)
  PROVE  /\ pc[r] \notin {"streaming", "closed"} /\ pc'[r] # "closed"
         /\ pc[r] = "execute" => errors'[r] = << >>
         /\ pc[r] # "execute" => errors'[r] = errors[r]
         /\ pc'[r] = "streaming" => pc[r] = "select" /\ doc'[r] = doc[r]
         /\ \A s \in Reqs \ {r} : errors'[s] = errors[s]
<1> USE TypeParts DEF RequestTypes, AnswerTypes, Goto, Fail
<1>1. CASE ApolloPrepare(r) \/ RelayPrepare(r)
  BY <1>1 DEF ApolloPrepare, RelayPrepare, PassOn, Refuse, AskStorage
<1>2. CASE StorageGet(r)
  BY <1>2 DEF StorageGet
<1>3. CASE StorageSet(r)
  BY <1>3 DEF StorageSet
<1>4. CASE NoSubscriptionRoot(r)
  BY <1>4 DEF NoSubscriptionRoot
<1>5. CASE ParseQuery(r)
  BY <1>5 DEF ParseQuery
<1>6. CASE Validation(r)
  BY <1>6 DEF Validation, Instance
<1>7. CASE SelectOperation(r)
  BY <1>7 DEF SelectOperation
<1>8. CASE Unsupported(r)
  BY <1>8 DEF Unsupported
<1>9. CASE ExecuteOnce(r)
  BY <1>9 DEF ExecuteOnce
<1>10. CASE Respond(r)
  BY <1>10 DEF Respond, Instance
<1> QED
  BY <1>1, <1>2, <1>3, <1>4, <1>5, <1>6, <1>7, <1>8, <1>9, <1>10 DEF RequestStep

\* A step of a request outside its streams.
LEMMA RequestStepStream ==
  ASSUME TypeOK, IInv, EInv, NEW r \in Reqs, RequestStep(r), UNCHANGED streamVars
  PROVE  EInv'
<1>1. ASSUME NEW s \in Reqs \ {r} PROVE StreamInv(s)'
  BY RequestStepLocal, RequestStepStages, StreamFrame DEF Local, EInv, streamVars
<1>2. StreamInv(r)'
  <2>1. /\ pc[r] \notin {"streaming", "closed"} /\ pc'[r] # "closed"
        /\ pc[r] = "execute" => errors'[r] = << >>
        /\ pc[r] # "execute" => errors'[r] = errors[r]
        /\ pc'[r] = "streaming" => pc[r] = "select" /\ doc'[r] = doc[r]
    BY RequestStepStages
  <2>2. /\ delivered'[r] = << >>
        /\ \A f \in Fields : fpc'[r][f] = "idle" /\ raised'[r][f] = << >>
        /\ pc[r] # "execute" => errors[r] = << >>
    BY <2>1 DEF EInv, StreamInv, NotStreaming, streamVars
  <2>3. errors'[r] = << >>
    BY <2>1, <2>2
  <2>4. NotStreaming(r)'
    BY <2>2, <2>3 DEF NotStreaming
  <2>5. FieldsOfRoots(r)'
    BY <2>1, <2>2 DEF FieldsOfRoots, IInv, RequestInvs, RequestInv, Passed
  <2>6. (ListIsCurrent(r) /\ ResponsesArePast(r) /\ Apart(r) /\ Reported(r) /\ OwnEvents(r))'
    BY <2>2, <2>3 DEF ListIsCurrent, ResponsesArePast, Apart, Reported, OwnEvents, Distinct
  <2> QED
    BY <2>4, <2>5, <2>6 DEF StreamInv
<1> QED
  BY <1>1, <1>2 DEF EInv

\* A step of a field leaves the other requests and the other fields alone.
FieldLocal(r, f) ==
  /\ pc[r] = "streaming" /\ f \in Roots[doc[r]]
  /\ UNCHANGED <<req, pc, doc>>
  /\ \A s \in Reqs \ {r} : /\ errors'[s] = errors[s] /\ fpc'[s] = fpc[s]
                           /\ raised'[s] = raised[s] /\ delivered'[s] = delivered[s]
  /\ \A g \in Fields \ {f} : fpc'[r][g] = fpc[r][g] /\ raised'[r][g] = raised[r][g]

\* The types of the streams of one request.
LEMMA StreamState ==
  ASSUME TypeOK, NEW r \in Reqs
  PROVE  /\ errors[r] \in Seq(ErrorsSeen(0)) /\ delivered[r] \in Seq(EventAnswers)
         /\ \A f \in Fields : /\ fpc[r][f] \in {"idle", "create", "open", "resolving", "done"}
                              /\ raised[r][f] \in Seq(Nat)
                              /\ Event(r, f) \in Nat /\ DOMAIN raised[r][f] = 1 .. Event(r, f)
         /\ \A i \in DOMAIN delivered[r] :
              /\ delivered[r][i].field \in Fields /\ delivered[r][i].event \in Nat
              /\ delivered[r][i].errors \in Seq(ErrorsSeen(0))
<1>1. /\ errors[r] \in Seq(ErrorsSeen(0)) /\ delivered[r] \in Seq(EventAnswers)
      /\ \A f \in Fields : /\ fpc[r][f] \in {"idle", "create", "open", "resolving", "done"}
                           /\ raised[r][f] \in Seq(Nat)
  BY TypeParts DEF AnswerTypes, StreamTypes
<1>2. \A f \in Fields : Event(r, f) \in Nat /\ DOMAIN raised[r][f] = 1 .. Event(r, f)
  BY <1>1 DEF Event
<1>3. \A i \in DOMAIN delivered[r] : delivered[r][i] \in EventAnswers
  BY <1>1
<1> QED
  BY <1>1, <1>2, <1>3 DEF EventAnswers

\* Every step of a field leaves the other requests and fields alone.
LEMMA FieldStepLocal ==
  ASSUME TypeOK, NEW r \in Reqs, NEW f \in Fields, FieldsOfRoots(r), FieldStep(r, f)
  PROVE  FieldLocal(r, f)
<1> USE TypeParts DEF StreamTypes, AnswerTypes, FieldLocal, FieldsOfRoots, PipelineUnchanged, SetField,
                      Deliver
<1>1. CASE CollectStream(r, f)
  BY <1>1 DEF CollectStream
<1>2. CASE CreateFieldStream(r, f)
  <2>1. PICK l \in {"open", "done"} : fpc' = SetField(fpc, r, f, l)
    BY <1>2 DEF CreateFieldStream
  <2>2. /\ pc[r] = "streaming" /\ f \in Roots[doc[r]]
        /\ UNCHANGED <<req, pc, doc, errors, raised>>
    BY <1>2 DEF CreateFieldStream
  <2>3. \A s \in Reqs \ {r} : delivered'[s] = delivered[s]
    BY <1>2 DEF CreateFieldStream
  <2> QED
    BY <2>1, <2>2, <2>3
<1>3. CASE EventArrives(r, f)
  BY <1>3 DEF EventArrives
<1>4. CASE EventAddError(r, f)
  <2>1. /\ pc[r] = "streaming" /\ f \in Roots[doc[r]] /\ UNCHANGED <<req, pc, doc, fpc, delivered>>
    BY <1>4 DEF EventAddError
  <2>2. \A s \in Reqs \ {r} : errors'[s] = errors[s] /\ raised'[s] = raised[s]
    BY <1>4 DEF EventAddError
  <2>4. \A g \in Fields \ {f} : raised'[r][g] = raised[r][g]
    BY <1>4 DEF EventAddError
  <2> QED
    BY <2>1, <2>2, <2>4
<1>5. CASE EventResolved(r, f)
  BY <1>5 DEF EventResolved
<1>6. CASE SourceEnds(r, f)
  BY <1>6 DEF SourceEnds
<1> QED
  BY <1>1, <1>2, <1>3, <1>4, <1>5, <1>6 DEF FieldStep

(* A step that takes a stream on without an event.                         *)
LEMMA QuietStep ==
  ASSUME TypeOK, NEW r \in Reqs, NEW f \in Fields, FieldLocal(r, f), Derived(r), StreamInv(r),
         fpc[r][f] # "resolving", fpc'[r][f] # "resolving",
         UNCHANGED <<errors, raised, delivered>>
  PROVE  (ListIsCurrent(r) /\ ResponsesArePast(r) /\ Apart(r) /\ Reported(r) /\ OwnEvents(r))'
<1>1. \A g \in Fields : fpc'[r][g] = "resolving" <=> fpc[r][g] = "resolving"
  BY DEF FieldLocal
<1>2. ListIsCurrent(r)'
  BY <1>1 DEF StreamInv, ListIsCurrent, IsCurrent, Distinct
<1>3. ASSUME NEW i \in DOMAIN delivered[r] PROVE IsPast(fpc'[r], raised[r], delivered[r][i])
  <2>1. delivered[r][i].field \in Fields /\ IsPast(fpc[r], raised[r], delivered[r][i])
    BY StreamState DEF StreamInv, ResponsesArePast
  <2> QED
    BY <1>1, <2>1 DEF IsPast
<1>4. Apart(r)' /\ Reported(r)' /\ OwnEvents(r)'
  BY DEF FieldLocal, StreamInv, Apart, Reported, OwnEvents, Has
<1>5. ResponsesArePast(r)'
  BY <1>3 DEF ResponsesArePast, IsPast, WasRaised, Distinct
<1> QED
  BY <1>2, <1>4, <1>5

(* A response leaves: alone with the error that made it, or with the list. *)
LEMMA DeliverStep ==
  ASSUME TypeOK, NEW r \in Reqs, NEW f \in Fields, FieldLocal(r, f), Derived(r), StreamInv(r),
         UNCHANGED raised, fpc'[r][f] # "resolving",
         NEW n \in 0 .. Event(r, f), NEW d, NEW es \in Seq(ErrorsSeen(0)),
         Deliver(r, EventResponse(f, n, d, es)),
         Distinct(es), \A j \in DOMAIN es : WasRaised(raised[r], es[j]),
         \A j \in DOMAIN es : es[j].n # 0 => Has(errors[r], es[j]),
         \/ /\ errors'[r] = errors[r] /\ fpc[r][f] # "resolving" /\ n = 0
            /\ \A j \in DOMAIN es : es[j].n = 0
         \/ /\ errors'[r] = << >>
            /\ \A e : Has(errors[r], e) => Has(es, e),
         \A g \in Fields : Roots[doc[r]] = {g} =>
           \A j \in DOMAIN es : es[j].by = f /\ es[j].event = n
  PROVE  (ListIsCurrent(r) /\ ResponsesArePast(r) /\ Apart(r) /\ Reported(r) /\ OwnEvents(r))'
<1> DEFINE D == delivered[r]
           last == Len(D) + 1
           x == EventResponse(f, n, d, es)
<1>1. /\ delivered'[r] = Append(D, x) /\ D \in Seq(EventAnswers) /\ Len(D) \in Nat
      /\ \A g \in Fields : Event(r, g) \in Nat
  BY StreamState, TypeParts DEF Deliver, StreamTypes
<1>2. /\ DOMAIN delivered'[r] = 1 .. last /\ DOMAIN D = 1 .. Len(D)
      /\ \A i \in DOMAIN D : delivered'[r][i] = D[i] /\ i # last
      /\ delivered'[r][last] = x
  BY <1>1
<1>3. x.field = f /\ x.event = n /\ x.errors = es
  BY DEF EventResponse
<1>4. \A i \in DOMAIN delivered'[r] : i \in DOMAIN D \/ i = last
  BY <1>1, <1>2
<1>6. ListIsCurrent(r) /\ ResponsesArePast(r) /\ Apart(r) /\ Reported(r) /\ OwnEvents(r)
  BY DEF StreamInv
<1>7. ListIsCurrent(r)'
  <2>1. CASE errors'[r] = << >>
    BY <2>1 DEF ListIsCurrent, Distinct
  <2>2. CASE errors'[r] = errors[r] /\ fpc[r][f] # "resolving"
    BY <1>6, <2>2 DEF ListIsCurrent, IsCurrent, Distinct, FieldLocal
  <2> QED
    BY <2>1, <2>2
<1>8. ResponsesArePast(r)'
  <2> SUFFICES ASSUME NEW i \in DOMAIN delivered'[r]
               PROVE  IsPast(fpc'[r], raised[r], delivered'[r][i])
    BY DEF ResponsesArePast, IsPast, WasRaised, Distinct
  <2>1. CASE i \in DOMAIN D
    <3>1. D[i].field \in Fields /\ delivered'[r][i] = D[i] /\ IsPast(fpc[r], raised[r], D[i])
      BY <1>2, <1>6, <2>1, StreamState DEF ResponsesArePast
    <3>2. fpc'[r][D[i].field] = "resolving" => fpc[r][D[i].field] = "resolving"
      BY <3>1 DEF FieldLocal
    <3> QED
      BY <3>1, <3>2 DEF IsPast
  <2>2. CASE i = last
    BY <1>1, <1>2, <1>3, <2>2 DEF IsPast, Event
  <2> QED
    BY <1>4, <2>1, <2>2
<1>9. \A i \in DOMAIN D : \A j \in DOMAIN D[i].errors :
        D[i].errors[j].n # 0 => ~Has(es, D[i].errors[j])
  BY <1>6 DEF Apart, Has
<1>10. Apart(r)'
  <2> SUFFICES ASSUME NEW i \in DOMAIN delivered'[r], NEW j \in DOMAIN delivered'[r][i].errors,
                      delivered'[r][i].errors[j].n # 0
               PROVE  LET e == delivered'[r][i].errors[j]
                      IN /\ \A k \in DOMAIN delivered'[r] : Has(delivered'[r][k].errors, e) => k = i
                         /\ ~Has(errors'[r], e)
    BY DEF Apart, Has
  <2> DEFINE e == delivered'[r][i].errors[j]
  <2>1. CASE i \in DOMAIN D
    <3>1. /\ e = D[i].errors[j] /\ j \in DOMAIN D[i].errors /\ e.n # 0
          /\ \A k \in DOMAIN D : Has(D[k].errors, e) => k = i
          /\ ~Has(errors[r], e) /\ ~Has(es, e)
      BY <1>2, <1>6, <1>9, <2>1 DEF Apart
    <3>2. ~Has(errors'[r], e)
      BY <3>1 DEF Has
    <3> QED
      BY <1>2, <1>3, <1>4, <3>1, <3>2
  <2>2. CASE i = last
    <3>1. j \in DOMAIN es /\ e = es[j] /\ e.n # 0
      BY <1>2, <1>3, <2>2
    <3>2. Has(errors[r], e) /\ errors'[r] = << >>
      BY <3>1
    <3>3. \A k \in DOMAIN D : ~Has(D[k].errors, e)
      <4> SUFFICES ASSUME NEW k \in DOMAIN D, NEW l \in DOMAIN D[k].errors, D[k].errors[l] = e
                   PROVE  FALSE
        BY DEF Has
      <4> QED
        BY <1>6, <3>1, <3>2 DEF Apart
    <3> QED
      BY <1>2, <1>4, <2>2, <3>2, <3>3 DEF Has
  <2> QED
    BY <1>4, <2>1, <2>2
<1>11. Reported(r)'
  <2> SUFFICES ASSUME NEW g \in Fields, NEW p \in DOMAIN raised[r][g], NEW m \in 1 .. raised[r][g][p]
               PROVE  LET e == EventErr(g, p, m)
                      IN /\ \/ Has(errors'[r], e)
                            \/ \E i \in DOMAIN delivered'[r] : Has(delivered'[r][i].errors, e)
                         /\ \A i \in DOMAIN delivered'[r] :
                              delivered'[r][i].field = g /\ delivered'[r][i].event = p =>
                                \E k \in 1 .. i : Has(delivered'[r][k].errors, e)
    BY DEF Reported, Has
  <2> DEFINE e == EventErr(g, p, m)
  <2>1. /\ Has(errors[r], e) \/ \E i \in DOMAIN D : Has(D[i].errors, e)
        /\ \A i \in DOMAIN D : D[i].field = g /\ D[i].event = p => \E k \in 1 .. i : Has(D[k].errors, e)
    BY <1>6 DEF Reported
  <2>2. last \in DOMAIN delivered'[r] /\ DOMAIN D \subseteq DOMAIN delivered'[r]
    BY <1>1, <1>2
  <2>3. \/ Has(errors'[r], e)
        \/ \E i \in DOMAIN delivered'[r] : Has(delivered'[r][i].errors, e)
    <3>1. CASE \E i \in DOMAIN D : Has(D[i].errors, e)
      BY <1>2, <2>2, <3>1
    <3>2. CASE Has(errors[r], e) /\ errors'[r] = errors[r]
      BY <3>2
    <3>3. CASE Has(es, e)
      BY <1>2, <1>3, <2>2, <3>3
    <3> QED
      BY <2>1, <3>1, <3>2, <3>3
  <2>4. ASSUME NEW i \in DOMAIN D, D[i].field = g, D[i].event = p
        PROVE  \E k \in 1 .. i : Has(delivered'[r][k].errors, e)
    <3>1. PICK k \in 1 .. i : Has(D[k].errors, e)
      BY <2>1, <2>4
    <3>2. k \in DOMAIN D
      BY <1>1, <1>2
    <3> QED
      BY <1>2, <3>1, <3>2
  <2>5. ASSUME f = g, n = p
        PROVE  \E k \in 1 .. last : Has(delivered'[r][k].errors, e)
    <3>1. p # 0
      BY StreamState
    <3>2. Has(errors[r], e) => Has(es, e)
      BY <2>5, <3>1
    <3>3. CASE Has(es, e)
      BY <1>2, <1>3, <2>2, <3>3
    <3>4. CASE \E k \in DOMAIN D : Has(D[k].errors, e)
      BY <1>2, <2>2, <3>4
    <3> QED
      BY <2>1, <3>2, <3>3, <3>4
  <2> QED
    BY <1>2, <1>3, <1>4, <2>3, <2>4, <2>5
<1>12. OwnEvents(r)'
  <2> SUFFICES ASSUME NEW g \in Fields, Roots[doc[r]] = {g}, NEW i \in DOMAIN delivered'[r],
                      NEW j \in DOMAIN delivered'[r][i].errors
               PROVE  /\ delivered'[r][i].errors[j].by = delivered'[r][i].field
                      /\ delivered'[r][i].errors[j].event = delivered'[r][i].event
    BY DEF OwnEvents, FieldLocal
  <2>1. CASE i \in DOMAIN D
    BY <1>2, <1>6, <2>1 DEF OwnEvents
  <2>2. CASE i = last
    BY <1>2, <1>3, <2>2
  <2> QED
    BY <1>4, <2>1, <2>2
<1> QED
  BY <1>7, <1>8, <1>10, <1>11, <1>12

\* An event arrives.
LEMMA ArrivesStep ==
  ASSUME TypeOK, NEW r \in Reqs, NEW f \in Fields, FieldLocal(r, f), Derived(r), StreamInv(r),
         EventArrives(r, f)
  PROVE  (ListIsCurrent(r) /\ ResponsesArePast(r) /\ Apart(r) /\ Reported(r) /\ OwnEvents(r))'
<1> DEFINE N == Event(r, f) + 1
<1>1. /\ fpc[r][f] = "open" /\ fpc'[r][f] = "resolving"
      /\ raised'[r][f] = Append(raised[r][f], 0)
      /\ UNCHANGED <<errors, delivered, doc>>
  BY TypeParts DEF EventArrives, StreamTypes, SetField, PipelineUnchanged
<1>2. /\ Event(r, f)' = N /\ Event(r, f) \in Nat
      /\ DOMAIN raised'[r][f] = 1 .. N /\ DOMAIN raised[r][f] = 1 .. Event(r, f)
      /\ \A n \in 1 .. Event(r, f) : raised'[r][f][n] = raised[r][f][n]
      /\ raised'[r][f][N] = 0
  BY <1>1, StreamState DEF Event
<1>3. \A g \in Fields \ {f} : /\ fpc'[r][g] = fpc[r][g] /\ raised'[r][g] = raised[r][g]
                              /\ Event(r, g)' = Event(r, g)
  BY DEF FieldLocal, Event
<1>4. ListIsCurrent(r) /\ ResponsesArePast(r) /\ Apart(r) /\ Reported(r) /\ OwnEvents(r)
  BY DEF StreamInv
<1>5. ListIsCurrent(r)'
  <2>1. ASSUME NEW e, IsCurrent(fpc[r], raised[r], e) PROVE IsCurrent(fpc'[r], raised'[r], e)
    <3>1. e.by \in Fields \ {f}
      BY <1>1, <2>1 DEF IsCurrent
    <3> QED
      BY <1>3, <2>1, <3>1 DEF IsCurrent
  <2> QED
    BY <1>1, <1>4, <2>1 DEF ListIsCurrent, Distinct
<1>6. ASSUME NEW e, WasRaised(raised[r], e) PROVE WasRaised(raised'[r], e)
  <2>1. e.by \in Fields /\ e = EventErr(e.by, e.event, e.n) /\ e.event \in 0 .. Event(r, e.by)
    BY <1>6 DEF WasRaised, Event
  <2>2. CASE e.by = f
    <3>1. e.event \in 0 .. N
      BY <1>2, <2>1, <2>2
    <3>2. e.event # 0 => raised'[r][f][e.event] = raised[r][f][e.event]
      BY <1>2, <2>1, <2>2
    <3>3. Len(raised'[r][f]) = N
      BY <1>2 DEF Event
    <3> QED
      BY <1>6, <2>1, <2>2, <3>1, <3>2, <3>3 DEF WasRaised
  <2>3. CASE e.by # f
    BY <1>3, <1>6, <2>1, <2>3 DEF WasRaised
  <2> QED
    BY <2>2, <2>3
<1>7. ResponsesArePast(r)'
  <2>1. ASSUME NEW i \in DOMAIN delivered[r] PROVE IsPast(fpc'[r], raised'[r], delivered[r][i])
    <3> DEFINE d == delivered[r][i]
    <3>1. d.field \in Fields /\ d.event \in Nat /\ IsPast(fpc[r], raised[r], d)
      BY <1>4, StreamState DEF ResponsesArePast
    <3>2. \A j \in DOMAIN d.errors : WasRaised(raised'[r], d.errors[j])
      BY <1>6, <3>1 DEF IsPast
    <3>3. CASE d.field = f
      <4>1. d.event <= Event(r, f) /\ Len(raised'[r][f]) = N
        BY <1>2, <3>1, <3>3 DEF IsPast, Event
      <4> QED
        BY <1>2, <3>1, <3>2, <3>3, <4>1 DEF IsPast
    <3>4. CASE d.field # f
      BY <1>3, <3>1, <3>2, <3>4 DEF IsPast
    <3> QED
      BY <3>3, <3>4
  <2> QED
    BY <1>1, <2>1 DEF ResponsesArePast
<1>8. Apart(r)' /\ OwnEvents(r)'
  BY <1>1, <1>4 DEF Apart, OwnEvents, Has
<1>9. Reported(r)'
  <2> SUFFICES ASSUME NEW g \in Fields, NEW n \in DOMAIN raised'[r][g], NEW m \in 1 .. raised'[r][g][n]
               PROVE  n \in DOMAIN raised[r][g] /\ m \in 1 .. raised[r][g][n]
    BY <1>1, <1>4 DEF Reported, Has
  <2>1. CASE g = f
    BY <1>2, <2>1
  <2>2. CASE g # f
    BY <1>3, <2>2
  <2> QED
    BY <2>1, <2>2
<1> QED
  BY <1>5, <1>7, <1>8, <1>9

\* A resolver of the event at hand reports an error.
LEMMA AddErrorStep ==
  ASSUME TypeOK, EventInHand, NEW r \in Reqs, NEW f \in Fields, FieldLocal(r, f), Derived(r),
         StreamInv(r), EventAddError(r, f)
  PROVE  (ListIsCurrent(r) /\ ResponsesArePast(r) /\ Apart(r) /\ Reported(r) /\ OwnEvents(r))'
<1> DEFINE N == Event(r, f)
           M == raised[r][f][N]
           L == errors[r]
           new == EventErr(f, N, M + 1)
           last == Len(L) + 1
<1>1. /\ fpc[r][f] = "resolving" /\ UNCHANGED <<fpc, delivered, doc>>
      /\ errors'[r] = Append(L, new)
      /\ raised'[r][f] = [raised[r][f] EXCEPT ![N] = M + 1]
  BY TypeParts DEF EventAddError, StreamTypes, AnswerTypes, PipelineUnchanged
<1>2. /\ N \in Nat /\ N # 0 /\ DOMAIN raised[r][f] = 1 .. N /\ M \in Nat
      /\ L \in Seq(ErrorsSeen(0))
  BY <1>1, StreamState DEF EventInHand
<1>3. /\ Event(r, f)' = N /\ DOMAIN raised'[r][f] = 1 .. N /\ raised'[r][f][N] = M + 1
      /\ \A n \in 1 .. N : n # N => raised'[r][f][n] = raised[r][f][n]
  BY <1>1, <1>2, StreamState DEF Event
<1>4. \A g \in Fields \ {f} : raised'[r][g] = raised[r][g] /\ Event(r, g)' = Event(r, g)
  BY DEF FieldLocal, Event
<1>5. /\ Len(L) \in Nat /\ DOMAIN L = 1 .. Len(L) /\ DOMAIN errors'[r] = 1 .. last
      /\ \A k \in DOMAIN L : errors'[r][k] = L[k] /\ k # last
      /\ errors'[r][last] = new
      /\ \A k \in DOMAIN errors'[r] : k \in DOMAIN L \/ k = last
  BY <1>1, <1>2
<1>6. new.by = f /\ new.event = N /\ new.n = M + 1 /\ new = EventErr(new.by, new.event, new.n)
  BY DEF EventErr
<1>7. ListIsCurrent(r) /\ ResponsesArePast(r) /\ Apart(r) /\ Reported(r) /\ OwnEvents(r)
  BY DEF StreamInv
<1>8. ~Has(L, new)
  <2> SUFFICES ASSUME NEW k \in DOMAIN L, L[k] = new PROVE FALSE
    BY DEF Has
  <2>1. new.n \in 1 .. M
    BY <1>6, <1>7 DEF ListIsCurrent, IsCurrent, Event
  <2> QED
    BY <1>2, <1>6, <2>1
<1>9. \A i \in DOMAIN delivered[r] : ~Has(delivered[r][i].errors, new)
  <2> SUFFICES ASSUME NEW i \in DOMAIN delivered[r], NEW j \in DOMAIN delivered[r][i].errors,
                      delivered[r][i].errors[j] = new PROVE FALSE
    BY DEF Has
  <2>1. WasRaised(raised[r], new)
    BY <1>7 DEF ResponsesArePast, IsPast
  <2>2. new.n \in 0 .. M
    BY <1>2, <1>6, <2>1 DEF WasRaised
  <2> QED
    BY <1>2, <1>6, <2>2
<1>10. ListIsCurrent(r)'
  <2>1. Distinct(errors'[r])
    BY <1>5, <1>7, <1>8 DEF ListIsCurrent, Distinct, Has
  <2>2. ASSUME NEW e, IsCurrent(fpc[r], raised[r], e) PROVE IsCurrent(fpc[r], raised'[r], e)
    <3>1. CASE e.by = f
      <4>1. /\ e = EventErr(f, N, e.n) /\ e.n \in 1 .. M /\ fpc[r][f] = "resolving"
            /\ Len(raised'[r][f]) = N
        BY <1>3, <2>2, <3>1 DEF IsCurrent, Event
      <4> QED
        BY <1>2, <1>3, <3>1, <4>1 DEF IsCurrent
    <3>2. CASE e.by # f
      BY <1>4, <2>2, <3>2 DEF IsCurrent
    <3> QED
      BY <3>1, <3>2
  <2>3. IsCurrent(fpc[r], raised'[r], new)
    <3>1. Len(raised'[r][f]) = N /\ M + 1 \in 1 .. raised'[r][f][N]
      BY <1>2, <1>3 DEF Event
    <3> QED
      BY <1>1, <1>6, <3>1 DEF IsCurrent
  <2>4. \A k \in DOMAIN errors'[r] : IsCurrent(fpc[r], raised'[r], errors'[r][k])
    BY <1>5, <1>7, <2>2, <2>3 DEF ListIsCurrent
  <2> QED
    BY <1>1, <2>1, <2>4 DEF ListIsCurrent, Distinct
<1>11. ASSUME NEW e, WasRaised(raised[r], e) PROVE WasRaised(raised'[r], e)
  <2>1. CASE e.by = f
    <3>1. /\ e.by \in Fields /\ e = EventErr(f, e.event, e.n) /\ e.event \in 0 .. N
          /\ e.n \in 0 .. IF e.event = 0 THEN 0 ELSE raised[r][f][e.event]
      BY <1>11, <2>1 DEF WasRaised, Event
    <3>2. Len(raised'[r][f]) = N
      BY <1>3 DEF Event
    <3>3. e.event # 0 => raised[r][f][e.event] <= raised'[r][f][e.event]
      <4>1. \A n \in 1 .. N : raised[r][f][n] \in Nat
        BY <1>2, StreamState
      <4> QED
        BY <1>2, <1>3, <3>1, <4>1
    <3>4. e.event # 0 => raised[r][f][e.event] \in Nat /\ raised'[r][f][e.event] \in Nat
      <4>1. \A n \in 1 .. N : raised[r][f][n] \in Nat
        BY <1>2, StreamState
      <4> QED
        BY <1>2, <1>3, <3>1, <4>1
    <3>5. e.n \in 0 .. IF e.event = 0 THEN 0 ELSE raised'[r][f][e.event]
      BY <3>1, <3>3, <3>4
    <3> QED
      BY <2>1, <3>1, <3>2, <3>5 DEF WasRaised
  <2>2. CASE e.by # f
    BY <1>4, <1>11, <2>2 DEF WasRaised
  <2> QED
    BY <2>1, <2>2
<1>12. ResponsesArePast(r)'
  <2>1. ASSUME NEW i \in DOMAIN delivered[r] PROVE IsPast(fpc[r], raised'[r], delivered[r][i])
    <3> DEFINE d == delivered[r][i]
    <3>1. d.field \in Fields /\ IsPast(fpc[r], raised[r], d)
      BY <1>7, StreamState DEF ResponsesArePast
    <3>2. Len(raised'[r][d.field]) = Len(raised[r][d.field])
      BY <1>3, <1>4, <3>1 DEF Event
    <3>3. \A j \in DOMAIN d.errors : WasRaised(raised'[r], d.errors[j])
      BY <1>11, <3>1 DEF IsPast
    <3> QED
      BY <3>1, <3>2, <3>3 DEF IsPast
  <2> QED
    BY <1>1, <2>1 DEF ResponsesArePast
<1>13. Apart(r)'
  <2>1. \A e : Has(errors'[r], e) => Has(L, e) \/ e = new
    BY <1>5 DEF Has
  <2> SUFFICES ASSUME NEW i \in DOMAIN delivered[r], NEW j \in DOMAIN delivered[r][i].errors,
                      delivered[r][i].errors[j].n # 0,
                      Has(errors'[r], delivered[r][i].errors[j])
               PROVE  FALSE
    BY <1>1, <1>7 DEF Apart, Has
  <2> QED
    BY <1>7, <1>9, <2>1 DEF Apart, Has
<1>14. Reported(r)'
  <2>1. \A e : Has(L, e) => Has(errors'[r], e)
    BY <1>5 DEF Has
  <2> SUFFICES ASSUME NEW g \in Fields, NEW n \in DOMAIN raised'[r][g], NEW m \in 1 .. raised'[r][g][n]
               PROVE  LET e == EventErr(g, n, m)
                      IN /\ \/ Has(errors'[r], e)
                            \/ \E i \in DOMAIN delivered[r] : Has(delivered[r][i].errors, e)
                         /\ \A i \in DOMAIN delivered[r] :
                              delivered[r][i].field = g /\ delivered[r][i].event = n =>
                                \E k \in 1 .. i : Has(delivered[r][k].errors, e)
    BY <1>1 DEF Reported, Has
  <2>2. CASE g = f /\ n = N
    <3>1. \A i \in DOMAIN delivered[r] : ~(delivered[r][i].field = g /\ delivered[r][i].event = n)
      BY <1>1, <1>7, <2>2 DEF ResponsesArePast, IsPast, Event
    <3>2. CASE m = M + 1
      <4>1. last \in DOMAIN errors'[r]
        BY <1>5
      <4>2. Has(errors'[r], EventErr(g, n, m))
        BY <1>5, <2>2, <3>2, <4>1 DEF Has
      <4> QED
        BY <3>1, <4>2
    <3>3. CASE m # M + 1
      <4>1. raised'[r][g][n] = M + 1 /\ raised[r][g][n] = M /\ n \in DOMAIN raised[r][g]
        BY <1>2, <1>3, <2>2
      <4>2. m \in 1 .. raised[r][g][n]
        BY <1>2, <3>3, <4>1
      <4> QED
        BY <1>7, <2>1, <3>1, <4>1, <4>2 DEF Reported
    <3> QED
      BY <3>2, <3>3
  <2>3. CASE ~(g = f /\ n = N)
    <3>1. n \in DOMAIN raised[r][g] /\ m \in 1 .. raised[r][g][n]
      BY <1>2, <1>3, <1>4, <2>3
    <3> QED
      BY <1>7, <2>1, <3>1 DEF Reported
  <2> QED
    BY <2>2, <2>3
<1>15. OwnEvents(r)'
  BY <1>1, <1>7 DEF OwnEvents
<1> QED
  BY <1>10, <1>12, <1>13, <1>14, <1>15

(* The response of an event takes the whole list, after the error that may *)
(* have reached its root.                                                  *)
LEMMA ResolvedStep ==
  ASSUME TypeOK, EventInHand, NEW r \in Reqs, NEW f \in Fields, FieldLocal(r, f), Derived(r),
         StreamInv(r), EventResolved(r, f)
  PROVE  (ListIsCurrent(r) /\ ResponsesArePast(r) /\ Apart(r) /\ Reported(r) /\ OwnEvents(r))'
<1> DEFINE N == Event(r, f)
           L == errors[r]
           root0 == EventErr(f, N, 0)
<1>1. PICK first \in {<< >>, <<root0>>} :
        Deliver(r, EventResponse(f, N, first = << >>, first \o L))
  BY DEF EventResolved, TakenErrors, Derived
<1> DEFINE es == first \o L
<1>2. /\ fpc[r][f] = "resolving" /\ UNCHANGED raised /\ errors'[r] = << >>
      /\ fpc'[r][f] = "open"
  BY TypeParts DEF EventResolved, Derived, LeftErrors, StreamTypes, AnswerTypes, SetField
<1>3. /\ N \in Nat /\ L \in Seq(ErrorsSeen(0)) /\ root0 \in ErrorsSeen(0)
  BY StreamState, EventErrTypes
<1>4. first \in Seq(ErrorsSeen(0)) /\ (first = << >> \/ first = <<root0>>)
  BY <1>1, <1>3, EventErrTypes
<1>5. es \in Seq(ErrorsSeen(0)) /\ DOMAIN es = 1 .. Len(first) + Len(L)
  BY <1>3, <1>4
<1>6. /\ Len(L) \in Nat /\ DOMAIN L = 1 .. Len(L) /\ Len(first) \in {0, 1}
      /\ Len(first) = 1 => first[1] = root0
  BY <1>3, <1>4
<1>7. \A j \in DOMAIN es : es[j] = IF j <= Len(first) THEN first[j] ELSE L[j - Len(first)]
  BY <1>3, <1>4, <1>5, <1>6
<1>8. ASSUME NEW j \in DOMAIN es
      PROVE  \/ j = 1 /\ Len(first) = 1 /\ es[j] = root0
             \/ j - Len(first) \in DOMAIN L /\ es[j] = L[j - Len(first)]
  BY <1>5, <1>6, <1>7
<1>9. \A k \in DOMAIN L : k + Len(first) \in DOMAIN es /\ es[k + Len(first)] = L[k]
  BY <1>5, <1>6, <1>7
<1>10. ListIsCurrent(r)
  BY DEF StreamInv
<1>11. root0.by = f /\ root0.event = N /\ root0.n = 0 /\ root0 = EventErr(root0.by, root0.event, root0.n)
  BY DEF EventErr
<1>12. \A k \in DOMAIN L :
         /\ IsCurrent(fpc[r], raised[r], L[k])
         /\ L[k].by \in Fields /\ L[k].event = Event(r, L[k].by)
         /\ L[k].n # 0 /\ L[k].event # 0 /\ L[k].n \in 1 .. raised[r][L[k].by][L[k].event]
         /\ L[k] = EventErr(L[k].by, L[k].event, L[k].n)
  <2> SUFFICES ASSUME NEW k \in DOMAIN L
               PROVE  /\ IsCurrent(fpc[r], raised[r], L[k])
                      /\ L[k].by \in Fields /\ L[k].event = Event(r, L[k].by)
                      /\ L[k].n # 0 /\ L[k].event # 0 /\ L[k].n \in 1 .. raised[r][L[k].by][L[k].event]
                      /\ L[k] = EventErr(L[k].by, L[k].event, L[k].n)
    OBVIOUS
  <2>1. IsCurrent(fpc[r], raised[r], L[k])
    BY <1>10 DEF ListIsCurrent
  <2>2. L[k].event = Event(r, L[k].by)
    BY <2>1 DEF IsCurrent, EventErr, Event
  <2>3. Event(r, L[k].by) # 0
    BY <2>1 DEF IsCurrent, EventInHand
  <2> QED
    BY <2>1, <2>2, <2>3 DEF IsCurrent, Event
<1>13. Distinct(es)
  <2> SUFFICES ASSUME NEW j \in DOMAIN es, NEW k \in DOMAIN es, es[j] = es[k] PROVE j = k
    BY DEF Distinct
  <2>1. CASE j = 1 /\ Len(first) = 1 /\ es[j] = root0
    BY <1>8, <1>11, <1>12, <2>1
  <2>2. CASE k = 1 /\ Len(first) = 1 /\ es[k] = root0
    BY <1>8, <1>11, <1>12, <2>2
  <2>3. CASE /\ j - Len(first) \in DOMAIN L /\ es[j] = L[j - Len(first)]
             /\ k - Len(first) \in DOMAIN L /\ es[k] = L[k - Len(first)]
    <3>1. j - Len(first) = k - Len(first)
      BY <1>10, <2>3 DEF ListIsCurrent, Distinct
    <3> QED
      BY <1>5, <1>6, <3>1
  <2> QED
    BY <1>8, <2>1, <2>2, <2>3
<1>14. \A j \in DOMAIN es : WasRaised(raised[r], es[j])
  <2>1. WasRaised(raised[r], root0)
    BY <1>3, <1>6, <1>11, StreamState DEF WasRaised, Event
  <2>2. \A k \in DOMAIN L : WasRaised(raised[r], L[k])
    BY <1>12, StreamState DEF WasRaised, Event
  <2> QED
    BY <1>8, <2>1, <2>2
<1>15. \A j \in DOMAIN es : es[j].n # 0 => Has(L, es[j])
  BY <1>8, <1>11 DEF Has
<1>16. \A e : Has(L, e) => Has(es, e)
  BY <1>9 DEF Has
<1>17. ASSUME NEW g \in Fields, Roots[doc[r]] = {g}, NEW j \in DOMAIN es
       PROVE  es[j].by = f /\ es[j].event = N
  <2>1. f = g
    BY <1>17 DEF FieldLocal
  <2>2. \A k \in DOMAIN L : L[k].by = f
    <3> SUFFICES ASSUME NEW k \in DOMAIN L PROVE L[k].by = f
      OBVIOUS
    <3>1. L[k].by \in Fields /\ fpc[r][L[k].by] = "resolving"
      BY <1>12 DEF IsCurrent
    <3> QED
      BY <1>17, <2>1, <3>1 DEF StreamInv, FieldsOfRoots, Derived
  <2> QED
    BY <1>8, <1>11, <1>12, <2>2
<1>18. N \in 0 .. Event(r, f)
  BY <1>3
<1> QED
  BY <1>1, <1>2, <1>5, <1>13, <1>14, <1>15, <1>16, <1>17, <1>18, DeliverStep

(* A stream that cannot start answers with the error that prevented it.    *)
LEMMA RefusedStep ==
  ASSUME TypeOK, NEW r \in Reqs, NEW f \in Fields, FieldLocal(r, f), Derived(r), StreamInv(r),
         fpc[r][f] # "resolving", fpc'[r][f] # "resolving", UNCHANGED <<errors, raised>>,
         Deliver(r, EventResponse(f, 0, FALSE, <<EventErr(f, 0, 0)>>))
  PROVE  (ListIsCurrent(r) /\ ResponsesArePast(r) /\ Apart(r) /\ Reported(r) /\ OwnEvents(r))'
<1> DEFINE es == <<EventErr(f, 0, 0)>>
<1>1. es \in Seq(ErrorsSeen(0)) /\ DOMAIN es = {1} /\ es[1] = EventErr(f, 0, 0)
  BY EventErrTypes
<1>2. es[1].by = f /\ es[1].event = 0 /\ es[1].n = 0
  BY <1>1 DEF EventErr
<1>3. 0 \in 0 .. Event(r, f)
  BY StreamState
<1>4. \A j \in DOMAIN es : WasRaised(raised[r], es[j])
  BY <1>1, <1>2, <1>3 DEF WasRaised, Event
<1>5. Distinct(es)
  BY <1>1 DEF Distinct
<1> HIDE DEF es
<1>6. Deliver(r, EventResponse(f, 0, FALSE, es))
  BY DEF es
<1>7. \A j \in DOMAIN es : es[j].n = 0 /\ es[j].by = f /\ es[j].event = 0
  BY <1>1, <1>2
<1>8. UNCHANGED raised /\ errors'[r] = errors[r]
  OBVIOUS
<1>9. \A j \in DOMAIN es : es[j].n # 0 => Has(errors[r], es[j])
  BY <1>7
<1>10. \A g \in Fields : Roots[doc[r]] = {g} => \A j \in DOMAIN es : es[j].by = f /\ es[j].event = 0
  BY <1>7
<1>11. /\ es \in Seq(ErrorsSeen(0)) /\ Distinct(es)
       /\ \A j \in DOMAIN es : WasRaised(raised[r], es[j])
       /\ \A j \in DOMAIN es : es[j].n # 0 => Has(errors[r], es[j])
       /\ errors'[r] = errors[r] /\ fpc[r][f] # "resolving" /\ \A j \in DOMAIN es : es[j].n = 0
  BY <1>1, <1>4, <1>5, <1>7, <1>8, <1>9
<1> QED
  BY <1>3, <1>6, <1>8, <1>10, <1>11, DeliverStep

\* A step of the stream of a field.
LEMMA FieldStepStream ==
  ASSUME TypeOK, IInv, EInv, NEW r \in Reqs, NEW f \in Fields, FieldStep(r, f)
  PROVE  EInv'
<1>1. StreamInv(r) /\ EventInHand
  BY DEF EInv, IInv
<1>2. FieldLocal(r, f)
  BY <1>1, FieldStepLocal DEF StreamInv
<1>3. ASSUME NEW s \in Reqs \ {r} PROVE StreamInv(s)'
  BY <1>2, StreamFrame DEF FieldLocal, EInv
<1>4. NotStreaming(r)' /\ FieldsOfRoots(r)'
  BY <1>1, <1>2 DEF FieldLocal, StreamInv, NotStreaming, FieldsOfRoots
<1>5. Derived(r)' <=> Derived(r)
  BY <1>2 DEF FieldLocal, Derived
<1>6. ASSUME Derived(r)
      PROVE  (ListIsCurrent(r) /\ ResponsesArePast(r) /\ Apart(r) /\ Reported(r) /\ OwnEvents(r))'
  <2>1. fpc \in [Reqs -> [Fields -> {"idle", "create", "open", "resolving", "done"}]]
    BY TypeParts DEF StreamTypes
  <2>2. CASE CollectStream(r, f)
    <3>1. /\ fpc[r][f] # "resolving" /\ fpc'[r][f] # "resolving" /\ UNCHANGED <<errors, raised>>
          /\ \/ UNCHANGED delivered
             \/ Deliver(r, EventResponse(f, 0, FALSE, <<EventErr(f, 0, 0)>>))
      BY <2>1, <2>2 DEF CollectStream, SetField
    <3> QED
      BY <1>1, <1>2, <1>6, <3>1, QuietStep, RefusedStep
  <2>3. CASE CreateFieldStream(r, f)
    <3>1. /\ fpc[r][f] # "resolving" /\ fpc'[r][f] # "resolving" /\ UNCHANGED <<errors, raised>>
          /\ \/ UNCHANGED delivered
             \/ Deliver(r, EventResponse(f, 0, FALSE, <<EventErr(f, 0, 0)>>))
      BY <2>1, <2>3 DEF CreateFieldStream, SetField
    <3> QED
      BY <1>1, <1>2, <1>6, <3>1, QuietStep, RefusedStep
  <2>4. CASE SourceEnds(r, f)
    <3>1. /\ fpc[r][f] # "resolving" /\ fpc'[r][f] # "resolving"
          /\ UNCHANGED <<errors, raised, delivered>>
      BY <1>6, <2>1, <2>4 DEF SourceEnds, SetField, Derived
    <3> QED
      BY <1>1, <1>2, <1>6, <3>1, QuietStep
  <2>5. CASE EventArrives(r, f)
    BY <1>1, <1>2, <1>6, <2>5, ArrivesStep
  <2>6. CASE EventAddError(r, f)
    BY <1>1, <1>2, <1>6, <2>6, AddErrorStep
  <2>7. CASE EventResolved(r, f)
    BY <1>1, <1>2, <1>6, <2>7, ResolvedStep
  <2> QED
    BY <2>2, <2>3, <2>4, <2>5, <2>6, <2>7 DEF FieldStep
<1>7. StreamInv(r)'
  BY <1>4, <1>5, <1>6 DEF StreamInv
<1> QED
  BY <1>3, <1>7 DEF EInv

\* Every step keeps the streams in order.
LEMMA StreamStep ==
  ASSUME TypeOK, IInv, EInv, [Next]_allVars PROVE EInv'
<1>0. pc \in [Reqs -> Labels] /\ errors \in [Reqs -> Seq(ErrorsSeen(0))]
  BY TypeParts DEF RequestTypes, AnswerTypes
<1>1. ASSUME NEW r \in Reqs, RequestStep(r), UNCHANGED streamVars PROVE EInv'
  BY <1>1, RequestStepStream
<1>2. ASSUME NEW r \in Reqs, AddError(r), UNCHANGED streamVars PROVE EInv'
  <2>1. ASSUME NEW s \in Reqs \ {r} PROVE StreamInv(s)'
    BY <1>0, <1>2, StreamFrame DEF AddError, EInv, streamVars
  <2>2. /\ pc[r] = "execute" /\ UNCHANGED <<pc, fpc, raised, delivered>>
    BY <1>2 DEF AddError, streamVars
  <2>3. NotStreaming(r)
    BY DEF EInv, StreamInv
  <2>4. StreamInv(r)'
    BY <2>2, <2>3 DEF StreamInv, NotStreaming, FieldsOfRoots, Derived
  <2> QED
    BY <2>1, <2>4 DEF EInv
<1>3. ASSUME CollectBatch, UNCHANGED streamVars PROVE EInv'
  <2>1. PICK r \in Reqs : pc[r] = "answered" /\ pc' = [pc EXCEPT ![r] = "collected"]
    BY <1>3 DEF CollectBatch, Batch, Goto
  <2>2. UNCHANGED <<req, doc, errors, fpc, raised, delivered>>
    BY <1>3 DEF CollectBatch, streamVars
  <2>3. ASSUME NEW s \in Reqs \ {r} PROVE StreamInv(s)'
    BY <1>0, <2>1, <2>2, StreamFrame DEF EInv
  <2>4. NotStreaming(r)
    BY DEF EInv, StreamInv
  <2>5. pc'[r] = "collected"
    BY <1>0, <2>1
  <2>6. StreamInv(r)'
    BY <2>1, <2>2, <2>4, <2>5 DEF StreamInv, NotStreaming, FieldsOfRoots, Derived
  <2> QED
    BY <2>3, <2>6 DEF EInv
<1>4. ASSUME NEW r \in Reqs, StreamEnds(r) PROVE EInv'
  <2>1. /\ pc[r] = "streaming" /\ pc'[r] = "closed"
        /\ UNCHANGED <<req, doc, errors, fpc, raised, delivered>>
        /\ \A s \in Reqs \ {r} : pc'[s] = pc[s]
    BY <1>0, <1>4 DEF StreamEnds, streamVars, PipelineUnchanged, Goto
  <2>2. ASSUME NEW s \in Reqs \ {r} PROVE StreamInv(s)'
    BY <2>1, StreamFrame DEF EInv
  <2>3. StreamInv(r)
    BY DEF EInv
  <2>4. NotStreaming(r)' /\ FieldsOfRoots(r)' /\ (Derived(r)' <=> Derived(r))
    BY <2>1, <2>3 DEF StreamInv, NotStreaming, FieldsOfRoots, Derived
  <2>5. ASSUME Derived(r)
        PROVE  (ListIsCurrent(r) /\ ResponsesArePast(r) /\ Apart(r) /\ Reported(r) /\ OwnEvents(r))'
    <3>1. ListIsCurrent(r)' /\ ResponsesArePast(r)'
      BY <2>1, <2>3, <2>5 DEF StreamInv, ListIsCurrent, ResponsesArePast, IsCurrent, IsPast,
                              WasRaised, Distinct
    <3>2. Apart(r)'
      BY <2>1, <2>3, <2>5 DEF StreamInv, Apart, Has
    <3>3. Reported(r)'
      <4>1. Reported(r) /\ UNCHANGED <<errors, raised, delivered>>
        BY <2>1, <2>3, <2>5 DEF StreamInv
      <4> QED
        BY <4>1 DEF Reported, Has
    <3>4. OwnEvents(r)'
      BY <2>1, <2>3, <2>5 DEF StreamInv, OwnEvents
    <3> QED
      BY <3>1, <3>2, <3>3, <3>4
  <2>6. StreamInv(r)'
    BY <2>4, <2>5 DEF StreamInv
  <2> QED
    BY <2>2, <2>6 DEF EInv
<1>5. ASSUME NEW r \in Reqs, NEW f \in Fields, FieldStep(r, f) PROVE EInv'
  BY <1>5, FieldStepStream
<1>6. ASSUME UNCHANGED allVars PROVE EInv'
  BY <1>6, StreamFrame DEF allVars, vars, streamVars, EInv
<1> QED
  BY <1>1, <1>2, <1>3, <1>4, <1>5, <1>6 DEF Next, PipelineNext

\* No stream exists initially.
LEMMA StreamsInit ==
  ASSUME ExecutionInit PROVE EInv
<1> SUFFICES ASSUME NEW r \in Reqs PROVE StreamInv(r)
  BY DEF EInv
<1> QED
  BY DEF ExecutionInit, Init, StreamInit, FieldRecord, StreamInv, NotStreaming, FieldsOfRoots, Derived

\* Two responses never show the same error, nor one response twice.
LEMMA OnePlace ==
  ASSUME TypeOK, NEW r \in Reqs, StreamInv(r), Derived(r),
         NEW f \in Fields, NEW n \in DOMAIN raised[r][f], NEW k \in 1 .. raised[r][f][n]
  PROVE  Cardinality(Places(r, EventErr(f, n, k), Len(delivered[r]))) <= 1
<1> DEFINE e == EventErr(f, n, k)
           P == Places(r, e, Len(delivered[r]))
<1>1. delivered[r] \in Seq(EventAnswers) /\ e.n # 0
  BY StreamState DEF EventErr
<1>2. \A p \in P : \E i \in DOMAIN delivered[r] : \E j \in DOMAIN delivered[r][i].errors :
        p = <<i, j>> /\ delivered[r][i].errors[j] = e
  BY <1>1 DEF Places
<1>3. ASSUME NEW p \in P, NEW q \in P PROVE p = q
  <2>1. PICK i \in DOMAIN delivered[r] : \E j \in DOMAIN delivered[r][i].errors :
          p = <<i, j>> /\ delivered[r][i].errors[j] = e
    BY <1>2
  <2>2. PICK j \in DOMAIN delivered[r][i].errors : p = <<i, j>> /\ delivered[r][i].errors[j] = e
    BY <2>1
  <2>3. PICK a \in DOMAIN delivered[r] : \E b \in DOMAIN delivered[r][a].errors :
          q = <<a, b>> /\ delivered[r][a].errors[b] = e
    BY <1>2
  <2>4. PICK b \in DOMAIN delivered[r][a].errors : q = <<a, b>> /\ delivered[r][a].errors[b] = e
    BY <2>3
  <2>5. a = i
    BY <1>1, <2>2, <2>4 DEF StreamInv, Apart, Has
  <2>6. j = b
    BY <2>2, <2>4, <2>5 DEF StreamInv, ResponsesArePast, IsPast, Distinct
  <2> QED
    BY <2>2, <2>4, <2>5, <2>6
<1>4. CASE P = {}
  BY <1>4, FS_EmptySet
<1>5. CASE P # {}
  <2>1. PICK p \in P : TRUE
    BY <1>5
  <2>2. P = {p}
    BY <1>3, <2>1
  <2>3. Cardinality({p}) = 1
    BY FS_Singleton
  <2> QED
    BY <2>2, <2>3
<1> QED
  BY <1>4, <1>5

\* The list of errors of a request, its responses and the events that raised
\* the errors stay in step, whichever streams of it are open.
THEOREM StreamInvariance == Spec => []EInv
<1>1. ExecutionInit => EInv
  BY StreamsInit
<1>2. TypeOK /\ IInv /\ EInv /\ [Next]_allVars => EInv'
  BY StreamStep
<1> QED
  BY <1>1, <1>2, Invariance, PTL DEF Spec

\* An error that an event reports leaves once, no later than the response of
\* that event; with one root field, in that response (create_field_stream,
\* QueryEnvInner::errors).
THEOREM EventErrorsHold == Spec => []EventErrors
<1>1. TypeOK /\ EInv => ErrorsReportedOnce
  <2> SUFFICES ASSUME TypeOK, EInv, NEW r \in Reqs, req[r].schema = "derived", NEW f \in Fields,
                      NEW n \in DOMAIN raised[r][f], NEW k \in 1 .. raised[r][f][n]
               PROVE  LET e == EventErr(f, n, k)
                      IN /\ Cardinality(Places(r, e, Len(delivered[r]))) <= 1
                         /\ \A i \in DOMAIN delivered[r] :
                              delivered[r][i].field = f /\ delivered[r][i].event = n =>
                                Places(r, e, i) # {}
    BY DEF ErrorsReportedOnce
  <2>1. StreamInv(r)
    BY DEF EInv
  <2>2. Derived(r)
    <3>1. raised[r][f] # << >>
      OBVIOUS
    <3> QED
      BY <2>1, <3>1 DEF StreamInv, NotStreaming, Derived
  <2>3. ASSUME NEW i \in DOMAIN delivered[r], delivered[r][i].field = f, delivered[r][i].event = n
        PROVE  Places(r, EventErr(f, n, k), i) # {}
    <3>1. PICK l \in 1 .. i : Has(delivered[r][l].errors, EventErr(f, n, k))
      BY <2>1, <2>2, <2>3 DEF StreamInv, Reported
    <3>2. PICK j \in DOMAIN delivered[r][l].errors : delivered[r][l].errors[j] = EventErr(f, n, k)
      BY <3>1 DEF Has
    <3>3. <<l, j>> \in Places(r, EventErr(f, n, k), i)
      BY <3>2 DEF Places
    <3> QED
      BY <3>3
  <2> QED
    BY <2>1, <2>2, <2>3, OnePlace
<1>2. TypeOK /\ EInv => OwnErrors
  <2> SUFFICES ASSUME TypeOK, EInv, NEW r \in Reqs, req[r].schema = "derived", doc[r] # None,
                      Cardinality(Roots[doc[r]]) = 1, NEW i \in DOMAIN delivered[r],
                      NEW k \in DOMAIN delivered[r][i].errors
               PROVE  /\ delivered[r][i].errors[k].by = delivered[r][i].field
                      /\ delivered[r][i].errors[k].event = delivered[r][i].event
    BY DEF OwnErrors
  <2>1. StreamInv(r)
    BY DEF EInv
  <2>2. Derived(r)
    BY <2>1 DEF StreamInv, NotStreaming, Derived
  <2>3. PICK g \in Fields : Roots[doc[r]] = {g}
    <3>1. Roots[doc[r]] \in SUBSET Fields /\ IsFiniteSet(Roots[doc[r]])
      BY StreamAssumption, TypeParts DEF StreamAssumption, RequestTypes
    <3> QED
      BY <3>1, FS_Singleton
  <2> QED
    BY <2>1, <2>2, <2>3 DEF StreamInv, OwnEvents
<1> QED
  BY <1>1, <1>2, Invariance, StreamInvariance, PTL DEF EventErrors

================================================================================
