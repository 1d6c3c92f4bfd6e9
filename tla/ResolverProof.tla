--------------------------- MODULE ResolverProof ---------------------------
(***************************************************************************)
(* Resolver, proved for every request, every schema and every result of    *)
(* the resolvers.                                                          *)
(***************************************************************************)
EXTENDS Resolver, TLAPS

\* What is around a position around n is around n (the chain of path_nodes).
LEMMA AroundTrans ==
  ASSUME NEW n \in Positions, NEW m \in Around(n)
  PROVE  /\ m \in Positions /\ m \in Up[n] /\ m # n /\ n \notin Up[m]
         /\ Up[m] \subseteq Up[n]
         /\ Around(m) \subseteq Around(n)
BY TreeAssumption DEF Around

\* A position has one parent.
LEMMA OneParent ==
  ASSUME NEW n \in Positions, NEW p \in Positions, NEW q \in Positions,
         n \in Children(p), n \in Children(q)
  PROVE  p = q /\ p \in Around(n) /\ Around(n) = Up[p]
<1>1. /\ Up[n] = Up[p] \cup {n} /\ Up[n] = Up[q] \cup {n}
      /\ p # n /\ q # n
  BY DEF Children
<1>2. p \in Up[q] /\ q \in Up[p]
  BY <1>1, TreeAssumption
<1>3. n \notin Up[p]
  <2>1. p \in Up[n]
    BY <1>1, TreeAssumption
  <2> QED
    BY <1>1, <2>1, TreeAssumption
<1> QED
  BY <1>1, <1>2, <1>3, TreeAssumption DEF Around

\* An error is reported with the path of a position around the one that failed, inside the one that catches it.
LEMMA ReportedPlace ==
  ASSUME NEW n \in Positions, NEW c \in Around(n)
  PROVE  /\ Reported(c, n) \in Up[n]
         /\ Reported(c, n) # Root => c \in Up[Reported(c, n)]
<1>1. c \in Up[n] /\ c \in Positions /\ c \in Up[c] /\ Root \in Up[n] /\ n \in Up[n]
  BY TreeAssumption DEF Around
<1>2. Carried(c, n) \in Up[n] /\ (Carried(c, n) # Root => c \in Up[Carried(c, n)])
  <2>1. CASE Rewriters(c, n) # {}
    <3>1. Rewriters(c, n) \in SUBSET Up[n]
      BY DEF Rewriters, Around
    <3>2. \E r \in Rewriters(c, n) : \A q \in Rewriters(c, n) : r \in Up[q]
      BY <2>1, <3>1, TreeAssumption
    <3>3. Carried(c, n) \in Rewriters(c, n)
      BY <2>1, <3>2 DEF Carried
    <3> QED
      BY <3>3 DEF Rewriters, Around
  <2>2. CASE Rewriters(c, n) = {}
    BY <1>1, <2>2 DEF Carried
  <2> QED
    BY <2>1, <2>2
<1> QED
  BY <1>1, <1>2 DEF Reported

-----------------------------------------------------------------------------
\* The first poll of a request is well typed.
LEMMA TypeInit == Init => TypeOK
<1> SUFFICES ASSUME Init PROVE TypeOK
  OBVIOUS
<1>1. fate \in [Positions -> {"value", "none", "absent"} \cup Failures]
  BY DEF Init
<1> QED
  BY <1>1 DEF Init, TypeOK

\* Every step of a resolver, and the response, keeps the types.
LEMMA TypeStep == TypeOK /\ [Next]_vars => TypeOK'
<1> SUFFICES ASSUME TypeOK, [Next]_vars PROVE TypeOK'
  OBVIOUS
<1>1. ASSUME NEW n \in Positions, Step(n) PROVE TypeOK'
  <2>1. CASE Start(n)
    BY <2>1 DEF Start, TypeOK
  <2>2. CASE Resolve(n)
    BY <2>2 DEF Resolve, TypeOK
  <2>3. CASE ReturnNone(n)
    BY <2>3 DEF ReturnNone, Cut, TypeOK
  <2>4. CASE FailHere(n)
    BY <2>4 DEF FailHere, Cut, TypeOK
  <2>5. CASE FailUp(n)
    <3>1. PICK c \in Around(n) :
            /\ st' = Cut(c, "failed")
            /\ errors' = errors \cup {[at |-> n, path |-> Reported(c, n)]}
      BY <2>5 DEF FailUp
    <3>2. Reported(c, n) \in Positions
      BY ReportedPlace, TreeAssumption
    <3>3. fate' = fate /\ answered' = answered
      BY <2>5 DEF FailUp
    <3> QED
      BY <3>1, <3>2, <3>3 DEF Cut, TypeOK
  <2> QED
    BY <1>1, <2>1, <2>2, <2>3, <2>4, <2>5 DEF Step
<1>2. CASE Respond
  BY <1>2 DEF Respond, TypeOK
<1>3. CASE UNCHANGED vars
  BY <1>3 DEF vars, TypeOK
<1> QED
  BY <1>1, <1>2, <1>3 DEF Next

\* Every variable stays in its type (the futures and errors of a request).
THEOREM TypeCorrect == Spec => []TypeOK
BY TypeInit, TypeStep, PTL DEF Spec

-----------------------------------------------------------------------------
(***************************************************************************)
(* A future that is ready, with what it was waiting for dropped            *)
(* (try_join_all, the `?` of the serial loop): what all endings share.     *)
(***************************************************************************)
LEMMA CutKeeps ==
  ASSUME TypeOK, IInv, NEW c \in Positions, NEW s \in {"null", "failed"},
         st[c] \in {"running", "resolved"}, st' = Cut(c, s), fate' = fate, answered' = answered,
         s = "null" => fate[c] = "none",
         s = "failed" => Hit(c) /\ ((OwnNull(c) /\ fate[c] = "error") \/ (Catches(c) /\ fate[c] = "value"))
  PROVE  /\ NoOrphanResolver' /\ StatesHaveReasons' /\ SerialFieldsDoNotOverlap'
         /\ answered' => Done(Root)'
         /\ \A n \in Positions : n # c /\ st'[n] = "failed" => st[n] = "failed"
         /\ \A n \in Positions : st[n] \in {"failed", "gone"} => st'[n] \in {"failed", "gone"}
<1>1. \A n \in Positions : st'[n] = IF n = c THEN s ELSE IF c \in Up[n] THEN "gone" ELSE st[n]
  BY DEF Cut
<1>2. \A m \in Around(c) : st[m] = "resolved"
  BY DEF IInv, NoOrphanResolver
<1>3. \A n \in Positions : st'[n] \in {"idle", "running"} => st[n] = st'[n]
  BY <1>1
<1>4. \A n \in Positions : Done(n) => Done(n)'
  BY <1>3 DEF Done, Below
<1>5. NoOrphanResolver'
  <2> SUFFICES ASSUME NEW n \in Positions, st'[n] \in {"running", "resolved", "null", "failed"},
                      NEW m \in Around(n)
               PROVE  st'[m] = "resolved"
    BY DEF NoOrphanResolver
  <2>1. m \in Positions /\ m \in Up[n] /\ Up[m] \subseteq Up[n] /\ n \notin Up[m] /\ m # n
    BY AroundTrans
  <2>2. CASE n = c
    BY <1>1, <1>2, <2>1, <2>2
  <2>3. CASE n # c
    <3>1. c \notin Up[n] /\ st'[n] = st[n]
      BY <1>1, <2>3
    <3>2. st[m] = "resolved"
      BY <3>1 DEF IInv, NoOrphanResolver
    <3> QED
      BY <1>1, <2>1, <3>1, <3>2
  <2> QED
    BY <2>2, <2>3
<1>6. StatesHaveReasons'
  <2>1. \A n \in Positions : Hit(n)' = Hit(n)
    BY DEF Hit, Reached
  <2> SUFFICES ASSUME NEW n \in Positions
               PROVE /\ fate[n] = "absent" => st'[n] = "gone"
                     /\ st'[n] = "resolved" => fate[n] = "value"
                     /\ st'[n] = "null" => fate[n] = "none"
                     /\ st'[n] = "failed" =>
                          Hit(n) /\ ((OwnNull(n) /\ fate[n] = "error") \/ (Catches(n) /\ fate[n] = "value"))
                     /\ st'[n] = "gone" => \/ \E m \in Up[n] : fate[m] = "absent"
                                          \/ \E m \in Around(n) : st'[m] \in {"failed", "null"}
    BY <2>1 DEF IInv, StatesHaveReasons
  <2>2. CASE n = c
    BY <1>1, <2>2 DEF IInv, StatesHaveReasons
  <2>3. CASE n # c /\ c \in Up[n]
    <3>1. c \in Around(n) /\ st'[c] = s /\ st'[n] = "gone"
      BY <1>1, <2>3 DEF Around
    <3> QED
      BY <3>1
  <2>4. CASE n # c /\ c \notin Up[n]
    <3>1. st'[n] = st[n]
      BY <1>1, <2>4
    <3>2. \A m \in Around(n) : st'[m] = st[m]
      BY <1>1, <2>4, AroundTrans
    <3> QED
      BY <3>1, <3>2 DEF IInv, StatesHaveReasons
  <2> QED
    BY <2>2, <2>3, <2>4
<1>7. SerialFieldsDoNotOverlap'
  <2> SUFFICES ASSUME NEW p \in Serial, NEW b \in Children(p), NEW a \in Earlier[b],
                      st'[b] \notin {"idle", "gone"}
               PROVE  Done(a)'
    BY DEF SerialFieldsDoNotOverlap
  <2>1. b \in Positions /\ a \in Positions
    BY SiblingsAssumption DEF Children
  <2>2. st[b] \notin {"idle", "gone"}
    BY <1>1, <2>1
  <2> QED
    BY <1>4, <2>1, <2>2 DEF IInv, SerialFieldsDoNotOverlap
<1>8. answered' => Done(Root)'
  BY <1>4, TreeAssumption DEF IInv
<1>9. /\ \A n \in Positions : n # c /\ st'[n] = "failed" => st[n] = "failed"
      /\ \A n \in Positions : st[n] \in {"failed", "gone"} => st'[n] \in {"failed", "gone"}
  BY <1>1
<1> QED
  BY <1>5, <1>6, <1>7, <1>8, <1>9

(***************************************************************************)
(* A failure of n that is caught at c and reported with the path p         *)
(* (add_error in each of the forms, execute_once at the root).             *)
(***************************************************************************)
LEMMA ErrorKeeps ==
  ASSUME TypeOK, IInv, NEW n \in Positions, st[n] = "running", NEW c \in Up[n], NEW p \in Up[n],
         p # Root => c \in Up[p],
         st' = Cut(c, "failed"), errors' = errors \cup {[at |-> n, path |-> p]}
  PROVE  ErrorsMatchNulls' /\ ReportedIsOver' /\ OneErrorPerPath'
<1> DEFINE new == [at |-> n, path |-> p]
<1>1. /\ c \in Positions /\ p \in Positions /\ Root \in Positions
      /\ \A m \in Positions : st'[m] = IF m = c THEN "failed" ELSE IF c \in Up[m] THEN "gone" ELSE st[m]
  BY TreeAssumption DEF Cut
<1>2. \A e \in errors : e.at \in Positions /\ e.path \in Positions
  BY DEF TypeOK
<1>3. \A e \in errors' : e \in errors \/ e = new
  OBVIOUS
<1>4. new \in errors' /\ new.at = n /\ new.path = p
  OBVIOUS
<1>5. \A m \in Positions : m # c /\ st'[m] = "failed" => st[m] = "failed"
  BY <1>1
<1>6. ErrorsMatchNulls'
  <2>1. ASSUME NEW m \in Positions, st'[m] = "failed"
        PROVE  \E e \in errors' : m \in Up[e.at] /\ (e.path # Root => m \in Up[e.path])
    <3>1. CASE m = c
      BY <1>4, <3>1
    <3>2. CASE m # c
      <4>1. PICK e \in errors : m \in Up[e.at] /\ (e.path # Root => m \in Up[e.path])
        BY <1>5, <2>1, <3>2 DEF IInv, ErrorsMatchNulls
      <4> QED
        BY <4>1
    <3> QED
      BY <3>1, <3>2
  <2>2. ASSUME NEW e \in errors
        PROVE  e.path \in Up[e.at] /\ \E m \in Up[e.at] : st'[m] = "failed" /\ (e.path # Root => m \in Up[e.path])
    <3>1. e.path \in Up[e.at]
      BY DEF IInv, ErrorsMatchNulls
    <3>2. PICK m \in Up[e.at] : st[m] = "failed" /\ (e.path # Root => m \in Up[e.path])
      BY DEF IInv, ErrorsMatchNulls
    <3>3. m \in Positions /\ Up[m] \subseteq Up[e.at] /\ (e.path # Root => Up[m] \subseteq Up[e.path])
      BY <1>2, <3>2, TreeAssumption
    <3>4. CASE c \in Up[m]
      <4>1. st'[c] = "failed" /\ c \in Up[e.at] /\ (e.path # Root => c \in Up[e.path])
        BY <1>1, <3>3, <3>4
      <4> QED
        BY <3>1, <4>1
    <3>5. CASE c \notin Up[m]
      <4>1. m # c
        BY <3>3, <3>5, TreeAssumption
      <4> QED
        BY <1>1, <3>1, <3>2, <3>3, <3>5, <4>1
    <3> QED
      BY <3>4, <3>5
  <2>3. new.path \in Up[new.at] /\ \E m \in Up[new.at] : st'[m] = "failed" /\ (new.path # Root => m \in Up[new.path])
    BY <1>1, <1>4
  <2> QED
    BY <1>3, <2>1, <2>2, <2>3 DEF ErrorsMatchNulls
<1>7. ReportedIsOver'
  <2>1. \A m \in Positions : st[m] \in {"failed", "gone"} => st'[m] \in {"failed", "gone"}
    BY <1>1
  <2>2. p # Root => st'[p] \in {"failed", "gone"}
    BY <1>1
  <2> QED
    BY <1>2, <1>3, <1>4, <2>1, <2>2 DEF IInv, ReportedIsOver
<1>8. OneErrorPerPath'
  <2>1. st[p] \in {"running", "resolved"}
    BY DEF IInv, NoOrphanResolver, Around
  <2>2. \A e \in errors : e.path = p => p = Root
    BY <2>1 DEF IInv, ReportedIsOver
  <2> QED
    BY <1>3, <1>4, <2>2 DEF IInv, OneErrorPerPath
<1> QED
  BY <1>6, <1>7, <1>8

\* A step that reports no error, removes no failed position and revives none.
LEMMA NoErrorKeeps ==
  ASSUME TypeOK, IInv, errors' = errors,
         \A m \in Positions : (st'[m] = "failed") = (st[m] = "failed"),
         \A m \in Positions : st[m] \in {"failed", "gone"} => st'[m] \in {"failed", "gone"}
  PROVE  ErrorsMatchNulls' /\ ReportedIsOver' /\ OneErrorPerPath'
<1>1. \A e \in errors : e.at \in Positions /\ e.path \in Positions /\ Up[e.at] \subseteq Positions
  BY TreeAssumption DEF TypeOK
<1>2. ErrorsMatchNulls'
  BY <1>1 DEF IInv, ErrorsMatchNulls
<1>3. ReportedIsOver' /\ OneErrorPerPath'
  BY <1>1 DEF IInv, ReportedIsOver, OneErrorPerPath
<1> QED
  BY <1>2, <1>3

\* The first poll of a field (Fields::add_set, resolve_container_inner).
LEMMA StartKeeps ==
  ASSUME TypeOK, IInv, NEW n \in Positions, Start(n)
  PROVE  IInv'
<1>1. /\ st[n] = "idle" /\ fate' = fate /\ errors' = errors /\ answered' = answered
      /\ \A m \in Positions : st'[m] = IF m = n THEN "running" ELSE st[m]
  BY DEF Start, TypeOK
<1>2. PICK p \in Positions :
        /\ n \in Children(p) /\ st[p] = "resolved"
        /\ \A a \in Earlier[n] : p \in Serial => Done(a)
  BY DEF Start
<1>3. \A m \in Around(n) : m \in Positions /\ st[m] = "resolved"
  BY <1>2, OneParent, AroundTrans DEF IInv, NoOrphanResolver, Around
<1>4. \A a \in Positions : Done(a) => Done(a)'
  <2> SUFFICES ASSUME NEW a \in Positions, Done(a), NEW m \in Positions, a \in Up[m]
               PROVE  st'[m] \notin {"idle", "running"}
    BY DEF Done, Below
  <2>1. st[m] \notin {"idle", "running"}
    BY DEF Done, Below
  <2> QED
    BY <1>1, <2>1
<1>5. NoOrphanResolver'
  <2> SUFFICES ASSUME NEW k \in Positions, st'[k] \in {"running", "resolved", "null", "failed"},
                      NEW m \in Around(k)
               PROVE  st'[m] = "resolved"
    BY DEF NoOrphanResolver
  <2>1. m \in Positions
    BY AroundTrans
  <2>2. st[m] = "resolved"
    BY <1>1, <1>3 DEF IInv, NoOrphanResolver
  <2> QED
    BY <1>1, <2>1, <2>2
<1>6. StatesHaveReasons'
  <2>1. \A k \in Positions : Hit(k)' = Hit(k)
    BY <1>1 DEF Hit, Reached
  <2>2. \A k \in Positions : \A m \in Around(k) : st[m] \in {"failed", "null"} => st'[m] = st[m]
    BY <1>1, AroundTrans
  <2>3. \A k \in Positions : st[k] \in {"resolved", "null", "failed", "gone"} \/ st'[k] \in {"resolved", "null", "failed", "gone"}
          => st'[k] = st[k]
    BY <1>1
  <2> QED
    BY <1>1, <2>1, <2>2, <2>3 DEF IInv, StatesHaveReasons
<1>7. SerialFieldsDoNotOverlap'
  <2> SUFFICES ASSUME NEW q \in Serial, NEW b \in Children(q), NEW a \in Earlier[b],
                      st'[b] \notin {"idle", "gone"}
               PROVE  Done(a)'
    BY DEF SerialFieldsDoNotOverlap
  <2>1. b \in Positions /\ a \in Positions /\ q \in Positions
    BY SiblingsAssumption, FormAssumption DEF Children
  <2>2. CASE b = n
    <3>1. p = q
      BY <1>2, <2>1, <2>2, OneParent
    <3> QED
      BY <1>2, <1>4, <2>1, <2>2, <3>1
  <2>3. CASE b # n
    BY <1>1, <1>4, <2>1, <2>3 DEF IInv, SerialFieldsDoNotOverlap
  <2> QED
    BY <2>2, <2>3
<1>8. answered' => Done(Root)'
  BY <1>1, <1>4, TreeAssumption DEF IInv
<1>9. ErrorsMatchNulls' /\ ReportedIsOver' /\ OneErrorPerPath'
  BY <1>1, NoErrorKeeps
<1> QED
  BY <1>5, <1>6, <1>7, <1>8, <1>9 DEF IInv

\* A field gets its value (resolve_field_async).
LEMMA ResolveKeeps ==
  ASSUME TypeOK, IInv, NEW n \in Positions, Resolve(n)
  PROVE  IInv'
<1>1. /\ st[n] = "running" /\ fate[n] = "value" /\ fate' = fate /\ errors' = errors /\ answered' = answered
      /\ \A m \in Positions : st'[m] = IF m = n THEN "resolved" ELSE st[m]
  BY DEF Resolve, TypeOK
<1>2. \A a \in Positions : Done(a) => Done(a)'
  BY <1>1 DEF Done, Below
<1>3. NoOrphanResolver'
  <2> SUFFICES ASSUME NEW k \in Positions, st'[k] \in {"running", "resolved", "null", "failed"},
                      NEW m \in Around(k)
               PROVE  st'[m] = "resolved"
    BY DEF NoOrphanResolver
  <2>1. m \in Positions
    BY AroundTrans
  <2>2. st[m] = "resolved"
    BY <1>1 DEF IInv, NoOrphanResolver
  <2> QED
    BY <1>1, <2>1, <2>2
<1>4. StatesHaveReasons'
  <2>1. \A k \in Positions : Hit(k)' = Hit(k)
    BY <1>1 DEF Hit, Reached
  <2>2. \A k \in Positions : \A m \in Around(k) : st[m] \in {"failed", "null"} => st'[m] = st[m]
    BY <1>1, AroundTrans
  <2>3. \A k \in Positions : st[k] \in {"null", "failed", "gone"} \/ st'[k] \in {"null", "failed", "gone"}
          => st'[k] = st[k]
    BY <1>1
  <2>4. \A k \in Positions : st'[k] = "resolved" => k = n \/ st[k] = "resolved"
    BY <1>1
  <2> QED
    BY <1>1, <2>1, <2>2, <2>3, <2>4 DEF IInv, StatesHaveReasons
<1>5. SerialFieldsDoNotOverlap'
  <2> SUFFICES ASSUME NEW q \in Serial, NEW b \in Children(q), NEW a \in Earlier[b],
                      st'[b] \notin {"idle", "gone"}
               PROVE  Done(a)'
    BY DEF SerialFieldsDoNotOverlap
  <2>1. b \in Positions /\ a \in Positions
    BY SiblingsAssumption DEF Children
  <2>2. st[b] \notin {"idle", "gone"}
    BY <1>1, <2>1
  <2> QED
    BY <1>2, <2>1, <2>2 DEF IInv, SerialFieldsDoNotOverlap
<1>6. answered' => Done(Root)'
  BY <1>1, <1>2, TreeAssumption DEF IInv
<1>7. ErrorsMatchNulls' /\ ReportedIsOver' /\ OneErrorPerPath'
  BY <1>1, NoErrorKeeps
<1> QED
  BY <1>3, <1>4, <1>5, <1>6, <1>7 DEF IInv

-----------------------------------------------------------------------------
\* The root of a request is polled first, and no error exists.
LEMMA InvInit == Init => IInv
<1> SUFFICES ASSUME Init PROVE IInv
  OBVIOUS
<1>1. /\ errors = {} /\ answered = FALSE
      /\ \A n \in Positions : fate[n] \in Fates(n)
      /\ st = [n \in Positions |-> IF n = Root THEN "running"
                ELSE IF \E a \in Up[n] : fate[a] = "absent" THEN "gone" ELSE "idle"]
  BY DEF Init
<1>2. \A n \in Positions : st[n] = IF n = Root THEN "running"
                ELSE IF \E a \in Up[n] : fate[a] = "absent" THEN "gone" ELSE "idle"
  BY <1>1
<1>3. NoOrphanResolver
  <2>1. Around(Root) = {}
    BY TreeAssumption DEF Around
  <2> QED
    BY <1>2, <2>1 DEF NoOrphanResolver
<1>4. StatesHaveReasons
  <2>1. fate[Root] = "value"
    BY <1>1, TreeAssumption DEF Fates
  <2>2. \A n \in Positions : n \in Up[n]
    BY TreeAssumption
  <2>3. \A n \in Positions : st[n] \in {"running", "gone", "idle"}
    BY <1>2
  <2>4. \A n \in Positions : fate[n] = "absent" => st[n] = "gone"
    BY <1>2, <2>1, <2>2
  <2>5. \A n \in Positions : st[n] = "gone" => \E m \in Up[n] : fate[m] = "absent"
    BY <1>2
  <2> QED
    BY <2>1, <2>3, <2>4, <2>5 DEF StatesHaveReasons
<1>5. ErrorsMatchNulls /\ ReportedIsOver /\ OneErrorPerPath
  BY <1>1, <1>2 DEF ErrorsMatchNulls, ReportedIsOver, OneErrorPerPath
<1>6. SerialFieldsDoNotOverlap
  <2> SUFFICES ASSUME NEW p \in Serial, NEW b \in Children(p) PROVE st[b] \in {"idle", "gone"}
    BY DEF SerialFieldsDoNotOverlap
  <2>1. b \in Positions /\ p \in Positions /\ p # b /\ p \in Up[b]
    BY TreeAssumption, FormAssumption DEF Children
  <2>2. b # Root
    BY <2>1, TreeAssumption
  <2> QED
    BY <1>2, <2>1, <2>2
<1> QED
  BY <1>1, <1>3, <1>4, <1>5, <1>6 DEF IInv

\* A running position is one the results of the user's code lead to.
LEMMA RunningIsReached ==
  ASSUME TypeOK, IInv, NEW n \in Positions, st[n] = "running"
  PROVE  Reached(n) /\ \A m \in Around(n) : st[m] = "resolved" /\ fate[m] = "value"
<1>1. \A m \in Around(n) : m \in Positions /\ st[m] = "resolved"
  BY AroundTrans DEF IInv, NoOrphanResolver
<1> QED
  BY <1>1 DEF IInv, StatesHaveReasons, Reached

\* Every step of a resolver, and the response, keeps the inductive invariant.
LEMMA InvStep == TypeOK /\ IInv /\ [Next]_vars => IInv'
<1> SUFFICES ASSUME TypeOK, IInv, [Next]_vars PROVE IInv'
  OBVIOUS
<1>1. ASSUME NEW n \in Positions, Step(n) PROVE IInv'
  <2>1. CASE Start(n)
    BY <2>1, StartKeeps
  <2>2. CASE Resolve(n)
    BY <2>2, ResolveKeeps
  <2>3. CASE ReturnNone(n)
    <3>1. /\ st[n] = "running" /\ fate[n] = "none" /\ st' = Cut(n, "null")
          /\ fate' = fate /\ errors' = errors /\ answered' = answered
      BY <2>3 DEF ReturnNone
    <3>2. /\ NoOrphanResolver' /\ StatesHaveReasons' /\ SerialFieldsDoNotOverlap'
          /\ answered' => Done(Root)'
          /\ \A m \in Positions : st[m] \in {"failed", "gone"} => st'[m] \in {"failed", "gone"}
      BY <3>1, CutKeeps
    <3>3. \A m \in Positions : (st'[m] = "failed") = (st[m] = "failed")
      BY <3>1 DEF Cut, IInv, NoOrphanResolver, Around
    <3> QED
      BY <3>1, <3>2, <3>3, NoErrorKeeps DEF IInv
  <2>4. CASE FailHere(n)
    <3>1. /\ st[n] = "running" /\ fate[n] = "error" /\ OwnNull(n) /\ st' = Cut(n, "failed")
          /\ fate' = fate /\ errors' = errors \cup {[at |-> n, path |-> n]} /\ answered' = answered
      BY <2>4 DEF FailHere
    <3>2. Hit(n)
      BY <3>1, RunningIsReached DEF Hit, Failures
    <3>3. NoOrphanResolver' /\ StatesHaveReasons' /\ SerialFieldsDoNotOverlap' /\ (answered' => Done(Root)')
      BY <3>1, <3>2, CutKeeps
    <3>4. n \in Up[n]
      BY TreeAssumption
    <3> QED
      BY <3>1, <3>3, <3>4, ErrorKeeps DEF IInv
  <2>5. CASE FailUp(n)
    <3>1. /\ st[n] = "running" /\ fate[n] \in Failures /\ (fate[n] = "error" => ~OwnNull(n))
          /\ fate' = fate /\ answered' = answered
      BY <2>5 DEF FailUp
    <3>2. PICK c \in Around(n) :
            /\ Nearest(c, n) /\ st' = Cut(c, "failed")
            /\ errors' = errors \cup {[at |-> n, path |-> Reported(c, n)]}
      BY <2>5 DEF FailUp
    <3>3. c \in Positions /\ c \in Up[n] /\ st[c] = "resolved" /\ fate[c] = "value" /\ Catches(c)
      BY <3>1, <3>2, AroundTrans, RunningIsReached DEF Nearest
    <3>4. Hit(c)
      BY <3>1, <3>2, RunningIsReached DEF Hit
    <3>5. NoOrphanResolver' /\ StatesHaveReasons' /\ SerialFieldsDoNotOverlap' /\ (answered' => Done(Root)')
      BY <3>1, <3>2, <3>3, <3>4, CutKeeps
    <3>6. Reported(c, n) \in Up[n] /\ (Reported(c, n) # Root => c \in Up[Reported(c, n)])
      BY ReportedPlace
    <3> QED
      BY <3>1, <3>2, <3>3, <3>5, <3>6, ErrorKeeps DEF IInv
  <2> QED
    BY <1>1, <2>1, <2>2, <2>3, <2>4, <2>5 DEF Step
<1>2. CASE Respond
  BY <1>2 DEF Respond, IInv, NoOrphanResolver, StatesHaveReasons, Hit, Reached, ErrorsMatchNulls,
              ReportedIsOver, OneErrorPerPath, SerialFieldsDoNotOverlap, Done
<1>3. CASE UNCHANGED vars
  BY <1>3 DEF vars, IInv, NoOrphanResolver, StatesHaveReasons, Hit, Reached, ErrorsMatchNulls,
              ReportedIsOver, OneErrorPerPath, SerialFieldsDoNotOverlap, Done
<1> QED
  BY <1>1, <1>2, <1>3 DEF Next

\* The inductive invariant: the states of the futures, their reasons and the errors fit together.
THEOREM Invariance == Spec => [](TypeOK /\ IInv)
<1>1. Init => TypeOK /\ IInv
  BY TypeInit, InvInit
<1>2. TypeOK /\ IInv /\ [Next]_vars => (TypeOK /\ IInv)'
  BY TypeStep, InvStep
<1> QED
  BY <1>1, <1>2, PTL DEF Spec

\* No resolver works for an object that has become null (try_join_all drops the siblings).
THEOREM NothingWorksForANull == Spec => []NoOrphanResolver
<1>1. TypeOK /\ IInv => NoOrphanResolver
  BY DEF IInv
<1> QED
  BY <1>1, Invariance, PTL

\* Errors and nulls explain each other in every order of failures, and no two errors have the same
\* path (add_error, execute_once, set_error_path and its three uses).
THEOREM ErrorsAndNullsFit == Spec => []ErrorsFit
<1>1. TypeOK /\ IInv => ErrorsFit
  BY DEF IInv, ErrorsFit
<1> QED
  BY <1>1, Invariance, PTL

\* The fields of a mutation run one after the other, with all that is below them (resolve_container_serial).
THEOREM MutationsAreSerial == Spec => []SerialFieldsDoNotOverlap
<1>1. TypeOK /\ IInv => SerialFieldsDoNotOverlap
  BY DEF IInv
<1> QED
  BY <1>1, Invariance, PTL

-----------------------------------------------------------------------------
\* Once everything is settled, a position where some error must end is null or inside a null.
LEMMA HitIsOver ==
  ASSUME TypeOK, IInv, Done(Root), NEW c \in Positions, Hit(c)
  PROVE  st[c] \in {"failed", "gone"}
<1>1. \A n \in Positions : st[n] \in {"resolved", "null", "failed", "gone"}
  BY TreeAssumption DEF TypeOK, Done, Below
<1>2. PICK n \in Positions :
        /\ Reached(n) /\ fate[n] \in Failures
        /\ IF fate[n] = "error" /\ OwnNull(n) THEN c = n ELSE Nearest(c, n)
  BY DEF Hit
<1>3. st[n] \in {"failed", "gone"}
  BY <1>1, <1>2 DEF IInv, StatesHaveReasons, Failures
<1>4. CASE fate[n] = "error" /\ OwnNull(n)
  BY <1>2, <1>3, <1>4
<1>5. CASE ~(fate[n] = "error" /\ OwnNull(n))
  <2>1. Nearest(c, n)
    BY <1>2, <1>5
  <2>2. st[n] = "gone"
    BY <1>2, <1>3, <1>5 DEF IInv, StatesHaveReasons, Failures
  <2>3. \A m \in Up[n] : fate[m] # "absent"
    BY <1>2 DEF Reached, Around, Failures
  <2>4. PICK m \in Around(n) : st[m] \in {"failed", "null"}
    BY <2>2, <2>3 DEF IInv, StatesHaveReasons
  <2>5. m \in Positions /\ fate[m] = "value"
    BY <1>2, <2>4, AroundTrans DEF Reached
  <2>6. st[m] = "failed" /\ Catches(m)
    BY <2>4, <2>5 DEF IInv, StatesHaveReasons
  <2>7. m \in Up[c]
    BY <2>1, <2>4, <2>6 DEF Nearest
  <2>8. CASE m = c
    BY <2>6, <2>8
  <2>9. CASE m # c
    BY <1>1, <2>6, <2>7, <2>9 DEF IInv, NoOrphanResolver, Around
  <2> QED
    BY <2>8, <2>9
<1> QED
  BY <1>4, <1>5

\* The settled states are the ones the reference gives.
LEMMA SettledAsExpected ==
  ASSUME TypeOK, IInv, Done(Root), NEW n \in Positions
  PROVE  st[n] = Expected(n)
<1>1. st[n] \in {"resolved", "null", "failed", "gone"}
  BY TreeAssumption DEF TypeOK, Done, Below
<1>2. CASE st[n] # "gone"
  <2>1. \A m \in Around(n) : m \in Positions /\ st[m] = "resolved"
    BY <1>1, <1>2, AroundTrans DEF IInv, NoOrphanResolver
  <2>2. Reached(n)
    BY <1>2, <2>1 DEF IInv, StatesHaveReasons, Reached
  <2>3. \A m \in Around(n) : ~Hit(m)
    BY <2>1, HitIsOver
  <2>4. CASE st[n] = "failed"
    BY <2>2, <2>3, <2>4 DEF IInv, StatesHaveReasons, Expected
  <2>5. CASE st[n] = "null"
    <3>1. ~Hit(n) /\ fate[n] = "none"
      BY <2>5, HitIsOver DEF IInv, StatesHaveReasons
    <3> QED
      BY <2>2, <2>3, <2>5, <3>1 DEF Expected
  <2>6. CASE st[n] = "resolved"
    <3>1. ~Hit(n) /\ fate[n] = "value"
      BY <2>6, HitIsOver DEF IInv, StatesHaveReasons
    <3> QED
      BY <2>2, <2>3, <2>6, <3>1 DEF Expected
  <2> QED
    BY <1>1, <1>2, <2>4, <2>5, <2>6
<1>3. CASE st[n] = "gone"
  <2>1. CASE \E m \in Up[n] : fate[m] = "absent"
    <3>1. ~Reached(n)
      BY <2>1 DEF Reached, Around
    <3> QED
      BY <1>3, <3>1 DEF Expected
  <2>2. CASE \E m \in Around(n) : st[m] \in {"failed", "null"}
    <3>1. PICK m \in Around(n) : st[m] \in {"failed", "null"}
      BY <2>2
    <3>2. m \in Positions
      BY AroundTrans
    <3>3. Hit(m) \/ ~Reached(n)
      BY <3>1, <3>2 DEF IInv, StatesHaveReasons, Reached
    <3> QED
      BY <1>3, <3>3 DEF Expected
  <2> QED
    BY <1>3, <2>1, <2>2 DEF IInv, StatesHaveReasons
<1> QED
  BY <1>2, <1>3

\* The data of a response does not depend on the order in which resolvers return (try_join_all, execute_once).
THEOREM OrderDoesNotMatter == Spec => []DataIsDeterministic
<1>1. TypeOK /\ IInv => DataIsDeterministic
  BY SettledAsExpected DEF IInv, DataIsDeterministic
<1> QED
  BY <1>1, Invariance, PTL

=============================================================================
