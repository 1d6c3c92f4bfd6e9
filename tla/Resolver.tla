------------------------------ MODULE Resolver ------------------------------
(***************************************************************************)
(* The execution of one query or mutation: the fields of an object are     *)
(* resolved concurrently (try_join_all) or, for a mutation and for an      *)
(* object marked `serial`, one after the other; a field that fails where   *)
(* null is not allowed drops its siblings and fails the object around it,  *)
(* up to a position that may be null; the errors are collected on the way. *)
(*                                                                         *)
(* A position is a place of the response: a field of an object or an item  *)
(* of a list, the root being the response's data.  Up[n] is n with the     *)
(* positions around it, the chain of path_nodes in its context.  The       *)
(* error path of a position is the position itself, and the root's path    *)
(* is the empty one.  Response keys are distinct: the merge of two         *)
(* selections of one key (insert_value) is not modelled.                   *)
(***************************************************************************)

CONSTANTS
  Positions,   \* the places a response to the request may have
  Root,        \* the response's data
  Up,          \* the positions at or around each position
  Earlier,     \* the siblings selected before a position, or the items before it
  Form,        \* how the code of a position reacts to errors
  Serial       \* the positions whose fields are resolved one after the other

Fields == {"value", "simple", "result", "option", "simple_result"}
Items  == {"item", "option_item", "result_item"}

Around(n)   == Up[n] \ {n}
Below(n)    == {m \in Positions : n \in Up[m]}
Children(n) == {c \in Positions : n # c /\ Up[c] = Up[n] \cup {c}}

\* The positions form a tree of finite depth, and siblings are ordered.
ASSUME TreeAssumption ==
  /\ Root \in Positions
  /\ Up \in [Positions -> SUBSET Positions]
  /\ \A n \in Positions : {n, Root} \subseteq Up[n]
  /\ \A n \in Positions : \A m \in Up[n] : Up[m] \subseteq Up[n]
  /\ \A n, m \in Positions : m \in Up[n] /\ n \in Up[m] => m = n
  /\ \A n \in Positions : \A chain \in SUBSET Up[n] :
       chain # {} => \E top \in chain : \A q \in chain : top \in Up[q]

ASSUME SiblingsAssumption ==
  /\ Earlier \in [Positions -> SUBSET Positions]
  /\ \A n \in Positions : n \notin Earlier[n]
  /\ \A n \in Positions : \A a \in Earlier[n] : \A p \in Positions : n \in Children(p) => a \in Children(p)

ASSUME FormAssumption ==
  /\ Form \in [Positions -> Fields \cup Items]
  /\ Form[Root] = "value"
  /\ Serial \subseteq Positions

VARIABLES
  fate,      \* what the user's code returns for each position, once it runs
  st,        \* where the future of each position is
  errors,    \* QueryEnv::errors, with the error the root returns
  answered   \* the response was built

vars == <<fate, st, errors, answered>>

-----------------------------------------------------------------------------
(***************************************************************************)
(* What each form of position does with errors.                            *)
(*                                                                         *)
(*   value          async fn f() -> T: resolve_field_async, not nullable   *)
(*   simple         fn f() -> T, or a field of a SimpleObject:             *)
(*                  resolve_simple_field_value                             *)
(*   result         Result<T>: resolve_field_async or                      *)
(*                  resolve_nullable_field_value                           *)
(*   option         Option<T>: Option::resolve                             *)
(*   simple_result  Result<T> in a SimpleObject, marked nullable           *)
(*   item           an item of a list of T: resolve_list                   *)
(*   option_item, result_item   an item of a list of Option<T>, Result<T>  *)
(***************************************************************************)

\* A failure of the position's own code (an Err, or a guard that denies) leaves null here.
OwnNull(n) == Form[n] \in {"result", "option", "simple_result", "result_item"}

\* An error of the positions below ends here; at the root, execute_once turns it into the response.
Catches(n) == n = Root \/ Form[n] \in {"result", "option", "option_item", "result_item"}

\* An error of the positions below goes on with this position's path: set_error_path.
Rewrites(n) == Form[n] \in {"simple", "simple_result", "item"}

\* An error without a path gets the one of the position that catches it: set_error_path_if_empty.
Completes(n) == Form[n] \in {"result", "result_item"}

\* What the code of a position can return.  A failed argument or directive fails the field before its own code runs.
Fates(n) ==
  IF n = Root THEN {"value"}
  ELSE {"value", "absent"}
         \cup (IF Form[n] \in {"option", "option_item"} THEN {"none"} ELSE {})
         \cup (IF Form[n] \in {"item", "option_item"} THEN {} ELSE {"error"})
         \cup (IF Form[n] \in {"value", "simple", "result", "option"} THEN {"argument"} ELSE {})
         \cup (IF Form[n] \in Fields THEN {"directive"} ELSE {})

Failures == {"error", "argument", "directive"}

-----------------------------------------------------------------------------
\* No field of the position or below it is still to be resolved.
Done(n) == \A m \in Below(n) : st[m] \notin {"idle", "running"}

\* The position where the error of n ends, when n does not keep it.
Nearest(c, n) == c \in Around(n) /\ Catches(c) /\ \A d \in Around(n) : Catches(d) => d \in Up[c]

\* The positions that give the error of n their own path on its way to c.
Rewriters(c, n) == {r \in Around(n) : Rewrites(r) /\ c \in Around(r)}

(***************************************************************************)
(* The path of the error of n when it reaches c: the outermost rewriter's, *)
(* or the one it started with, which a failed directive does not set.      *)
(***************************************************************************)
Carried(c, n) ==
  IF Rewriters(c, n) # {}
  THEN CHOOSE r \in Rewriters(c, n) : \A q \in Rewriters(c, n) : r \in Up[q]
  ELSE IF fate[n] = "directive" THEN Root ELSE n

Reported(c, n) == IF Carried(c, n) = Root /\ Completes(c) THEN c ELSE Carried(c, n)

\* Mutant of Cut: the siblings of a failed field are not dropped.
CutKeepsSiblings(n, s) == [st EXCEPT ![n] = s]

\* The future of n is ready with s, and the futures it was waiting for are dropped.
Cut(n, s) == [m \in Positions |-> IF m = n THEN s ELSE IF n \in Up[m] THEN "gone" ELSE st[m]]

-----------------------------------------------------------------------------
\* A list that ends before an item, or a fragment of another type, leaves a position out.
Init ==
  /\ fate \in {f \in [Positions -> {"value", "none", "absent"} \cup Failures] :
                 /\ \A n \in Positions : f[n] \in Fates(n)
                 /\ \A n \in Positions : \A a \in Earlier[n] :
                      Form[n] \in Items /\ f[a] = "absent" => f[n] = "absent"}
  /\ st = [n \in Positions |->
             IF n = Root THEN "running"
             ELSE IF \E a \in Up[n] : fate[a] = "absent" THEN "gone" ELSE "idle"]
  /\ errors = {}
  /\ answered = FALSE

\* Mutant of Start: the serial loop starts the next field without awaiting the one before.
StartInOrder(n) ==
  /\ st[n] = "idle"
  /\ \E p \in Positions : n \in Children(p) /\ st[p] = "resolved" /\ \A a \in Earlier[n] : st[a] # "idle"
  /\ st' = [st EXCEPT ![n] = "running"]
  /\ UNCHANGED <<fate, errors, answered>>

\* Mutant of Start: the serial loop goes on only after a value.
StartAfterValue(n) ==
  /\ st[n] = "idle"
  /\ \E p \in Positions :
       /\ n \in Children(p) /\ st[p] = "resolved"
       /\ \A a \in Earlier[n] : st[a] # "idle" /\ (p \in Serial => Done(a) /\ st[a] \in {"resolved", "gone"})
  /\ st' = [st EXCEPT ![n] = "running"]
  /\ UNCHANGED <<fate, errors, answered>>

(***************************************************************************)
(* The first poll of a field or an item: try_join_all polls them in order, *)
(* the serial loop awaits each before it goes on to the next.              *)
(***************************************************************************)
Start(n) ==
  /\ st[n] = "idle"
  /\ \E p \in Positions :
       /\ n \in Children(p) /\ st[p] = "resolved"
       /\ \A a \in Earlier[n] : st[a] # "idle" /\ (p \in Serial => Done(a))
  /\ st' = [st EXCEPT ![n] = "running"]
  /\ UNCHANGED <<fate, errors, answered>>

\* The code of the position returns a value; the positions in it come next.
Resolve(n) ==
  /\ st[n] = "running" /\ fate[n] = "value"
  /\ st' = [st EXCEPT ![n] = "resolved"]
  /\ UNCHANGED <<fate, errors, answered>>

\* The code returns None.
ReturnNone(n) ==
  /\ st[n] = "running" /\ fate[n] = "none"
  /\ st' = Cut(n, "null")
  /\ UNCHANGED <<fate, errors, answered>>

\* The code or the guard fails and the position may be null.
FailHere(n) ==
  /\ st[n] = "running" /\ fate[n] = "error" /\ OwnNull(n)
  /\ st' = Cut(n, "failed")
  /\ errors' = errors \cup {[at |-> n, path |-> n]}
  /\ UNCHANGED <<fate, answered>>

\* Mutant of FailUp: the object around the field becomes null, whether it may be or not.
FailUpOneLevel(n) ==
  /\ st[n] = "running" /\ fate[n] \in Failures
  /\ fate[n] = "error" => ~OwnNull(n)
  /\ \E c \in Around(n) :
       /\ n \in Children(c)
       /\ st' = Cut(c, "failed")
       /\ errors' = errors \cup {[at |-> n, path |-> Reported(c, n)]}
  /\ UNCHANGED <<fate, answered>>

\* Mutant of FailUp: an error without a path is lost.
FailUpLosesPathless(n) ==
  /\ st[n] = "running" /\ fate[n] \in Failures
  /\ fate[n] = "error" => ~OwnNull(n)
  /\ \E c \in Around(n) :
       /\ Nearest(c, n)
       /\ st' = Cut(c, "failed")
       /\ errors' = errors \cup {e \in {[at |-> n, path |-> Reported(c, n)]} : e.path # Root}
  /\ UNCHANGED <<fate, answered>>

\* The error leaves the position and fails everything up to the one that catches it.
FailUp(n) ==
  /\ st[n] = "running" /\ fate[n] \in Failures
  /\ fate[n] = "error" => ~OwnNull(n)
  /\ \E c \in Around(n) :
       /\ Nearest(c, n)
       /\ st' = Cut(c, "failed")
       /\ errors' = errors \cup {[at |-> n, path |-> Reported(c, n)]}
  /\ UNCHANGED <<fate, answered>>

\* execute_once builds the response from the root's result and the collected errors.
Respond ==
  /\ ~answered /\ Done(Root)
  /\ answered' = TRUE
  /\ UNCHANGED <<fate, st, errors>>

Step(n) == Start(n) \/ Resolve(n) \/ ReturnNone(n) \/ FailHere(n) \/ FailUp(n)

Next == Respond \/ \E n \in Positions : Step(n)

Spec == Init /\ [][Next]_vars

\* The executor polls the request, and the user's code returns.
Fairness == WF_vars(Respond) /\ \A n \in Positions : WF_vars(Step(n))

FairSpec == Spec /\ Fairness

-----------------------------------------------------------------------------
TypeOK ==
  /\ fate \in [Positions -> {"value", "none", "absent"} \cup Failures]
  /\ st \in [Positions -> {"idle", "running", "resolved", "null", "failed", "gone"}]
  /\ errors \subseteq [at : Positions, path : Positions]
  /\ answered \in BOOLEAN

(***************************************************************************)
(* A resolver runs, and a result is kept, only inside objects that are     *)
(* still part of the response: nothing goes on working for an object that  *)
(* has already become null (try_join_all drops the siblings).              *)
(***************************************************************************)
NoOrphanResolver ==
  \A n \in Positions : st[n] \in {"running", "resolved", "null", "failed"} =>
    \A m \in Around(n) : st[m] = "resolved"

(***************************************************************************)
(* The collected errors and the nulls of the response explain each other,  *)
(* although later failures remove positions with errors already reported:  *)
(* every null left by a failure has an error at or below it, and every     *)
(* error lies at or below such a null, by its path too when it has one.    *)
(***************************************************************************)
ErrorsMatchNulls ==
  /\ \A n \in Positions : st[n] = "failed" =>
       \E e \in errors : n \in Up[e.at] /\ (e.path # Root => n \in Up[e.path])
  /\ \A e \in errors : e.path \in Up[e.at] /\ \E n \in Up[e.at] :
       st[n] = "failed" /\ (e.path # Root => n \in Up[e.path])

\* No two errors of a response have the same path, apart from errors without one (add_error after set_error_path).
OneErrorPerPath == \A e, f \in errors : e.path = f.path /\ e.path # Root => e = f

\* The errors of a response and its nulls fit: each explains the other, and no two errors are of one path.
ErrorsFit == ErrorsMatchNulls /\ OneErrorPerPath

(***************************************************************************)
(* resolve_container_serial: a field of a mutation is touched only when    *)
(* everything below the fields before it is settled.                       *)
(***************************************************************************)
SerialFieldsDoNotOverlap ==
  \A p \in Serial : \A b \in Children(p) : \A a \in Earlier[b] :
    st[b] \notin {"idle", "gone"} => Done(a)

-----------------------------------------------------------------------------
\* The reference: what a response has to look like, from the results of the user's code alone.
Reached(n) == fate[n] # "absent" /\ \A m \in Around(n) : fate[m] = "value"

Hit(c) ==
  \E n \in Positions :
    /\ Reached(n) /\ fate[n] \in Failures
    /\ IF fate[n] = "error" /\ OwnNull(n) THEN c = n ELSE Nearest(c, n)

Expected(n) ==
  IF ~Reached(n) \/ (\E m \in Around(n) : Hit(m)) THEN "gone"
  ELSE IF Hit(n) THEN "failed"
  ELSE IF fate[n] = "none" THEN "null" ELSE "resolved"

(***************************************************************************)
(* The data of the response depends on what the resolvers return and not   *)
(* on the order in which they do, on which siblings were dropped before    *)
(* they failed, or on serial execution.                                    *)
(***************************************************************************)
DataIsDeterministic == answered => \A n \in Positions : st[n] = Expected(n)

(***************************************************************************)
(* The inductive invariant behind the properties above.                    *)
(***************************************************************************)

\* Every state of a future has its reason in what the user's code returns.
StatesHaveReasons ==
  /\ fate[Root] = "value"
  /\ \A n \in Positions :
       /\ fate[n] = "absent" => st[n] = "gone"
       /\ st[n] = "resolved" => fate[n] = "value"
       /\ st[n] = "null" => fate[n] = "none"
       /\ st[n] = "failed" => Hit(n) /\ ((OwnNull(n) /\ fate[n] = "error") \/ (Catches(n) /\ fate[n] = "value"))
       /\ st[n] = "gone" =>
            \/ \E m \in Up[n] : fate[m] = "absent"
            \/ \E m \in Around(n) : st[m] \in {"failed", "null"}

\* The position an error names takes no further step.
ReportedIsOver == \A e \in errors : e.path # Root => st[e.path] \in {"failed", "gone"}

IInv ==
  /\ NoOrphanResolver /\ StatesHaveReasons /\ ErrorsMatchNulls
  /\ ReportedIsOver /\ OneErrorPerPath /\ SerialFieldsDoNotOverlap
  /\ answered => Done(Root)

\* A request whose resolvers return is answered.
RequestAnswered == <>answered

=============================================================================
