----------------------------- MODULE Documents -----------------------------
(***************************************************************************)
(* One document on its way through prepare_request to the executor: the    *)
(* checks made while it is parsed, the validation, the choice of the       *)
(* operation, the removal of skipped selections and the collection of the  *)
(* fields that are resolved, on objects of every possible type.            *)
(***************************************************************************)
EXTENDS Validation

CONSTANT Families      \* the requests considered, a sequence of sets

VARIABLES stage,       \* how far the request is
          request,     \* [doc, selected, vars, mode, limits]
          document,    \* the document, pruned in the end
          operation,   \* the name of the operation that runs
          outcome,     \* "none" or why the request is refused
          cache,       \* the cache control of the response
          objects      \* the objects resolved, each with its collected fields

docVars == <<stage, request, document, operation, outcome, cache, objects>>

Stages == {"received", "parsed", "validated", "selected", "pruned", "executed", "refused"}

-----------------------------------------------------------------------------
(* The walks over a parsed document: each opens the spreads.               *)

Inner(d, sel) ==
    IF sel.kind # "spread" THEN sel.set
    ELSE IF sel.name \in DOMAIN d.frags THEN d.frags[sel.name].set ELSE <<>>

RECURSIVE TooDeep(_, _, _, _)
TooDeep(d, set, depth, max) ==
    \/ depth > max
    \/ \E i \in DOMAIN set : /\ Inner(d, set[i]) # <<>>
                             /\ TooDeep(d, Inner(d, set[i]), depth + 1, max)

RECURSIVE TooManyDirectives(_, _, _)
TooManyDirectives(d, set, max) ==
    \E i \in DOMAIN set :
       \/ set[i].kind = "field" /\ Len(set[i].dirs) > max
       \/ TooManyDirectives(d, Inner(d, set[i]), max)

(* The aliases are counted over all operations; the count is looked at     *)
(* after each selection.                                                   *)
RECURSIVE CountAliases(_, _, _)
CountAliases(d, set, count) ==
    LET Add(n, sel) ==
            CountAliases(d, Inner(d, sel), IF sel.kind = "field" /\ sel.alias # "" THEN n + 1 ELSE n)
    IN  FoldLeft(Add, count, set)

LimitGiven(limit) == limit # -1

ParseError(d, limits, order) ==
    CASE \E o \in DOMAIN d.ops : TooDeep(d, d.ops[o].set, 0, limits.recursion) -> "recursion"
      [] LimitGiven(limits.directives)
         /\ \E o \in DOMAIN d.ops : TooManyDirectives(d, d.ops[o].set, limits.directives) ->
            "directives"
      [] LimitGiven(limits.aliases)
         /\ FoldLeft(LAMBDA n, o : CountAliases(d, d.ops[o].set, n), 0, order) > limits.aliases ->
            "aliases"
      [] OTHER -> "none"

-----------------------------------------------------------------------------
(* @skip and @include.                                                     *)

Operation(d, o) == d.ops[o]

Condition(value, vars) ==
    /\ ReferencedVariables(value) \subseteq DOMAIN vars
    /\ IntoConst(value, vars) = <<"bool", TRUE>>

IsSkipped(dirs, vars) ==
    \E i \in DOMAIN dirs : \E j \in DOMAIN dirs[i].args :
       /\ dirs[i].name \in {"skip", "include"}
       /\ dirs[i].args[j][1] = "if"
       /\ (dirs[i].name = "include") # Condition(dirs[i].args[j][2], vars)

RECURSIVE RemoveSkipped(_, _)
RemoveSkipped(set, vars) ==
    LET kept == SelectSeq(set, LAMBDA sel : ~IsSkipped(sel.dirs, vars))
    IN  [i \in DOMAIN kept |->
           [kept[i] EXCEPT !.dirs = SelectSeq(@, LAMBDA d : d.name \notin {"skip", "include"}),
                           !.set = RemoveSkipped(@, vars)]]

\* Mutant of Prune: the fragments are left as they are.
PruneOperation(d, o, vars) ==
    [ops |-> o :> [d.ops[o] EXCEPT !.set = RemoveSkipped(@, vars)], frags |-> d.frags]

Prune(d, o, vars) ==
    [ops |-> o :> [d.ops[o] EXCEPT !.set = RemoveSkipped(@, vars)],
     frags |-> [f \in DOMAIN d.frags |-> [d.frags[f] EXCEPT !.set = RemoveSkipped(@, vars)]]]

-----------------------------------------------------------------------------
(* Fields::add_set: the fields collected on an object of type rt from a    *)
(* selection set resolved as type type (the object's own, or an interface  *)
(* or union), in order.  A fragment that does not exist is an error.       *)

RECURSIVE AddSet(_, _, _, _)
AddSet(d, set, type, rt) ==
    LET Selected(sel) ==
            LET known == sel.kind = "inline" \/ sel.name \in DOMAIN d.frags
                cond == IF sel.kind = "spread" THEN d.frags[sel.name].on ELSE sel.on
            IN  CASE sel.kind = "field" -> <<[kind |-> "field", sel |-> sel, type |-> type]>>
                  [] ~known -> <<[kind |-> "unknown_fragment", sel |-> sel, type |-> type]>>
                  [] cond = rt \/ cond \in Implements[rt] -> AddSet(d, Inner(d, sel), rt, rt)
                  [] cond = "" \/ cond = type -> AddSet(d, Inner(d, sel), type, rt)
                  [] OTHER -> <<>>
    IN  FlattenSeq([i \in DOMAIN set |-> Selected(set[i])])

(* Every object a request can resolve, with the path of response keys and  *)
(* static and runtime types that leads to it.                              *)
RECURSIVE ResolveContainer(_, _, _, _, _)
ResolveContainer(d, set, type, rt, path) ==
    LET fields == ToSet(AddSet(d, set, type, rt))
    IN  {[path |-> path, static |-> type, type |-> rt, fields |-> fields]}
        \union UNION {LET inner == FieldType(f.type, f.sel.name)
                      IN  IF f.kind = "field" /\ IsComposite(inner)
                          THEN UNION {ResolveContainer(d, f.sel.set, inner, r,
                                                       Append(path, <<ResponseKey(f.sel), inner, r>>)) :
                                        r \in PossibleTypes(inner)}
                          ELSE {} : f \in fields}

(* The values of the fields put together: those of one response key are    *)
(* merged.  Objects are functions from response keys, lists sequences.     *)
RECURSIVE InsertValue(_, _, _)
InsertValue(map, name, value) ==
    LET InsertAll(old, new) ==
            FoldLeft(LAMBDA m, key : InsertValue(m, key, new[key]), old, SetToSeq(DOMAIN new))
        old == map[name]
    IN  CASE name \notin DOMAIN map -> map @@ (name :> value)
          [] old[1] = "object" /\ value[1] = "object" ->
                [map EXCEPT ![name] = <<"object", InsertAll(old[2], value[2])>>]
          [] old[1] = "list" /\ value[1] = "list" ->
                [map EXCEPT ![name] =
                    <<"list", [i \in DOMAIN old[2] |->
                        IF i \in DOMAIN value[2] /\ old[2][i][1] = "object" /\ value[2][i][1] = "object"
                        THEN <<"object", InsertAll(old[2][i][2], value[2][i][2])>> ELSE old[2][i]]>>]
          [] OTHER -> map

(* The response when every resolver succeeds, an object of the static type *)
(* t has the runtime type that pick gives and a list has two items.        *)
Runtime(pick, type) == IF type \in DOMAIN pick THEN pick[type] ELSE type

RECURSIVE CreateValueObject(_, _, _, _, _)
CreateValueObject(d, set, type, rt, pick) ==
    LET FieldValue(f) ==
            LET inner == FieldType(f.type, f.sel.name)
                object == <<"object", CreateValueObject(d, f.sel.set, inner, Runtime(pick, inner), pick)>>
            IN  CASE f.sel.name = "__typename" \/ ~IsComposite(inner) -> <<"leaf">>
                  [] IsList(UnwrapNonNull(FieldOf(f.type, f.sel.name).ty)) ->
                        <<"list", <<object, object>>>>
                  [] OTHER -> object
    IN  FoldLeft(LAMBDA m, f : InsertValue(m, ResponseKey(f.sel), FieldValue(f)), <<>>,
                 AddSet(d, set, type, rt))

(* An argument as the resolver reads it: its variables replaced, an        *)
(* omitted one left out of an object, null in a list, and undefined alone. *)
RECURSIVE ResolveInputValue(_, _)
ResolveInputValue(value, vars) ==
    CASE value[1] = "var" -> IF value[2] \in DOMAIN vars THEN vars[value[2]] ELSE Undefined
      [] value[1] = "list" ->
            <<"list", [i \in DOMAIN value[2] |->
                         LET v == ResolveInputValue(value[2][i], vars)
                         IN  IF v = Undefined THEN Null ELSE v]>>
      [] value[1] = "object" ->
            LET given == {n \in DOMAIN value[2] : ResolveInputValue(value[2][n], vars) # Undefined}
            IN  <<"object", [n \in given |-> ResolveInputValue(value[2][n], vars)]>>
      [] OTHER -> value

IsInputObject(type) == Kind(type) = "InputObject"

(* get_param_value.                                                        *)
ParamOutcome(sel, name, def, op, vars) ==
    CASE Given(sel, name) = {} ->
            IF def.default \/ Parses(def.parsed, Undefined) THEN "ok" ELSE "missing"
      [] ~(ReferencedVariables(Argument(sel, name)) \subseteq {op.vars[i].name : i \in DOMAIN op.vars}) ->
            "undefined_variable"
      [] OTHER -> IF Parses(def.parsed, ResolveInputValue(Argument(sel, name), WithDefaults(op, vars)))
                  THEN "ok" ELSE "invalid"

(* Lookahead::field and SelectionField::selection_set, without types.      *)
RECURSIVE SelectionFields(_, _)
SelectionFields(d, set) ==
    UNION {IF set[i].kind = "field" THEN {set[i]} ELSE SelectionFields(d, Inner(d, set[i])) :
             i \in DOMAIN set}
LookaheadField(d, fields, name) ==
    UNION {{g \in SelectionFields(d, f.set) : g.name = name} : f \in fields}

-----------------------------------------------------------------------------
DocumentsInit ==
    /\ \E i \in DOMAIN Families : request \in Families[i]
    /\ document = request.doc
    /\ stage = "received"
    /\ operation = ""
    /\ outcome = "none"
    /\ cache = DefaultCache
    /\ objects = {}

RefuseWith(why) == stage' = "refused" /\ outcome' = why

Orders(S) == {q \in [1..Cardinality(S) -> S] : IsInjective(q)}

Parse ==
    /\ stage = "received"
    /\ \E order \in Orders(DOMAIN document.ops) :
          LET error == ParseError(document, request.limits, order)
          IN  IF error = "none" THEN stage' = "parsed" /\ UNCHANGED outcome ELSE RefuseWith(error)
    /\ UNCHANGED <<request, document, operation, cache, objects>>

Validate ==
    /\ stage = "parsed"
    /\ \E opOrder \in Orders(DOMAIN document.ops) : \E fragOrder \in Orders(DOMAIN document.frags) :
       \E result \in {CheckRules(document, request.selected, request.vars, request.mode,
                                request.limits, opOrder, fragOrder)} :
          IF result.error = "none"
          THEN stage' = "validated" /\ cache' = result.cache /\ UNCHANGED outcome
          ELSE RefuseWith(result.error) /\ UNCHANGED cache
    /\ UNCHANGED <<request, document, operation, objects>>

(* An anonymous document has one operation, which a name never selects.    *)
Selectable == IF request.selected = ""
              THEN IF Cardinality(DOMAIN document.ops) = 1 THEN DOMAIN document.ops ELSE {}
              ELSE {request.selected} \intersect (DOMAIN document.ops \ {""})

ChooseOperation ==
    /\ stage = "validated"
    /\ IF Selectable = {} THEN RefuseWith("operation") /\ UNCHANGED operation
       ELSE /\ operation' \in Selectable
            /\ stage' = "selected"
            /\ UNCHANGED outcome
    /\ UNCHANGED <<request, document, cache, objects>>

RemoveSkippedSelections ==
    /\ stage = "selected"
    /\ stage' = "pruned"
    /\ document' = Prune(document, operation, WithDefaults(Operation(document, operation), request.vars))
    /\ UNCHANGED <<request, operation, outcome, cache, objects>>

Execute ==
    /\ stage = "pruned"
    /\ stage' = "executed"
    /\ LET root == RootType(document, operation)
       IN  objects' = ResolveContainer(document, Operation(document, operation).set, root, root, <<>>)
    /\ UNCHANGED <<request, document, operation, outcome, cache>>

DocumentsNext == Parse \/ Validate \/ ChooseOperation \/ RemoveSkippedSelections \/ Execute

DocumentsSpec == DocumentsInit /\ [][DocumentsNext]_docVars

-----------------------------------------------------------------------------
(* Reference definitions: the graph of spreads as a relation, the limits   *)
(* without the early stop and the skipped selections left in place.        *)

Spreading(d) ==
    [s \in Scopes(d) |-> {t \in Scopes(d) : t[1] = "frag" /\ t[2] \in ToSet(SpreadSeq(SetOf(d, s)))}]
Reaches(d) ==
    LET next == Spreading(d)
        closed == {S \in SUBSET Scopes(d) : \A s \in S : next[s] \subseteq S}
    IN  [s \in Scopes(d) |->
            {t \in Scopes(d) : \A S \in closed : next[s] \subseteq S => t \in S}]
CyclicFrags(d) == LET reaches == Reaches(d)
                  IN  {f \in DOMAIN d.frags : <<"frag", f>> \in reaches[<<"frag", f>>]}
ReachedBy(d, o) == {<<"op", o>>} \union Reaches(d)[<<"op", o>>]

RECURSIVE Total(_, _, _, _)
Total(d, set, cur, vars) ==
    IF set = <<>> THEN 0
    ELSE LET sel == Head(set)
             below == CASE sel.kind = "field" -> Total(d, sel.set, FieldType(cur, sel.name), vars)
                        [] sel.kind = "inline" ->
                              Total(d, sel.set, IF sel.on = "" THEN cur ELSE Lookup(sel.on), vars)
                        [] sel.name \in DOMAIN d.frags ->
                              Total(d, d.frags[sel.name].set, Lookup(d.frags[sel.name].on), vars)
                        [] OTHER -> 0
             cost == CASE sel.kind # "field" -> below
                       [] sel.name = "__typename" -> 0
                       [] CustomComplexity(cur, sel.name) ->
                             Compute(FieldOf(cur, sel.name).complexity, sel, vars, below)
                       [] OTHER -> 1 + below
         IN  cost + Total(d, Tail(set), cur, vars)

RECURSIVE Depths(_, _, _, _)
Depths(d, set, cur, depth) ==
    {depth} \union
    UNION {LET sel == set[i]
               inner == CASE sel.kind = "field" -> FieldType(cur, sel.name)
                          [] sel.kind = "inline" -> IF sel.on = "" THEN cur ELSE Lookup(sel.on)
                          [] sel.name \in DOMAIN d.frags -> Lookup(d.frags[sel.name].on)
                          [] OTHER -> NoType
           IN  Depths(d, Inner(d, sel), inner,
                      IF sel.kind = "field" /\ sel.name # "__typename"
                      THEN depth + DepthCost(cur, sel.name) ELSE depth) : i \in DOMAIN set}

TotalOver(d) ==
    FoldSet(LAMBDA o, n : n + Total(d, d.ops[o].set, RootType(d, o), DeclaredValues(d, o, request.vars)),
            0, DOMAIN d.ops)
WithinLimits(d, limits) ==
    /\ LimitGiven(limits.complexity) => TotalOver(d) <= limits.complexity
    /\ LimitGiven(limits.depth) =>
          \A o \in DOMAIN d.ops : \A n \in Depths(d, d.ops[o].set, RootType(d, o), 0) :
             n <= limits.depth

RECURSIVE Unskipped(_, _, _, _, _, _)
Unskipped(d, set, type, rt, vars, path) ==
    UNION {LET sel == set[i]
               cond == IF sel.kind = "spread" THEN d.frags[sel.name].on ELSE sel.on
               inner == FieldType(type, sel.name)
           IN  CASE IsSkipped(sel.dirs, vars) -> {}
                 [] sel.kind = "field" ->
                      {<<path, ResponseKey(sel), sel.name>>} \union
                      UNION {Unskipped(d, sel.set, inner, r, vars,
                                       Append(path, <<ResponseKey(sel), inner, r>>)) :
                               r \in IF IsComposite(inner) THEN PossibleTypes(inner) ELSE {}}
                 [] cond = rt \/ cond \in Implements[rt] ->
                      Unskipped(d, Inner(d, sel), rt, rt, vars, path)
                 [] cond = "" \/ cond = type -> Unskipped(d, Inner(d, sel), type, rt, vars, path)
                 [] OTHER -> {} : i \in DOMAIN set}

(* The paths of the values in a response; in a list, those in every item.  *)
RECURSIVE KeyPaths(_)
KeyPaths(value) ==
    CASE value[1] = "object" ->
            UNION {{<<key>>} \union {<<key>> \o p : p \in KeyPaths(value[2][key])} :
                     key \in DOMAIN value[2]}
      [] value[1] = "list" ->
            {p \in KeyPaths(value[2][1]) : \A i \in DOMAIN value[2] : p \in KeyPaths(value[2][i])}
      [] OTHER -> {}

KeysOf(path) == [i \in DOMAIN path |-> path[i][1]]
Picks == LET abstract == {t \in DOMAIN Types : Kind(t) \in {"Interface", "Union"}}
         IN  {p \in [abstract -> UNION {PossibleTypes(t) : t \in abstract}] :
                \A t \in abstract : p[t] \in PossibleTypes(t)}

-----------------------------------------------------------------------------
(* No walk after check_recursive_depth can run forever: once a document is *)
(* parsed no cycle of fragments can be reached from any of its operations, *)
(* in fast mode too, where no rule looks at fragment definitions.          *)
WalksTerminate ==
    stage \notin {"received", "refused"} =>
        LET cyclic == CyclicFrags(document)
        IN  \A o \in DOMAIN document.ops : \A s \in ReachedBy(document, o) :
                s[1] = "frag" => s[2] \notin cyclic

(* NoFragmentCycles reports exactly the documents in which some fragment   *)
(* reaches itself, wherever the walk of the definitions starts.            *)
CyclesReported ==
    stage = "received" => \A order \in Orders(DOMAIN request.doc.frags) :
        NoFragmentCycles(request.doc, order) <=> CyclicFrags(request.doc) # {}

(* Fragment cycles are found before anything walks them: by the rule, and  *)
(* by the depth check when the rule does not run.                          *)
CyclesFound == CyclesReported /\ WalksTerminate

(* The rules on variables look, for each operation, at the arguments of    *)
(* the operation and of every fragment it reaches, through cycles too.     *)
VariablesTraced ==
    stage = "received" =>
        \A v \in {Visit(request.doc)} : \A o \in DOMAIN v.doc.ops :
            RootType(v.doc, o) # NoType =>
               UsedFrom(v, o) = UNION {UsedIn(v, s) : s \in ReachedBy(v.doc, o)}

(* Stopping at the first limit that is exceeded refuses exactly the        *)
(* documents whose whole complexity or depth is over the limit, in         *)
(* whatever order the map of the operations is walked.                     *)
LimitsExact ==
    stage = "parsed" =>
        \A order \in Orders(DOMAIN document.ops) :
        \A result \in {Calculate(document, request.vars, request.limits, order)} :
            WithinLimits(document, request.limits) <=>
               /\ ~Exceeds(result.sum, request.limits.complexity)
               /\ ~Exceeds(result.depth, request.limits.depth)

(* What strict validation accepts the executor can run: every collected    *)
(* field exists on the type it is resolved on, every spread fragment       *)
(* exists, no variable is undefined, no required argument is missing, and  *)
(* every argument is parsed, unless it is a variable without a value or    *)
(* holds one that the request leaves out: these are not looked at.  Null   *)
(* for a field with a default, which the schema shows as nullable, is the  *)
(* one value that is accepted and then fails.                              *)
AcceptedRuns ==
    (stage = "executed" /\ request.mode = "strict") =>
        LET op == Operation(document, operation)
            Unchecked(value) ==
                IF value[1] = "var" THEN value[2] \notin DOMAIN WithDefaults(op, request.vars)
                ELSE ~(ReferencedVariables(value) \subseteq DOMAIN request.vars)
            NullDefault(value) ==
                /\ value[1] = "object"
                /\ \E t \in DOMAIN Types : \E n \in DOMAIN value[2] :
                      /\ IsInputObject(t) /\ n \in DOMAIN Types[t].fields
                      /\ Types[t].fields[n].default /\ value[2][n] = Null
        IN  \A obj \in objects : \A f \in obj.fields :
               /\ f.kind = "field"
               /\ f.sel.name # "__typename" =>
                    /\ HasField(f.type, f.sel.name)
                    /\ \A a \in DOMAIN FieldArgs(f.type, f.sel.name) :
                          LET result == ParamOutcome(f.sel, a, FieldArgs(f.type, f.sel.name)[a],
                                                     op, request.vars)
                          IN  \/ result = "ok"
                              \/ /\ result = "invalid"
                                 /\ \/ Unchecked(Argument(f.sel, a))
                                    \/ NullDefault(Argument(f.sel, a))

(* Removing the skipped selections from the operation and from every       *)
(* fragment once, before the execution, resolves the fields that           *)
(* evaluating the directives at each place would resolve.                  *)
SkipsExact ==
    stage = "executed" =>
        LET vars == WithDefaults(Operation(request.doc, operation), request.vars)
            root == RootType(document, operation)
        IN  UNION {{<<obj.path, ResponseKey(f.sel), f.sel.name>> : f \in obj.fields} : obj \in objects}
            = Unskipped(request.doc, Operation(request.doc, operation).set, root, root, vars, <<>>)

(* The cache control of the response is at least as strict as that of      *)
(* every field that is resolved and of every object that is resolved as    *)
(* its own type.                                                           *)
CacheCovers ==
    stage = "executed" =>
        \A obj \in objects :
           /\ obj.static = obj.type => Merge(cache, Types[obj.type].cache) = cache
           /\ \A f \in obj.fields :
                 HasField(f.type, f.sel.name) =>
                    Merge(cache, FieldOf(f.type, f.sel.name).cache) = cache

(* A resolver that looks ahead sees every field that is resolved below it: *)
(* no field is collected on the object it returns that look_ahead misses.  *)
LookaheadComplete ==
    stage = "executed" =>
        \A obj \in objects : \A f \in obj.fields : \A below \in objects :
           (Len(below.path) = Len(obj.path) + 1 /\ below.path[Len(below.path)][1] = ResponseKey(f.sel)
              /\ SubSeq(below.path, 1, Len(obj.path)) = obj.path) =>
                \A g \in below.fields :
                   \E h \in obj.fields :
                      /\ ResponseKey(h.sel) = ResponseKey(f.sel)
                      /\ LookaheadField(document, {h.sel}, g.sel.name) # {}

(* Fields of one response key are resolved apart and their values merged:  *)
(* when no resolver fails, the response has a value for every field that   *)
(* was collected, at its path, in every item of a list, and nothing else.  *)
MergedResponse ==
    stage = "executed" =>
        LET root == RootType(document, operation)
        IN  \A pick \in Picks :
               KeyPaths(<<"object", CreateValueObject(document, Operation(document, operation).set, root, root, pick)>>)
               = UNION {{Append(KeysOf(obj.path), ResponseKey(f.sel)) : f \in obj.fields} :
                          obj \in {o \in objects : \A i \in DOMAIN o.path :
                                                   o.path[i][3] = Runtime(pick, o.path[i][2])}}

(* What is asked for and not skipped is resolved, announced to the         *)
(* resolvers that look ahead, and in the response, and nothing else is.    *)
ResponseComplete == SkipsExact /\ LookaheadComplete /\ MergedResponse
=============================================================================
