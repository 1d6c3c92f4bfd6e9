----------------------------- MODULE Validation -----------------------------
(***************************************************************************)
(* Validation of an executable document (src/validation): the visitor, the *)
(* rules that strict mode runs and the calculation of the limits.          *)
(*                                                                         *)
(* A document is [ops, frags]: ops maps operation names ("" is the one of  *)
(* an anonymous document) to [kind, vars, dirs, set] and frags maps names  *)
(* to [on, dirs, set].  A selection set is a sequence of selections        *)
(* [kind, name, alias, on, args, dirs, set], args a sequence of            *)
(* <<name, value>> and dirs a sequence of [name, args].                    *)
(***************************************************************************)
EXTENDS SchemaTypes, SequencesExt

CONSTANT MaxUsize       \* the largest usize

Scopes(doc) == {<<"op", o>> : o \in DOMAIN doc.ops}
               \union {<<"frag", f>> : f \in DOMAIN doc.frags}
RootType(doc, o) == RootTypes[doc.ops[o].kind]

-----------------------------------------------------------------------------
(* The visitor.  Visiting a selection set yields its nodes, each with the  *)
(* type that the type stack holds for it (cur), the one below (par) and    *)
(* the operation or fragment it stands in.                                 *)

Node(sel, par, cur, scope) == [sel |-> sel, par |-> par, cur |-> cur, scope |-> scope]

RECURSIVE VisitSelectionSet(_, _, _)
VisitSelectionSet(set, cur, scope) ==
    UNION {LET sel == set[i]
               inner == CASE sel.kind = "field" -> FieldType(cur, sel.name)
                          [] sel.kind = "inline" /\ sel.on # "" -> Lookup(sel.on)
                          [] OTHER -> cur
           IN  {Node(sel, cur, inner, scope)}
               \union VisitSelectionSet(sel.set, inner, scope) : i \in DOMAIN set}

Nodes(doc) ==
    UNION ({VisitSelectionSet(doc.frags[f].set, Lookup(doc.frags[f].on), <<"frag", f>>) :
              f \in DOMAIN doc.frags}
           \union
           {VisitSelectionSet(doc.ops[o].set, RootType(doc, o), <<"op", o>>) :
              o \in {p \in DOMAIN doc.ops : RootType(doc, p) # NoType}})

IsTypename(n) == n.sel.kind = "field" /\ n.sel.name = "__typename"

(* The directives that are visited, each with the location on top of the   *)
(* location stack.                                                         *)
Location(sel) == CASE sel.kind = "field" -> "FIELD"
                   [] sel.kind = "spread" -> "FRAGMENT_SPREAD"
                   [] OTHER -> "INLINE_FRAGMENT"

VisitedDirectives(doc) ==
    UNION ({{<<n.sel.dirs[i], Location(n.sel), n.scope>> : i \in DOMAIN n.sel.dirs} :
               n \in {m \in Nodes(doc) : ~IsTypename(m)}}
           \union {{<<doc.frags[f].dirs[i], "FRAGMENT_DEFINITION", <<"frag", f>>>> :
                       i \in DOMAIN doc.frags[f].dirs} : f \in DOMAIN doc.frags}
           \union {{<<doc.ops[o].dirs[i], doc.ops[o].kind, <<"op", o>>>> :
                       i \in DOMAIN doc.ops[o].dirs} :
                     o \in {p \in DOMAIN doc.ops : RootType(doc, p) # NoType}})

(* Every argument that is visited: its definition, if there is one, its    *)
(* value and its scope.                                                    *)
Unknown == <<>>
ArgDef(args, name) == IF name \in DOMAIN args THEN args[name] ELSE Unknown
DirectiveArgs(d) == IF d.name \in DOMAIN Directives THEN Directives[d.name].args ELSE <<>>

VisitedArguments(doc) ==
    UNION ({{[def |-> IF HasField(n.par, n.sel.name)
                      THEN ArgDef(FieldArgs(n.par, n.sel.name), n.sel.args[i][1])
                      ELSE Unknown,
              value |-> n.sel.args[i][2], scope |-> n.scope] : i \in DOMAIN n.sel.args} :
               n \in {m \in Nodes(doc) : m.sel.kind = "field" /\ ~IsTypename(m)}}
           \union {{[def |-> ArgDef(DirectiveArgs(d[1]), d[1].args[i][1]),
                     value |-> d[1].args[i][2], scope |-> d[3]] : i \in DOMAIN d[1].args} :
                     d \in VisitedDirectives(doc)})

(* The fragments spread in a scope, in order of appearance.                *)
RECURSIVE SpreadSeq(_)
SpreadSeq(set) ==
    IF set = <<>> THEN <<>>
    ELSE (IF Head(set).kind = "spread" THEN <<Head(set).name>> ELSE SpreadSeq(Head(set).set))
         \o SpreadSeq(Tail(set))

SetOf(doc, scope) == IF scope[1] = "op" THEN doc.ops[scope[2]].set ELSE doc.frags[scope[2]].set
Visited(doc, scope) ==
    scope \in Scopes(doc) /\ (scope[1] = "op" => RootType(doc, scope[2]) # NoType)
SpreadsIn(doc, scope) ==
    IF Visited(doc, scope) THEN SpreadSeq(SetOf(doc, scope)) ELSE <<>>

\* Mutant of WalkScopes: the spreads inside of fragments are not followed.
WalkScopesOnce(doc, from, visited) ==
    {from} \union visited \union {<<"frag", f>> : f \in ToSet(SpreadsIn(doc, from))}

(* The scopes a rule walks from an operation, each once.                   *)
RECURSIVE WalkScopes(_, _, _)
WalkScopes(doc, from, visited) ==
    LET Follow(seen, name) == WalkScopes(doc, <<"frag", name>>, seen)
    IN  IF from \in visited THEN visited
        ELSE FoldLeft(Follow, visited \union {from}, SpreadsIn(doc, from))

(* What one visit of a document hands to the rules.                        *)
Visit(doc) == [doc |-> doc, nodes |-> Nodes(doc), directives |-> VisitedDirectives(doc),
               arguments |-> VisitedArguments(doc),
               walk |-> [o \in DOMAIN doc.ops |-> WalkScopes(doc, <<"op", o>>, {})]]
FieldNodes(v) == {n \in v.nodes : n.sel.kind = "field" /\ ~IsTypename(n)}
SpreadNodes(v) == {n \in v.nodes : n.sel.kind = "spread"}
Inlines(v) == {n \in v.nodes : n.sel.kind = "inline"}
KnownFields(v) == {n \in FieldNodes(v) : HasField(n.par, n.sel.name)}

-----------------------------------------------------------------------------
(* Rules about the fields, types and directives of one node.               *)

Dup(seq) == \E i, j \in DOMAIN seq : i < j /\ seq[i] = seq[j]
Firsts(args) == [i \in DOMAIN args |-> args[i][1]]

TypenameOnSubscription(v, scopes) ==
    \E n \in v.nodes : /\ n.scope \in scopes
                       /\ IsTypename(n)
                       /\ n.par # NoType
                       /\ n.par = RootTypes["SUBSCRIPTION"]

FieldsOnCorrectType(v) ==
    \E n \in FieldNodes(v) :
       /\ n.par # NoType
       /\ ~HasField(n.par, n.sel.name)
       /\ \A i \in DOMAIN n.sel.dirs : n.sel.dirs[i].name # "ifdef"

ScalarLeafs(v) ==
    \E n \in KnownFields(v) : n.cur # NoType /\ (IsLeaf(n.cur) <=> n.sel.set # <<>>)

FragmentsOnCompositeTypes(v) ==
    \/ \E f \in DOMAIN v.doc.frags :
          Lookup(v.doc.frags[f].on) # NoType /\ ~IsComposite(Lookup(v.doc.frags[f].on))
    \/ \E n \in Inlines(v) : n.cur # NoType /\ ~IsComposite(n.cur)

KnownTypeNames(v) ==
    \/ \E f \in DOMAIN v.doc.frags : Lookup(v.doc.frags[f].on) = NoType
    \/ \E n \in Inlines(v) : n.sel.on # "" /\ Lookup(n.sel.on) = NoType
    \/ \E o \in DOMAIN v.doc.ops : \E i \in DOMAIN v.doc.ops[o].vars :
          Lookup(ConcreteTypename(v.doc.ops[o].vars[i].ty)) = NoType

KnownFragmentNames(v) ==
    \E n \in SpreadNodes(v) : n.sel.name \notin DOMAIN v.doc.frags

PossibleFragmentSpreads(v) ==
    \/ \E n \in SpreadNodes(v) :
          /\ n.sel.name \in DOMAIN v.doc.frags
          /\ n.cur # NoType
          /\ Lookup(v.doc.frags[n.sel.name].on) # NoType
          /\ ~TypeOverlap(n.cur, v.doc.frags[n.sel.name].on)
    \/ \E n \in Inlines(v) :
          n.sel.on # "" /\ n.par # NoType /\ n.cur # NoType /\ ~TypeOverlap(n.par, n.cur)

KnownArgumentNames(v) ==
    \/ \E n \in KnownFields(v) : \E i \in DOMAIN n.sel.args :
          n.sel.args[i][1] \notin DOMAIN FieldArgs(n.par, n.sel.name)
    \/ \E d \in v.directives : \E i \in DOMAIN d[1].args :
          d[1].name \in DOMAIN Directives /\ d[1].args[i][1] \notin DOMAIN DirectiveArgs(d[1])

Missing(defs, args) ==
    \E a \in DOMAIN defs : Required(defs[a]) /\ \A i \in DOMAIN args : args[i][1] # a

ProvidedNonNullArguments(v) ==
    \/ \E n \in KnownFields(v) : Missing(FieldArgs(n.par, n.sel.name), n.sel.args)
    \/ \E d \in v.directives : Missing(DirectiveArgs(d[1]), d[1].args)

UniqueArgumentNames(v) ==
    \/ \E n \in FieldNodes(v) : Dup(Firsts(n.sel.args))
    \/ \E d \in v.directives : Dup(Firsts(d[1].args))

KnownDirectives(v) ==
    \E d \in v.directives :
       \/ d[1].name \notin DOMAIN Directives
       \/ d[2] \notin Directives[d[1].name].locations

DuplicateDirective(dirs) ==
    \E i, j \in DOMAIN dirs :
       /\ i < j /\ dirs[i].name = dirs[j].name
       /\ dirs[i].name \in DOMAIN Directives /\ ~Directives[dirs[i].name].repeatable

DirectivesUnique(v) ==
    \/ \E o \in DOMAIN v.doc.ops : DuplicateDirective(v.doc.ops[o].dirs)
    \/ \E f \in DOMAIN v.doc.frags : DuplicateDirective(v.doc.frags[f].dirs)
    \/ \E n \in v.nodes : ~IsTypename(n) /\ DuplicateDirective(n.sel.dirs)

(* Variable definitions of the operations that have a root type.           *)
VarDefs(doc) == UNION {{<<o, i>> : i \in DOMAIN doc.ops[o].vars} :
                          o \in {p \in DOMAIN doc.ops : RootType(doc, p) # NoType}}
Var(doc, w) == doc.ops[w[1]].vars[w[2]]
VarNames(doc, o) == {doc.ops[o].vars[i].name : i \in DOMAIN doc.ops[o].vars}
HasDefault(var) == var.default # Undefined

UniqueVariableNames(doc) ==
    \E u, w \in VarDefs(doc) : u[1] = w[1] /\ u # w /\ Var(doc, u).name = Var(doc, w).name

VariablesAreInputTypes(doc) ==
    \E w \in VarDefs(doc) :
       LET type == Lookup(ConcreteTypename(Var(doc, w).ty))
       IN  type # NoType /\ ~IsInput(type)

UploadFile(doc) ==
    \E o \in DOMAIN doc.ops : \E i \in DOMAIN doc.ops[o].vars :
       doc.ops[o].kind # "MUTATION" /\ ConcreteTypename(doc.ops[o].vars[i].ty) = "Upload"

(* A default is checked unless the variable's own type is unknown; a list  *)
(* of an unknown type is looked at, and is_valid_input_value panics at the *)
(* first element that is not null.                                         *)
DefaultValuesOfCorrectType(doc) ==
    \E w \in VarDefs(doc) :
       LET var == Var(doc, w)
           known == Lookup(ConcreteTypename(var.ty)) # NoType
       IN  \/ ~known /\ ~IsList(UnwrapNonNull(var.ty))
           \/ known /\ HasDefault(var) /\ ~IsValidInputValue(var.ty, var.default)

RECURSIVE ReachesName(_, _)
ReachesName(ty, value) ==
    CASE value = Null -> FALSE
      [] IsNonNull(ty) -> ReachesName(Tail(ty), value)
      [] IsList(ty) /\ value[1] = "list" ->
            \E i \in DOMAIN value[2] : ReachesName(Tail(ty), value[2][i])
      [] IsList(ty) -> ReachesName(Tail(ty), value)
      [] OTHER -> TRUE

DefaultPanics(doc) ==
    \E w \in VarDefs(doc) :
       LET var == Var(doc, w)
       IN  /\ Lookup(ConcreteTypename(var.ty)) = NoType
           /\ IsList(UnwrapNonNull(var.ty))
           /\ HasDefault(var)
           /\ ReachesName(var.ty, var.default)

-----------------------------------------------------------------------------
(* Values of arguments.  A value that names a variable without a value is  *)
(* not checked at all.                                                     *)

RECURSIVE IntoConst(_, _)
IntoConst(value, vars) ==
    CASE value[1] = "var" -> vars[value[2]]
      [] value[1] = "list" ->
            <<"list", [i \in DOMAIN value[2] |-> IntoConst(value[2][i], vars)]>>
      [] value[1] = "object" ->
            <<"object", [n \in DOMAIN value[2] |-> IntoConst(value[2][n], vars)]>>
      [] OTHER -> value

(* The variables looked at in a scope: none in an operation that is not    *)
(* the selected one, those of the request in every fragment.               *)
VisibleVariables(scope, selected, vars) ==
    IF scope[1] = "op" /\ selected # "" /\ scope[2] # "" /\ scope[2] # selected
    THEN <<>> ELSE vars

ArgumentsOfCorrectType(v, selected, vars) ==
    \E a \in v.arguments :
       LET visible == VisibleVariables(a.scope, selected, vars)
       IN  /\ a.def # Unknown
           /\ ReferencedVariables(a.value) \subseteq DOMAIN visible
           /\ ~IsValidInputValue(a.def.ty, IntoConst(a.value, visible))

-----------------------------------------------------------------------------
(* Rules over the graph of fragment spreads.                               *)

\* Mutant of DetectFrom: a fragment is looked up in visited before it is in the path.
RECURSIVE DetectFromVisited(_, _, _)
DetectFromVisited(doc, from, st) ==
    LET entered == [st EXCEPT !.visited = @ \union {from}, !.path = @ \union {from}]
        Follow(s, name) == IF name \in s.visited THEN s ELSE DetectFromVisited(doc, name, s)
    IN  FoldLeft(Follow, entered, SpreadsIn(doc, <<"frag", from>>))

(* CycleDetector: path is the set of fragments on the path.                *)
RECURSIVE DetectFrom(_, _, _)
DetectFrom(doc, from, st) ==
    LET entered == [st EXCEPT !.visited = @ \union {from}, !.path = @ \union {from}]
        Follow(s, name) ==
            IF name \in s.path THEN [s EXCEPT !.cycle = TRUE]
            ELSE IF name \in s.visited THEN s
            ELSE DetectFrom(doc, name, s)
        after == FoldLeft(Follow, entered, SpreadsIn(doc, <<"frag", from>>))
    IN  [after EXCEPT !.path = st.path]

NoFragmentCycles(doc, order) ==
    LET Start(st, f) == IF f \in st.visited THEN st ELSE DetectFrom(doc, f, st)
    IN  FoldLeft(Start, [visited |-> {}, path |-> {}, cycle |-> FALSE], order).cycle

UsedIn(v, scope) ==
    UNION {ReferencedVariables(a.value) : a \in {b \in v.arguments : b.scope = scope}}
UsedFrom(v, o) == UNION {UsedIn(v, s) : s \in v.walk[o]}
DefinedBy(doc, o) == IF RootType(doc, o) = NoType THEN {} ELSE VarNames(doc, o)

NoUndefinedVariables(v) ==
    \E o \in DOMAIN v.doc.ops : ~(UsedFrom(v, o) \subseteq DefinedBy(v.doc, o))
NoUnusedVariables(v) ==
    \E o \in DOMAIN v.doc.ops : ~(DefinedBy(v.doc, o) \subseteq UsedFrom(v, o))
NoUnusedFragments(v) ==
    \E f \in DOMAIN v.doc.frags :
       \A o \in DOMAIN v.doc.ops : <<"frag", f>> \notin v.walk[o]

(* A nullable variable with a default counts as non-null.                  *)
EffectiveType(var) ==
    IF ~IsNonNull(var.ty) /\ HasDefault(var) THEN <<"NonNull">> \o var.ty ELSE var.ty

UsagesIn(v, scope) ==
    UNION {VariableUsages(a.def.ty, a.value) :
             a \in {b \in v.arguments : b.scope = scope /\ b.def # Unknown}}

FirstDef(doc, o, name) ==
    LET vars == doc.ops[o].vars
    IN  vars[CHOOSE i \in DOMAIN vars :
               vars[i].name = name /\ \A j \in 1..(i - 1) : vars[j].name # name]

VariableInAllowedPosition(v) ==
    \E o \in DOMAIN v.doc.ops : \E s \in v.walk[o] :
       \E u \in UsagesIn(v, s) :
          /\ u[1] \in DefinedBy(v.doc, o)
          /\ ~IsSubtype(u[2], EffectiveType(FirstDef(v.doc, o, u[1])))

(* FindConflicts: the fields of a selection set and of the fragments in it,*)
(* each with the type condition right around it.                           *)
ResponseKey(sel) == IF sel.alias = "" THEN sel.name ELSE sel.alias

RECURSIVE Outputs(_, _, _, _)
Outputs(doc, set, on, visited) ==
    UNION {LET sel == set[i]
           IN  CASE sel.kind = "field" -> {<<on, sel>>}
                 [] sel.kind = "inline" -> Outputs(doc, sel.set, sel.on, visited)
                 [] sel.name \in DOMAIN doc.frags \ visited ->
                       Outputs(doc, doc.frags[sel.name].set, doc.frags[sel.name].on,
                               visited \union {sel.name})
                 [] OTHER -> {} : i \in DOMAIN set}

Conflicting(a, b) == a.name # b.name \/ ToSet(a.args) # ToSet(b.args)

SetsOf(v) == {v.doc.ops[o].set : o \in {p \in DOMAIN v.doc.ops : RootType(v.doc, p) # NoType}}
             \union {v.doc.frags[f].set : f \in DOMAIN v.doc.frags}
             \union {n.sel.set : n \in v.nodes}

OverlappingFieldsCanBeMerged(v) ==
    \E set \in SetsOf(v) : \E a, b \in Outputs(v.doc, set, "", {}) :
       /\ a[1] = b[1]
       /\ ResponseKey(a[2]) = ResponseKey(b[2])
       /\ Conflicting(a[2], b[2])

-----------------------------------------------------------------------------
(* The limits and the cache control, calculated in one walk that opens the *)
(* spreads and stops once a limit is exceeded.  st.sum is the top of the   *)
(* complexity stack, st.vars the variables of the operation that was       *)
(* entered last, and st.failed whether a complexity function failed: the   *)
(* field then adds nothing and its error refuses the document.             *)

\* Mutant of Merge: the last scope wins.
MergeLast(a, b) == [a EXCEPT !.public = b.public]

Merge(a, b) ==
    [public |-> a.public /\ b.public,
     max_age |-> IF a.max_age = -1 \/ b.max_age = -1 THEN -1
                 ELSE IF b.max_age = 0 THEN a.max_age
                 ELSE IF a.max_age = 0 THEN b.max_age
                 ELSE IF a.max_age < b.max_age THEN a.max_age ELSE b.max_age]
DefaultCache == [public |-> TRUE, max_age |-> 0]

Saturate(n) == IF n > MaxUsize THEN MaxUsize ELSE n
DepthCost(type, name) == IF HasField(type, name) THEN FieldOf(type, name).depth_cost ELSE 1
CustomComplexity(type, name) ==
    Kind(type) = "Object" /\ HasField(type, name) /\ FieldOf(type, name).complexity # "none"

(* The value an operation's variables have, by their defaults if need be.  *)
WithDefaults(op, vars) ==
    LET missing == {i \in DOMAIN op.vars : HasDefault(op.vars[i])
                                           /\ op.vars[i].name \notin DOMAIN vars}
    IN  [n \in DOMAIN vars \union {op.vars[i].name : i \in missing} |->
            IF n \in DOMAIN vars THEN vars[n]
            ELSE op.vars[CHOOSE i \in missing : op.vars[i].name = n].default]
DeclaredValues(doc, o, vars) ==
    LET values == WithDefaults(doc.ops[o], vars)
    IN  Restrict(values, DOMAIN values \intersect VarNames(doc, o))

Given(sel, name) == {i \in DOMAIN sel.args : sel.args[i][1] = name}
Argument(sel, name) == sel.args[CHOOSE i \in Given(sel, name) :
                                   \A j \in Given(sel, name) : i <= j][2]

(* The complexity functions of the schema's fields.  The one that reads    *)
(* the argument n fails if n is missing, does not parse or names a         *)
(* variable without a value: param_value.                                  *)
ParamValue(sel, name, vars) ==
    IF Given(sel, name) = {} \/ ~(ReferencedVariables(Argument(sel, name)) \subseteq DOMAIN vars)
    THEN Undefined ELSE IntoConst(Argument(sel, name), vars)
ComplexityFails(fn, sel, vars) ==
    fn = "scaled" /\ ~Parses(<<"NonNull", "Int">>, ParamValue(sel, "n", vars))
Compute(fn, sel, vars, children) ==
    CASE ComplexityFails(fn, sel, vars) -> 0
      [] fn = "free" -> 0
      [] fn = "heavy" -> 3 + children
      [] OTHER -> ParamValue(sel, "n", vars)[2] * children

Exceeds(n, limit) == limit # -1 /\ n > limit

RECURSIVE CalculateSet(_, _, _, _, _, _, _)
CalculateSet(doc, limits, set, cur, depth, check, st) ==
    LET Field(s, sel) ==
            LET inner == FieldType(cur, sel.name)
                d == depth + DepthCost(cur, sel.name)
                custom == CustomComplexity(cur, sel.name)
                enter == [s EXCEPT !.sum = 0,
                                   !.depth = IF d > @ THEN d ELSE @,
                                   !.exceeded = @ \/ Exceeds(d, limits.depth),
                                   !.cache = IF HasField(cur, sel.name)
                                             THEN Merge(@, FieldOf(cur, sel.name).cache) ELSE @]
                below == CalculateSet(doc, limits, sel.set, inner, d, check /\ ~custom, enter)
                own == IF custom THEN Compute(FieldOf(cur, sel.name).complexity, sel, s.vars, below.sum)
                                 ELSE (1 + below.sum) % (MaxUsize + 1)
                total == Saturate(s.sum + own)
            IN  [below EXCEPT !.sum = total,
                              !.failed = @ \/ (custom /\ ComplexityFails(FieldOf(cur, sel.name).complexity,
                                                                        sel, s.vars)),
                              !.exceeded = @ \/ (check /\ Exceeds(total, limits.complexity))]
        Selection(s, sel) ==
            CASE s.exceeded -> s
              [] sel.kind = "field" -> IF sel.name = "__typename" THEN s ELSE Field(s, sel)
              [] sel.kind = "spread" ->
                    IF sel.name \in DOMAIN doc.frags
                    THEN CalculateSet(doc, limits, doc.frags[sel.name].set,
                                      Lookup(doc.frags[sel.name].on), depth, check, s)
                    ELSE s
              [] OTHER -> CalculateSet(doc, limits, sel.set,
                                       IF sel.on = "" THEN cur ELSE Lookup(sel.on), depth, check, s)
        opened == IF set # <<>> /\ Kind(cur) = "Object"
                  THEN [st EXCEPT !.cache = Merge(@, Types[cur].cache)] ELSE st
    IN  FoldLeft(Selection, opened, set)

Start == [sum |-> 0, depth |-> 0, exceeded |-> FALSE, failed |-> FALSE, cache |-> DefaultCache,
          vars |-> <<>>]

\* Mutant of Calculate: every operation is measured on its own.
CalculateApart(doc, vars, limits, order) ==
    LET Operation(st, o) ==
            IF st.exceeded \/ RootType(doc, o) = NoType THEN st
            ELSE CalculateSet(doc, limits, doc.ops[o].set, RootType(doc, o), 0, TRUE,
                              [st EXCEPT !.sum = 0, !.vars = DeclaredValues(doc, o, vars)])
    IN  FoldLeft(Operation, Start, order)

(* order is the order in which the map of the operations is walked.        *)
Calculate(doc, vars, limits, order) ==
    LET Operation(st, o) ==
            IF st.exceeded \/ RootType(doc, o) = NoType THEN st
            ELSE CalculateSet(doc, limits, doc.ops[o].set, RootType(doc, o), 0, TRUE,
                              [st EXCEPT !.vars = DeclaredValues(doc, o, vars)])
    IN  FoldLeft(Operation, Start, order)

-----------------------------------------------------------------------------
(* check_rules.                                                            *)

StrictRules(v, selected, vars, fragOrder) ==
    \/ ArgumentsOfCorrectType(v, selected, vars) \/ DefaultValuesOfCorrectType(v.doc)
    \/ FieldsOnCorrectType(v) \/ FragmentsOnCompositeTypes(v)
    \/ KnownArgumentNames(v) \/ NoFragmentCycles(v.doc, fragOrder)
    \/ KnownFragmentNames(v) \/ KnownTypeNames(v)
    \/ NoUndefinedVariables(v) \/ NoUnusedFragments(v) \/ NoUnusedVariables(v)
    \/ UniqueArgumentNames(v) \/ UniqueVariableNames(v.doc)
    \/ VariablesAreInputTypes(v.doc) \/ VariableInAllowedPosition(v)
    \/ ScalarLeafs(v) \/ PossibleFragmentSpreads(v) \/ ProvidedNonNullArguments(v)
    \/ KnownDirectives(v) \/ DirectivesUnique(v)
    \/ OverlappingFieldsCanBeMerged(v)

(* Fast mode opens the spreads of the operations and visits no fragment    *)
(* definition, so NoFragmentCycles never sees one.                         *)
InlineScopes(v) == UNION {v.walk[o] : o \in DOMAIN v.doc.ops}

RulesFail(doc, selected, vars, mode, fragOrder) ==
    \E v \in {Visit(doc)} :
        \/ \E o \in DOMAIN doc.ops : RootType(doc, o) = NoType
        \/ TypenameOnSubscription(v, IF mode = "strict" THEN Scopes(doc) ELSE InlineScopes(v))
        \/ UploadFile(doc)
        \/ mode = "strict" /\ StrictRules(v, selected, vars, fragOrder)

CheckRules(doc, selected, vars, mode, limits, opOrder, fragOrder) ==
    LET Checked(result) ==
        [error |-> CASE mode = "strict" /\ DefaultPanics(doc) -> "panic"
                     [] Exceeds(result.sum, limits.complexity) -> "complexity"
                     [] Exceeds(result.depth, limits.depth) -> "depth"
                     [] result.failed \/ RulesFail(doc, selected, vars, mode, fragOrder) -> "rules"
                     [] OTHER -> "none",
         cache |-> result.cache]
    IN  Checked(Calculate(doc, vars, limits, opOrder))
=============================================================================
