------------------------------ MODULE SdlExport ------------------------------
(***************************************************************************)
(* The schema definition a built registry is printed as                    *)
(* (registry/export_sdl.rs) and what the parser reads back                 *)
(* (parser/src/parse/service.rs).  The text is the set of its definitions: *)
(* indentation, descriptions, defaults and the text of directive arguments *)
(* are left out, and so is the order, which sorting gives and the parser   *)
(* does not look at.                                                       *)
(*                                                                         *)
(* A mark is a directive a declaration writes on a type, a field or an     *)
(* argument: deprecated, specifiedBy, oneOf, semanticNonNull, tag (which   *)
(* stands for the federation directives) or custom (a TypeDirective).      *)
(***************************************************************************)
EXTENDS SchemaRegistry

CONSTANT SdlOptions      \* records of federation, specified_by and compose

VARIABLE sdl             \* the last text exported and what the parser made of it

NoSdl == [options |-> [federation |-> FALSE, specified_by |-> FALSE, compose |-> FALSE],
          text |-> {}, parsed |-> "none"]

(***************************************************************************)
(* The directives a place shows: federation's only in a federation export. *)
(***************************************************************************)
Written(marks, options) == marks \ (IF options.federation THEN {} ELSE {"tag"})

FieldShown(ref, options) ==
  /\ ref.role = "out"
  /\ ~(options.federation /\ ref.path[1] \in {"_service", "_entities"})

ArgumentsOf(refs, field, options) ==
  {[name |-> r.path[2], to |-> r.to, applied |-> Written(r.marks, options)] :
     r \in {s \in Range(refs) : s.role = "arg" /\ s.path[1] = field}}

export_fields(refs, options) ==
  {[name |-> r.path[1], to |-> r.to, args |-> ArgumentsOf(refs, r.path[1], options),
    applied |-> Written(r.marks, options)] :
     r \in {s \in Range(refs) : FieldShown(s, options)}}

InputValues(refs, options) ==
  {[name |-> r.path[1], to |-> r.to, args |-> {}, applied |-> Written(r.marks, options)] :
     r \in {s \in Range(refs) : s.role = "input"}}

write_implements(name) == {p[2] : p \in {q \in implements : q[1] = name}}

(***************************************************************************)
(* export_type, kind by kind.  An enum prints its values, whose marks are  *)
(* those of the enum; `body` says that the definition has a braced body.   *)
(***************************************************************************)
TypeDef(n, implementing, fields, applied) ==
  [def |-> "type", kind |-> types[n].kind, name |-> n, implements |-> implementing,
   fields |-> fields, union |-> {}, applied |-> applied]

KeysWritten(n, options) == IF options.federation /\ KeysOf(n) # <<>> THEN {"key"} ELSE {}

ScalarSdl(n, options) ==
  TypeDef(n, {}, {}, Written(types[n].marks, options)
                       \ (IF options.specified_by THEN {} ELSE {"specifiedBy"}))

FieldsSdl(n, options) ==
  TypeDef(n, write_implements(n), export_fields(types[n].refs, options),
          Written(types[n].marks, options) \cup KeysWritten(n, options))

EnumSdl(n, options) == TypeDef(n, {}, {}, Written(types[n].marks, options))

InputSdl(n, options) ==
  TypeDef(n, {}, InputValues(types[n].refs, options), Written(types[n].marks, options))

UnionSdl(n, options) ==
  [TypeDef(n, {}, {}, Written(types[n].marks, options)) EXCEPT !.union = PossibleTypes(n)]

(***************************************************************************)
(* In a federation export the subscription root is left out, unless it is  *)
(* asked for, and so is a query root without fields of its own.            *)
(***************************************************************************)
QueryRoot == Decl(program.roots[1]).name

IsSubscriptionRoot(n) ==
  \E i \in DOMAIN program.roots : Decl(program.roots[i]).name = n /\ "subscription" \in types[n].marks

LeftOut(n, options) ==
  /\ options.federation
  /\ \/ n \in {Entity, Service}
     \/ IsSubscriptionRoot(n)
     \/ n = QueryRoot /\ export_fields(types[n].refs, options) = {}

export_type(n, options) ==
  CASE types[n].kind = "Scalar" -> ScalarSdl(n, options)
    [] types[n].kind \in {"Object", "Interface"} -> FieldsSdl(n, options)
    [] types[n].kind = "Enum" -> EnumSdl(n, options)
    [] types[n].kind = "InputObject" -> InputSdl(n, options)
    [] types[n].kind = "Union" -> UnionSdl(n, options)

(***************************************************************************)
(* The directive definitions: GraphQL's own are printed only if a type     *)
(* looks as if it used them.                                               *)
(***************************************************************************)
FieldMarks(n) == UNION {r.marks : r \in {s \in RefsOf(n) : s.role = "out"}}

MarkOnFields(mark, kinds) == \E n \in DOMAIN types : types[n].kind \in kinds /\ mark \in FieldMarks(n)
MarkOnTypes(mark, kind) == \E n \in DOMAIN types : types[n].kind = kind /\ mark \in types[n].marks

SemanticOnObjects(name) ==
  CASE name = "deprecated" -> MarkOnFields(name, {"Object"}) \/ MarkOnTypes(name, "Enum")
    [] name = "specifiedBy" -> MarkOnTypes(name, "Scalar")
    [] name = "oneOf" -> MarkOnTypes(name, "InputObject")
    [] name = "semanticNonNull" -> MarkOnFields(name, {"Object"})

LooksUsed(name) ==
  CASE name = "deprecated" -> MarkOnFields(name, {"Object"}) \/ MarkOnTypes(name, "Enum")
    [] name = "specifiedBy" -> MarkOnTypes(name, "Scalar")
    [] name = "oneOf" -> MarkOnTypes(name, "InputObject")
    [] name = "semanticNonNull" -> MarkOnFields(name, {"Object", "Interface"})

Filtered == {"deprecated", "specifiedBy", "oneOf", "semanticNonNull"}

(***************************************************************************)
(* A TypeDirective is registered by every declaration that applies it.     *)
(***************************************************************************)
DeclMarks(d) ==
  Decl(d).marks \cup UNION {c.marks : c \in Range(MemberCalls(d))}

register_type_directives == {"custom"} \cap UNION {DeclMarks(d) : d \in Met}

DirectiveDef(name, targets) == [def |-> "directive", name |-> name, targets |-> targets]

DirectiveDefs ==
  {DirectiveDef(name, {}) : name \in {"skip", "include"} \cup register_type_directives}
    \cup {DirectiveDef(name, {}) : name \in {m \in Filtered : LooksUsed(m)}}
    \cup {DirectiveDef("builder", {directives[i].to}) : i \in DOMAIN directives}

SchemaDef(options) ==
  IF options.federation
  THEN {[def |-> "schema", extend |-> TRUE, roots |-> <<>>, imports |-> {"key", "tag"}]}
         \cup (IF options.compose /\ register_type_directives # {}
              THEN {[def |-> "schema", extend |-> TRUE, roots |-> <<>>, imports |-> {"custom"}]}
              ELSE {})
  ELSE {[def |-> "schema", extend |-> FALSE, imports |-> {},
         roots |-> [i \in DOMAIN program.roots |-> Decl(program.roots[i]).name]]}

export_sdl(options) ==
  {export_type(n, options) : n \in {m \in DOMAIN types : ~LeftOut(m, options)}}
    \cup DirectiveDefs \cup SchemaDef(options)

(***************************************************************************)
(* The parser: the grammar wants a member between braces and after `=`,    *)
(* and a schema block one query root and no root twice.                    *)
(***************************************************************************)
Grammatical(def) ==
  /\ (def.def = "type" /\ def.name # Service /\ def.kind \in {"Object", "Interface", "InputObject"}) =>
       def.fields # {}
  /\ (def.def = "type" /\ def.kind = "Union") => def.union # {}

parse_schema_definition(def) ==
  IF def.extend \/ def.roots # <<>>
  THEN IF Cardinality(Range(def.roots)) = Len(def.roots) THEN "document" ELSE "MultipleRoots"
  ELSE "MissingQueryRoot"

parse_schema(text) ==
  LET wrong == {def \in text : def.def = "schema" /\ parse_schema_definition(def) # "document"}
  IN IF \E def \in text : ~Grammatical(def) THEN "Syntax"
     ELSE IF wrong # {} THEN parse_schema_definition(CHOOSE def \in wrong : TRUE)
     ELSE "document"

ExportSdl(options) ==
  /\ phase = "built" /\ sdl = NoSdl /\ client = NoClient
  /\ LET text == export_sdl(options) IN
       sdl' = [options |-> options, text |-> text, parsed |-> parse_schema(text)]
  /\ UNCHANGED vars

SdlInit == RegistryInit /\ sdl = NoSdl

SdlNext ==
  \/ RegistryNext /\ UNCHANGED sdl
  \/ \E options \in SdlOptions : ExportSdl(options)

(***************************************************************************)
(* Properties.                                                             *)
(***************************************************************************)
TypeDefs == {t \in sdl.text : t.def = "type"}
Defined == {t.name : t \in TypeDefs}

Mentioned ==
  UNION {t.implements \cup t.union
           \cup UNION {{f.to} \cup {a.to : a \in f.args} : f \in t.fields} : t \in TypeDefs}
    \cup UNION {d.targets : d \in {t \in sdl.text : t.def = "directive"}}
    \cup UNION {Range(d.roots) : d \in {t \in sdl.text : t.def = "schema"}}

(***************************************************************************)
(* The text of a schema parses and stands on its own: every type it        *)
(* mentions, in a field, an argument, a union, an implements clause, a     *)
(* directive or the schema block, is defined in it, once, except a query   *)
(* root that has no field of its own (export_sdl.rs:123, :457).            *)
(***************************************************************************)
SdlSelfContained ==
  sdl # NoSdl =>
    /\ sdl.parsed = "document"
    /\ \A t, u \in TypeDefs : t.name = u.name => t = u
    /\ \A n \in Mentioned : n \in Defined \/ (n = QueryRoot /\ Decl(program.roots[1]).fields = <<>>)

Applied ==
  UNION {t.applied \cup UNION {f.applied \cup UNION {a.applied : a \in f.args} : f \in t.fields} :
           t \in TypeDefs}

(***************************************************************************)
(* Every directive the text applies is defined in it, imported by its      *)
(* @link, or one every GraphQL service has: the filters for unused         *)
(* directives drop no custom one that is used (export_sdl.rs:142), and the *)
(* federation directives do not leak into a plain export.                  *)
(***************************************************************************)
AppliedAreDefined ==
  sdl # NoSdl =>
    Applied \subseteq {d.name : d \in {t \in sdl.text : t.def = "directive"}}
                     \cup UNION {d.imports : d \in {t \in sdl.text : t.def = "schema"}}
                     \cup {"deprecated", "specifiedBy", "oneOf"}

(***************************************************************************)
(* The exported text is a schema by itself.                                *)
(***************************************************************************)
SdlSound == SdlSelfContained /\ AppliedAreDefined
===============================================================================
