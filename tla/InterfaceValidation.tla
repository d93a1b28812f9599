------------------------ MODULE InterfaceValidation -------------------------
(***************************************************************************)
(* varlink_interface::validate, between a call and its callback            *)
(* (MessageCall): it does not work on the type as declared but on the      *)
(* type_spec that the scanner makes of it, with one flag for each prefix   *)
(* whatever their order and number.                                        *)
(*                                                                         *)
(* A declared type is the type of a type_spec, or has "is" = "maybe",      *)
(* "array" or "dict" and the type behind the prefix in "of"; a struct has  *)
(* declared types in its fields.                                           *)
(***************************************************************************)
EXTENDS InterfaceScanner, MessageCall

CONSTANT Types      \* the types of the interface, a sequence of fields

RECURSIVE Written(_)

\* A declared type as it is written in a description.
Written(t) ==
    CASE t.is = "maybe" -> <<"?">> \o Written(t.of)
      [] t.is = "array" -> <<"[]">> \o Written(t.of)
      [] t.is = "dict" -> <<"[string]">> \o Written(t.of)
      [] t.is = "name" -> <<t.name>>
      [] t.is = "enum" ->
            <<"(">> \o Commas([k \in DOMAIN t.names |-> <<t.names[k]>>]) \o <<")">>
      [] t.is = "struct" ->
            <<"(">> \o Commas([k \in DOMAIN t.fields |->
                                 <<t.fields[k].name, ":">> \o Written(t.fields[k].type)])
            \o <<")">>

Method(t) == StructType(<<Field("a", t)>>)

Description(t) ==
    FlattenSeq([k \in DOMAIN Types |-> <<"type", Types[k].name>> \o Written(Types[k].type)])
    \o <<"method", "M">> \o Written(Method(t)) \o <<"->", "(", ")">>
    \o <<"method", "N", "(", ")", "->", "(", ")">>

\* The constructor of varlink_interface, the Read of MessageCall.
ReadInterface(t) == ReadMembers(Description(t), <<>>)
-----------------------------------------------------------------------------
(* validate().                                                             *)

\* Faulty: any number is an int.
IsPrimitiveNumber(data, type) ==
    \/ type = "string" /\ data.is = "string"
    \/ type \in {"int", "float"} /\ data.is \in {"int", "float"}
    \/ type = "bool" /\ data.is = "bool"
    \/ type = "object" /\ data.is # "null"

\* Whether data has the built-in type of this name.
IsPrimitive(data, type) ==
    \/ type = "string" /\ data.is = "string"
    \/ type = "int" /\ data.is = "int"
    \/ type = "float" /\ data.is \in {"int", "float"}
    \/ type = "bool" /\ data.is = "bool"
    \/ type = "object" /\ data.is # "null"

\* Faulty: null is not the same as absent.
MissingUnlessAbsent(data, n) == n \notin DOMAIN data.fields

\* A field of a struct that is not there; null counts as not there.
Missing(data, n) == n \notin DOMAIN data.fields \/ data.fields[n].is = "null"

HasElements(spec) == spec.array \/ spec.dict

\* Faulty: forgets that the value may be an element already.
NameUnlessFlagged(spec, collection) == spec.type.is = "name" /\ ~HasElements(spec)

\* The name in a type_spec is the type of the value, or that of an element.
NameApplies(spec, collection) ==
    spec.type.is = "name" /\ (collection \/ ~HasElements(spec))

RECURSIVE Validate(_, _, _, _)

\* TRUE where validate returns and FALSE where it throws invalid_parameter.
Validate(members, data, spec, collection) ==
    LET type == spec.type
        all(values) == \A val \in values : Validate(members, val, spec, TRUE)
    IN  IF type.is = "enum" /\ data.is = "string"
          THEN data.text \in Image(type.names)
        ELSE IF spec.dict /\ data.is = "object"
          THEN all(Image(data.fields))
        ELSE IF spec.array /\ data.is = "array"
          THEN all(Image(data.items))
        ELSE IF NameApplies(spec, collection)
          THEN \/ IsPrimitive(data, type.name)
               \/ /\ Members(members, "type", type.name) # {}
                  /\ Validate(members, data,
                               Member(members, "type", type.name).data, FALSE)
        ELSE IF type.is = "struct" /\ data.is = "object"
          THEN \A f \in Image(type.fields) :
                  IF Missing(data, f.name)
                    THEN f.type.maybe
                    ELSE Validate(members, data.fields[f.name], f.type, FALSE)
        ELSE FALSE
-----------------------------------------------------------------------------
(* What a declared type means.                                             *)

\* The JSON values of the built-in types; an object is any value but null.
KindsOf == [string |-> {"string"}, int |-> {"int"}, float |-> {"int", "float"},
            bool |-> {"bool"},
            object |-> {"bool", "int", "float", "string", "array", "object"}]

TypeNames == {f.name : f \in Image(Types)}
DeclaredAs(name) == (CHOOSE f \in Image(Types) : f.name = name).type

RECURSIVE Conforms(_, _)

\* The value data is one of type t; in a struct, an optional field may be
\* missing.
Conforms(data, t) ==
    CASE t.is = "maybe" -> data.is = "null" \/ Conforms(data, t.of)
      [] t.is = "array" -> /\ data.is = "array"
                           /\ \A v \in Image(data.items) : Conforms(v, t.of)
      [] t.is = "dict"  -> /\ data.is = "object"
                           /\ \A v \in Image(data.fields) : Conforms(v, t.of)
      [] t.is = "enum"  -> data.is = "string" /\ data.text \in Image(t.names)
      [] t.is = "struct" ->
            /\ data.is = "object"
            /\ \A f \in Image(t.fields) :
                  IF f.name \in DOMAIN data.fields
                    THEN Conforms(data.fields[f.name], f.type)
                    ELSE f.type.is = "maybe"
      [] t.is = "name" -> \/ /\ t.name \in DOMAIN KindsOf
                             /\ data.is \in KindsOf[t.name]
                          \/ /\ t.name \in TypeNames
                             /\ Conforms(data, DeclaredAs(t.name))

\* validate has been asked about the parameters of M.
Validated == message # Invalid /\ message.name = <<"org", "test", "M">>
Conforming == Conforms(message.parameters, Method(declared))

RECURSIVE Prefixed(_)

\* The prefixes of a type, outermost first, and the type behind them.
Prefixed(t) == IF t.is \in {"maybe", "array", "dict"}
                 THEN LET p == Prefixed(t.of)
                      IN  [prefixes |-> <<t.is>> \o p.prefixes, core |-> p.core]
                 ELSE [prefixes |-> <<>>, core |-> t]

RECURSIVE Plain(_)

\* A type without arrays and dictionaries.
Plain(t) == LET p == Prefixed(t)
            IN  /\ Image(p.prefixes) \subseteq {"maybe"}
                /\ p.core.is = "struct" => \A f \in Image(p.core.fields) : Plain(f.type)
                /\ p.core.is = "name" /\ p.core.name \in TypeNames
                      => Plain(DeclaredAs(p.core.name))

\* The types whose elements can be told from collections: no element is null,
\* no element of a collection is any object at all, and no element of a
\* dictionary is an object but another dictionary.
Distinct(t) ==
    LET p == Prefixed(t)
    IN  /\ \A k \in DOMAIN p.prefixes : p.prefixes[k] = "maybe" => k = 1
        /\ Image(p.prefixes) \cap {"array", "dict"} # {} => p.core # NameType("object")
        /\ "dict" \in Image(p.prefixes)
              => \/ p.core.is = "enum"
                 \/ p.core.is = "name" /\ p.core.name \notin TypeNames
-----------------------------------------------------------------------------
(* Properties.                                                             *)

RECURSIVE HasLoneName(_)

\* An enum of one name, which varlink allows and which the scanner, after its
\* first name, takes for neither a struct nor an enum.
HasLoneName(t) ==
    LET core == Prefixed(t).core
    IN  \/ core.is = "enum" /\ Len(core.names) = 1
        \/ core.is = "struct" /\ \E f \in Image(core.fields) : HasLoneName(f.type)

\* Of the interfaces whose types are nested and prefixed as varlink allows, the
\* scanner rejects those with an enum of one name and understands all others:
\* its guesses between structs, enums and names, and its skipped separators,
\* lead it astray nowhere else.
OnlyLoneNamesRejected ==
    /\ verdict = "interface_error" => HasLoneName(declared)
    /\ interface # <<>> => ~HasLoneName(declared)

\* The description that a server gives of an interface (org.varlink.service's
\* GetInterfaceDescription) makes the same interface as the one that it was
\* constructed from, for types as the server knows them: folded.
DescriptionRoundTrip ==
    verdict = "none" /\ interface # <<>> =>
        ReadMembers(Describe(interface), <<>>) = Result(interface, <<>>)

\* Without collections, validate accepts exactly the parameters that have the
\* declared type: nested and named structs, enums and optional fields.
PlainTypesExact ==
    Validated /\ Plain(declared) => (verdict = "called" <=> Conforming)

\* A call with parameters of the declared type is not rejected, for the types
\* whose folded type_spec still tells elements from collections.
DistinctTypesAccepted ==
    Validated /\ Distinct(declared) /\ Conforming => verdict = "called"

RECURSIVE Leaves(_)

\* The scalars in a value.
Leaves(data) ==
    CASE data.is = "array"  -> UNION {Leaves(v) : v \in Image(data.items)}
      [] data.is = "object" -> UNION {Leaves(v) : v \in Image(data.fields)}
      [] OTHER -> {data}

\* validate does not see how deep collections are nested, but what they hold
\* in the end has the element type: a callback with a parameter of a built-in
\* scalar type and any prefixes meets no other scalar, and null only where
\* the whole parameter is optional.
LeavesTyped ==
    LET p == Prefixed(declared)
    IN  Validated /\ verdict = "called" /\ p.core \in {NameType(n) : n \in {"int", "float", "string", "bool"}} =>
            \A v \in Image(message.parameters.fields) : \A leaf \in Leaves(v) :
                \/ leaf.is \in KindsOf[p.core.name]
                \/ leaf.is = "null" /\ v = leaf /\ "maybe" \in Image(p.prefixes)
=============================================================================
