-------------------------- MODULE InterfaceScanner --------------------------
(***************************************************************************)
(* How an interface description becomes a varlink_interface, and back: the *)
(* recursive descent of detail::scanner over tokens, the constructor of    *)
(* varlink_interface, and to_string.  A token is what one regular          *)
(* expression of the scanner matches: a symbol, a keyword or a name;       *)
(* white space and comments are left out, and so is the interface's name.  *)
(*                                                                         *)
(* A type_spec holds a type, with the field "is" = "name", "enum" or       *)
(* "struct", and the three flags that the prefixes ?, [string] and [] set. *)
(***************************************************************************)
EXTENDS Integers, Sequences, SequencesExt

Symbols == {"?", "[]", "[string]", "(", ")", ":", ",", "->"}

NameType(n) == [is |-> "name", name |-> n]
EnumType(names) == [is |-> "enum", names |-> names]
StructType(fields) == [is |-> "struct", fields |-> fields]
Field(n, t) == [name |-> n, type |-> t]

TypeSpec(type) == [type |-> type, maybe |-> FALSE, dict |-> FALSE, array |-> FALSE]

\* What a function of the scanner returns, and the tokens it leaves; or an
\* exception.
Result(value, rest) == [ok |-> TRUE, value |-> value, rest |-> rest]
Throws == [ok |-> FALSE]

\* At the end of the description expect() matches nothing and returns "".
Next1(tokens) == IF tokens = <<>> THEN "" ELSE Head(tokens)
Rest1(tokens) == IF tokens = <<>> THEN <<>> ELSE Tail(tokens)

RECURSIVE ReadTypeSpec(_, _), ReadFields(_, _)

\* A prefix sets its flag on the type_spec of what follows it.
Flagged(result, flag) ==
    IF result.ok THEN Result([result.value EXCEPT ![flag] = TRUE], result.rest)
                 ELSE Throws

\* Faulty: a struct needs a field.
ReadStructWithFields(tokens) == ReadFields(tokens, [is |-> "none"])

\* read_struct, behind its opening bracket.
ReadStruct(tokens) ==
    IF Next1(tokens) \in {")", ""}
      THEN Result(StructType(<<>>), Rest1(tokens))
      ELSE ReadFields(tokens, [is |-> "none"])

\* read_type_spec.
ReadTypeSpec(tokens, wasMaybe) ==
    LET rest == Rest1(tokens)
    IN  CASE Next1(tokens) = "?" ->
                IF wasMaybe THEN Throws ELSE Flagged(ReadTypeSpec(rest, TRUE), "maybe")
          [] Next1(tokens) = "[string]" -> Flagged(ReadTypeSpec(rest, FALSE), "dict")
          [] Next1(tokens) = "[]" -> Flagged(ReadTypeSpec(rest, FALSE), "array")
          [] Next1(tokens) = "(" ->
                LET struct == ReadStruct(rest)
                IN  IF struct.ok THEN Result(TypeSpec(struct.value), struct.rest)
                                 ELSE Throws
          [] OTHER -> Result(TypeSpec(NameType(Next1(tokens))), rest)

\* One turn of the loop of read_struct, with what it has read so far.  The
\* first separator decides between a struct and an enum; one that follows the
\* type of a field is not looked at unless it closes the struct.
ReadFields(tokens, fields) ==
    LET name == Next1(tokens)
        keyword == Next1(Rest1(tokens))
        rest == Rest1(Rest1(tokens))
        field == ReadTypeSpec(rest, FALSE)
        structs == IF fields.is = "struct" THEN fields.fields ELSE <<>>
        enums == IF fields.is = "enum" THEN fields.names ELSE <<>>
    IN  IF name \in Symbols THEN Throws
        ELSE IF keyword = ":" /\ fields.is \in {"none", "struct"} THEN
            IF ~field.ok THEN Throws
            ELSE LET more == StructType(Append(structs, Field(name, field.value)))
                 IN  IF Next1(field.rest) = ")"
                       THEN Result(more, Rest1(field.rest))
                       ELSE ReadFields(Rest1(field.rest), more)
        ELSE IF keyword = "," /\ fields.is \in {"none", "enum"} THEN
            ReadFields(rest, EnumType(Append(enums, name)))
        ELSE IF keyword = ")" /\ fields.is = "enum" THEN
            Result(EnumType(Append(enums, name)), rest)
        ELSE Throws

\* read_method_spec: the parameters and the return value are two fields.
ReadMethodSpec(tokens) ==
    LET params == ReadStruct(Rest1(tokens))
        returns == ReadStruct(Rest1(Rest1(params.rest)))
    IN  IF /\ Next1(tokens) = "("
           /\ params.ok
           /\ Next1(params.rest) = "->" /\ Next1(Rest1(params.rest)) = "("
           /\ returns.ok
          THEN Result(TypeSpec(StructType(
                        <<Field("parameters", TypeSpec(params.value)),
                          Field("return_value", TypeSpec(returns.value))>>)),
                      returns.rest)
          ELSE Throws

Kinds == {"type", "error", "method"}

\* read_member, on a description that does not end here.
ReadMember(tokens) ==
    LET kind == Head(tokens)
        body == Rest1(Rest1(tokens))
        data == IF kind = "method" THEN ReadMethodSpec(body) ELSE ReadTypeSpec(body, FALSE)
    IN  IF kind \in Kinds /\ data.ok
          THEN Result([kind |-> kind, name |-> Next1(Rest1(tokens)), data |-> data.value],
                      data.rest)
          ELSE Throws

RECURSIVE ReadMembers(_, _)

\* The constructor of varlink_interface: members with different names, and
\* at least one of them.
ReadMembers(tokens, members) ==
    IF tokens = <<>>
      THEN IF members = <<>> THEN Throws ELSE Result(members, <<>>)
      ELSE LET member == ReadMember(tokens)
           IN  IF member.ok /\ \A k \in DOMAIN members : members[k].name # member.value.name
                 THEN ReadMembers(member.rest, Append(members, member.value))
                 ELSE Throws

Commas(parts) ==
    FlattenSeq([k \in DOMAIN parts |-> IF k = 1 THEN parts[k] ELSE <<",">> \o parts[k]])

\* Faulty: an array that is optional is printed as an array.
FieldPrefixesWithoutMaybe(spec) ==
    (IF spec.array THEN <<"[]">> ELSE IF spec.maybe THEN <<"?">> ELSE <<>>)
    \o (IF spec.dict THEN <<"[string]">> ELSE <<>>)

\* The flags of a field in the order in which to_string prints them.
FieldPrefixes(spec) ==
    (IF spec.maybe THEN <<"?">> ELSE <<>>)
    \o (IF spec.array THEN <<"[]">> ELSE <<>>)
    \o (IF spec.dict THEN <<"[string]">> ELSE <<>>)

RECURSIVE TypeToString(_)

\* to_string: the type of a type_spec, without flags of its own.
TypeToString(spec) ==
    LET type == spec.type
        field(f) == <<f.name, ":">> \o FieldPrefixes(f.type) \o TypeToString(f.type)
    IN  CASE type.is = "name" -> <<type.name>>
          [] type.is = "enum" ->
                <<"(">> \o Commas([k \in DOMAIN type.names |-> <<type.names[k]>>])
                \o <<")">>
          [] type.is = "struct" ->
                <<"(">> \o Commas([k \in DOMAIN type.fields |-> field(type.fields[k])])
                \o <<")">>

\* operator<< of a member, and of an interface.
DescribeMember(m) ==
    <<m.kind, m.name>> \o
    IF m.kind = "method"
      THEN TypeToString(m.data.type.fields[1].type) \o <<"->">>
           \o TypeToString(m.data.type.fields[2].type)
      ELSE TypeToString(m.data)

Describe(members) == FlattenSeq([k \in DOMAIN members |-> DescribeMember(members[k])])
=============================================================================
