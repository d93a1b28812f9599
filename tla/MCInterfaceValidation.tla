----------------------- MODULE MCInterfaceValidation ------------------------
(***************************************************************************)
(* Instance of InterfaceValidation: the built-in types, a named enum, a    *)
(* named struct and an undefined name, inline enums and structs, with up   *)
(* to three prefixes, against values nested up to two deep.                *)
(***************************************************************************)
EXTENDS InterfaceValidation

Prefix(p, t) == [is |-> p, of |-> t]

MCTypes == <<Field("E", EnumType(<<"x", "y">>)),
             Field("T", StructType(<<Field("b", NameType("int"))>>))>>

Base == {NameType(n) : n \in {"bool", "int", "float", "string", "object", "E", "T", "U"}}
        \cup {EnumType(<<"w", "x">>), EnumType(<<"x">>),
              StructType(<<>>),
              StructType(<<Field("b", NameType("int"))>>),
              StructType(<<Field("b", NameType("bool")), Field("c", EnumType(<<"x">>))>>),
              StructType(<<Field("b", Prefix("maybe", NameType("E"))),
                           Field("c", Prefix("maybe", Prefix("array", NameType("int"))))>>)}

One == {Prefix(p, t) : p \in {"maybe", "array", "dict"}, t \in Base}
Two == {Prefix(p, t) : p \in {"maybe", "array", "dict"}, t \in One}

\* The scanner rejects a double ?, but not one on both sides of a prefix.
Three == {Prefix("maybe", Prefix(p, Prefix("maybe", NameType("int")))) : p \in {"array", "dict"}}

MCDeclared == Base \cup One \cup Three \cup
              {t \in Two : ~(t.is = "maybe" /\ t.of.is = "maybe")}

Array(items) == [is |-> "array", items |-> items]

Scalars == {Null, Bool(TRUE), [is |-> "int"], [is |-> "float"],
            Text("x"), Text("z")}

\* Arrays of up to one element, objects with up to one of the fields b and c.
Over(values) == {Array(<<>>), Object(<<>>)}
                \cup {Array(<<v>>) : v \in values}
                \cup {Object([f \in {n} |-> v]) : n \in {"b", "c"}, v \in values}

Nested == Over(Scalars)

MCJson == Scalars \cup Nested \cup Over(Nested)
          \cup {Array(<<v, w>>) : v, w \in Scalars}
          \cup {Object([f \in {"b", "c"} |-> IF f = "b" THEN v ELSE w]) :
                  v, w \in Scalars}

\* M with every value, and every name, mode and kind of parameters.
M == <<"org", "test", "M">>
Ask(method, params, mode) == [method |-> method, parameters |-> params, mode |-> mode]
Names == {M, <<"org", "test", "N">>, <<"org", "test", "O">>, <<"org", "M">>, <<"M">>,
          <<"org", "test", "M", "">>}
MCCalls == {Ask(M, Object("a" :> v), "basic") : v \in MCJson}
           \cup {Ask(n, v, mode) : n \in Names, mode \in {"basic", "more", "oneway", "upgrade"},
                   v \in Scalars \cup {NoParameters, Object("a" :> Text("x")), Array(<<>>)}}

\* Messages with flags of any value, and values that are no message.
WithFlags(values) ==
    {Object(("method" :> Text(M)) @@ ("more" :> v) @@ ("oneway" :> w)) : v, w \in values}
MCFrames == WithFlags({Bool(FALSE), Bool(TRUE), Null})
            \cup Scalars
            \cup {NoParameters, Object("method" :> Null),
                   Object(("method" :> Text(M)) @@ ("parameters" :> Null)),
                   Object(("method" :> Text(M)) @@ ("parameters" :> Object("a" :> Text("x"))))}
=============================================================================
