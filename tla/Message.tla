------------------------------ MODULE Message -------------------------------
(***************************************************************************)
(* basic_varlink_message: the JSON object that a client makes of a call,   *)
(* and what a server reads in any JSON value that it receives.             *)
(*                                                                         *)
(* JSON values have "is": null, bool with its value, int, float (with a    *)
(* fraction), string with its text, array with its items, object with its  *)
(* fields, a function from names to values.  The text of a qualified       *)
(* method is the sequence of the words between its dots.                   *)
(***************************************************************************)
EXTENDS SequencesExt

Null == [is |-> "null"]
Bool(b) == [is |-> "bool", value |-> b]
Text(s) == [is |-> "string", text |-> s]
Object(fields) == [is |-> "object", fields |-> fields]
NoParameters == Object(<<>>)

\* The exception where there is no message.
Invalid == [is |-> "invalid"]

\* The flags of a message, in the order in which the constructor asks.
Flags == <<"more", "oneway", "upgrade">>

\* What is written; parameters that are empty or null are not.
MessageWith(method, parameters, flags) ==
    LET present == {"method"} \cup flags
                   \cup (IF parameters \in {Null, NoParameters} THEN {} ELSE {"parameters"})
    IN  Object([key \in present |-> IF key = "method" THEN Text(method)
                                    ELSE IF key = "parameters" THEN parameters
                                    ELSE Bool(TRUE)])

\* Faulty: forgets a mode that the reply does not depend on.
BuildWithoutUpgrade(method, parameters, mode) ==
    IF parameters.is \notin {"null", "object"}
      THEN Invalid ELSE MessageWith(method, parameters, {mode} \ {"basic", "upgrade"})

\* The constructor from a method, parameters and a mode.
Build(method, parameters, mode) ==
    IF parameters.is \notin {"null", "object"}
      THEN Invalid ELSE MessageWith(method, parameters, {mode} \ {"basic"})

Has(msg, key) == key \in DOMAIN msg.fields

\* Flag k is asked for unless one before it is set, and must be a bool then.
IsSet(msg, k) == Has(msg, Flags[k]) /\ msg.fields[Flags[k]] = Bool(TRUE)
Asked(msg, k) == Has(msg, Flags[k]) /\ \A l \in 1 .. k - 1 : ~IsSet(msg, l)

IsMessage(msg) ==
    /\ msg.is = "object"
    /\ Has(msg, "method") /\ msg.fields["method"].is = "string"
    /\ Has(msg, "parameters") => msg.fields["parameters"].is = "object"
    /\ \A k \in DOMAIN Flags : Asked(msg, k) => msg.fields[Flags[k]].is = "bool"

\* The constructor from a received value: name, parameters() and mode().
Parse(msg) ==
    LET set == {k \in DOMAIN Flags : Asked(msg, k) /\ IsSet(msg, k)}
    IN  IF ~IsMessage(msg)
          THEN Invalid
          ELSE [is |-> "message",
                name |-> msg.fields["method"].text,
                parameters |-> IF Has(msg, "parameters") THEN msg.fields["parameters"]
                                                         ELSE NoParameters,
                mode |-> IF set = {} THEN "basic" ELSE Flags[CHOOSE k \in set : TRUE]]

\* interface() and method(): a name without a dot is both.
InterfaceOf(name) == IF Len(name) = 1 THEN name ELSE Front(name)
MethodOf(name) == Last(name)
=============================================================================
