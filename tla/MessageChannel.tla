--------------------------- MODULE MessageChannel ---------------------------
(***************************************************************************)
(* What a pair of json_connections promises: the receiving end gets the    *)
(* messages of the sending end, one at a time, in order, each once.  One   *)
(* that is not JSON is reported as an error in its place.                  *)
(***************************************************************************)
EXTENDS Integers, Sequences

CONSTANTS
    Message,        \* the texts that may be sent
    Json            \* those that json::parse accepts

VARIABLES
    sent,           \* the messages sent, in order
    received        \* what the calls of receive returned, in order

vars == <<sent, received>>

\* A parse error comes with the null value, whatever the text was.
Parse(m) == [invalid |-> m \notin Json, text |-> IF m \in Json THEN m ELSE <<>>]

Init == sent = <<>> /\ received = <<>>

Send(m) == sent' = Append(sent, m) /\ UNCHANGED received

Receive == /\ Len(received) < Len(sent)
           /\ received' = Append(received, Parse(sent[Len(received) + 1]))
           /\ UNCHANGED sent

Next == Receive \/ \E m \in Message : Send(m)

Spec == Init /\ [][Next]_vars
=============================================================================
