-------------------------- MODULE MCJsonConnection --------------------------
(* Instance of JsonConnection: the empty text, which is not JSON, and texts *)
(* of one and two bytes.                                                    *)
EXTENDS JsonConnection

MCJson == {<<"a">>, <<"a", "b">>}
MCMessage == MCJson \cup {<<>>}

\* One text is as long as the buffer.
MCLongJson == {<<"a">>, <<"a", "b", "a">>}
=============================================================================
