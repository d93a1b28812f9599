--------------------------- MODULE MCServerSession --------------------------
(* Instance of ServerSession: one request of each kind that message_call    *)
(* and the reply function tell apart.                                       *)
EXTENDS ServerSession

Ask(mode, target) == [mode |-> mode, target |-> target]

\* Every mode with a callback, and the ways to fail without one.
MCRequest == {Ask("basic", "callback"), Ask("more", "callback"),
              Ask("oneway", "callback"), Ask("basic", "error"),
              Ask("basic", "malformed")}
=============================================================================
