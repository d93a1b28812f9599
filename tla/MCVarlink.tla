----------------------------- MODULE MCVarlink ------------------------------
(* Instance of Varlink: the modes of call that end differently.  A client   *)
(* cannot send a frame that is no varlink message, and a call that fails    *)
(* before its callback looks to the client like one whose callback throws.  *)
EXTENDS Varlink

Ask(mode, target) == [mode |-> mode, target |-> target]

MCRequest == {Ask("basic", "callback"), Ask("more", "callback"),
              Ask("oneway", "callback")}

\* Bound: of three calls, one at most has the more flag, and one at most is
\* oneway.
MixedCalls ==
    LET Of(mode) == {i \in DOMAIN requests : requests[i].mode = mode}
    IN  Cardinality(Of("more")) <= 1 /\ Cardinality(Of("oneway")) <= 1
=============================================================================
