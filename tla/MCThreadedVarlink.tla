------------------------- MODULE MCThreadedVarlink --------------------------
(* Instance of ThreadedVarlink: requests that read the registry in each of  *)
(* the ways there are, and in the modes that end differently.               *)
EXTENDS ThreadedVarlink

Ask(mode, call, of) == [mode |-> mode, call |-> call, of |-> of]

CONSTANTS c1, c2

MCClient == {c1, c2}
MCInterface == <<"a", "b", "c">>

\* One client makes two calls, while the other makes a long one.
MCAsks == [c \in MCClient |->
    IF c = c1 THEN {Ask("oneway", "GetInfo", Server!Std), Ask("basic", "GetInfo", Server!Std),
                    Ask("basic", "GetInterfaceDescription", "a"), Ask("more", "Call", "c")}
              ELSE {Ask("more", "Call", "a")}]
MCMaxCalls == [c \in MCClient |-> IF c = c1 THEN 2 ELSE 1]
=============================================================================
