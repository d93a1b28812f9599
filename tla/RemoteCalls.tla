----------------------------- MODULE RemoteCalls -----------------------------
(***************************************************************************)
(* What an async_client promises to those who call it: calls are served    *)
(* one after the other, in the order in which they were made.  The handler *)
(* of a call with the more flag may be given any number of replies, that   *)
(* of a oneway call is given none, any other one at most; and every call   *)
(* may end without its last reply, with an error.  A call that has heard a *)
(* reply ends before the next one is served.  One that has heard nothing   *)
(* may make way first, and then its handler is called some time later.     *)
(***************************************************************************)
EXTENDS Integers, Sequences

CONSTANTS Request, MaxRequests

VARIABLES
    requests,       \* the calls made, in order
    heard,          \* how many replies the handler of each was given
    served,         \* the calls that make use of the connection no more
    ended           \* the calls whose handler was called for the last time

vars == <<requests, heard, served, ended>>

Calls == 1 .. MaxRequests

Init == /\ requests = <<>>
        /\ heard = [i \in Calls |-> 0]
        /\ served = {} /\ ended = {}

Make(request) == /\ requests' = Append(requests, request)
                 /\ UNCHANGED <<heard, served, ended>>

\* The oldest call that has not been served.
Current(i) == /\ i \in DOMAIN requests \ served
              /\ 1 .. i - 1 \subseteq served

Ends(i) == served' = served \cup {i} /\ ended' = ended \cup {i}

Hear(i) == /\ Current(i)
           /\ requests[i].mode # "oneway"
           /\ heard' = [heard EXCEPT ![i] = @ + 1]
           /\ Ends(i) \/ (requests[i].mode = "more" /\ UNCHANGED <<served, ended>>)
           /\ UNCHANGED requests

Fail(i) == /\ Current(i)
           /\ Ends(i)
           /\ UNCHANGED <<requests, heard>>

MakeWay(i) == /\ Current(i)
              /\ heard[i] = 0
              /\ served' = served \cup {i}
              /\ UNCHANGED <<requests, heard, ended>>

End(i) == /\ i \in served \ ended
          /\ ended' = ended \cup {i}
          /\ UNCHANGED <<requests, heard, served>>

Next == \/ \E request \in Request : Make(request)
        \/ \E i \in Calls : Hear(i) \/ Fail(i) \/ MakeWay(i) \/ End(i)

Spec == Init /\ [][Next]_vars
=============================================================================
