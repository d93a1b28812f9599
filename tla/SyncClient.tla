----------------------------- MODULE SyncClient ------------------------------
(***************************************************************************)
(* The synchronous calls of async_client, as varlink_client forwards them: *)
(* call, call_more, call_oneway and call_upgrade send the request at once  *)
(* and get a closure that receives one reply whenever it is invoked.       *)
(* call_more hands the closure out, the others invoke it themselves.       *)
(*                                                                         *)
(* Each client belongs to one thread, which makes no new call before the   *)
(* closure of the last one has returned its final reply: nothing in the    *)
(* code keeps the replies of two calls apart.  It may invoke the closures  *)
(* of earlier calls again at any time.                                     *)
(***************************************************************************)
EXTENDS Integers, SequencesExt

CONSTANTS
    Client,         \* the clients, one connection each
    Asks,           \* the requests each may make, records with a mode
    MaxCalls        \* bound: calls of each client

Request == UNION {Asks[c] : c \in Client}

VARIABLES
    up, down,       \* the frames of each connection, to the server and back
    gone            \* connections whose other end is closed

VARIABLES
    connected,      \* clients whose connect() has returned
    broken,         \* clients that were thrown a connection error
    calls,          \* the calls of each client: the request, the mode in the
                    \* closure, and the replies it has returned or thrown
    waiting,        \* the call whose closure is in receive(), or 0
    taken           \* how many replies receive() has returned

wireVars == <<up, down, gone>>
clientVars == <<connected, broken, calls, waiting, taken>>

TypeOK(Reply) ==
    /\ up \in [Client -> Seq(Request)]
    /\ gone \subseteq Client /\ broken \subseteq connected
    /\ connected \subseteq Client
    /\ \A c \in Client : \A k \in DOMAIN calls[c] :
          /\ calls[c][k].request \in Request
          /\ calls[c][k].mode \in {calls[c][k].request.mode, "oneway"}
          /\ calls[c][k].given \in Seq(Reply)
    /\ \A c \in Client : /\ waiting[c] \in 0 .. Len(calls[c])
                         /\ taken[c] \in 0 .. Len(down[c])

Init == /\ connected = {} /\ broken = {}
        /\ calls = [c \in Client |-> <<>>]
        /\ waiting = [c \in Client |-> 0]
        /\ taken = [c \in Client |-> 0]

Usable(c) == c \in connected \ broken /\ waiting[c] = 0

\* The thread has seen the final reply to the call.
Over(call) == \/ call.request.mode = "oneway"
              \/ call.given # <<>> /\ ~Last(call.given).continues

\* call_impl, and what call() and its kin do with the closure: a oneway call
\* is over, and call_more returns to the caller.
Call(c, request) ==
    /\ Usable(c)
    /\ Len(calls[c]) < MaxCalls[c]
    /\ calls[c] # <<>> => Over(Last(calls[c]))
    /\ c \notin gone
    /\ up' = [up EXCEPT ![c] = Append(@, request)]
    /\ calls' = [calls EXCEPT ![c] =
                    Append(@, [request |-> request, mode |-> request.mode, given |-> <<>>])]
    /\ waiting' = [waiting EXCEPT ![c] =
                      IF request.mode \in {"basic", "upgrade"} THEN Len(calls'[c]) ELSE 0]
    /\ UNCHANGED <<down, gone, connected, broken, taken>>

\* send() throws in call_impl.
CallFails(c) == /\ Usable(c)
                /\ c \in gone
                /\ broken' = broken \cup {c}
                /\ UNCHANGED <<wireVars, connected, calls, waiting, taken>>

\* The closure that call_more returned is invoked; one that is drained
\* returns nullptr.
Invoke(c, k) == /\ Usable(c)
                /\ k \in DOMAIN calls[c]
                /\ calls[c][k].request.mode = "more"
                /\ calls[c][k].mode # "oneway"
                /\ waiting' = [waiting EXCEPT ![c] = k]
                /\ UNCHANGED <<wireVars, connected, broken, calls, taken>>

\* Faulty: sets the mode back to the default.
DrainsToBasic(mode, reply) ==
    IF reply.error \/ mode # "more" \/ ~reply.continues THEN "basic" ELSE mode

\* The mode in the closure once it has received the reply.
Drains(mode, reply) ==
    IF reply.error \/ mode # "more" \/ ~reply.continues THEN "oneway" ELSE mode

\* receive() returns a reply, and the closure returns its parameters or throws
\* its error.
Receive(c) ==
    /\ waiting[c] # 0
    /\ taken[c] < Len(down[c])
    /\ taken' = [taken EXCEPT ![c] = @ + 1]
    /\ LET reply == down[c][taken'[c]]
           call == calls[c][waiting[c]]
       IN  calls' = [calls EXCEPT ![c][waiting[c]] =
                        [call EXCEPT !.given = Append(@, reply),
                                     !.mode = Drains(@, reply)]]
    /\ waiting' = [waiting EXCEPT ![c] = 0]
    /\ UNCHANGED <<wireVars, connected, broken>>

\* receive() throws at the end of the file, and the closure stays as it is.
ReceiveFails(c) ==
    /\ waiting[c] # 0
    /\ taken[c] = Len(down[c])
    /\ c \in gone
    /\ broken' = broken \cup {c}
    /\ waiting' = [waiting EXCEPT ![c] = 0]
    /\ UNCHANGED <<wireVars, connected, calls, taken>>

Step(c) == \/ \E request \in Asks[c] : Call(c, request)
           \/ CallFails(c)
           \/ \E k \in DOMAIN calls[c] : Invoke(c, k)
           \/ Receive(c)
           \/ ReceiveFails(c)
-----------------------------------------------------------------------------
\* Each closure returns the replies to its own call, in order and once each.
OwnReplies ==
    \A c \in Client : \A k \in DOMAIN calls[c] :
        LET given == calls[c][k].given
        IN  \A n \in DOMAIN given :
              /\ given[n].req = k /\ given[n].n = n
              /\ n < Len(given) => given[n].continues
=============================================================================
