-------------------------- MODULE ThreadedVarlink ---------------------------
(***************************************************************************)
(* Clients with synchronous calls and a server of several threads, from    *)
(* its construction to its destruction: each client in a thread of its     *)
(* own, the owner of the server in another.                                *)
(***************************************************************************)
EXTENDS Integers, SequencesExt

CONSTANTS Client, Interface, Asks, MaxCalls, MaxReplies, OwnerMay

\* The connections.
VARIABLES up, down, gone

\* The server.
VARIABLES owner, members, stopped, path, accept, backlog, interfaces, capacity,
          storage, adding, session, ref, handled, sent, dangling

\* The clients.
VARIABLES connected, broken, calls, waiting, taken

Server == INSTANCE ThreadedServer
Clients == INSTANCE SyncClient

ASSUME InterfaceAssumption == Server!Std \notin Range(Interface)
ASSUME LibertyAssumption == OwnerMay \subseteq Server!Liberties
ASSUME RepliesAssumption == MaxReplies \in Nat
ASSUME ClientAssumption == Client \cap {"none", "posted", "pending", "failed"} = {}

serverVars == <<owner, members, stopped, path, accept, backlog, interfaces,
                capacity, storage, adding, session, ref, handled, sent, dangling>>
clientVars == <<connected, broken, calls, waiting, taken>>
vars == <<up, down, gone, serverVars, clientVars>>

TypeOK == Server!TypeOK /\ Clients!TypeOK(Server!Reply)

Init == /\ up = [c \in Client |-> <<>>]
        /\ down = [c \in Client |-> <<>>]
        /\ gone = {}
        /\ Server!Init /\ Clients!Init

\* connect() of a client: it is refused while nobody listens.
Connect(c) == /\ c \notin connected
              /\ connected' = connected \cup {c}
              /\ Server!Connects(c)
              /\ UNCHANGED <<up, down, gone, broken, calls, waiting, taken>>

Next == \/ Server!Next /\ UNCHANGED clientVars
        \/ \E c \in Client :
              \/ Clients!Step(c) /\ UNCHANGED serverVars
              \/ Connect(c) /\ dangling = {}

\* The threads of the pool run the handlers that are ready, callbacks end,
\* and receive() returns what there is.  An owner that has stopped the pool
\* goes on to destroy the server, and one that adds an interface finishes.
Fairness ==
    /\ WF_vars(Server!AcceptStep /\ UNCHANGED clientVars)
    /\ \A c \in Client :
          /\ WF_vars(Server!SessionStep(c) /\ UNCHANGED clientVars)
          /\ WF_vars((Clients!Receive(c) \/ Clients!ReceiveFails(c)) /\ UNCHANGED serverVars)
    /\ WF_vars((\/ Server!AddPublishes \/ Server!Join \/ Server!DestroyServer
                \/ Server!DestroyService \/ Server!DestroyPool) /\ UNCHANGED clientVars)

Spec == Init /\ [][Next]_vars /\ Fairness
-----------------------------------------------------------------------------
(* Properties.                                                             *)

\* No handler uses the server, the service or the entries of its vector after
\* they were destroyed or moved away.
NoDanglingAccess == dangling = {}

\* The closures of a client return the replies to their own calls only.
OwnReplies == Clients!OwnReplies

\* An interface that a client was told of is there for it from then on, in
\* whatever way it heard of it and asks for it.
KnownInterfaces ==
    \A c \in Client : \A k, l \in DOMAIN calls[c] : k < l =>
        \A r \in Range(calls[c][k].given) : \A s \in Range(calls[c][l].given) :
            calls[c][l].request.of \in r.known => ~s.error

\* The socket file is there as long as the server is, goes with it, and that
\* of another is left alone.
SocketFile ==
    /\ owner \in {"up", "adding", "stopping", "joined"} => path = "ours"
    /\ owner = "refused" => path = "foreign"
    /\ owner = "destroyed" => path = "free"

\* Nobody waits for the other: as long as a receive() waits there is a reply or
\* an end of file for it, or its request is with the session, or before it, or
\* the connection with an accept loop, which has failed or goes on.
NoCallStranded ==
    \A c \in Client : waiting[c] # 0 =>
        \/ taken[c] < Len(down[c]) \/ c \in gone
        \/ session[c] \in {"searching", "found", "missing", "streaming"}
        \/ session[c] = "reading" /\ handled[c] < Len(up[c])
        \/ session[c] = "none" /\ (accept = c \/ (c \in Range(backlog) /\ accept # "none"))

\* A receive() returns: with a reply while the server serves, however busy
\* other clients keep it, or with an error once it is destroyed.  Only a
\* connection that is never accepted, since an accept has failed, may wait.
CallReturns ==
    \A c \in Client : waiting[c] # 0 ~>
        waiting[c] = 0 \/ (accept = "failed" /\ session[c] = "none")
=============================================================================
