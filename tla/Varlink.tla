------------------------------ MODULE Varlink -------------------------------
(***************************************************************************)
(* An async_client and the server_session at the other end of its          *)
(* connection, each a component of its own: the client's writes are what   *)
(* the session reads, and the session's writes what the client reads.      *)
(* Either end may go away at any moment.                                   *)
(***************************************************************************)
EXTENDS Integers, FiniteSets, SequencesExt

CONSTANTS Request, MaxRequests, MaxReplies, MaxCancels, CallbackMay

ASSUME BoundAssumption == MaxRequests \in Nat

\* The wire.
VARIABLES
    c2s, s2c,       \* frames written to the server and to the client
    closed,         \* the client has closed its end
    terminated      \* the server process has ended

\* server_session and its write strand.
VARIABLES arrived, fetched, taken, reads, posted, pc, replies, restarts,
          failures, send_ec, pushes, nexts, queue, executing, running, finished

\* async_client, its write strand and its call strand.
VARIABLES requests, sent, receiving, cfetched, got, delivered, failed,
          cancelled, ending, dangling, torn,
          wpushes, wnexts, wqueue, wexecuting, wrunning, wfinished,
          cpushes, cnexts, cqueue, cexecuting, crunning, cfinished

\* What may reach the server: a request, or a frame that is none.
Frames == Request \cup {[r EXCEPT !.target = "malformed"] : r \in Request}

Session == INSTANCE ServerSession
             WITH peerClosed <- closed, Request <- Frames

ASSUME SessionAssumption ==
    /\ Request \subseteq [mode : Session!Modes, target : Session!Targets]
    /\ MaxReplies \in Nat
    /\ CallbackMay \subseteq Session!Liberties

\* The session's socket is closed when nothing refers to the session any more,
\* or with the process.
ServerGone == Session!SessionOver \/ terminated

Client == INSTANCE AsyncClient
            WITH Reply <- Session!Reply, serverGone <- ServerGone

Calls == 1 .. MaxRequests

serverVars == <<arrived, fetched, taken, reads, posted, pc, replies, restarts,
                failures, send_ec, terminated,
                pushes, nexts, queue, executing, running, finished>>
clientVars == <<requests, sent, receiving, cfetched, got, delivered, failed,
                cancelled, ending, dangling, torn,
                wpushes, wnexts, wqueue, wexecuting, wrunning, wfinished,
                cpushes, cnexts, cqueue, cexecuting, crunning, cfinished>>
vars == <<c2s, s2c, closed, serverVars, clientVars>>

Init == Session!Init /\ Client!Init

\* The server is stopped, or dies of something else than a varlink call.
ServerStops == /\ ~terminated
               /\ terminated' = TRUE
               /\ UNCHANGED <<c2s, s2c, closed, clientVars, arrived, fetched,
                              taken, reads, posted, pc, replies, restarts,
                              failures, send_ec, pushes, nexts, queue,
                              executing, running, finished>>

Next == \/ Session!SessionNext /\ UNCHANGED clientVars
        \/ Client!Next /\ UNCHANGED serverVars
        \/ ServerStops

Spec == Init /\ [][Next]_vars /\ Session!Fairness /\ Client!Fairness

TypeOK == Session!TypeOK /\ Client!TypeOK
-----------------------------------------------------------------------------
\* A call whose receive was cancelled leaves replies behind, which the calls
\* after it take for theirs: from then on handlers lag behind the server.
Lags(i) == \E j \in cancelled \cap Range(sent) : j < i

\* The request that the server answers with r is the one the client believes:
\* every reply reaches the handler of the call whose request it answers.
\* After a cancelled receive, replies may reach a later call, but never one
\* that was made before the request they answer.
ReplyMatchesCall ==
    \A i \in Calls : \A k \in DOMAIN delivered[i] :
        LET p == delivered[i][k].req
        IN  p \in DOMAIN sent /\ (sent[p] = i \/ (sent[p] < i /\ Lags(sent[p] + 1)))

\* A handler gets all replies to its call, once each and in order, and a call
\* that ended without a connection error got the final one.  Nothing that was
\* done to earlier calls changes this but a cancelled receive.
RepliesComplete ==
    \A i \in Calls : ~Lags(i) =>
        /\ \A k \in DOMAIN delivered[i] :
             /\ delivered[i][k].n = k
             /\ delivered[i][k].last => k = Len(delivered[i])
        /\ i \in cfinished /\ i \notin failed /\ requests[i].mode # "oneway"
             => Len(delivered[i]) > 0 /\ delivered[i][Len(delivered[i])].last

\* No reply is lost or delivered twice, also when cancelled calls make the
\* handlers lag: together they were given the replies in the server's order.
DeliveredInOrder == FlattenSeq(delivered) = SubSeq(s2c, 1, got)

\* Requests reach the server in the order of the calls.
SentInCallOrder == \A k, l \in DOMAIN sent : k < l => sent[k] < sent[l]

\* One call at a time holds the connection, from the moment when it asks the
\* write strand for its write until it has read its last reply, although each
\* strand may be handed from thread to thread with any delay.
ClientOwnsWire == Client!OneCallOnTheWire

\* However the session serves them and whatever becomes of the connection,
\* calls are served in the order in which they were made, a call that hears
\* replies is over before the next one is served, and no handler is called
\* again after that.
Abstract == INSTANCE RemoteCalls
              WITH heard <- [i \in Calls |-> Len(delivered[i])],
                   served <- cfinished, ended <- cfinished \ ending

ImplementsRemoteCalls == Abstract!Spec

\* Every call ends, on a connection of any fate.
EveryCallEnds == Client!EveryCallEnds

\* A message is there when it is written.
MessageOutlivesReference == Client!MessageOutlivesReference

\* Never do both ends wait for each other.  As long as a call has not been served,
\* the client has a lambda or a write to finish, or reads, and then there is a
\* reply or an end of file for it, or the session has the request of the call
\* that reads in hand, or finishes its writes before it hangs up.
NoMutualWait ==
    \A i \in 1 .. Len(requests) :
        \/ i \in cfinished
        \/ cpushes # <<>> \/ cnexts > 0
        \/ wpushes # <<>> \/ wnexts > 0 \/ wrunning # {}
        \/ \E k \in DOMAIN sent :
              /\ sent[k] \in receiving
              /\ \/ got < Len(s2c) \/ closed \/ ServerGone
                 \/ Session!Attended(k) \/ Session!Writing

\* Client and session take turns: while the session works on a request, or
\* holds replies the client has not read, the client does not write the next
\* one, unless the request before was oneway, the connection is closed at either
\* end (the write then fails), or a cancelled call lags behind.
NoPipelining ==
    \A i \in wrunning : \A k \in DOMAIN sent :
        sent[k] # i /\ requests[sent[k]].mode # "oneway" =>
            \/ Session!Answered(k)
            \/ closed \/ ServerGone
            \/ Lags(i)
=============================================================================
