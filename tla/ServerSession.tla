--------------------------- MODULE ServerSession ----------------------------
(***************************************************************************)
(* One accepted connection of a varlink server: server_session together    *)
(* with the json_connection it owns, varlink_service::message_call and the *)
(* callbacks it runs.  The session has no loop: start() reads one message, *)
(* and the final reply to that message calls start() again.  Handlers that *)
(* are ready run on any thread of the executor, in any order; only the two *)
(* posted lambdas of the write strand exclude each other.                  *)
(*                                                                         *)
(* A message is a whole frame here (the bytes below it are not modelled):  *)
(* a read that completes part way through a frame re-arms itself.          *)
(***************************************************************************)
EXTENDS Integers, Sequences, FiniteSets, Functions

CONSTANTS
    Request,        \* the requests a peer may send, records [mode, target]
    MaxRequests,    \* bound: requests sent over the connection
    MaxReplies,     \* bound: replies of one call
    CallbackMay     \* what callbacks do that they need not do, see Liberties

Modes == {"basic", "more", "oneway", "upgrade"}

\* Where message_call sends the request: to a callback, to an error found
\* before one is called (unknown interface or method, no callback, invalid
\* parameters), or nowhere, the frame being no varlink message at all.
Targets == {"callback", "error", "malformed"}

\* oneway_throws: a callback throws on a oneway call.
\* oneway_continues: a callback passes continues = true on a oneway call.
\* system_error: a callback throws a std::system_error of its own.
Liberties == {"oneway_throws", "oneway_continues", "system_error"}

ASSUME RequestAssumption == Request \subseteq [mode : Modes, target : Targets]
ASSUME BoundAssumption == MaxRequests \in Nat /\ MaxReplies \in Nat
ASSUME CallbackAssumption == CallbackMay \subseteq Liberties

Calls == 1 .. MaxRequests

\* The n-th reply to the req-th request; the last one has no continues flag.
Reply == [req : Calls, n : 1 .. MaxReplies + 1, last : BOOLEAN]

VARIABLES
    c2s,            \* every request the peer has sent, oldest first
    peerClosed,     \* the peer has closed its end
    arrived,        \* how many requests completed reads put behind read_end
    fetched,        \* how many are in readbuf, up to read_end
    taken,          \* how many read_next_message has taken out of readbuf
    reads,          \* socket reads in progress
    posted,         \* requests whose receive handler net::post has queued
    pc,             \* where message_call is with each request
    replies,        \* how often the reply function of each call was used
    restarts,       \* calls that sent a final reply and now call start()
    failures,       \* failed writes whose completion handler has not run
    send_ec,        \* send_ec is set
    s2c,            \* every reply written to the socket, oldest first
    terminated      \* std::terminate was called

VARIABLES pushes, nexts, queue, executing, running, finished

\* json_connection's write_strand; its functions write one reply each.
WriteStrand == INSTANCE ManualStrand WITH Fn <- Reply

readVars == <<arrived, fetched, taken, reads, posted>>
callVars == <<pc, replies, restarts>>
sendVars == <<failures, send_ec, s2c>>
peerVars == <<c2s, peerClosed>>
strandVars == <<pushes, nexts, queue, executing, running, finished>>
vars == <<peerVars, readVars, callVars, sendVars, terminated, strandVars>>

States == {"waiting",       \* not dispatched
           "body",          \* the callback is on the stack of message_call
           "parked",        \* it has returned and kept the reply function
           "replied",       \* the final reply has been sent
           "dropped"}       \* given up without a final reply

TypeOK == /\ c2s \in Seq(Request) /\ Len(c2s) <= MaxRequests
          /\ peerClosed \in BOOLEAN
          /\ taken \in 0 .. fetched
          /\ fetched \in 0 .. arrived
          /\ arrived \in 0 .. Len(c2s)
          /\ reads \in Nat
          /\ posted \subseteq 1 .. taken
          /\ pc \in [Calls -> States]
          /\ replies \in [Calls -> 0 .. MaxReplies + 1]
          /\ restarts \subseteq Calls
          /\ failures \in Nat
          /\ send_ec \in BOOLEAN
          /\ s2c \in Seq(Reply)
          /\ terminated \in BOOLEAN
          /\ WriteStrand!TypeOK

\* The accept handler has just called start() on an empty buffer.
Init == /\ c2s = <<>> /\ peerClosed = FALSE
        /\ arrived = 0 /\ fetched = 0 /\ taken = 0
        /\ reads = 1
        /\ posted = {}
        /\ pc = [i \in Calls |-> "waiting"]
        /\ replies = [i \in Calls |-> 0]
        /\ restarts = {}
        /\ failures = 0 /\ send_ec = FALSE
        /\ s2c = <<>>
        /\ terminated = FALSE
        /\ WriteStrand!Init
-----------------------------------------------------------------------------
(* Sending.                                                                *)

\* async_send_reply for the next reply of call i: pushes it to write_strand.
SendReply(i, last) ==
    /\ WriteStrand!Push([req |-> i, n |-> replies[i] + 1, last |-> last])
    /\ replies' = [replies EXCEPT ![i] = @ + 1]

\* The async_write of r ends.  Its handler calls write_strand.next(), then
\* the handler of async_send_reply, which has something to do on an error
\* only (SendFailed).  After a failed write nothing else gets through.
WriteSucceeds(r) == /\ ~terminated
                    /\ failures = 0 /\ ~send_ec
                    /\ WriteStrand!Complete(r)
                    /\ s2c' = Append(s2c, r)
                    /\ UNCHANGED <<peerVars, readVars, callVars, failures,
                                   send_ec, terminated>>

WriteFails(r) == /\ ~terminated
                 /\ peerClosed
                 /\ WriteStrand!Complete(r)
                 /\ failures' = failures + 1
                 /\ UNCHANGED <<peerVars, readVars, callVars, send_ec, s2c,
                                terminated>>

\* connection.cancel() aborts the reads in progress, whose handlers return;
\* then the error is kept for the next reply.
SendFailed == /\ ~terminated
              /\ failures > 0
              /\ failures' = failures - 1
              /\ send_ec' = TRUE
              /\ reads' = 0
              /\ UNCHANGED <<peerVars, arrived, fetched, taken, posted,
                             callVars, s2c, terminated, strandVars>>

WriteStrandStep == /\ ~terminated
                   /\ WriteStrand!RunPush \/ WriteStrand!RunNext
                   /\ UNCHANGED <<peerVars, readVars, callVars, sendVars,
                                  terminated>>
-----------------------------------------------------------------------------
(* message_call.                                                           *)

\* The lambda error: a final reply, whatever the mode of the call.  It runs
\* outside the try block or in a catch clause of a noexcept function: the
\* system_error that the reply function throws after a failed send is fatal.
ReplyError(i) ==
    \/ /\ send_ec
       /\ terminated' = TRUE
       /\ UNCHANGED <<callVars, strandVars>>
    \/ /\ ~send_ec
       /\ SendReply(i, TRUE)
       /\ pc' = [pc EXCEPT ![i] = "replied"]
       /\ restarts' = restarts \cup {i}
       /\ UNCHANGED terminated

\* The receive handler of start() runs with request i.  A frame that does not
\* parse reports an error, one that is no varlink message throws: either way
\* the handler returns without reading again.
Dispatch(i) ==
    \/ /\ c2s[i].target = "malformed"
       /\ pc' = [pc EXCEPT ![i] = "dropped"]
       /\ UNCHANGED <<replies, restarts, terminated, strandVars>>
    \/ /\ c2s[i].target = "error"
       /\ ReplyError(i)
    \/ /\ c2s[i].target = "callback"
       /\ pc' = [pc EXCEPT ![i] = "body"]
       /\ UNCHANGED <<replies, restarts, terminated, strandVars>>

\* A callback that can still reply: its code runs, or it waits for a timer or
\* another asynchronous event.  Between a reply and the start() that the same
\* call of the reply function makes, the callback does nothing.
Open(i) == ~terminated /\ pc[i] \in {"body", "parked"} /\ i \notin restarts

\* Faulty: start() after every reply, whether it continues or not.
ContinuesAndRestarts(i) ==
    /\ Open(i) /\ ~send_ec
    /\ c2s[i].mode = "more"
    /\ replies[i] < MaxReplies
    /\ SendReply(i, FALSE)
    /\ restarts' = restarts \cup {i}
    /\ UNCHANGED <<peerVars, readVars, pc, sendVars, terminated>>

\* send_reply(params, true) for a call with the more flag.
CallbackContinues(i) ==
    /\ Open(i) /\ ~send_ec
    /\ c2s[i].mode = "more"
    /\ replies[i] < MaxReplies
    /\ SendReply(i, FALSE)
    /\ UNCHANGED <<peerVars, readVars, pc, restarts, sendVars, terminated>>

\* send_reply(params, false).
CallbackReplies(i) ==
    /\ Open(i) /\ ~send_ec
    /\ c2s[i].mode # "oneway"
    /\ SendReply(i, TRUE)
    /\ pc' = [pc EXCEPT ![i] = "replied"]
    /\ restarts' = restarts \cup {i}
    /\ UNCHANGED <<peerVars, readVars, sendVars, terminated>>

\* Faulty: a oneway call needs no reply, and reads no other request.
OnewayOnlyEnds(i, continues) ==
    /\ Open(i) /\ ~send_ec
    /\ c2s[i].mode = "oneway"
    /\ ~continues
    /\ pc' = [pc EXCEPT ![i] = "replied"]
    /\ UNCHANGED <<peerVars, readVars, replies, restarts, sendVars, terminated, strandVars>>

\* send_reply on a oneway call: nothing is sent and continues is ignored, so
\* that each use of the reply function calls start().
OnewayReplies(i, continues) ==
    /\ Open(i) /\ ~send_ec
    /\ c2s[i].mode = "oneway"
    /\ continues => "oneway_continues" \in CallbackMay /\ replies[i] < MaxReplies
    /\ replies' = [replies EXCEPT ![i] = @ + 1]
    /\ pc' = [pc EXCEPT ![i] = IF continues THEN @ ELSE "replied"]
    /\ restarts' = restarts \cup {i}
    /\ UNCHANGED <<peerVars, readVars, sendVars, terminated, strandVars>>

\* A system_error ends the call without a reply.  The reply function throws
\* it after a failed send; message_call swallows it, and a callback that was
\* parked catches it as in example/more.cpp.
CallbackStops(i) ==
    /\ Open(i)
    /\ send_ec \/ ("system_error" \in CallbackMay /\ pc[i] = "body")
    /\ pc' = [pc EXCEPT ![i] = "dropped"]
    /\ UNCHANGED <<peerVars, readVars, replies, restarts, sendVars, terminated,
                   strandVars>>

\* The callback throws anything else, or its send_reply does: a reply value of
\* the wrong type, continues on a call without the more flag.
CallbackThrows(i) ==
    /\ Open(i) /\ pc[i] = "body"
    /\ c2s[i].mode = "oneway" => "oneway_throws" \in CallbackMay
    /\ ReplyError(i)
    /\ UNCHANGED <<peerVars, readVars, sendVars>>

\* The callback returns and keeps the reply function for later.
CallbackParks(i) ==
    /\ Open(i) /\ pc[i] = "body"
    /\ pc' = [pc EXCEPT ![i] = "parked"]
    /\ UNCHANGED <<peerVars, readVars, replies, restarts, sendVars, terminated,
                   strandVars>>
-----------------------------------------------------------------------------
(* Receiving.                                                              *)

\* Faulty: takes a message without looking whether readbuf holds one.
StartAlwaysPosts(i) ==
    /\ ~terminated
    /\ i \in restarts
    /\ restarts' = restarts \ {i}
    /\ taken' = taken + 1
    /\ posted' = posted \cup {taken'}
    /\ UNCHANGED <<peerVars, reads, arrived, fetched, pc, replies, sendVars,
                   terminated, strandVars>>

\* Faulty: reads from the socket although readbuf holds a message.
StartAlwaysReads(i) ==
    /\ ~terminated
    /\ i \in restarts
    /\ restarts' = restarts \ {i}
    /\ reads' = reads + 1
    /\ UNCHANGED <<peerVars, arrived, fetched, taken, posted, pc, replies,
                   sendVars, terminated, strandVars>>

\* start(): async_receive posts the handler for a request that is already in
\* readbuf, and otherwise reads from the socket.
Start(i) ==
    /\ ~terminated
    /\ i \in restarts
    /\ restarts' = restarts \ {i}
    /\ \/ /\ taken < fetched
          /\ taken' = taken + 1
          /\ posted' = posted \cup {taken'}
          /\ UNCHANGED reads
       \/ /\ taken = fetched
          /\ reads' = reads + 1
          /\ UNCHANGED <<taken, posted>>
    /\ UNCHANGED <<peerVars, arrived, fetched, pc, replies, sendVars,
                   terminated, strandVars>>

\* A socket read completes with at least one request more.  Reads that overlap
\* would fill the same bytes of readbuf, so one is handled at a time.
ReadCompletes(k) ==
    /\ ~terminated
    /\ reads > 0
    /\ arrived = fetched
    /\ k \in arrived + 1 .. Len(c2s)
    /\ arrived' = k
    /\ reads' = reads - 1
    /\ UNCHANGED <<peerVars, fetched, taken, posted, callVars, sendVars,
                   terminated, strandVars>>

\* Faulty: reads again after an error.
ReadFailsAndRetries ==
    /\ ~terminated
    /\ reads > 0
    /\ peerClosed
    /\ UNCHANGED vars

\* End of file or a reset: the handler returns and drops the session.
ReadFails == /\ ~terminated
             /\ reads > 0
             /\ peerClosed
             /\ reads' = reads - 1
             /\ UNCHANGED <<peerVars, arrived, fetched, taken, posted,
                            callVars, sendVars, terminated, strandVars>>

\* The handler of a completed read advances read_end, takes the first request
\* and calls the receive handler with it.
HandleRead == /\ ~terminated
              /\ arrived > fetched
              /\ fetched' = arrived
              /\ taken' = taken + 1
              /\ Dispatch(taken')
              /\ UNCHANGED <<peerVars, arrived, reads, posted, sendVars>>

\* The executor runs a posted receive handler.
HandlePosted(i) == /\ ~terminated
                   /\ i \in posted
                   /\ posted' = posted \ {i}
                   /\ Dispatch(i)
                   /\ UNCHANGED <<peerVars, arrived, fetched, taken, reads,
                                  sendVars>>
-----------------------------------------------------------------------------
(* The peer may send requests without waiting for replies, and close.      *)

PeerSends(request) ==
    /\ ~peerClosed
    /\ Len(c2s) < MaxRequests
    /\ c2s' = Append(c2s, request)
    /\ UNCHANGED <<peerClosed, readVars, callVars, sendVars, terminated,
                   strandVars>>

PeerCloses == /\ ~peerClosed
              /\ peerClosed' = TRUE
              /\ UNCHANGED <<c2s, readVars, callVars, sendVars, terminated,
                             strandVars>>

CallStep(i) == \/ CallbackContinues(i)
               \/ CallbackReplies(i)
               \/ \E continues \in BOOLEAN : OnewayReplies(i, continues)
               \/ CallbackStops(i)
               \/ CallbackThrows(i)
               \/ CallbackParks(i)
               \/ Start(i)
               \/ HandlePosted(i)

SessionNext == \/ \E i \in Calls : CallStep(i)
               \/ \E k \in Calls : ReadCompletes(k)
               \/ ReadFails
               \/ HandleRead
               \/ \E r \in running : WriteSucceeds(r) \/ WriteFails(r)
               \/ SendFailed
               \/ WriteStrandStep

Next == \/ SessionNext
        \/ \E request \in Request : PeerSends(request)
        \/ PeerCloses

\* A callback answers the call it was given, or gives it up.
CallbackEnds(i) == \/ CallbackReplies(i)
                   \/ OnewayReplies(i, FALSE)
                   \/ CallbackStops(i)
                   \/ CallbackThrows(i)

\* The executor runs the handlers that are ready, a read completes once there
\* is data or an end of file, a write completes one way or the other, and
\* callbacks end.  The peer owes nothing.
Fairness ==
    /\ WF_vars(\E i \in Calls : Start(i))
    /\ WF_vars(HandleRead \/ \E i \in Calls : HandlePosted(i))
    /\ WF_vars(\E i \in Calls : CallbackEnds(i))
    /\ WF_vars(ReadFails \/ \E k \in Calls : ReadCompletes(k))
    /\ WF_vars(\E r \in running : WriteSucceeds(r) \/ WriteFails(r))
    /\ WF_vars(SendFailed)
    /\ WF_vars(WriteStrandStep)

Spec == Init /\ [][Next]_vars /\ Fairness
-----------------------------------------------------------------------------
(* Properties.                                                             *)

\* Requests whose handler is due, that a callback owns, or whose final reply
\* has been sent but whose start() has not run.
InTurn == posted \cup restarts \cup {i \in Calls : pc[i] \in {"body", "parked"}}

\* Half duplex: a session is reading, or has one request in its hands, never
\* both and never two.  readbuf, read_end and the order of replies depend on
\* it, and nothing but the calls of start() enforces it.
HalfDuplex == /\ reads <= 1
              /\ \A i, j \in InTurn : i = j
              /\ reads = 1 => arrived = fetched /\ InTurn = {}
              /\ arrived > fetched => InTurn = {}

\* The peer can match replies to requests by position alone: the replies to a
\* request arrive complete and in order, without a reply to another request
\* between them, and only oneway requests are passed over.
RepliesInOrder ==
    \A k \in 1 .. Len(s2c) :
        LET prev == IF k = 1 THEN [req |-> 0, n |-> 0, last |-> TRUE]
                             ELSE s2c[k - 1]
        IN  IF s2c[k].req = prev.req
              THEN ~prev.last /\ s2c[k].n = prev.n + 1
              ELSE /\ prev.last /\ s2c[k].n = 1
                   /\ s2c[k].req > prev.req
                   /\ \A i \in prev.req + 1 .. s2c[k].req - 1 :
                         c2s[i].mode = "oneway"

Answered(i) == i \in {s2c[k].req : k \in {l \in DOMAIN s2c : s2c[l].last}}

\* What a peer that keeps the connection open can count on for request i.
Settled(i) ==
    /\ Len(c2s) >= i
    /\ \/ Answered(i)
       \/ c2s[i].mode = "oneway" /\ pc[i] = "replied"
       \/ \E j \in 1 .. i : pc[j] = "dropped"

\* Every well-formed request on a connection that stays open is answered, or
\* at least run to its end when it is oneway, unless the session hung up at a
\* malformed frame, or at a call whose callback threw a system_error.
EveryRequestAnswered ==
    \A i \in Calls : Len(c2s) >= i ~> Settled(i) \/ peerClosed

\* A lambda of the write strand is due, or a write in progress.
Writing == pushes # <<>> \/ nexts > 0 \/ running # {}

\* The write strand holds the final reply to request i, and will move it on.
OnItsWay(i) ==
    /\ \E r \in Range(WriteStrand!Pending) \cup running : r.req = i /\ r.last
    /\ Writing

\* What an unsettled request waits for: its own handler, callback or reply, or,
\* as long as it has not been taken, whoever has the turn, or a read that
\* readbuf does not make pointless.
Attended(i) ==
    \/ i \in InTurn \/ OnItsWay(i)
    \/ /\ i > taken
       /\ InTurn # {} \/ arrived > fetched \/ (reads > 0 /\ taken = fetched)

\* The session never stalls: each request of a peer that keeps the connection
\* open is settled, or something is due that will take it further.
NoRequestForgotten ==
    peerClosed \/ \A i \in DOMAIN c2s : Settled(i) \/ Attended(i)

\* A failed send never brings the process down: message_call is noexcept and
\* swallows the system_error of the reply function.
NoTerminate == ~terminated

\* Nobody holds a reference to the session: no read, no handler, no callback,
\* no write.  shared_from_this then destroys it and closes the socket.
SessionOver == /\ reads = 0 /\ arrived = fetched /\ InTurn = {}
               /\ failures = 0
               /\ pushes = <<>> /\ nexts = 0 /\ queue = <<>> /\ running = {}

\* A session whose peer is gone is destroyed: it leaks neither itself nor its
\* socket, whatever it was doing when the peer closed.
PeerCloseEndsSession == peerClosed ~> SessionOver \/ terminated
=============================================================================
