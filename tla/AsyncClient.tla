---------------------------- MODULE AsyncClient -----------------------------
(***************************************************************************)
(* async_client with the json_connection it owns: any number of            *)
(* asynchronous calls may be started at any time, from any thread, and the *)
(* call strand lets one call at a time write its request and read its      *)
(* replies.                                                                *)
(*                                                                         *)
(* Handlers run on any thread of the executor.  Both strands dispatch what *)
(* is pushed to them: a lambda runs inline if no thread is inside the      *)
(* net::strand, and waits otherwise.  Between the dispatch of a call's     *)
(* call_strand.next() and its handler, other calls may go on.              *)
(*                                                                         *)
(* A message is a whole frame, and the k-th frame on the wire belongs to   *)
(* call sent[k].  Only a cancelled write leaves a part of one, which the   *)
(* next frame joins.                                                       *)
(***************************************************************************)
EXTENDS Integers, Sequences, FiniteSets, Functions

CONSTANTS
    Request,        \* the requests an application may send
    Reply,          \* the replies that may come back, records with a last flag
    MaxRequests,    \* bound: calls made over the connection
    MaxCancels      \* bound: calls ended by cancel()

Calls == 1 .. MaxRequests

VARIABLES
    c2s, s2c,       \* the frames written so far to each end of the connection
    closed,         \* the client has closed its socket
    serverGone      \* the server has closed its socket

VARIABLES
    requests,       \* the calls made, in order
    sent,           \* the calls whose request is on the wire, in order
    receiving,      \* calls whose async_receive is in progress
    cfetched,       \* how many replies socket reads have put in readbuf
    got,            \* how many replies have been taken out of readbuf
    delivered,      \* the replies each call's handler was given
    failed,         \* calls that ended with a connection error
    cancelled,      \* calls that cancel() ended
    ending,         \* calls that have let the next one go and are yet to
                    \* call their handlers
    dangling,       \* calls whose message was destroyed before it was written
    torn            \* the wire ends with a part of a request

\* The call strand; its functions are the calls.
VARIABLES cpushes, cnexts, cqueue, cexecuting, crunning, cfinished

CallStrand == INSTANCE ManualStrand
                WITH Fn <- Calls, pushes <- cpushes, nexts <- cnexts,
                     queue <- cqueue, executing <- cexecuting,
                     running <- crunning, finished <- cfinished

\* The write strand of the connection; its functions are the async_writes of
\* the calls, and wrunning are those in progress.
VARIABLES wpushes, wnexts, wqueue, wexecuting, wrunning, wfinished

WriteStrand == INSTANCE ManualStrand
                 WITH Fn <- Calls, pushes <- wpushes, nexts <- wnexts,
                      queue <- wqueue, executing <- wexecuting,
                      running <- wrunning, finished <- wfinished

callStrandVars == <<cpushes, cnexts, cqueue, cexecuting, crunning, cfinished>>
writeStrandVars == <<wpushes, wnexts, wqueue, wexecuting, wrunning, wfinished>>
readVars == <<receiving, cfetched, got>>
handlerVars == <<delivered, failed, ending>>
wireVars == <<c2s, s2c, sent, torn>>
clientVars == <<requests, sent, torn, cancelled, dangling, readVars, handlerVars,
                writeStrandVars, callStrandVars>>

\* A part of a request and a whole one up to the next NUL are not JSON.
Garbled(request) == [request EXCEPT !.target = "malformed"]

TypeOK == /\ requests \in Seq(Request)
          /\ closed \in BOOLEAN
          /\ sent \in Seq(Calls)
          /\ receiving \subseteq Calls
          /\ cfetched \in 0 .. Len(s2c)
          /\ got \in 0 .. cfetched
          /\ delivered \in [Calls -> Seq(Reply)]
          /\ failed \subseteq Calls
          /\ cancelled \subseteq failed
          /\ ending \subseteq cfinished
          /\ dangling \subseteq Calls
          /\ torn \in BOOLEAN
          /\ WriteStrand!TypeOK
          /\ CallStrand!TypeOK

Init == /\ requests = <<>> /\ sent = <<>>
        /\ receiving = {} /\ cfetched = 0 /\ got = 0
        /\ delivered = [i \in Calls |-> <<>>]
        /\ failed = {} /\ cancelled = {} /\ ending = {}
        /\ dangling = {}
        /\ torn = FALSE
        /\ WriteStrand!Init
        /\ CallStrand!Init

Mode(i) == requests[i].mode

\* write_strand.push() in the function of call i.  The lambda runs inline when
\* nobody holds the net::strand.  Otherwise it waits, the function of the call
\* returns, and the message it owns is destroyed.  A thread that has run next()
\* and has yet to leave the strand counts as one that is about to run it: with
\* no other call in the strand, next() changes nothing that anybody sees.
WritePush(i) ==
    \/ /\ wpushes = <<>> /\ wnexts = 0
       /\ \/ wexecuting /\ wqueue' = Append(wqueue, i) /\ UNCHANGED <<wexecuting, wrunning>>
          \/ ~wexecuting /\ WriteStrand!Execute(Append(wqueue, i))
       /\ UNCHANGED <<wpushes, wnexts, wfinished>>
    \/ /\ wpushes # <<>> \/ wnexts > 0
       /\ WriteStrand!Push(i)

\* call_strand.next(), and the handler of call i is called only after it.
ReleaseBeforeHandler(i) == CallStrand!Complete(i) /\ ending' = ending \cup {i}
-----------------------------------------------------------------------------
\* async_call, async_call_more, async_call_oneway or async_call_upgrade.
AsyncCall(request) ==
    /\ Len(requests) < MaxRequests
    /\ requests' = Append(requests, request)
    /\ CallStrand!Push(Len(requests'))
    /\ UNCHANGED <<wireVars, closed, cancelled, dangling, writeStrandVars, readVars,
                   handlerVars>>

\* A lambda of the call strand runs.  The function of a call that it starts
\* hands the request to async_send.
CallStrandStep ==
    /\ CallStrand!RunPush \/ CallStrand!RunNext
    /\ IF crunning' \subseteq crunning
         THEN UNCHANGED writeStrandVars
         ELSE \E i \in crunning' \ crunning : WritePush(i)
    /\ UNCHANGED <<requests, wireVars, closed, cancelled, dangling, readVars, handlerVars>>

\* A lambda of the write strand runs that had to wait.  An async_write that it
\* starts is of a message that is no more; what that does is not defined, and
\* the behaviour of the client ends.
WriteStrandStep ==
    /\ WriteStrand!RunPush \/ WriteStrand!RunNext
    /\ dangling' = wrunning' \ wrunning
    /\ UNCHANGED <<requests, wireVars, closed, cancelled, readVars, handlerVars,
                   callStrandVars>>

\* The kernel accepts the last byte of a request: the server can read it.
RequestReachesWire(i) ==
    /\ i \in wrunning /\ i \notin Range(sent)
    /\ ~closed /\ ~serverGone
    /\ sent' = Append(sent, i)
    /\ c2s' = Append(c2s, IF torn THEN Garbled(requests[i]) ELSE requests[i])
    /\ torn' = FALSE
    /\ UNCHANGED <<requests, s2c, closed, cancelled, dangling, writeStrandVars, readVars,
                   handlerVars, callStrandVars>>

\* Faulty: lets the next call go as soon as the request is written.
WriteCompletesAndReleases(i) ==
    /\ i \in wrunning /\ i \in Range(sent)
    /\ WriteStrand!Complete(i)
    /\ CallStrand!Complete(i)
    /\ receiving' = IF Mode(i) = "oneway" THEN receiving ELSE receiving \cup {i}
    /\ UNCHANGED <<requests, wireVars, closed, cancelled, dangling, cfetched, got,
                   handlerVars>>

\* The completion handler of an async_write that succeeded: write_strand.next(),
\* and then a oneway call lets the next one go, any other reads its reply.
WriteCompletes(i) ==
    /\ i \in wrunning /\ i \in Range(sent)
    /\ WriteStrand!Complete(i)
    /\ \/ /\ Mode(i) = "oneway"
          /\ ReleaseBeforeHandler(i)
          /\ UNCHANGED receiving
       \/ /\ Mode(i) # "oneway"
          /\ receiving' = receiving \cup {i}
          /\ UNCHANGED <<ending, callStrandVars>>
    /\ UNCHANGED <<requests, wireVars, closed, cancelled, dangling, cfetched, got,
                   delivered, failed>>

\* An async_write that failed ends the call with its error.
WriteFails(i) ==
    /\ i \in wrunning /\ i \notin Range(sent)
    /\ closed \/ serverGone
    /\ WriteStrand!Complete(i)
    /\ ReleaseBeforeHandler(i)
    /\ failed' = failed \cup {i}
    /\ UNCHANGED <<requests, wireVars, closed, cancelled, dangling, readVars, delivered>>

\* The handler of a call that has let the next one go is called: a oneway call
\* is over, or a call whose request was not sent gets its error.
CallHandler(i) == /\ i \in ending
                  /\ ending' = ending \ {i}
                  /\ UNCHANGED <<requests, wireVars, closed, cancelled, dangling, readVars,
                                 delivered, failed, writeStrandVars, callStrandVars>>

\* Faulty: takes every reply for the last one.
DeliverOnlyReply(i) ==
    /\ i \in receiving
    /\ got' = got + 1
    /\ delivered' = [delivered EXCEPT ![i] = Append(@, s2c[got'])]
    /\ receiving' = receiving \ {i}
    /\ CallStrand!Complete(i)
    /\ UNCHANGED <<requests, wireVars, closed, cancelled, dangling, writeStrandVars, failed,
                   ending>>

\* Faulty: clears the read buffer behind a reply.
DeliverAndClear(i) ==
    /\ i \in receiving
    /\ got' = cfetched'
    /\ delivered' = [delivered EXCEPT ![i] = Append(@, s2c[got + 1])]
    /\ IF Mode(i) = "more" /\ ~s2c[got + 1].last
         THEN UNCHANGED <<receiving, callStrandVars>>
         ELSE /\ receiving' = receiving \ {i}
              /\ CallStrand!Complete(i)
    /\ UNCHANGED <<requests, wireVars, closed, cancelled, dangling, writeStrandVars, failed,
                   ending>>

\* The handler of async_read_reply with the next reply.  A continued reply to
\* a call with the more flag is followed by another async_receive; otherwise
\* the call is over and call_strand.next() lets the next one go.
DeliverReply(i) ==
    /\ i \in receiving
    /\ got' = got + 1
    /\ delivered' = [delivered EXCEPT ![i] = Append(@, s2c[got'])]
    /\ IF Mode(i) = "more" /\ ~s2c[got'].last
         THEN UNCHANGED <<receiving, callStrandVars>>
         ELSE /\ receiving' = receiving \ {i}
              /\ CallStrand!Complete(i)
    /\ UNCHANGED <<requests, wireVars, closed, cancelled, dangling, writeStrandVars, failed,
                   ending>>

\* read_next_message finds a reply in readbuf, which an earlier read put there.
ReceiveBuffered(i) == /\ got < cfetched
                      /\ UNCHANGED cfetched
                      /\ DeliverReply(i)

\* A socket read completes with one reply or more.
ReceiveFromSocket(i) == /\ got = cfetched
                        /\ ~closed
                        /\ cfetched' \in cfetched + 1 .. Len(s2c)
                        /\ DeliverReply(i)

\* Faulty: hands over the error and forgets call_strand.next().
ReceiveFailsAndKeepsStrand(i) ==
    /\ i \in receiving
    /\ got = cfetched
    /\ closed \/ serverGone
    /\ receiving' = receiving \ {i}
    /\ failed' = failed \cup {i}
    /\ UNCHANGED <<requests, wireVars, closed, cancelled, dangling, writeStrandVars, cfetched,
                   got, delivered, ending, callStrandVars>>

\* A socket read fails: end of file, reset, or the client's own close().
ReceiveFails(i) ==
    /\ i \in receiving
    /\ got = cfetched
    /\ closed \/ serverGone
    /\ receiving' = receiving \ {i}
    /\ CallStrand!Complete(i)
    /\ failed' = failed \cup {i}
    /\ UNCHANGED <<requests, wireVars, closed, cancelled, dangling, writeStrandVars, cfetched,
                   got, delivered, ending>>

\* cancel() aborts an async_write, which fails, and the part of the request
\* that the kernel has accepted stays on the wire.
CancelWrite(i) ==
    /\ i \in wrunning /\ i \notin Range(sent)
    /\ ~closed /\ ~serverGone
    /\ torn' \in {torn, TRUE}
    /\ WriteStrand!Complete(i)
    /\ ReleaseBeforeHandler(i)
    /\ UNCHANGED <<requests, c2s, s2c, sent, closed, dangling, readVars, delivered>>

\* cancel() aborts a socket read: the call ends without its reply.
CancelReceive(i) ==
    /\ i \in receiving
    /\ got = cfetched
    /\ ~closed
    /\ receiving' = receiving \ {i}
    /\ CallStrand!Complete(i)
    /\ UNCHANGED <<requests, wireVars, closed, dangling, writeStrandVars, cfetched, got,
                   delivered, ending>>

\* The aborted operation completes at once: between cancel() and its completion
\* the call does nothing, and holds the call strand.
Cancel(i) == /\ Cardinality(cancelled) < MaxCancels
             /\ cancelled' = cancelled \cup {i}
             /\ failed' = failed \cup {i}
             /\ CancelWrite(i) \/ CancelReceive(i)

Close == /\ ~closed
         /\ closed' = TRUE
         /\ UNCHANGED <<wireVars, clientVars>>

CallStep(i) == \/ RequestReachesWire(i)
               \/ WriteCompletes(i)
               \/ WriteFails(i)
               \/ ReceiveBuffered(i)
               \/ ReceiveFromSocket(i)
               \/ ReceiveFails(i)

Next == /\ dangling = {}
        /\ \/ \E request \in Request : AsyncCall(request)
           \/ CallStrandStep
           \/ WriteStrandStep
           \/ \E i \in Calls : CallStep(i) \/ CallHandler(i) \/ Cancel(i)
           \/ Close

\* The executor runs the lambdas and handlers that are ready, writes complete,
\* and so do reads once there is data or an end of file.
Fairness == /\ WF_clientVars(dangling = {} /\ CallStrandStep)
            /\ WF_clientVars(dangling = {} /\ WriteStrandStep)
            /\ WF_clientVars(dangling = {} /\ \E i \in Calls : CallStep(i))
            /\ WF_clientVars(dangling = {} /\ \E i \in Calls : CallHandler(i))
-----------------------------------------------------------------------------
(* Properties.                                                             *)

\* async_call captures the message by value (README.md), so that it is there
\* when it is written.  initiate_async_send refers to that capture, which dies
\* when the function of the call returns.
MessageOutlivesReference == dangling = {}

\* One call uses the connection at a time: it waits for the write strand, writes,
\* or reads, one after the other, and it holds the call strand.
OneCallOnTheWire ==
    LET waiting == Range(WriteStrand!Pending)
        users == waiting \cup wrunning \cup receiving
    IN  /\ Len(WriteStrand!Pending) <= 1
        /\ \A i, j \in users : i = j
        /\ waiting \cap wrunning = {} /\ (waiting \cup wrunning) \cap receiving = {}
        /\ users \subseteq crunning

\* A call is over once its handler has been called for the last time.
Over(i) == i \in cfinished \ ending

\* Every call ends: its handler is given a final reply or an error, whatever
\* happens to the connection, unless the program has lost its defined meaning.
EveryCallEnds == \A i \in Calls : i <= Len(requests) ~> Over(i) \/ dangling # {}
=============================================================================
