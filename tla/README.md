# A TLA+ model of varlink-cpp

varlink-cpp is a header library for clients and servers of the varlink protocol: JSON messages, each
ended by a NUL, over a stream socket. It is built on asio. Every class is a chain of completion handlers
that may run on any thread of an executor, and almost nothing is locked: what keeps two handlers apart is
the order in which they start each other. This directory models that order, checks it with TLC, and proves
the parts that everything else rests on with TLAPS.

Paths below are relative to the repository; `include/` is `src/include/varlink/`.

## 1. Inventory

| Component | State | Operations | What makes it correct |
|---|---|---|---|
| `detail::manual_strand` (`include/detail/manual_strand.hpp`) | `queue_`, `executing_`, the lambdas that `net::dispatch` has queued | `push`, `next`, `execute` | one asynchronous operation at a time, in the order of the pushes, and none is forgotten |
| `json_connection` (`include/json_connection.hpp`) | the socket, `readbuf`, `read_end`, `write_strand` | `send`, `receive`, `async_send`, `async_receive`, `cancel`, `close` | messages arrive whole, once and in order, however the socket cuts them up; the end of file comes last |
| `server_session` (`include/server_session.hpp`) | its connection, `send_ec`, itself (`shared_from_this`) | `start`, the reply function, `async_send_reply` | half duplex: one request at a time; replies in order; the session ends when its peer does |
| `varlink_service` (`include/service.hpp`, `source/service.cpp`) | the vector of interfaces and callbacks | `add_interface`, `message_call`, GetInfo, GetInterfaceDescription | a call ends with one final reply; the dispatch never throws |
| `varlink_interface`, `detail::scanner` (`source/interface.cpp`, `include/detail/scanner.hpp`, `source/member.cpp`) | the members, immutable after construction | construction, `validate`, printing | a callback sees parameters of the declared type only; the printed description means the same |
| `async_client` (`include/async_client.hpp`) | its connection, `call_strand`; the mode in each closure of a synchronous call | `async_call` in four modes, `call`, `call_more`, `call_oneway`, `call_upgrade`, `cancel`, `close` | a reply reaches the call it answers; calls are served in their order; every call ends |
| `async_server`, `varlink_server`, `threaded_server` | acceptor, service, pool, the socket file | construction, accept loop, `add_interface`, `stop`, `join`, destruction | the registry is stable while it is read; nothing is used after its destruction; the socket file comes and goes with the server |
| `varlink_message` (`include/detail/message.hpp`) | none | construction, `mode`, `interface`, `method` | a message that was built is read back as the same call |
| `varlink_uri` (`include/uri.hpp`) | none | parsing | the parts of the address |
| error codes (`include/detail/varlink_error.hpp`) | the list of error names, one for the process; `async_read_reply` looks each error reply up in it | `get_error_code` | one code for each name |
| `varlink_client` (`include/client.hpp`) | a variant of two clients | `connect`; forwards the rest | the client it holds outlives its handlers |

**How they interact.** An `async_client` queues its calls on `call_strand`; the call in front writes its request
with `async_send`, reads its replies with `async_receive`, and calls `call_strand.next()`. At the other end
`start()` reads one request, `message_call` runs the callback with a function that sends replies, and the
*final* reply calls `start()` again. A callback may keep that function and use it later, on another thread.
All writes of a connection go through its `write_strand`. What connects client and server is the wire alone:
a reply has no identifier, so its position decides which call it belongs to. A server's owner shares the
service with the sessions: `add_interface` and the destructors run on its thread while the pool's threads
handle requests.

**What is hard.** (1) No session has a loop or a lock: that it never reads two requests at once follows
from who calls `start()`. (2) Errors travel apart from data: a failed write sets `send_ec` on one thread while a
callback replies on another. (3) Frames come in parts, or several at once, and requests or replies wait in
`readbuf` after the socket has reached its end. (4) Either end may close at any moment, and every call must
still end, also when one is cancelled while its reply is on the way. (5) Callbacks are foreign code. (6) A type is
reduced to three flags when it is parsed. (7) `threaded_server` accepts connections from its constructor to
the end of its destructor, and nothing but the order of its owner's steps protects what the handlers use.
`PROJECT.json` lists each hazard at its line with the properties that would catch it.

## 2. Modules

    Serializer          what a manual_strand promises       <- refined by ManualStrand
    ManualStrand        the strand                          <- instantiated by ServerSession, AsyncClient
    MessageChannel      what a connection promises          <- refined by JsonConnection
    JsonConnection      one direction of a connection, byte by byte
    ServerSession       session, dispatch and callbacks     \  composed in Varlink,
    AsyncClient         asynchronous calls                  /  which refines
    RemoteCalls         what an asynchronous client promises
    ThreadedServer      owner, accept loop, registry        \  composed in
    SyncClient          synchronous calls                   /  ThreadedVarlink
    InterfaceScanner    description -> members -> description
    Message             a call -> JSON -> a call
    InterfaceMembers    has_member(), find_member()
    MessageCall         the dispatch of a frame: its message, its callback or error
    InterfaceValidation descriptions and validate(), the parameters of MessageCall
    MC*                 instances for TLC
    SequenceFacts       lemmas about sequences, and induction for them
    ManualStrandProofs, JsonConnectionProofs, ServerSessionProofs,
    VarlinkProofs, VarlinkRepliesProofs, ThreadedVarlinkProofs,
    MessageCallProofs                                       theorems

**ManualStrand.** `push()` and `next()` both dispatch a lambda to a `net::strand`; the model separates the
dispatch (`Push`, `Complete`) from the run of the lambda (`RunPush`, `RunNext`), so a push on one thread can
lie between the completion of an operation on another and its `next()`. `Execute` is `execute()`, called in
the same step as in the code. Pushes keep their order, as the strand guarantees; a `next` may overtake them,
which is more than asio allows.

**JsonConnection.** One end sends and the other receives. `WriteSome(n)` and `Reads(n)` move any number of
bytes; a completed read puts them behind `read_end` (`chunk`) and its handler (`HandleRead`) advances
`read_end`, takes out the first frame or reads on. `AsyncReceive` posts its handler when a frame lies in the
buffer; `BlockingReceive` returns it. `Cancel` aborts a waiting read. The buffer has `Cap` bytes and never
grows, like `readbuf`. A read with no room left completes with nothing, as a read into an empty buffer does.

**ServerSession.** One variable for each step of a request's way: sent (`c2s`), read (`arrived`), accounted for
(`fetched`), taken out of the buffer (`taken`), handler posted (`posted`), and then `pc`: on the stack of
`message_call` ("body"), kept for later ("parked"), "replied", or "dropped". Between a final reply and the
`start()` that follows it in the reply function, the call is in `restarts`: completion handlers of writes may
run there on other threads. `Dispatch` has every exit of `message_call`; `ReplyError` is its lambda `error`.
The write strand is an instance of ManualStrand whose functions are replies. A failed write first completes on
the strand (`WriteFails`) and then runs the session's handler (`SendFailed`), as in the code. What callbacks
*may* do beyond sending one final reply is a constant, `CallbackMay`, so that a run shows what each liberty costs.

**AsyncClient.** The call strand is an instance of ManualStrand whose functions are the calls, and the write strand
of the client's connection is another, whose functions are the `async_write`s of the calls. `net::dispatch` runs a lambda at once
if no thread is inside the `net::strand`, and queues it otherwise. A write may complete on one thread while the thread
that started it is still inside the write strand: then `write_strand.next()` waits, and so does the push of the next call, whose function returns
meanwhile (`WritePush`, `WriteStrandStep`). The message of such a call is gone when its write starts (`dangling`, finding 5), and the behaviour
ends there. With one thread on the executor every dispatch of the write strand runs inline.
`RequestReachesWire` comes before `WriteCompletes`, because a server may reply before the client's write handler runs. That handler calls
`write_strand.next()` and goes on with the call's own handler, which reads the reply or, for a oneway call or a failed write, calls
`call_strand.next()` first and the application's handler after it: two steps (`ReleaseBeforeHandler`, `CallHandler`), between which other
calls may be served. `DeliverReply` is `async_read_reply`'s handler, which does it the other way round: it hands the reply over, and then
reads on or lets the next call go; its lambda runs at any time after that, so one step is enough.

`cancel()` has two forms: a write ends with an error, with nothing or a part of its frame on the wire
(`CancelWrite`), and a receive ends with its reply still to come (`CancelReceive`). A part of a frame is `torn`: the
next request is read together with it, as one frame that is no message (`Garbled`).

**Varlink.** Client and session share the wire. The client's close is the session's `peerClosed`; the server's
end is closed when no handler refers to the session any more (`SessionOver`) or its process ends (`ServerStops`).
A cancelled receive leaves a reply behind, and the calls after it *lag* (`Lags`): the properties say exactly what
is still promised then.

**RemoteCalls.** Calls are made, served one by one in that order, hear replies (any number for `more`, none
for `oneway`, one otherwise) and end. A call that has heard a reply ends before the next one is served; one that has heard
nothing may make way first and end later (`MakeWay`, `End`). Varlink implements it with `heard <-` the lengths of `delivered`, `served <-`
the functions that the call strand has finished, and `ended <-` those of them whose handler was called.

**SyncClient.** The synchronous calls write at once and return a closure that reads one reply when it is invoked;
`call_more` hands it out. The closure's mode becomes `oneway` with the final reply or an error, so that a drained
closure reads no more (`Drains`). A client belongs to a thread that drains a call before it makes the next, as the
tests do, and may invoke the closures of older calls at any time (`Invoke`).

**ThreadedServer.** The owner constructs the server (or fails, because the path exists), adds interfaces, stops,
joins and destroys it member by member in the reverse order of their declaration. `interfaces` is a vector:
`storage` counts its allocations, and `add_interface` into a full one moves the entries (`AddMoves`) before the
vector refers to the new storage (`AddPublishes`). A session's reads of the registry are steps of their own:
`Dispatch` takes the positions `cbegin()` and `cend()`, `Search` is `find_if` and the comparison with `cend()`, `Execute`
the callback; GetInfo and GetInterfaceDescription read the registry again there. Whatever a handler uses that is not
alive, or is not the vector's storage any more, goes to `dangling`, and the behaviour ends. What the owner
does at a bad time is a constant, `OwnerMay`: `add_anytime`, adding interfaces while requests are handled, and
`destroy_running`, destruction without `stop()` and `join()`. Without them the module is also a `varlink_server`.

**ThreadedVarlink.** Synchronous clients, each on a thread, and the server, over one pair of queues of frames for
each connection.

**InterfaceScanner, Message, MessageCall, InterfaceValidation.** The recursive descent over tokens, with the three flags that
prefixes set whatever their order; `to_string` and `operator<<` back to tokens. `Build` and `Parse` are the two constructors
of a message, on JSON values. A frame goes from `Call` (or `PeerSends`, for one that no client of this library made)
through `Receive` and `Verdict`, which chooses the callback or the error. How an interface is read and what `validate()` says are
constant operators of MessageCall, `Read` and `Valid`, because types are trees and the two follow them recursively;
InterfaceValidation defines them (`ReadInterface`; `Validate`, one disjunct per branch) and its configurations put them in.
`Conforms` says independently, on the type as it was declared, which values belong to it.

**Abstractions.** Session and client exchange whole frames; JsonConnection justifies that, on the condition that
one receive is in progress at a time, which `HalfDuplex` and `OneCallOnTheWire` establish for its two users.
There a message is its mode and where it leads; parameters, method names and reply values are left out, and so are
the errors' texts. A parked callback catches the `system_error` of its reply function, as `example/more.cpp`
does. Two reads that overlap fill the same bytes; the model then handles one after the other, which is enough
for the run that shows that it happens. Definitions commented "Faulty" (each in front of the one that it
distorts) are used by no specification: they are the plausible bugs that each property is shown to detect.

## 3. What TLC checks

| Run | Bounds | Shows |
|---|---|---|
| `strand` | 4 functions | `TokenInv`: `executing_` is set exactly while one operation, or the one `next()` it owes, exists. `MutualExclusion`, `EveryPushCompletes` (no lost wake-up), `ImplementsSerializer` (first in, first out) |
| `connection` | buffer of 4 bytes, texts of 0 to 2 bytes, 4 messages, 1 cancel | `BytesConserved`, `EofAfterLastMessage`, `ImplementsChannel`, `EveryMessageReceived`, `CloseIsSeen` |
| `connection_long` | buffer of 3, a text of 3 | finding: a frame longer than the buffer is never received |
| `session` | 3 requests of 5 kinds, 1 continued reply; callbacks may throw on oneway calls, and throw a `system_error` of their own | `HalfDuplex`, `RepliesInOrder`, `NoRequestForgotten` (on an open connection every request is settled or something is due for it), `EveryRequestAnswered` (or the connection ends), `PeerCloseEndsSession` |
| `session_terminate` | same, callbacks take no liberties | finding: an error reply after a failed send ends the process |
| `varlink` | 3 calls, at most one of them with `more` and one oneway, 1 continued reply, 1 cancel | `ReplyMatchesCall`, `RepliesComplete`, `DeliveredInOrder`, `SentInCallOrder`, `ClientOwnsWire`, `NoPipelining`, `NoMutualWait` (never does each end wait for the other), `ImplementsRemoteCalls`, with either end closing at any moment |
| `varlink_liveness` | 2 calls of 3 kinds, 1 continued reply, 1 cancel | `EveryCallEnds`, also when the server dies between request and reply |
| `varlink_oneway` | 2 calls, callbacks may throw on oneway calls | finding: an error reply to a oneway call is taken for the next call's reply |
| `varlink_message` | 2 calls, no cancel | finding: a message is destroyed before it is written |
| `threaded` | 2 clients with 2 calls and a long one, 3 interfaces, 2 continued replies | `NoDanglingAccess`, `OwnReplies`, `KnownInterfaces`, `SocketFile`, `NoCallStranded` (who waits for a reply has one coming, an end of file, or an accept loop), `CallReturns`, from construction to destruction |
| `threaded_destroy` | same, the owner destroys the server while it runs | finding: the accept loop uses the destroyed acceptor |
| `validation` | all built-in types, a named struct and enum, an enum of one name, up to 3 prefixes; values nested 2 deep; calls in each mode and frames that are none | `OnlyLoneNamesRejected`, `DescriptionRoundTrip`, `PlainTypesExact`, `DistinctTypesAccepted`, `LeavesTyped`, `CallArrives` |

**Why the bounds are enough.** Four functions put one in progress, one in `queue_` and two in dispatch, the most
that any step of the strand looks at. The session never looks further than one request ahead of the one it
serves; three requests put one in service, one in `readbuf` and one on the wire. One continued reply is enough for
the write strand to hold two replies of one call. Three calls put one behind the cancelled call that gets its reply, and
one behind that. The run `varlink` has all sequences of three calls with at
most one of kind `more` and at most one oneway (`MixedCalls`), which keeps it at a million and a half states; two of the same kind in a row are in
`varlink_liveness`, and the theorems of section 4 are about any calls. Requests of the kinds that fail before a callback look to the client like a callback that throws, so
`varlink` has three kinds only. Three interfaces beside the service's own make the vector grow twice into new storage and
once within it; two clients put one in `message_call` while the other connects, streams or is refused. A buffer of four bytes holds two whole
short frames, or a whole one and part of another; a buffer that is full without a NUL is what `connection_long` is about. Types with two prefixes have all
orders of two flags, the third prefix adds the one case in which the scanner's double-`?` check is reset.

**Fairness.** Weak fairness of: lambdas that are dispatched and handlers that are ready (an executor with a
running thread runs them); reads once there is data or an end of file, and writes once started (the kernel
completes them, one way or the other); callbacks, as one group, which end their call (a callback that never
replies is a program that chose so; `CallbackContinues` has no fairness, so streams end only because
`MaxReplies` bounds them and the final reply is fair); and, in JsonConnection, a user that receives again. Nothing
obliges peers to send, to close or not to close, nor applications to make calls. In ThreadedVarlink the accept loop and each
session's handlers are fair one by one, because each thread of the pool takes what is ready in its turn; failing accepts,
streaming, `stop()` and connecting are not; an owner that has begun to add an interface, or stopped the pool, goes on. `CHECK_DEADLOCK FALSE` is given
where the system comes to rest: calls have ended and no more are made. `connection` and `connection_long` keep the
deadlock check: a receiver can always receive again.

## 4. What TLAPS proves

For every value of the constants, not only for the instances above. The theorems assume nothing but the constants' named
assumptions and, where a condition is given, that condition; each condition holds in the instance of the run that checks
the property, and is needed because of something that section 5 or 6 reports.

| Property | Theorem | Condition |
|---|---|---|
| ManualStrand: `TypeOK`, `TokenInv`, `MutualExclusion` | `ManualStrandProofs!TypeCorrect`, `TokenCorrect`, `OneAtATime` | |
| ManualStrand: `ImplementsSerializer`, its safety part | `ManualStrandProofs!StrandIsSerializer` | |
| JsonConnection: `TypeOK`, `BytesConserved`, `EofAfterLastMessage`, `ImplementsChannel` | `JsonConnectionProofs!TypeCorrect`, `NoByteLost`, `EndComesLast`, `ConnectionIsChannel` | |
| ServerSession: `TypeOK`, `NoRequestForgotten` | `ServerSessionProofs!TypeCorrect`, `NothingIsForgotten` | |
| ServerSession: `HalfDuplex`, `RepliesInOrder` | `ServerSessionProofs!HalfDuplexHolds`, `RepliesStayInOrder` | no continued replies to oneway calls |
| Varlink: `TypeOK`, `ClientOwnsWire`, `SentInCallOrder`, `DeliveredInOrder`, `ImplementsRemoteCalls` | `VarlinkRepliesProofs!TypeCorrect`, `VarlinkProofs!OneCallOwnsTheWire`, `VarlinkRepliesProofs!RequestsInOrder`, `NoReplyIsLost`, `VarlinkProofs!CallsAreServedInOrder` | |
| Varlink: `ReplyMatchesCall`, `RepliesComplete`, `NoPipelining` | `VarlinkRepliesProofs!RepliesMatchCalls`, `RepliesAreComplete`, `CallsTakeTurns` | oneway requests find a callback, and it keeps quiet |
| Varlink: `NoMutualWait` | `VarlinkRepliesProofs!SomeoneGoesOn` | no continued replies to oneway calls |
| Varlink: `ReplyMatchesCall` without its exception for cancels, which the run `varlink` does need | `VarlinkRepliesProofs!UncancelledRepliesMatch` | as for `ReplyMatchesCall`, and nothing is cancelled |
| ThreadedVarlink: `TypeOK`, `SocketFile` | `ThreadedVarlinkProofs!TypeCorrect`, `SocketFileKept` | |
| ThreadedVarlink: `OwnReplies`, `KnownInterfaces`, `NoCallStranded` | `ThreadedVarlinkProofs!RepliesAreOwn`, `InterfacesStayKnown`, `NobodyIsStranded` | oneway calls do not miss their interface |
| ThreadedVarlink: `NoDanglingAccess` | `ThreadedVarlinkProofs!NothingDangles` | `OwnerMay = {}` |
| MessageCall: `CallArrives` | `MessageCallProofs!CallsArrive` | methods are words, modes are the four, null has one form |

**Strand.** `MutualExclusion` alone is not inductive: a second `next()` in flight would start a second operation. The
inductive invariant is `TypeOK /\ TokenInv`: there is exactly one token, held by the operation in progress or by the
`next()` that it left, and `executing_` says whether it exists. Every step of the strand is a step of the FIFO serializer
or a stutter, under the mapping `waiting <- queue \o pushes`. The other proofs take these facts by instantiation, with
one lemma for the steps of each strand.

**Connection.** `BytesConserved` and the types together are not inductive either: they allow a receive that waits for
bytes while a whole message lies in the buffer, and an end of file that overtakes one. `IInv` adds `NothingOverlooked` (a
read waits only while no frame is in `readbuf`), `PostedIsNext` (a posted handler has the next message), `OutgoingIsEnd`
(what the sender still has to write ends one frame and begins no other) and `EndIsEnd` (at an end of file nothing is left on the
wire, and nothing in the buffer that could be a message). The first frame in `readbuf \o chunk \o wire \o outgoing` is the text of
the next message, by a lemma on concatenated frames, however the bytes were cut up on the way; that is also the step of
the refinement. The buffer may have any size from one byte on, and messages longer than it are not excluded:
they are never received (finding 4), but nothing is received wrongly.

**Session.** `HalfDuplexHolds`: the inductive invariant adds `Counts` (taken <= fetched <= arrived and the types of
the counters) and `Phases`, which ties each request's `pc` to these counters: only requests that were taken can be
in turn, posted ones are still "waiting", restarting ones have "replied". `TypeCorrect` needs no condition on callbacks.
`RepliesStayInOrder` looks at one sequence, `Flow`: the replies written, the one being written and those that wait in the
write strand. `FlowInv` says that what is written is in order, with the replies to a request numbered without a gap and the
final one last (`InOrder`); and that, as long as no write has failed (`Intact`), all of `Flow` is, and its last element is the
newest reply there is (`Newest`). A completed write moves the border between written and waiting, and a reply extends
the end; with `Turn` (whatever is due belongs to the last request taken) the new reply fits there. All this is false with the liberty
`oneway_continues`, which lets a session take a second request while it replies to the first.

`NothingIsForgotten` is the safety half of `EveryRequestAnswered`: not that a request is answered in the end, but that no
handler order leaves one behind with nothing due for it. `AttendInv` has four parts, on an open connection: no
write fails (`Intact`), a request that was taken has its handler posted until it is dispatched, a call that was replied to has its final reply in `Flow`
(`Kept`), and the session goes on (`GoesOn`: a request in turn, a read to be handled, or a read in progress with nothing buffered)
unless it gave a call up. It needs no condition on callbacks: a session that reads twice forgets nothing.

**Client and wire.** `ClientInv` (VarlinkProofs) is the invariants of both strands and `HolderInv`: either no call is running and nothing is
waiting, written or read, or the one that holds the call strand is in one of three places, in the dispatched pushes or the queue of the write strand, in its write, or in its
receive (`UsesWire`). That at most one push is ever in the write strand, and none while a call writes or reads (`NoWriteWaits`), is what makes a late `next()` harmless: whichever of the two
lambdas runs first, the write starts once (`WriterStep`, `LambdaUses`). `OrderInv` says that the calls up to some `m` are over, the next one may
be running, and all others wait in the order in which they were made, across the three places where a pushed function
can be (`Strand!Pending`); `HandlerInv`, that nobody receives for a oneway call. VarlinkRepliesProofs adds what is on the
wire. Every step of Varlink is, for the client's half, of one of five kinds (`Quiet`, `Writes`, `Reads`, `Ends`, `Hears`), and
each invariant is shown for the kinds, not for the actions. A step of the write strand, or a handler that was held back, is `Quiet` for the wire. `CallsInv` holds without conditions: requests on the wire are
in the order of the calls and of calls that were served (`WireInv`), only cancelled calls fail on a connection that is still good (`FailInv`),
nothing is heard before a call reads (`HeardInv`). From it follow `SentInCallOrder` and, because the call that
reads is the last one that has heard anything, `DeliveredInOrder`: the heard replies, call after call, are the prefix of
`s2c` that the client has read.

That a reply reaches *its* call needs both ends. The session's `SessionInv` and `FitsInv` (each reply fits the mode of its
request) come from ServerSessionProofs, instantiated on the client's frames. `MatchInv` says which call took each reply. `ConsumedInv` says
that a call that ended well has left no reply unread, and `HalfwayInv`, that the call in progress has heard all replies to
its request up to the last reply read, which is not its final one. Then the next reply on the wire is the first one, or the
next one, to the call that reads (`NextIsTaken`, `NextInOrder`). `CompleteInv` collects what the handlers have heard. The invariants except calls that lag behind a
cancelled receive, exactly as the properties do. The condition excludes what finding 2 is about, a oneway call that is replied to
with an error because there is no such interface or method or because its callback throws, and the second
observation's continued replies to one; these put a reply on the wire that no call reads. Where `MaxCancels = 0` nothing lags, and the
exception disappears (`UncancelledRepliesMatch`).

`SomeoneGoesOn` puts the two together: there is no state in which a call is unfinished, the client waits for a reply, the session
waits for a request, and nothing is under way. `WaitInv` adds to `CallsInv` and the session's `SessionInv` and `AttendInv` that the call which reads has not heard its
final reply (`OpenInv`). The request of that call was sent, so by `AttendInv` the session is busy with it, has given it up (then it
ends, and the client reads its end of file), or has answered it; and an answer that the client has not read is on the wire or in the write strand.
It holds when replies reach other calls than their own, so it excludes only `oneway_continues`; a frame that was torn by a cancel ends the session.

**Threads.** `SocketFile` depends on the owner alone: the invariant ties `path` to the owner's position and to whether the
member `server` is alive. `LifeInv` (for `NoDanglingAccess`) says that a handler in `message_call` implies all members and an
owner that neither moves entries nor has joined, that the positions it has read are those of the present storage, and that
once the owner has joined the pool is stopped. `ServerInv` needs no condition: the registry only grows and has
no name twice, also between `AddMoves` and `AddPublishes` (`RegistryInv`); a connection is in one place at a time, backlog, accept or session
(`AdmissionInv`); the replies of a session follow one another, each says of the registry what was true when it was written,
and no request misses an interface that an earlier reply knew (`SessionInv`). For `OwnReplies`, `CallsInv` adds that all of a client's calls but the last are
over, that a closure that is drained reads no more, and that the replies read so far are those handed out: the replies in
`down` beyond `taken` belong to the last call. A oneway call that misses its interface would be sent an error (finding 2), which the next call would read.

`NoCallStranded` needs the owner, the accept loop and the sessions together. `NobodyStuck` adds to `ServerInv` that as long as there is a server
there is an accept loop, or it failed (`accept # "none"`), and that a connection is nowhere but in its backlog, with the accept, in a session, or closed
(`Served`); and that a session which reads has sent a reply to each request that wants one (`Answered`). With `AllCalls` a client that waits has read all replies
to earlier calls, so either the last reply is still to be read or its request is.

**Messages.** `CallsArrive` is about data, not steps: what `Parse` reads in a message that `Build` wrote (`MessageIsRead`). The flags
are asked for in an order, and one that is set hides those behind it, so the proof is that a client sets one at most (`Carries`) and that `Parse`
finds that one. It holds for every interface and every `validate`, because MessageCall takes both as constant operators.
`Before` strengthens the invariant: there is no call as long as there is no verdict.

**Sequences.** The library states induction with an operator as a parameter, which no prover here can instantiate.
SequenceFacts states it for *sets* of numbers instead (`NatSetInduction`), from the well-foundedness of `<`, and from it what the proofs
need of `FlattenSeq`: its type, that it distributes over appending and concatenation, what its head is, and what appending to one part does.

**Only model-checked.** Everything about liveness and fairness (`EveryPushCompletes`, `EveryRequestAnswered`,
`PeerCloseEndsSession`, `EveryCallEnds`, `EveryMessageReceived`, `CloseIsSeen`, `CallReturns`, and the fairness of `ImplementsSerializer`): they need ENABLED, which the prover does not know. And five properties of
descriptions and values (`OnlyLoneNamesRejected`, `DescriptionRoundTrip`, `PlainTypesExact`, `DistinctTypesAccepted`, `LeavesTyped`): types are trees,
the definitions follow them with RECURSIVE operators, and what these compute for every tree needs induction over
data. They stay in InterfaceScanner and InterfaceValidation, which no theorem uses; the run's inputs are all types and values up to the stated
depth.

## 5. Findings

1. **Error reply after a failed send** (`include/service.hpp:70`). `message_call` is `noexcept`, but its lambda
   `error` is called outside the `try` block or in `catch` clauses, and the reply function throws once `send_ec` is set:
   `std::terminate`. A client that hangs up at the wrong moment ends the server.
2. **Error replies to oneway calls** (`include/service.hpp:72`). They are sent, and the client takes them for the reply
   to its next call; from then on every reply is one call late.
3. **Destruction of a running server** (`include/threaded_server.hpp:33`). The members are destroyed before the pool that
   runs handlers on them; without `stop()` and `join()`, as in the test "VarlinkServer, CreateDestroy", the posted start of
   the accept loop uses the destroyed acceptor.
4. **Frames of more than BUFSIZ bytes**, that is, messages of BUFSIZ bytes or more (`include/json_connection.hpp:147`): the buffer fills up
   without a NUL and the receive repeats a read of no bytes for ever.
5. **A message that is gone before it is written** (`include/json_connection.hpp:177`). A client on several threads: the function
   that `async_call` pushes to the call strand owns the copy of the message (`include/async_client.hpp:206`), and the one that `async_send` pushes to
   the write strand refers to it. The second runs inside the first only if no thread is inside the write strand. After a write that completed
   on another thread, before the one that started it left the strand, `write_strand.next()` and the next call's push are queued; the call's
   function returns, and `message.dump()` reads a destroyed object. `server_session` is not affected, because its handler owns the message.

## 6. Observations

What the models also show, where no document of the repository says otherwise. Each can be seen by giving the
constant the value named here, or by reading the definition named.

* Callbacks that send continued replies to a oneway call (`CallbackMay = {"oneway_continues"}`) break `HalfDuplex`: each
  call of the reply function with `nullptr` counts as final and starts another read (`include/service.hpp:98`).
* A callback's own `system_error` is taken for a send error: there is no reply, and the session ends on a working
  connection (`include/service.hpp:124`). `EveryRequestAnswered` allows it, because the session then hangs up.
* `add_interface` while requests are handled (`OwnerMay = {"add_anytime"}`) breaks `NoDanglingAccess`: the vector moves while
  a handler holds positions in it, and `threaded_server` accepts connections before the first interface is added. `message_call` and `add_interface` have no
  lock: the guards that keep them apart in ThreadedServer (`MayAdd`, `Dispatch`) are the discipline of the tests, not of the code.
* On several threads the handler of a oneway call, or of a call whose write failed, may be called after the handlers of later calls:
  `call_strand.next()` comes before it (`include/async_client.hpp:212`, `216`). RemoteCalls allows no more than that.
* An enum of one name, `(x)`, which varlink allows, is rejected (`include/detail/scanner.hpp:93`): after the first name the scanner expects a colon
  or a comma. `OnlyLoneNamesRejected` says that it rejects nothing else.
* A dictionary of structs with fields never validates (`source/interface.cpp:60`): the element is checked against the type_spec of the dictionary,
  whose dict flag is still set, so that the struct is taken for a dictionary again. `DistinctTypesAccepted` leaves such types out (`Distinct`).
* After a cancelled receive the calls that follow get each other's replies; `Lags` in Varlink says which.
* The synchronous client relies on its user to drain a `call_more` before the next call.
* An accept that fails, for whatever reason, ends the accept loop for good (`include/async_server.hpp:47`); `CallReturns`
  excepts the clients that connect after it.
* `[]?int` is described to peers as `?[]int` (the flags have no order), and a type alias with prefixes is printed
  without them.

## 7. What is not modelled

* `varlink_uri`: it splits one string at its separators and has no state; an operator on characters would repeat it.
* The list of error names: with one thread a lookup that nothing depends on. Two threads that use it at once are a data race,
  whatever the order of their steps; it is listed under the hazards.
* A second `connect` of a `varlink_client`, which replaces the client that handlers in progress refer to; calls before
  the first.
* Reply handlers that throw, callbacks that reply again after their final reply: foreign code's errors, listed under
  the hazards.
* Regular expressions, white space, comments and layout of descriptions.
* `connect` of a connection and what else forwards to the socket; `movable_function`, a move-only `std::function`; the
  build, examples and vendored code.

## 8. Plan

1. **Done.** All modules of section 2, the runs of section 3 and the theorems of section 4: every invariant and action
property that a run checks is a theorem, except the five about descriptions and values.
2. **Interfaces.** The three flags of a prefix do not depend on its order: a module of prefixes without RECURSIVE operators, for
which the part of `ReadTypeSpec` in front of the type would be a fold.
3. **Facade.** `varlink_client::connect` on a connected client, once the library says what becomes of the calls in
progress.
