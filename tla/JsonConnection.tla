--------------------------- MODULE JsonConnection ---------------------------
(***************************************************************************)
(* json_connection at the level of bytes.  Frames end with a NUL; a write  *)
(* or a read moves any part of one or of several.  The receiving end has a *)
(* buffer of Cap bytes (BUFSIZ), which never grows, and hands out the      *)
(* frames it finds there before it reads again.                            *)
(*                                                                         *)
(* One end sends here and the other one receives.  Messages are sent one   *)
(* after the other, which write_strand sees to, and at most one receive is *)
(* in progress, which server_session and async_client see to.              *)
(***************************************************************************)
EXTENDS Integers, Sequences, SequencesExt, FiniteSetsExt

CONSTANTS
    Byte, NUL,      \* the bytes of a text, and the one that ends a frame
    Message,        \* the texts that may be sent
    Json,           \* those that json::parse accepts
    Cap,            \* BUFSIZ
    MaxMessages,    \* bound: messages sent
    MaxCancels      \* bound: calls of cancel()

ASSUME ByteAssumption == NUL \notin Byte
ASSUME MessageAssumption == Message \subseteq Seq(Byte) /\ Json \subseteq Message
ASSUME CapAssumption == Cap \in Nat \ {0}
ASSUME BoundAssumption == MaxMessages \in Nat /\ MaxCancels \in Nat

VARIABLES
    sent,           \* the messages given to send or async_send, in order
    outgoing,       \* the bytes of the last one that are still to be written
    wire,           \* bytes written and not yet read
    closed,         \* the sending end is closed
    readbuf,        \* the bytes of readbuf before read_end
    chunk,          \* bytes that a completed read has put behind read_end
    receive,        \* what the receive in progress waits for, see Stages
    blocking,       \* it is receive(), not async_receive()
    posted,         \* the result that a posted handler carries
    received,       \* results of the receives that ended with one, in order
    ended,          \* a receive ended with an end of file
    cancels         \* calls of cancel()

senderVars == <<sent, outgoing>>
bufferVars == <<readbuf, chunk>>
callVars == <<receive, blocking, posted, ended>>
vars == <<senderVars, wire, closed, bufferVars, callVars, received, cancels>>

Stages == {"none",          \* no receive is in progress
           "posted",        \* its handler has been posted
           "reading",       \* the socket read waits for bytes
           "read",          \* the read is complete, its handler has not run
           "eof",           \* the same, with an end of file
           "aborted"}       \* the same, with operation_aborted

Channel == INSTANCE MessageChannel

TypeOK == /\ sent \in Seq(Message)
          /\ outgoing \in Seq(Byte \cup {NUL})
          /\ wire \in Seq(Byte \cup {NUL})
          /\ readbuf \in Seq(Byte \cup {NUL})
          /\ chunk \in Seq(Byte \cup {NUL})
          /\ Len(readbuf) + Len(chunk) <= Cap
          /\ closed \in BOOLEAN /\ blocking \in BOOLEAN /\ ended \in BOOLEAN
          /\ receive \in Stages
          /\ posted # <<>> <=> receive = "posted"
          /\ chunk # <<>> => receive = "read"
          /\ cancels \in 0 .. MaxCancels

Init == /\ sent = <<>> /\ outgoing = <<>> /\ wire = <<>> /\ closed = FALSE
        /\ readbuf = <<>> /\ chunk = <<>>
        /\ receive = "none" /\ blocking = FALSE /\ posted = <<>>
        /\ received = <<>> /\ ended = FALSE /\ cancels = 0
-----------------------------------------------------------------------------
(* The sending end.                                                        *)

\* send() and async_send() write the text and its NUL.
Send(m) == /\ ~closed /\ outgoing = <<>>
           /\ Len(sent) < MaxMessages
           /\ sent' = Append(sent, m)
           /\ outgoing' = Append(m, NUL)
           /\ UNCHANGED <<wire, closed, bufferVars, callVars, received, cancels>>

\* One turn of the loop of send(), or of the one in net::async_write: the
\* kernel takes n bytes.
WriteSome(n) ==
    /\ ~closed
    /\ wire' = wire \o SubSeq(outgoing, 1, n)
    /\ outgoing' = SubSeq(outgoing, n + 1, Len(outgoing))
    /\ UNCHANGED <<sent, closed, bufferVars, callVars, received, cancels>>

\* What is not written by now never will be; what is written still arrives.
SenderCloses ==
    /\ ~closed
    /\ closed' = TRUE
    /\ UNCHANGED <<senderVars, wire, bufferVars, callVars, received, cancels>>
-----------------------------------------------------------------------------
(* The receiving end.                                                      *)

Holds(buf) == NUL \in Range(buf)

\* Where std::find finds the first NUL.
MessageEnd(buf) == Min({k \in DOMAIN buf : buf[k] = NUL})

\* read_next_message on a buffer that holds a frame: its result ...
FirstMessage(buf) == Channel!Parse(SubSeq(buf, 1, MessageEnd(buf) - 1))

\* Faulty: the NUL stays behind.
BehindTextOnly(buf) == SubSeq(buf, MessageEnd(buf), Len(buf))

\* Faulty: the rest of the buffer goes with the message.
BehindEverything(buf) == <<>>

\* ... and what std::copy moves to the front.
BehindMessage(buf) == SubSeq(buf, MessageEnd(buf) + 1, Len(buf))

\* A read into the rest of the buffer, where read_end points.  A read of no
\* bytes completes at once.
StartRead(buf) ==
    /\ receive' = IF Len(buf) < Cap THEN "reading" ELSE "read"
    /\ readbuf' = buf
    /\ chunk' = <<>>
    /\ UNCHANGED <<posted, received, ended>>

\* Faulty: reads from the socket without a look at the buffer.
AsyncReceiveAlwaysReads ==
    /\ receive = "none"
    /\ blocking' = FALSE
    /\ StartRead(readbuf)
    /\ UNCHANGED <<senderVars, wire, closed, cancels>>

\* async_receive() never calls its handler itself: a message that lies in
\* the buffer is taken out now and its handler posted.
AsyncReceive ==
    /\ receive = "none"
    /\ blocking' = FALSE
    /\ \/ /\ Holds(readbuf)
          /\ posted' = <<FirstMessage(readbuf)>>
          /\ readbuf' = BehindMessage(readbuf)
          /\ receive' = "posted"
          /\ UNCHANGED <<chunk, received, ended>>
       \/ /\ ~Holds(readbuf)
          /\ StartRead(readbuf)
    /\ UNCHANGED <<senderVars, wire, closed, cancels>>

\* receive() returns a message that lies in the buffer at once.
BlockingReceive ==
    /\ receive = "none"
    /\ \/ /\ Holds(readbuf)
          /\ received' = Append(received, FirstMessage(readbuf))
          /\ readbuf' = BehindMessage(readbuf)
          /\ UNCHANGED <<chunk, callVars>>
       \/ /\ ~Holds(readbuf)
          /\ blocking' = TRUE
          /\ StartRead(readbuf)
    /\ UNCHANGED <<senderVars, wire, closed, cancels>>

\* The kernel copies n bytes to where the read has room for them.
ReadsInto(room, n) ==
    /\ receive = "reading"
    /\ n <= room
    /\ chunk' = SubSeq(wire, 1, n)
    /\ wire' = SubSeq(wire, n + 1, Len(wire))
    /\ receive' = "read"
    /\ UNCHANGED <<senderVars, closed, readbuf, blocking, posted, received,
                   ended, cancels>>

\* Faulty: the read may fill as many bytes as the whole buffer has.
ReadsIntoWholeBuffer(n) == ReadsInto(Cap, n)

\* A read fills the part of the buffer behind read_end at most.
Reads(n) == ReadsInto(Cap - Len(readbuf), n)

\* There is nothing left to read and nothing more will come.
ReadsEndOfFile ==
    /\ receive = "reading"
    /\ closed /\ wire = <<>>
    /\ receive' = "eof"
    /\ UNCHANGED <<senderVars, wire, closed, bufferVars, blocking, posted,
                   received, ended, cancels>>

\* With buf in the buffer, a receive ends with the first message there, or
\* reads on if there is none.
GoesOnWith(buf) ==
    /\ receive = "read"
    /\ \/ /\ Holds(buf)
          /\ received' = Append(received, FirstMessage(buf))
          /\ readbuf' = BehindMessage(buf)
          /\ chunk' = <<>>
          /\ receive' = "none"
          /\ UNCHANGED <<posted, ended>>
       \/ /\ ~Holds(buf)
          /\ StartRead(buf)
    /\ UNCHANGED <<senderVars, wire, closed, blocking, cancels>>

\* Faulty: read_end does not keep up with the bytes of a partial frame.
HandleReadAtFront == GoesOnWith(chunk)

\* After a read without an error read_end advances over what it brought.
HandleRead == GoesOnWith(readbuf \o chunk)

\* Faulty: takes an end of file for a read of no bytes.
HandleErrorReadsOn ==
    /\ receive \in {"eof", "aborted"}
    /\ receive' = IF receive = "eof" THEN "reading" ELSE "none"
    /\ UNCHANGED <<senderVars, wire, closed, bufferVars, blocking, posted,
                   received, ended, cancels>>

\* An error goes to the handler, or out of receive() as a system_error; what
\* is in the buffer stays.
HandleError ==
    /\ receive \in {"eof", "aborted"}
    /\ receive' = "none"
    /\ ended' = (ended \/ receive = "eof")
    /\ UNCHANGED <<senderVars, wire, closed, bufferVars, blocking, posted,
                   received, cancels>>

HandlePosted ==
    /\ receive = "posted"
    /\ receive' = "none"
    /\ received' = received \o posted
    /\ posted' = <<>>
    /\ UNCHANGED <<senderVars, wire, closed, bufferVars, blocking, ended,
                   cancels>>

\* cancel() aborts an asynchronous read that waits.  It comes too late for
\* one that is complete, and does nothing to a posted handler.
Cancel ==
    /\ cancels < MaxCancels
    /\ cancels' = cancels + 1
    /\ receive = "reading" /\ ~blocking
    /\ receive' = "aborted"
    /\ UNCHANGED <<senderVars, wire, closed, bufferVars, blocking, posted,
                   received, ended>>

Write == \E n \in 1 .. Len(outgoing) : WriteSome(n)

Kernel == ReadsEndOfFile \/ \E n \in 1 .. Len(wire) : Reads(n)

Handler == HandleRead \/ HandleError \/ HandlePosted

Next == \/ \E m \in Message : Send(m)
        \/ Write
        \/ SenderCloses
        \/ AsyncReceive \/ BlockingReceive
        \/ Kernel
        \/ Handler
        \/ Cancel

\* Writes go on, a read completes once there are bytes or an end of file, the
\* executor runs the handlers that are ready, and the user of the connection
\* receives again, as a session does after each reply and a client with each
\* call.  Nobody has to send or close.
Fairness == /\ WF_vars(Write)
            /\ WF_vars(Kernel)
            /\ WF_vars(Handler)
            /\ WF_vars(AsyncReceive \/ BlockingReceive)

Spec == Init /\ [][Next]_vars /\ Fairness
-----------------------------------------------------------------------------
(* Properties.                                                             *)

\* The frames of a sequence of messages, one behind the other.
Frames(messages) == FlattenSeq([k \in DOMAIN messages |-> Append(messages[k], NUL)])

\* No byte is lost, doubled or moved, however writes and reads cut the frames
\* up and whatever cancel() interrupts: the buffer, the wire and the message
\* being written make up the frames that have not been taken out.
BytesConserved ==
    readbuf \o chunk \o wire \o outgoing
        = Frames(SubSeq(sent, Len(received) + Len(posted) + 1, Len(sent)))

\* The frames that are written to their end.
Complete == IF outgoing = <<>> THEN Len(sent) ELSE Len(sent) - 1

\* An end of file is reported behind the last message, not instead of one
\* that still lies in the buffer (the tests "Throw on end of file after data").
EofAfterLastMessage == ended => Len(received) = Complete

\* Receives return the messages that were sent, in order, parse errors in
\* their places, whatever mix of blocking and asynchronous calls is used.
ImplementsChannel == Channel!Spec

\* A message that was written to its end is received, in however many parts
\* it comes (the tests "Read partial" and "Allow partial transmissions").
EveryMessageReceived ==
    \A k \in 1 .. MaxMessages : Complete >= k ~> Len(received) >= k

\* A receiver learns that the other end has closed.
CloseIsSeen == closed ~> ended
=============================================================================
