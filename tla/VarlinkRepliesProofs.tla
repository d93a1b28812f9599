------------------------ MODULE VarlinkRepliesProofs ------------------------
(***************************************************************************)
(* Proofs about Varlink for any number of calls, cancels and replies: each *)
(* reply reaches the call whose request it answers, complete and in order, *)
(* and client and session never wait for each other.                       *)
(* What the session at the other end guarantees is taken from              *)
(* ServerSessionProofs.                                                    *)
(***************************************************************************)
EXTENDS VarlinkProofs, FiniteSetTheorems

\* The session at the other end of the connection.
Srv == INSTANCE ServerSessionProofs WITH peerClosed <- closed, Request <- Frames

-----------------------------------------------------------------------------
(* The theorems about the session apply.                                   *)

LEMMA FramesAreRequests ==
  /\ Frames \subseteq [mode : Srv!Modes, target : Srv!Targets]
  /\ MaxRequests \in Nat /\ MaxReplies \in Nat
  /\ CallbackMay \subseteq Srv!Liberties
BY BoundAssumption, SessionAssumption DEF Frames, Session!Modes, Session!Targets, Session!Liberties,
   Srv!Modes, Srv!Targets, Srv!Liberties

LEMMA SameReply == Session!Reply = Srv!Reply /\ Session!Calls = Calls /\ Srv!Calls = Calls
BY DEF Session!Reply, Srv!Reply, Session!Calls, Srv!Calls, Calls

LEMMA SameTypes == Session!TypeOK <=> Srv!TypeOK
BY SameReply, Zenon DEF Session!TypeOK, Srv!TypeOK, Session!States, Srv!States,
   Session!WriteStrand!TypeOK, Srv!WriteStrand!TypeOK

LEMMA SameOver == ServerGone <=> Srv!SessionOver \/ terminated
BY SameReply, Zenon DEF ServerGone, Session!SessionOver, Srv!SessionOver, Session!InTurn, Srv!InTurn

LEMMA SameWaits ==
  /\ Srv!Writing => Session!Writing
  /\ \A k : Srv!Attended(k) => Session!Attended(k)
<1>1. Srv!Writing => Session!Writing
  BY DEF Srv!Writing, Session!Writing
<1>2. Srv!WriteStrand!Pending = Session!WriteStrand!Pending
  BY DEF Srv!WriteStrand!Pending, Session!WriteStrand!Pending
<1>3. \A k : Srv!OnItsWay(k) => Session!OnItsWay(k)
  BY <1>1, <1>2, Zenon DEF Srv!OnItsWay, Session!OnItsWay, Srv!Range, Session!Range
<1>4. Srv!InTurn = Session!InTurn
  BY SameReply, Zenon DEF Srv!InTurn, Session!InTurn
<1>5. \A k : Srv!Attended(k) => Session!Attended(k)
  BY <1>3, <1>4, Zenon DEF Srv!Attended, Session!Attended
<1> QED BY <1>1, <1>5

LEMMA SameInit == Session!Init => Srv!Init
BY SameReply DEF Session!Init, Srv!Init, Session!WriteStrand!Init, Srv!WriteStrand!Init

LEMMA SamePush == \A r : Session!WriteStrand!Push(r) => Srv!WriteStrand!Push(r)
BY DEF Session!WriteStrand!Push, Srv!WriteStrand!Push, Session!WriteStrand!Known,
   Srv!WriteStrand!Known, Session!WriteStrand!Pending, Srv!WriteStrand!Pending,
   Session!WriteStrand!Range, Srv!WriteStrand!Range

LEMMA SameSend == \A i, last : Session!SendReply(i, last) => Srv!SendReply(i, last)
BY SamePush DEF Session!SendReply, Srv!SendReply

LEMMA SameError == \A i : Session!ReplyError(i) => Srv!ReplyError(i)
BY SameSend DEF Session!ReplyError, Srv!ReplyError, Session!callVars, Srv!callVars,
   Session!strandVars, Srv!strandVars

LEMMA SameDispatch == \A i : Session!Dispatch(i) => Srv!Dispatch(i)
BY SameError DEF Session!Dispatch, Srv!Dispatch, Session!strandVars, Srv!strandVars

LEMMA SameVars ==
  /\ UNCHANGED Session!peerVars <=> UNCHANGED Srv!peerVars
  /\ UNCHANGED Session!readVars <=> UNCHANGED Srv!readVars
  /\ UNCHANGED Session!callVars <=> UNCHANGED Srv!callVars
  /\ UNCHANGED Session!sendVars <=> UNCHANGED Srv!sendVars
  /\ UNCHANGED Session!strandVars <=> UNCHANGED Srv!strandVars
BY DEF Session!peerVars, Session!readVars, Session!callVars, Session!sendVars,
   Session!strandVars, Srv!peerVars, Srv!readVars, Srv!callVars, Srv!sendVars, Srv!strandVars

LEMMA SameCallStep == \A i : Session!CallStep(i) => Srv!CallStep(i)
<1> SUFFICES ASSUME NEW i, Session!CallStep(i) PROVE Srv!CallStep(i)
  OBVIOUS
<1>0. Session!Open(i) <=> Srv!Open(i)
  BY DEF Session!Open, Srv!Open
<1>1. Session!CallbackContinues(i) => Srv!CallbackContinues(i)
  BY <1>0, SameVars, SameSend, Zenon DEF Session!CallbackContinues, Srv!CallbackContinues
<1>2. Session!CallbackReplies(i) => Srv!CallbackReplies(i)
  BY <1>0, SameVars, SameSend, Zenon DEF Session!CallbackReplies, Srv!CallbackReplies
<1>3. \A continues : Session!OnewayReplies(i, continues) => Srv!OnewayReplies(i, continues)
  BY <1>0, SameVars, Zenon DEF Session!OnewayReplies, Srv!OnewayReplies
<1>4. Session!CallbackStops(i) => Srv!CallbackStops(i)
  BY <1>0, SameVars, Zenon DEF Session!CallbackStops, Srv!CallbackStops
<1>5. Session!CallbackThrows(i) => Srv!CallbackThrows(i)
  BY <1>0, SameVars, SameError, Zenon DEF Session!CallbackThrows, Srv!CallbackThrows
<1>6. Session!CallbackParks(i) => Srv!CallbackParks(i)
  BY <1>0, SameVars, Zenon DEF Session!CallbackParks, Srv!CallbackParks
<1>7. Session!Start(i) => Srv!Start(i)
  BY SameVars, Zenon DEF Session!Start, Srv!Start
<1>8. Session!HandlePosted(i) => Srv!HandlePosted(i)
  BY SameVars, SameDispatch, Zenon DEF Session!HandlePosted, Srv!HandlePosted
<1> QED BY <1>1, <1>2, <1>3, <1>4, <1>5, <1>6, <1>7, <1>8, Zenon
        DEF Session!CallStep, Srv!CallStep

LEMMA SameStep == Session!SessionNext => Srv!SessionNext
<1>1. \A k : Session!ReadCompletes(k) => Srv!ReadCompletes(k)
  BY SameVars, Zenon DEF Session!ReadCompletes, Srv!ReadCompletes
<1>2. Session!ReadFails => Srv!ReadFails
  BY SameVars, Zenon DEF Session!ReadFails, Srv!ReadFails
<1>3. Session!HandleRead => Srv!HandleRead
  BY SameVars, SameDispatch, Zenon DEF Session!HandleRead, Srv!HandleRead
<1>4. \A r : Session!WriteStrand!Complete(r) => Srv!WriteStrand!Complete(r)
  BY Zenon DEF Session!WriteStrand!Complete, Srv!WriteStrand!Complete
<1>5. \A r : Session!WriteSucceeds(r) => Srv!WriteSucceeds(r)
  BY <1>4, SameVars, Zenon DEF Session!WriteSucceeds, Srv!WriteSucceeds
<1>6. \A r : Session!WriteFails(r) => Srv!WriteFails(r)
  BY <1>4, SameVars, Zenon DEF Session!WriteFails, Srv!WriteFails
<1>7. Session!SendFailed => Srv!SendFailed
  BY SameVars, Zenon DEF Session!SendFailed, Srv!SendFailed
<1>8. \A q : Session!WriteStrand!Execute(q) => Srv!WriteStrand!Execute(q)
  BY DEF Session!WriteStrand!Execute, Srv!WriteStrand!Execute
<1>9. Session!WriteStrand!RunPush => Srv!WriteStrand!RunPush
  BY <1>8, Zenon DEF Session!WriteStrand!RunPush, Srv!WriteStrand!RunPush
<1>10. Session!WriteStrand!RunNext => Srv!WriteStrand!RunNext
  BY <1>8, Zenon DEF Session!WriteStrand!RunNext, Srv!WriteStrand!RunNext
<1>11. Session!WriteStrandStep => Srv!WriteStrandStep
  BY <1>9, <1>10, SameVars, Zenon DEF Session!WriteStrandStep, Srv!WriteStrandStep
<1> QED BY <1>1, <1>2, <1>3, <1>5, <1>6, <1>7, <1>11, SameCallStep, SameReply, Zenon
        DEF Session!SessionNext, Srv!SessionNext
-----------------------------------------------------------------------------
(* What the calls and their replies can be.                                *)

\* The calls that have been given the connection.
Served == cfinished \cup wrunning \cup receiving

SentTypes == /\ sent \in Seq(Calls) /\ Len(sent) = Len(c2s)
             /\ torn \in BOOLEAN

HeardTypes == /\ cfetched \in 0 .. Len(s2c)
              /\ got \in 0 .. cfetched
              /\ delivered \in [Calls -> Seq(Srv!Reply)]

\* The requests on the wire are those of calls that had their turn, in the
\* order of the calls, and no call reads that has not written.
WireInv == /\ \A k \in 1 .. Len(sent) : /\ k <= sent[k]
                                        /\ sent[k] \in Served
                                        /\ c2s[k].mode = requests[sent[k]].mode
           /\ \A k, l \in 1 .. Len(sent) : k < l => sent[k] < sent[l]
           /\ \A i \in receiving : \E k \in 1 .. Len(sent) : sent[k] = i

\* A call fails only when it is cancelled or the connection is gone, and
\* nothing is written on a connection that is gone.
FailInv == /\ cancelled \subseteq failed /\ failed \subseteq cfinished
           /\ failed # cancelled => closed \/ ServerGone
           /\ \A k \in 1 .. Len(sent) : k < Len(sent) /\ sent[k] \in failed
                                        => sent[k] \in cancelled

WireTypes == Srv!Types /\ SentTypes /\ HeardTypes

CallsInv == ServeInv /\ WireTypes /\ WireInv /\ FailInv

\* The calls before the one in progress are over.
LEMMA CallsMade ==
  ASSUME ServeInv
  PROVE  /\ Served \subseteq 1 .. Len(requests)
         /\ \A i \in wrunning \cup receiving :
               /\ i \in Calls /\ cfinished = 1 .. i - 1 /\ i \notin cfinished
               /\ wrunning \cup receiving = {i} /\ wrunning \cap receiving = {}
         /\ Len(requests) \in Nat /\ requests \in Seq(Request)
<1>1. PICK m \in Nat, s \in Nat : Reached(m, s)
  BY DEF ServeInv, OrderInv
<1>2. s <= Len(requests) /\ m <= s /\ cfinished = 1 .. m /\ Len(requests) \in Nat
      /\ requests \in Seq(Request)
  <2>1. Len(Strand!Pending) \in Nat /\ Len(requests) \in Nat /\ requests \in Seq(Request)
    BY LenProperties, StrandTypes DEF ServeInv, ClientInv
  <2> QED BY <1>1, <2>1 DEF Reached, Ascending
<1>3. ASSUME NEW i \in wrunning \cup receiving
      PROVE  /\ i \in Calls /\ i = m + 1 /\ i = s
             /\ wrunning \cup receiving = {i} /\ wrunning \cap receiving = {}
  <2>1. /\ crunning = {i} /\ i \in Calls
        /\ wrunning \cup receiving = {i} /\ wrunning \cap receiving = {}
    BY OneCall DEF ServeInv
  <2> QED BY <1>1, <2>1 DEF Reached
<1>4. Served \subseteq 1 .. Len(requests)
  BY <1>2, <1>3 DEF Served
<1>5. \A i \in wrunning \cup receiving : cfinished = 1 .. i - 1 /\ i \notin cfinished
  BY <1>2, <1>3
<1> QED BY <1>2, <1>3, <1>4, <1>5
-----------------------------------------------------------------------------
(* The kinds of steps.                                                     *)

\* Nothing that a handler or the server could notice but a new reply.
Quiet == /\ UNCHANGED <<c2s, sent, torn, receiving, cfetched, got, delivered, failed,
                        cancelled, cfinished>>
         /\ wrunning \subseteq wrunning'
         /\ Len(requests) <= Len(requests')
         /\ \A k \in 1 .. Len(requests) : requests'[k] = requests[k]
         /\ s2c' = s2c \/ \E r \in Srv!Reply : s2c' = Append(s2c, r)
         /\ closed' \in {closed, TRUE}

\* Call i writes its request.
Writes(i) == /\ i \in wrunning /\ ~closed /\ ~ServerGone
             /\ sent' = Append(sent, i)
             /\ \E f \in Frames : f.mode = requests[i].mode /\ c2s' = Append(c2s, f)
             /\ torn' = FALSE
             /\ \A k \in 1 .. Len(sent) : sent[k] # i
             /\ UNCHANGED <<requests, s2c, closed, cfetched, got, delivered, failed, cancelled,
                            wrunning, receiving, cfinished>>

\* Call i begins to read.
Reads(i) == /\ i \in wrunning /\ requests[i].mode # "oneway"
            /\ \E k \in 1 .. Len(sent) : sent[k] = i
            /\ wrunning' = {} /\ receiving' = {i}
            /\ UNCHANGED <<requests, c2s, s2c, closed, sent, torn, cfetched, got, delivered,
                           failed, cancelled, cfinished>>

\* Call i is over, and its handler hears at most of an error.
Ends(i) == /\ i \in wrunning \cup receiving
           /\ wrunning' = {} /\ receiving' = {}
           /\ cfinished' = cfinished \cup {i}
           /\ torn' \in BOOLEAN
           /\ UNCHANGED <<requests, c2s, s2c, closed, sent, cfetched, got, delivered>>
           /\ \/ requests[i].mode = "oneway" /\ UNCHANGED <<failed, cancelled>>
              \/ /\ closed \/ ServerGone
                 /\ failed' = failed \cup {i} /\ UNCHANGED cancelled
              \/ failed' = failed \cup {i} /\ cancelled' = cancelled \cup {i}

\* The handler of call i hears the next reply.
Hears(i) == /\ i \in receiving
            /\ cfetched' \in got + 1 .. Len(s2c) /\ cfetched <= cfetched'
            /\ got' = got + 1
            /\ delivered' = [delivered EXCEPT ![i] = Append(@, s2c[got'])]
            /\ \/ /\ requests[i].mode = "more" /\ ~s2c[got'].last
                  /\ UNCHANGED <<receiving, cfinished>>
               \/ /\ ~(requests[i].mode = "more" /\ ~s2c[got'].last)
                  /\ receiving' = {} /\ cfinished' = cfinished \cup {i}
            /\ UNCHANGED <<requests, c2s, s2c, closed, sent, torn, wrunning, failed, cancelled>>

LEMMA RangeOfSent ==
  ASSUME SentTypes, NEW i
  PROVE  i \in Client!Range(sent) <=> \E k \in 1 .. Len(sent) : sent[k] = i
<1>1. DOMAIN sent = 1 .. Len(sent)
  BY LenProperties DEF SentTypes
<1> QED BY <1>1 DEF Client!Range

LEMMA WriteKinds ==
  ASSUME CallsInv, NEW i \in Calls,
         Client!WriteCompletes(i) \/ Client!WriteFails(i)
         \/ (Client!CancelWrite(i) /\ failed' = failed \cup {i} /\ cancelled' = cancelled \cup {i})
  PROVE  Reads(i) \/ Ends(i)
<1> USE DEF Client!Mode
<1>1. i \in wrunning /\ receiving = {} /\ wrunning' = {}
  <2>1. i \in wrunning /\ wrunning' = wrunning \ {i}
    BY DEF Client!WriteCompletes, Client!WriteFails, Client!CancelWrite,
       Client!WriteStrand!Complete
  <2> QED BY <2>1, CallsMade DEF CallsInv
<1>2. CASE Client!WriteCompletes(i)
  <2>1. \E k \in 1 .. Len(sent) : sent[k] = i
    BY <1>2, RangeOfSent DEF CallsInv, WireTypes, Client!WriteCompletes
  <2>2. UNCHANGED <<requests, c2s, s2c, sent, torn, closed, cancelled, cfetched, got, delivered,
                    failed>>
    BY <1>2 DEF Client!WriteCompletes, Client!wireVars, Client!handlerVars
  <2>3. CASE requests[i].mode = "oneway" /\ Client!ReleaseBeforeHandler(i) /\ UNCHANGED receiving
    BY <1>1, <2>2, <2>3 DEF Ends, Client!ReleaseBeforeHandler, Client!CallStrand!Complete,
       CallsInv, WireTypes, SentTypes
  <2>4. CASE /\ requests[i].mode # "oneway" /\ receiving' = receiving \cup {i}
             /\ UNCHANGED <<ending, Client!callStrandVars>>
    BY <1>1, <2>1, <2>2, <2>4 DEF Reads, Client!callStrandVars
  <2> QED BY <1>2, <2>3, <2>4 DEF Client!WriteCompletes
<1>3. CASE Client!WriteFails(i)
  BY <1>1, <1>3 DEF Ends, Client!WriteFails, Client!ReleaseBeforeHandler,
     Client!CallStrand!Complete, Client!wireVars, Client!readVars, CallsInv, WireTypes, SentTypes
<1>4. CASE /\ Client!CancelWrite(i)
           /\ failed' = failed \cup {i} /\ cancelled' = cancelled \cup {i}
  BY <1>1, <1>4 DEF Ends, Client!CancelWrite, Client!ReleaseBeforeHandler,
     Client!CallStrand!Complete, Client!readVars, CallsInv, WireTypes, SentTypes
<1> QED BY <1>2, <1>3, <1>4

LEMMA ReceiveKinds ==
  ASSUME CallsInv, NEW i \in Calls,
         Client!ReceiveFails(i)
         \/ (Client!CancelReceive(i) /\ failed' = failed \cup {i} /\ cancelled' = cancelled \cup {i})
  PROVE  Ends(i)
<1>1. /\ i \in receiving /\ receiving' = receiving \ {i}
      /\ UNCHANGED <<requests, Client!wireVars, closed, Client!writeStrandVars, cfetched, got, delivered>>
      /\ cfinished' = cfinished \cup {i}
  BY DEF Client!ReceiveFails, Client!CancelReceive, Client!CallStrand!Complete
<1>2. receiving' = {} /\ wrunning' = {}
  BY <1>1, CallsMade DEF CallsInv, Client!writeStrandVars
<1>3. UNCHANGED <<requests, c2s, s2c, sent, closed, cfetched, got, delivered>>
      /\ torn' \in BOOLEAN
  BY <1>1 DEF Client!wireVars, CallsInv, WireTypes, SentTypes
<1> QED BY <1>1, <1>2, <1>3 DEF Ends, Client!ReceiveFails, Client!CancelReceive

LEMMA HearKinds ==
  ASSUME CallsInv, NEW i \in Calls, Client!ReceiveBuffered(i) \/ Client!ReceiveFromSocket(i)
  PROVE  Hears(i)
<1>1. Client!DeliverReply(i)
  BY DEF Client!ReceiveBuffered, Client!ReceiveFromSocket
<1>2. /\ i \in receiving /\ got' = got + 1
      /\ delivered' = [delivered EXCEPT ![i] = Append(@, s2c[got'])]
      /\ UNCHANGED <<requests, c2s, s2c, closed, sent, torn, wrunning, failed, cancelled>>
  BY <1>1 DEF Client!DeliverReply, Client!wireVars, Client!writeStrandVars
<1>3. cfetched' \in got + 1 .. Len(s2c) /\ cfetched <= cfetched'
  <2>1. cfetched \in 0 .. Len(s2c) /\ got \in 0 .. cfetched /\ Len(s2c) \in Nat
    BY LenProperties DEF CallsInv, WireTypes, HeardTypes, Srv!Types, Srv!WireTypes
  <2> QED BY <2>1 DEF Client!ReceiveBuffered, Client!ReceiveFromSocket
<1>4. CASE requests[i].mode = "more" /\ ~s2c[got'].last
  <2>1. UNCHANGED <<receiving, cfinished>>
    BY <1>1, <1>4 DEF Client!DeliverReply, Client!Mode, Client!callStrandVars
  <2> QED BY <1>2, <1>3, <1>4, <2>1 DEF Hears
<1>5. CASE ~(requests[i].mode = "more" /\ ~s2c[got'].last)
  <2>1. receiving' = receiving \ {i} /\ Client!CallStrand!Complete(i)
    BY <1>1, <1>5 DEF Client!DeliverReply, Client!Mode
  <2>2. receiving' = {} /\ cfinished' = cfinished \cup {i}
    BY <1>2, <2>1, CallsMade DEF CallsInv, Client!CallStrand!Complete
  <2> QED BY <1>2, <1>3, <1>5, <2>2 DEF Hears
<1> QED BY <1>4, <1>5

LEMMA WireKinds ==
  ASSUME CallsInv, NEW i \in Calls, Client!RequestReachesWire(i)
  PROVE  Writes(i)
<1>1. \A k \in 1 .. Len(sent) : sent[k] # i
  BY RangeOfSent DEF Client!RequestReachesWire, CallsInv, WireTypes
<1>2. i \in wrunning /\ requests[i] \in Request
  BY CallsMade, ElementOfSeq DEF Client!RequestReachesWire, CallsInv, Served
<1>3. requests[i] \in Frames /\ Client!Garbled(requests[i]) \in Frames
      /\ Client!Garbled(requests[i]).mode = requests[i].mode
  BY <1>2, SessionAssumption DEF Frames, Client!Garbled
<1>4. UNCHANGED <<requests, s2c, closed, cfetched, got, delivered, failed, cancelled,
                  wrunning, receiving, cfinished>>
  BY DEF Client!RequestReachesWire, Client!writeStrandVars, Client!readVars, Client!handlerVars,
     Client!callStrandVars
<1> QED BY <1>1, <1>3, <1>4 DEF Writes, Client!RequestReachesWire

LEMMA QuietKinds ==
  ASSUME CallsInv,
         \/ Session!SessionNext /\ UNCHANGED clientVars
         \/ ServerStops
         \/ \E request \in Request : Client!AsyncCall(request)
         \/ Client!CallStrandStep
         \/ Client!WriteStrandStep
         \/ \E i \in Calls : Client!CallHandler(i)
         \/ Client!Close
         \/ UNCHANGED vars
  PROVE  Quiet
<1>0. requests \in Seq(Request) /\ Len(requests) \in Nat /\ closed \in BOOLEAN
  BY CallsMade DEF CallsInv, WireTypes, Srv!Types, Srv!WireTypes
<1>1. CASE Session!SessionNext /\ UNCHANGED clientVars
  <2>1. UNCHANGED <<c2s, closed>> /\ (s2c' = s2c \/ \E r \in Srv!Reply : s2c' = Append(s2c, r))
    BY <1>1, SameStep, FramesAreRequests, Srv!SessionWrites DEF CallsInv, WireTypes
  <2> QED BY <1>0, <1>1, <2>1 DEF Quiet, clientVars
<1>2. CASE ServerStops
  BY <1>0, <1>2 DEF Quiet, ServerStops, clientVars
<1>3. ASSUME NEW request \in Request, Client!AsyncCall(request) PROVE Quiet
  <2>1. /\ requests' = Append(requests, request)
        /\ UNCHANGED <<c2s, s2c, closed, sent, torn, wrunning, receiving, cfetched, got,
                       delivered, failed, cancelled, cfinished>>
    BY <1>3 DEF Client!AsyncCall, Client!CallStrand!Push, Client!wireVars, Client!readVars,
       Client!writeStrandVars, Client!handlerVars
  <2>2. Len(requests) <= Len(requests') /\ \A k \in 1 .. Len(requests) : requests'[k] = requests[k]
    BY <1>0, <2>1, AppendProperties
  <2> QED BY <1>0, <2>1, <2>2 DEF Quiet
<1>4. CASE Client!CallStrandStep
  <2>1. UNCHANGED <<requests, c2s, s2c, closed, sent, torn, receiving, cfetched, got,
                    delivered, failed, cancelled>>
    BY <1>4 DEF Client!CallStrandStep, Client!wireVars, Client!readVars, Client!handlerVars
  <2>2. UNCHANGED cfinished
    BY <1>4, LambdaKeepsOrder DEF CallsInv, ServeInv
  <2>3. wrunning \subseteq wrunning'
    BY <1>4 DEF Client!CallStrandStep, Client!writeStrandVars, Client!WritePush,
       Client!WriteStrand!Push, Client!WriteStrand!Execute
  <2> QED BY <1>0, <2>1, <2>2, <2>3 DEF Quiet
<1>5. CASE Client!Close
  BY <1>0, <1>5 DEF Client!Close, Client!wireVars, Client!clientVars, Client!writeStrandVars,
     Client!readVars, Client!handlerVars, Client!callStrandVars, Quiet
<1>6. CASE UNCHANGED vars
  BY <1>0, <1>6 DEF vars, clientVars, Quiet
<1>7. CASE Client!WriteStrandStep
  <2>1. wrunning \subseteq wrunning'
    BY <1>7 DEF Client!WriteStrandStep, Client!WriteStrand!RunPush,
       Client!WriteStrand!RunNext, Client!WriteStrand!Execute
  <2> QED BY <1>0, <1>7, <2>1 DEF Client!WriteStrandStep, Client!wireVars, Client!readVars,
          Client!handlerVars, Client!callStrandVars, Quiet
<1>8. ASSUME NEW i \in Calls, Client!CallHandler(i) PROVE Quiet
  BY <1>0, <1>8 DEF Client!CallHandler, Client!wireVars, Client!readVars,
     Client!writeStrandVars, Client!callStrandVars, Quiet
<1> QED BY <1>1, <1>2, <1>3, <1>4, <1>5, <1>6, <1>7, <1>8

\* Every step is of one of these kinds.
LEMMA StepKinds ==
  ASSUME CallsInv, [Next]_vars
  PROVE  Quiet \/ \E i \in Calls : Writes(i) \/ Reads(i) \/ Ends(i) \/ Hears(i)
<1>1. ASSUME NEW i \in Calls, Client!CallStep(i)
      PROVE  Writes(i) \/ Reads(i) \/ Ends(i) \/ Hears(i)
  BY <1>1, WireKinds, WriteKinds, ReceiveKinds, HearKinds, Zenon DEF Client!CallStep
<1>2. ASSUME NEW i \in Calls, Client!Cancel(i) PROVE Reads(i) \/ Ends(i)
  BY <1>2, WriteKinds, ReceiveKinds, Zenon DEF Client!Cancel
<1> QED BY <1>1, <1>2, QuietKinds, Zenon DEF Next, Client!Next, Client!Calls, Calls

\* For the session, every step is one of its own or of a peer.
LEMMA ServerSide ==
  ASSUME CallsInv, [Next]_vars
  PROVE  Srv!SessionNext \/ Srv!Outside
<1>1. CASE Session!SessionNext
  BY <1>1, SameStep
<1>2. CASE ServerStops \/ UNCHANGED vars
  BY <1>2 DEF ServerStops, vars, serverVars, Srv!Outside, Srv!Still, Srv!peerVars,
     Srv!readVars, Srv!callVars, Srv!sendVars, Srv!strandVars
<1>3. ASSUME NEW i \in Calls, Client!RequestReachesWire(i), UNCHANGED serverVars
      PROVE  Srv!Outside
  <2>1. Writes(i)
    BY <1>3, WireKinds
  <2>2. PICK f \in Frames : c2s' = Append(c2s, f)
    BY <2>1 DEF Writes
  <2>3. Len(c2s) < MaxRequests
    <3>1. Len(sent) \in Nat /\ Len(sent) = Len(c2s) /\ sent \in Seq(Calls)
      BY LenProperties DEF CallsInv, WireTypes, SentTypes
    <3>2. CASE Len(sent) = 0
      BY <1>3, <3>1, <3>2, BoundAssumption DEF Calls
    <3>3. CASE Len(sent) # 0
      <4>1. Len(sent) \in 1 .. Len(sent)
        BY <3>1, <3>3
      <4>2. Len(sent) <= sent[Len(sent)] /\ sent[Len(sent)] \in Served /\ sent[Len(sent)] # i
        BY <2>1, <4>1 DEF CallsInv, WireInv, Writes
      <4>3. sent[Len(sent)] < i
        <5>1. i \in wrunning
          BY <2>1 DEF Writes
        <5> QED BY <4>2, <5>1, CallsMade DEF CallsInv, Served, Calls
      <4> QED BY <3>1, <4>2, <4>3, BoundAssumption, CallsMade DEF CallsInv, Calls
    <3> QED BY <3>2, <3>3
  <2>4. Srv!PeerSends(f)
    BY <1>3, <2>1, <2>2, <2>3 DEF Srv!PeerSends, Writes, serverVars, Srv!readVars,
       Srv!callVars, Srv!sendVars, Srv!strandVars
  <2> QED BY <2>4 DEF Srv!Outside
<1>4. ASSUME UNCHANGED <<c2s, s2c, closed>>, UNCHANGED serverVars PROVE Srv!Outside
  BY <1>4 DEF serverVars, Srv!Outside, Srv!Still, Srv!peerVars, Srv!readVars, Srv!callVars,
     Srv!sendVars, Srv!strandVars
<1>5. ASSUME Client!Close, UNCHANGED serverVars PROVE Srv!Outside
  BY <1>5 DEF serverVars, Client!Close, Client!wireVars, Srv!Outside, Srv!PeerCloses,
     Srv!readVars, Srv!callVars, Srv!sendVars, Srv!strandVars
<1>6. CASE Client!Next /\ UNCHANGED serverVars
  <2>1. CASE \/ Client!CallStrandStep \/ Client!WriteStrandStep
             \/ \E request \in Request : Client!AsyncCall(request)
             \/ \E i \in Calls : Client!CallHandler(i)
    BY <1>4, <1>6, <2>1 DEF Client!CallStrandStep, Client!WriteStrandStep,
       Client!AsyncCall, Client!CallHandler, Client!wireVars
  <2>2. ASSUME NEW i \in Calls, Client!CallStep(i) PROVE Srv!Outside
    BY <1>3, <1>4, <1>6, <2>2 DEF Client!CallStep, Client!WriteCompletes, Client!WriteFails,
       Client!ReceiveBuffered, Client!ReceiveFromSocket, Client!DeliverReply,
       Client!ReceiveFails, Client!wireVars
  <2>3. ASSUME NEW i \in Calls, Client!Cancel(i) PROVE Srv!Outside
    BY <1>4, <1>6, <2>3 DEF Client!Cancel, Client!CancelWrite, Client!CancelReceive,
       Client!wireVars
  <2> QED BY <1>5, <1>6, <2>1, <2>2, <2>3 DEF Client!Next, Client!Calls, Calls
<1> QED BY <1>1, <1>2, <1>6 DEF Next

LEMMA ServerTypes ==
  ASSUME CallsInv, [Next]_vars
  PROVE  Srv!Types'
BY ServerSide, FramesAreRequests, Srv!SessionKeepsTypes, Srv!OutsideTypes
   DEF CallsInv, WireTypes

\* A session that is gone stays so.
LEMMA GoneStays ==
  ASSUME CallsInv, [Next]_vars, ServerGone
  PROVE  ServerGone'
<1>1. ~Srv!SessionNext
  BY FramesAreRequests, SameOver, Srv!GoneIsFinal DEF CallsInv, WireTypes
<1>2. Srv!Outside
  BY <1>1, ServerSide
<1>3. UNCHANGED <<Srv!readVars, pc, restarts, replies, Srv!sendVars, Srv!strandVars>>
      /\ (terminated => terminated')
  <2>1. terminated \in BOOLEAN
    BY DEF CallsInv, WireTypes, Srv!Types, Srv!WireTypes
  <2>2. UNCHANGED <<Srv!readVars, pc, replies, restarts, Srv!sendVars, Srv!strandVars>>
    BY <1>2, FramesAreRequests, Srv!OutsideChanges DEF CallsInv, WireTypes
  <2>3. terminated => terminated'
    BY <1>2, <2>1 DEF Srv!Outside, Srv!PeerSends, Srv!PeerCloses, Srv!Still
  <2> QED BY <2>2, <2>3
<1> QED BY <1>3 DEF ServerGone, Session!SessionOver, Session!InTurn, Srv!readVars,
        Srv!sendVars, Srv!strandVars
-----------------------------------------------------------------------------
(* Every step keeps what the calls and their replies can be.               *)

LEMMA StepBasics ==
  ASSUME CallsInv, [Next]_vars
  PROVE  ServeInv' /\ Srv!Types' /\ (ServerGone => ServerGone')
BY ServeStep, ClientStep, ServerTypes, GoneStays DEF CallsInv, ServeInv, Follows

LEMMA ReplyTypes ==
  WireTypes => /\ s2c \in Seq(Srv!Reply) /\ Len(s2c) \in Nat /\ closed \in BOOLEAN
               /\ sent \in Seq(Calls) /\ Len(sent) \in Nat /\ Len(c2s) = Len(sent)
               /\ c2s \in Seq(Frames)
               /\ cfetched \in 0 .. Len(s2c) /\ got \in 0 .. cfetched
               /\ \A k \in 1 .. Len(sent) : sent[k] \in Calls
BY LenProperties, ElementOfSeq DEF WireTypes, SentTypes, HeardTypes, Srv!Types, Srv!WireTypes

LEMMA KeepsTypes ==
  ASSUME CallsInv, [Next]_vars
  PROVE  WireTypes'
<1>1. Srv!Types' /\ s2c' \in Seq(Srv!Reply) /\ Len(s2c') \in Nat
  BY StepBasics, LenProperties DEF Srv!Types, Srv!WireTypes
<1>2. /\ s2c \in Seq(Srv!Reply) /\ Len(s2c) \in Nat
      /\ sent \in Seq(Calls) /\ c2s \in Seq(Frames) /\ Len(sent) = Len(c2s)
      /\ cfetched \in 0 .. Len(s2c) /\ got \in 0 .. cfetched
  BY ReplyTypes DEF CallsInv
<1>3. CASE Quiet
  <2>1. Len(s2c) <= Len(s2c')
    BY <1>2, <1>3, AppendProperties DEF Quiet
  <2>2. SentTypes' /\ HeardTypes'
    BY <1>1, <1>2, <1>3, <2>1 DEF Quiet, CallsInv, WireTypes, SentTypes, HeardTypes
  <2> QED BY <1>1, <2>2 DEF WireTypes
<1>4. ASSUME NEW i \in Calls, Writes(i) PROVE WireTypes'
  <2>1. PICK f \in Frames : c2s' = Append(c2s, f)
    BY <1>4 DEF Writes
  <2>2. sent' \in Seq(Calls) /\ Len(sent') = Len(c2s')
    BY <1>2, <1>4, <2>1, AppendProperties DEF Writes
  <2>3. SentTypes' /\ HeardTypes'
    BY <1>4, <2>2 DEF Writes, CallsInv, WireTypes, SentTypes, HeardTypes
  <2> QED BY <1>1, <2>3 DEF WireTypes
<1>5. ASSUME NEW i \in Calls, Reads(i) \/ Ends(i) PROVE WireTypes'
  <2>1. SentTypes' /\ HeardTypes'
    BY <1>5 DEF Reads, Ends, CallsInv, WireTypes, SentTypes, HeardTypes
  <2> QED BY <1>1, <2>1 DEF WireTypes
<1>6. ASSUME NEW i \in Calls, Hears(i) PROVE WireTypes'
  <2>1. s2c' = s2c /\ got' = got + 1 /\ cfetched' \in got' .. Len(s2c)
    BY <1>6 DEF Hears
  <2>2. s2c[got'] \in Srv!Reply
    BY <1>2, <2>1, ElementOfSeq
  <2>3. delivered \in [Calls -> Seq(Srv!Reply)]
    BY DEF CallsInv, WireTypes, HeardTypes
  <2>4. Append(delivered[i], s2c[got']) \in Seq(Srv!Reply)
    BY <2>2, <2>3, AppendProperties
  <2>5. delivered' \in [Calls -> Seq(Srv!Reply)]
    BY <1>6, <2>3, <2>4 DEF Hears
  <2>6. HeardTypes'
    BY <1>2, <2>1, <2>5 DEF HeardTypes
  <2>7. SentTypes'
    BY <1>6 DEF Hears, CallsInv, WireTypes, SentTypes
  <2> QED BY <1>1, <2>6, <2>7 DEF WireTypes
<1> QED BY <1>3, <1>4, <1>5, <1>6, StepKinds

\* Steps that leave the wire to the server alone.
LEMMA WireStays ==
  ASSUME CallsInv, UNCHANGED <<sent, c2s>>, Served \subseteq Served',
         receiving' \subseteq receiving \/ \E k \in 1 .. Len(sent) : receiving' = {sent[k]},
         \A k \in 1 .. Len(requests) : requests'[k] = requests[k]
  PROVE  WireInv'
<1>1. \A k \in 1 .. Len(sent) : sent[k] \in 1 .. Len(requests) /\ sent[k] \in Served
  BY CallsMade DEF CallsInv, WireInv
<1>2. \A k \in 1 .. Len(sent) : requests'[sent[k]] = requests[sent[k]]
  BY <1>1
<1> QED BY <1>1, <1>2 DEF CallsInv, WireInv

LEMMA WriteKeepsWire ==
  ASSUME CallsInv, NEW i \in Calls, Writes(i)
  PROVE  WireInv'
<1> DEFINE n == Len(sent)
<1>1. /\ n \in Nat /\ sent \in Seq(Calls) /\ c2s \in Seq(Frames) /\ Len(c2s) = n
  BY ReplyTypes DEF CallsInv
<1>2. PICK f \in Frames : f.mode = requests[i].mode /\ c2s' = Append(c2s, f)
  BY DEF Writes
<1>3. /\ Len(sent') = n + 1 /\ sent'[n + 1] = i /\ c2s'[n + 1] = f
      /\ \A k \in 1 .. n : sent'[k] = sent[k] /\ c2s'[k] = c2s[k]
  BY <1>1, <1>2, AppendProperties DEF Writes
<1>4. /\ cfinished = 1 .. i - 1 /\ receiving = {}
      /\ Served = (1 .. i - 1) \cup {i} /\ Served' = Served
  <2>1. i \in wrunning /\ UNCHANGED <<cfinished, wrunning, receiving>>
    BY DEF Writes
  <2>2. cfinished = 1 .. i - 1 /\ wrunning \cup receiving = {i} /\ wrunning \cap receiving = {}
    BY <2>1, CallsMade DEF CallsInv
  <2> QED BY <2>1, <2>2 DEF Served
<1>5. \A k \in 1 .. n : sent[k] < i /\ k <= sent[k] /\ sent[k] \in Served
  <2>1. \A k \in 1 .. n : k <= sent[k] /\ sent[k] \in Served /\ sent[k] # i
    BY DEF CallsInv, WireInv, Writes
  <2>2. \A j \in 1 .. i - 1 : j < i
    BY DEF Calls
  <2> QED BY <1>4, <2>1, <2>2
<1>6. n + 1 <= i
  <2>1. n # 0 => n \in 1 .. n
    BY <1>1
  <2>2. CASE n # 0
    <3>1. n <= sent[n] /\ sent[n] < i /\ sent[n] \in Calls
      BY <1>1, <1>5, <2>1, <2>2, ElementOfSeq
    <3> QED BY <1>1, <3>1 DEF Calls
  <2> QED BY <1>1, <2>2 DEF Calls
<1>7. ASSUME NEW k \in 1 .. n + 1
      PROVE  k <= sent'[k] /\ sent'[k] \in Served' /\ c2s'[k].mode = requests'[sent'[k]].mode
  <2>0. requests' = requests
    BY DEF Writes
  <2>1. CASE k = n + 1
    BY <1>2, <1>3, <1>4, <1>6, <2>0, <2>1
  <2>2. CASE k \in 1 .. n
    BY <1>3, <1>4, <2>0, <2>2 DEF CallsInv, WireInv
  <2> QED BY <1>1, <2>1, <2>2
<1>8. ASSUME NEW k \in 1 .. n + 1, NEW l \in 1 .. n + 1, k < l PROVE sent'[k] < sent'[l]
  <2>1. k \in 1 .. n
    BY <1>1, <1>8
  <2>2. CASE l = n + 1
    BY <1>3, <1>5, <2>1, <2>2
  <2>3. CASE l \in 1 .. n
    BY <1>3, <1>8, <2>1, <2>3 DEF CallsInv, WireInv
  <2> QED BY <1>1, <2>2, <2>3
<1> HIDE DEF n
<1>9. \A j \in receiving' : \E k \in 1 .. Len(sent') : sent'[k] = j
  BY <1>4 DEF Writes
<1> QED BY <1>3, <1>7, <1>8, <1>9 DEF WireInv

LEMMA KeepsWire ==
  ASSUME CallsInv, [Next]_vars
  PROVE  WireInv'
<1>1. CASE Quiet
  BY <1>1, WireStays DEF Quiet, Served
<1>2. ASSUME NEW i \in Calls, Writes(i) PROVE WireInv'
  BY <1>2, WriteKeepsWire
<1>3. ASSUME NEW i \in Calls, Reads(i) PROVE WireInv'
  <2>1. wrunning = {i} /\ receiving = {}
    BY <1>3, CallsMade DEF Reads, CallsInv
  <2> QED BY <1>3, <2>1, WireStays DEF Reads, Served
<1>4. ASSUME NEW i \in Calls, Ends(i) PROVE WireInv'
  <2>1. wrunning \cup receiving = {i}
    BY <1>4, CallsMade DEF Ends, CallsInv
  <2>2. Served' = Served
    BY <1>4, <2>1 DEF Ends, Served
  <2> QED BY <1>4, <2>2, WireStays DEF Ends
<1>5. ASSUME NEW i \in Calls, Hears(i) PROVE WireInv'
  <2>1. receiving = {i}
    BY <1>5, CallsMade DEF Hears, CallsInv
  <2>2. Served' = Served
    BY <1>5, <2>1 DEF Hears, Served
  <2> QED BY <1>5, <2>1, <2>2, WireStays DEF Hears
<1> QED BY <1>1, <1>2, <1>3, <1>4, <1>5, StepKinds

\* The call in progress is the last one whose request can be on the wire.
LEMMA LastOnWire ==
  ASSUME CallsInv, NEW i \in wrunning \cup receiving, NEW k \in 1 .. Len(sent)
  PROVE  /\ sent[k] = i <=> ~(sent[k] < i)
         /\ sent[k] = i => k = Len(sent)
         /\ sent[k] # i => sent[k] \in cfinished
<1>1. i \in Calls /\ cfinished = 1 .. i - 1 /\ wrunning \cup receiving = {i}
  BY CallsMade DEF CallsInv
<1>2. \A l \in 1 .. Len(sent) : sent[l] \in 1 .. i - 1 \/ sent[l] = i
  BY <1>1 DEF CallsInv, WireInv, Served
<1>3. Len(sent) \in 1 .. Len(sent)
  BY ReplyTypes DEF CallsInv
<1>4. k < Len(sent) => sent[k] < sent[Len(sent)]
  BY <1>3 DEF CallsInv, WireInv
<1> QED BY <1>1, <1>2, <1>3, <1>4 DEF Calls

LEMMA KeepsFail ==
  ASSUME CallsInv, [Next]_vars
  PROVE  FailInv'
<1>1. (ServerGone => ServerGone') /\ closed \in BOOLEAN
  BY StepBasics, ReplyTypes DEF CallsInv
<1>2. CASE Quiet
  <2>1. UNCHANGED <<sent, failed, cancelled, cfinished>> /\ closed' \in {closed, TRUE}
    BY <1>2 DEF Quiet
  <2> QED BY <1>1, <2>1 DEF CallsInv, FailInv
<1>3. ASSUME NEW i \in Calls, Writes(i) PROVE FailInv'
  <2>1. failed = cancelled
    BY <1>3 DEF Writes, CallsInv, FailInv
  <2> QED BY <1>3, <2>1 DEF Writes, CallsInv, FailInv
<1>4. ASSUME NEW i \in Calls, Reads(i) \/ Hears(i) PROVE FailInv'
  <2>1. UNCHANGED <<sent, failed, cancelled, closed>> /\ cfinished \subseteq cfinished'
    BY <1>4 DEF Reads, Hears
  <2> QED BY <1>1, <2>1 DEF CallsInv, FailInv
<1>5. ASSUME NEW i \in Calls, Ends(i) PROVE FailInv'
  <2>1. /\ cancelled' \subseteq failed' /\ failed' \subseteq cfinished'
        /\ UNCHANGED <<sent, closed>>
        /\ failed' \subseteq failed \cup {i} /\ cancelled \subseteq cancelled'
    BY <1>5 DEF Ends, CallsInv, FailInv
  <2>2. failed' # cancelled' => closed \/ ServerGone
    BY <1>5 DEF Ends, CallsInv, FailInv
  <2>3. ASSUME NEW k \in 1 .. Len(sent), k < Len(sent), sent[k] \in failed'
        PROVE  sent[k] \in cancelled'
    <3>1. k # Len(sent)
      BY <2>3, ReplyTypes DEF CallsInv
    <3>2. sent[k] # i
      BY <1>5, <3>1, LastOnWire DEF Ends
    <3> QED BY <2>1, <2>3, <3>2 DEF CallsInv, FailInv
  <2> QED BY <1>1, <2>1, <2>2, <2>3 DEF FailInv
<1> QED BY <1>2, <1>3, <1>4, <1>5, StepKinds

LEMMA CallsStep == CallsInv /\ [Next]_vars => CallsInv'
BY StepBasics, KeepsTypes, KeepsWire, KeepsFail DEF CallsInv

LEMMA CallsInit == Init => CallsInv
<1> SUFFICES ASSUME Init PROVE CallsInv
  OBVIOUS
<1>1. ServeInv
  BY ServeInit
<1>2. Srv!Types
  BY SameInit, FramesAreRequests, Srv!InitTypes DEF Init
<1>3. /\ c2s = <<>> /\ s2c = <<>>
      /\ sent = <<>> /\ torn = FALSE /\ receiving = {} /\ cfetched = 0 /\ got = 0
      /\ delivered = [i \in Calls |-> <<>>] /\ failed = {} /\ cancelled = {}
  BY DEF Init, Client!Init, Client!Calls, Calls, Session!Init
<1>4. Len(sent) = 0 /\ Len(c2s) = 0 /\ Len(s2c) = 0 /\ sent \in Seq(Calls)
      /\ delivered \in [Calls -> Seq(Srv!Reply)]
  BY <1>3, EmptySeq
<1>5. SentTypes /\ HeardTypes
  <2>1. SentTypes
    BY <1>3, <1>4 DEF SentTypes
  <2>2. cfetched \in 0 .. Len(s2c) /\ got \in 0 .. cfetched
    BY <1>3, <1>4
  <2> QED BY <1>4, <2>1, <2>2 DEF HeardTypes
<1>6. WireInv /\ FailInv
  BY <1>3, <1>4 DEF WireInv, FailInv
<1> QED BY <1>1, <1>2, <1>5, <1>6 DEF CallsInv, WireTypes

\* What has lost its message is a call.
DanglingTypes == dangling \subseteq Calls

LEMMA DanglingStep ==
  ASSUME CallsInv, DanglingTypes, [Next]_vars
  PROVE  DanglingTypes'
<1>1. wrunning' \subseteq Calls
  BY StepBasics, WriterTypes DEF ServeInv, ClientInv, Writer!IInv, Writer!TypeOK
<1>2. dangling' \in {dangling, wrunning' \ wrunning}
  <2>1. ASSUME NEW i \in Calls, Client!CallStep(i) PROVE dangling' = dangling
    BY <2>1 DEF Client!CallStep, Client!RequestReachesWire, Client!WriteCompletes,
       Client!WriteFails, Client!ReceiveBuffered, Client!ReceiveFromSocket,
       Client!DeliverReply, Client!ReceiveFails
  <2>2. ASSUME NEW i \in Calls, Client!Cancel(i) PROVE dangling' = dangling
    BY <2>2 DEF Client!Cancel, Client!CancelWrite, Client!CancelReceive
  <2>3. CASE Client!Next
    BY <2>1, <2>2, <2>3 DEF Client!Next, Client!Calls, Calls, Client!AsyncCall,
       Client!CallStrandStep, Client!WriteStrandStep, Client!CallHandler,
       Client!Close, Client!clientVars
  <2>4. CASE UNCHANGED clientVars
    BY <2>4 DEF clientVars
  <2> QED BY <2>3, <2>4 DEF Next, ServerStops, vars
<1> QED BY <1>1, <1>2 DEF DanglingTypes

LEMMA CallsTypes == CallsInv /\ DanglingTypes => TypeOK
<1> SUFFICES ASSUME CallsInv, DanglingTypes PROVE TypeOK
  OBVIOUS
<1>1. Session!TypeOK
  BY SameTypes, FramesAreRequests, Srv!TypesSuffice DEF CallsInv, WireTypes
<1>2. Client!WriteStrand!TypeOK /\ requests \in Seq(Request)
  BY Zenon DEF CallsInv, ServeInv, ClientInv, Writer!IInv, Writer!TypeOK,
     Client!WriteStrand!TypeOK, Client!Calls, Calls
<1>3. receiving \subseteq Calls /\ ending \subseteq cfinished
  BY CallsMade DEF CallsInv, ServeInv, HandlerInv
<1>4. Client!CallStrand!TypeOK
  BY Zenon DEF CallsInv, ServeInv, ClientInv, Strand!IInv, Strand!TypeOK,
     Client!CallStrand!TypeOK, Client!Calls, Calls
<1>5. failed \subseteq Calls /\ cancelled \subseteq failed
  <2>1. cfinished \subseteq Calls
    BY <1>4 DEF Client!CallStrand!TypeOK, Client!Calls, Calls
  <2> QED BY <2>1 DEF CallsInv, FailInv
<1>6. delivered \in [Calls -> Seq(Session!Reply)] /\ torn \in BOOLEAN
  BY SameReply DEF CallsInv, WireTypes, HeardTypes, SentTypes
<1>7. /\ closed \in BOOLEAN /\ sent \in Seq(Calls)
      /\ cfetched \in 0 .. Len(s2c) /\ got \in 0 .. cfetched
  BY ReplyTypes DEF CallsInv
<1>8. Client!TypeOK
  BY <1>2, <1>3, <1>4, <1>5, <1>6, <1>7, Zenon DEF Client!TypeOK, Client!Calls, Calls,
     DanglingTypes
<1> QED BY <1>1, <1>8 DEF TypeOK

\* However many calls are made and whatever becomes of them and of the
\* connection, client and session keep the types of their state: no handler
\* takes a reply that the server has not written, only failed calls have been
\* cancelled, and the strands hold calls and replies that exist.
THEOREM TypeCorrect == Spec => []TypeOK
<1>1. Init => DanglingTypes
  BY DEF Init, Client!Init, DanglingTypes
<1>2. CallsInv /\ DanglingTypes /\ [Next]_vars => (CallsInv /\ DanglingTypes)'
  BY CallsStep, DanglingStep
<1> QED BY <1>1, <1>2, CallsInit, CallsTypes, PTL DEF Spec

\* However many calls are made, and whichever of them are cancelled or fail
\* before they have written, requests go over the wire in the order of the
\* calls, each once.
THEOREM RequestsInOrder == Spec => []SentInCallOrder
<1>1. CallsInv => SentInCallOrder
  <2> SUFFICES ASSUME CallsInv PROVE SentInCallOrder
    OBVIOUS
  <2>1. DOMAIN sent = 1 .. Len(sent)
    BY LenProperties DEF CallsInv, WireTypes, SentTypes
  <2> QED BY <2>1 DEF SentInCallOrder, CallsInv, WireInv
<1> QED BY <1>1, CallsInit, CallsStep, PTL DEF Spec
-----------------------------------------------------------------------------
(* No reply is lost, and none is heard twice.                              *)

DeliverInv == CallsInv /\ DeliveredInOrder

\* The handler of the call that reads hears the reply after the last one that
\* was heard, and no later call has heard anything.
LEMMA HearInOrder ==
  ASSUME CallsInv, DeliveredInOrder, NEW i \in Calls, Hears(i)
  PROVE  DeliveredInOrder'
<1> DEFINE r == s2c[got + 1]
<1>1. /\ s2c \in Seq(Srv!Reply) /\ Len(s2c) \in Nat /\ got \in Nat /\ got + 1 \in 1 .. Len(s2c)
      /\ got' = got + 1 /\ s2c' = s2c
  BY ReplyTypes DEF CallsInv, Hears
<1>2. r \in Srv!Reply
  BY <1>1, ElementOfSeq
<1>3. /\ delivered \in Seq(Seq(Srv!Reply)) /\ Len(delivered) = MaxRequests
      /\ i \in 1 .. Len(delivered)
  <2>1. delivered \in [1 .. MaxRequests -> Seq(Srv!Reply)]
    BY DEF CallsInv, WireTypes, HeardTypes, Calls
  <2>2. delivered \in Seq(Seq(Srv!Reply))
    BY <2>1, BoundAssumption, IsASeq
  <2>3. Len(delivered) = MaxRequests
    BY <2>1, <2>2, BoundAssumption, LenProperties
  <2> QED BY <2>2, <2>3 DEF Calls
<1>4. \A j \in 1 .. Len(delivered) : j > i => delivered[j] = <<>>
  <2>1. cfinished = 1 .. i - 1 /\ receiving = {i}
    BY CallsMade DEF Hears, CallsInv
  <2>2. ASSUME NEW j \in 1 .. Len(delivered), j > i PROVE j \in Calls \ (cfinished \cup receiving)
    BY <1>3, <2>1, <2>2, BoundAssumption DEF Calls
  <2> QED BY <2>2, Zenon DEF CallsInv, ServeInv, HandlerInv, HeardInv
<1>5. delivered' = [delivered EXCEPT ![i] = Append(@, r)]
  BY <1>1 DEF Hears
<1>6. FlattenSeq(delivered') = Append(FlattenSeq(delivered), r)
  <2> HIDE DEF r
  <2>1. \A ss \in Seq(Seq(Srv!Reply)) : \A k \in 1 .. Len(ss) : \A e \in Srv!Reply :
           (\A j \in 1 .. Len(ss) : j > k => ss[j] = <<>>)
           => FlattenSeq([ss EXCEPT ![k] = Append(@, e)]) = Append(FlattenSeq(ss), e)
    BY FlattenAppendToPart, Zenon
  <2>2. FlattenSeq([delivered EXCEPT ![i] = Append(@, r)]) = Append(FlattenSeq(delivered), r)
    BY <1>2, <1>3, <1>4, <2>1, Zenon
  <2> QED BY <1>5, <2>2, Zenon
<1>7. SubSeq(s2c, 1, got + 1) = Append(SubSeq(s2c, 1, got), r)
  <2>1. /\ 1 \in 1 .. Len(s2c) + 1 /\ 1 \in 1 .. Len(s2c)
        /\ got + 1 \in 1 - 1 .. Len(s2c) /\ got + 1 \in 1 .. Len(s2c)
    BY <1>1
  <2>2. SubSeq(s2c, 1, got + 1) = SubSeq(s2c, 1, (got + 1) - 1) \o <<s2c[got + 1]>>
    BY <1>1, <2>1, SubSeqRecursiveSecond
  <2>3. (got + 1) - 1 = got /\ SubSeq(s2c, 1, got) \in Seq(Srv!Reply)
    BY <1>1, SplitBehind
  <2> HIDE DEF r
  <2>4. Append(SubSeq(s2c, 1, got), r) = SubSeq(s2c, 1, got) \o <<r>>
    BY <1>2, <2>3, AppendIsConcat
  <2> QED BY <2>2, <2>3, <2>4 DEF r
<1> QED BY <1>1, <1>6, <1>7 DEF DeliveredInOrder

LEMMA KeepsDelivered ==
  ASSUME DeliverInv, [Next]_vars
  PROVE  DeliveredInOrder'
<1>1. CASE Quiet
  <2>1. UNCHANGED <<got, delivered>>
    BY <1>1 DEF Quiet
  <2>2. CASE s2c' = s2c
    BY <2>1, <2>2 DEF DeliverInv, DeliveredInOrder
  <2>3. ASSUME NEW r \in Srv!Reply, s2c' = Append(s2c, r) PROVE DeliveredInOrder'
    <3>1. s2c \in Seq(Srv!Reply) /\ Len(s2c) \in Nat /\ got \in 0 .. Len(s2c)
      BY ReplyTypes DEF DeliverInv, CallsInv
    <3>2. /\ s2c' \in Seq(Srv!Reply) /\ Len(s2c') = Len(s2c) + 1
          /\ \A j \in 1 .. Len(s2c) : s2c'[j] = s2c[j]
      BY <2>3, <3>1, AppendProperties
    <3>3. SubSeq(s2c', 1, got) = SubSeq(s2c, 1, got)
      BY <3>1, <3>2, SubSeqAgree
    <3> QED BY <2>1, <3>3 DEF DeliverInv, DeliveredInOrder
  <2> QED BY <1>1, <2>2, <2>3 DEF Quiet
<1>2. ASSUME NEW i \in Calls, Writes(i) \/ Reads(i) \/ Ends(i) PROVE DeliveredInOrder'
  BY <1>2 DEF Writes, Reads, Ends, DeliverInv, DeliveredInOrder
<1>3. ASSUME NEW i \in Calls, Hears(i) PROVE DeliveredInOrder'
  BY <1>3, HearInOrder DEF DeliverInv
<1> QED BY <1>1, <1>2, <1>3, StepKinds DEF DeliverInv

\* However many calls are made, and whichever of them are cancelled, no reply
\* that the client has read is lost, given to two handlers or out of order:
\* the handlers, call after call, have heard what the server wrote.
THEOREM NoReplyIsLost == Spec => []DeliveredInOrder
<1>1. Init => DeliverInv
  <2> SUFFICES ASSUME Init PROVE DeliveredInOrder
    BY CallsInit DEF DeliverInv
  <2>1. s2c = <<>> /\ got = 0 /\ delivered = [i \in Calls |-> <<>>]
    BY DEF Init, Client!Init, Client!Calls, Calls, Session!Init
  <2>2. delivered \in Seq(Seq(Srv!Reply)) /\ Len(delivered) = MaxRequests
    BY <2>1, BoundAssumption, EmptySeq, IsASeq, LenProperties DEF Calls
  <2>3. FlattenSeq(delivered) = <<>>
    BY <2>1, <2>2, FlattenOfEmpty DEF Calls
  <2>4. SubSeq(s2c, 1, got) = <<>>
    BY <2>1
  <2> QED BY <2>3, <2>4 DEF DeliveredInOrder
<1>2. DeliverInv /\ [Next]_vars => DeliverInv'
  BY KeepsDelivered, CallsStep DEF DeliverInv
<1>3. DeliverInv => DeliveredInOrder
  BY DEF DeliverInv
<1> QED BY <1>1, <1>2, <1>3, PTL DEF Spec
-----------------------------------------------------------------------------
(* Which replies a call gets.                                              *)

\* Every oneway request finds its callback.
OnewayFound == \A r \in Request : r.mode = "oneway" => r.target # "error"

\* No callback replies to a oneway call but to end it, or throws on one.
OnewayIsQuiet == {"oneway_throws", "oneway_continues"} \cap CallbackMay = {}

\* The final reply to the k-th request on the wire has been heard.
Consumed(k) == \E m \in 1 .. got : s2c[m].req = k /\ s2c[m].last

\* Call i takes reply r for its own.
Takes(i, r) == /\ r.req \in 1 .. Len(sent)
               /\ \/ sent[r.req] = i
                  \/ sent[r.req] < i /\ Lags(sent[r.req] + 1)

MatchInv == \A i \in Calls : \A k \in 1 .. Len(delivered[i]) : Takes(i, delivered[i][k])

\* The replies to call i up to the last one heard, and whether that ended it.
CompleteInv ==
    \A i \in Calls : ~Lags(i) =>
        /\ \A k \in 1 .. Len(delivered[i]) :
             /\ delivered[i][k].n = k
             /\ delivered[i][k].last => k = Len(delivered[i])
        /\ i \in cfinished /\ i \notin failed /\ requests[i].mode # "oneway"
             => Len(delivered[i]) > 0 /\ delivered[i][Len(delivered[i])].last

\* A call that ended well has left none of its replies unread.
ConsumedInv ==
    \A k \in 1 .. Len(sent) :
        /\ sent[k] \in cfinished /\ sent[k] \notin failed
        /\ requests[sent[k]].mode # "oneway" /\ ~Lags(sent[k] + 1)
        => Consumed(k)

\* Nothing has been heard for the last request on the wire, or all up to the
\* last reply heard, which is not its final one.
Halfway(i) ==
    /\ \A k \in 1 .. Len(delivered[i]) : ~delivered[i][k].last
    /\ delivered[i] = <<>> => \A m \in 1 .. got : s2c[m].req < Len(sent)
    /\ delivered[i] # <<>> => /\ got > 0 /\ s2c[got] = delivered[i][Len(delivered[i])]
                              /\ s2c[got].req = Len(sent)

HalfwayInv ==
    \A k \in 1 .. Len(sent) :
        sent[k] \in wrunning \cup receiving /\ ~Lags(sent[k]) => Halfway(sent[k])

ServerInv == Srv!SessionInv /\ Srv!FitsInv

RepliesInv == CallsInv /\ ServerInv /\ MatchInv /\ CompleteInv /\ ConsumedInv /\ HalfwayInv

\* How the next reply goes on from the one before.
LEMMA NextReply ==
  ASSUME CallsInv, ServerInv, NEW k \in 1 .. Len(s2c)
  PROVE  /\ s2c[k].req \in Calls /\ s2c[k].n \in Nat
         /\ k = 1 => s2c[k].n = 1
         /\ k > 1 => \/ /\ s2c[k].req = s2c[k - 1].req /\ ~s2c[k - 1].last
                        /\ s2c[k].n = s2c[k - 1].n + 1
                     \/ /\ s2c[k].req > s2c[k - 1].req /\ s2c[k - 1].last
                        /\ s2c[k].n = 1
<1>1. s2c \in Seq(Srv!Reply) /\ Len(s2c) \in Nat
  BY ReplyTypes DEF CallsInv
<1>2. s2c[k] \in Srv!Reply
  BY <1>1, ElementOfSeq
<1>3. s2c[k].req \in Calls /\ s2c[k].n \in Nat
  BY <1>2, FramesAreRequests, SameReply DEF Srv!Reply
<1>4. Srv!RepliesInOrder
  BY FramesAreRequests, Srv!FlowSuffices DEF ServerInv, Srv!SessionInv
<1>5. CASE k = 1
  <2>1. s2c[k].req # 0
    BY <1>3 DEF Calls
  <2> QED BY <1>3, <1>4, <1>5, <2>1 DEF Srv!RepliesInOrder
<1>6. CASE k # 1
  BY <1>3, <1>4, <1>6 DEF Srv!RepliesInOrder
<1> QED BY <1>3, <1>5, <1>6

\* After the final reply to a request come those to later ones only.
LEMMA RepliesGrow ==
  ASSUME CallsInv, ServerInv, NEW m \in 1 .. Len(s2c), NEW l \in 1 .. Len(s2c), m < l
  PROVE  s2c[m].req <= s2c[l].req /\ (s2c[m].last => s2c[m].req < s2c[l].req)
<1> DEFINE Grown(d) == m + d <= Len(s2c)
                         => /\ s2c[m].req <= s2c[m + d].req
                            /\ d > 0 /\ s2c[m].last => s2c[m].req < s2c[m + d].req
           T == {d \in Nat : Grown(d)}
<1>0. Len(s2c) \in Nat /\ \A k \in 1 .. Len(s2c) : s2c[k].req \in Nat
  BY NextReply, ReplyTypes DEF CallsInv, Calls
<1>1. 0 \in T
  BY <1>0
<1>2. ASSUME NEW d \in T PROVE d + 1 \in T
  <2>0. d \in Nat /\ Grown(d)
    OBVIOUS
  <2>1. SUFFICES ASSUME m + (d + 1) <= Len(s2c) PROVE Grown(d + 1)
    BY <2>0
  <2> DEFINE k == m + (d + 1)
  <2>2. k \in 1 .. Len(s2c) /\ k > 1 /\ k - 1 = m + d /\ m + d \in 1 .. Len(s2c)
    BY <1>0, <2>0, <2>1
  <2>3. \/ s2c[k].req = s2c[m + d].req /\ ~s2c[m + d].last
        \/ s2c[k].req > s2c[m + d].req /\ s2c[m + d].last
    BY <2>2, NextReply
  <2>4. s2c[k].req \in Nat /\ s2c[m + d].req \in Nat /\ s2c[m].req \in Nat
    BY <1>0, <2>2
  <2>5. CASE d = 0
    <3>1. m + d = m
      BY <2>5
    <3> QED BY <2>3, <2>4, <3>1
  <2>6. CASE d > 0
    <3>1. s2c[m].req <= s2c[m + d].req /\ (s2c[m].last => s2c[m].req < s2c[m + d].req)
      BY <2>0, <2>2, <2>6
    <3> QED BY <2>3, <2>4, <3>1
  <2> QED BY <2>0, <2>5, <2>6
<1>3. T = Nat
  <2>1. T \subseteq Nat
    OBVIOUS
  <2> HIDE DEF T
  <2> QED BY <1>1, <1>2, <2>1, NatSetInduction
<1>4. l - m \in Nat /\ m + (l - m) = l /\ l - m > 0
  BY <1>0
<1>5. Grown(l - m)
  <2>1. l - m \in T
    BY <1>3, <1>4, Zenon
  <2> QED BY <2>1
<1> QED BY <1>0, <1>4, <1>5

\* What the session has written answers requests on the wire.
LEMMA ReplyFits ==
  ASSUME CallsInv, ServerInv, NEW m \in 1 .. Len(s2c)
  PROVE  /\ s2c[m].req \in 1 .. Len(sent)
         /\ requests[sent[s2c[m].req]].mode # "oneway"
         /\ ~s2c[m].last => requests[sent[s2c[m].req]].mode = "more"
<1>1. Srv!Fits(s2c[m], taken, c2s)
  BY DEF ServerInv, Srv!FitsInv, Srv!AllFit
<1>2. taken \in Nat /\ taken <= Len(sent) /\ Len(sent) \in Nat
  <2>1. Len(c2s) = Len(sent) /\ Len(sent) \in Nat
    BY ReplyTypes DEF CallsInv
  <2> QED BY <2>1 DEF CallsInv, WireTypes, Srv!Types, Srv!ReadTypes
<1>3. s2c[m].req \in 1 .. Len(sent)
  BY <1>1, <1>2 DEF Srv!Fits
<1> QED BY <1>1, <1>3 DEF Srv!Fits, CallsInv, WireInv
-----------------------------------------------------------------------------
(* Steps in which no reply is heard.                                       *)

LEMMA NotYetOver == ServeInv => \A i \in wrunning \cup receiving : i \notin cfinished
BY CallsMade

LEMMA NotYetOverNext == (ServeInv => \A i \in wrunning \cup receiving : i \notin cfinished)'
BY NotYetOver, PTL

LEMMA LagsGrow ==
  ASSUME CallsInv, NEW a \in Int, NEW b \in Int, a <= b, Lags(a)
  PROVE  Lags(b)
<1>1. \A j \in Range(sent) : j \in Int
  BY ReplyTypes, LenProperties DEF CallsInv, Range, Calls
<1> QED BY <1>1 DEF Lags

\* A handler that lags goes on to do so, and only a cancelled call makes others.
LEMMA LagsStay ==
  ASSUME CallsInv
  PROVE  /\ Quiet \/ (\E i \in Calls : Writes(i) \/ Reads(i) \/ Hears(i))
              => \A j : Lags(j)' <=> Lags(j)
         /\ (\E i \in Calls : Ends(i)) => \A j : Lags(j) => Lags(j)'
<1>1. CASE Quiet \/ (\E i \in Calls : Reads(i) \/ Hears(i))
  BY <1>1 DEF Quiet, Reads, Hears, Lags
<1>2. ASSUME NEW i \in Calls, Writes(i) PROVE \A j : Lags(j)' <=> Lags(j)
  <2>1. sent \in Seq(Calls) /\ Len(sent) \in Nat /\ sent' = Append(sent, i) /\ cancelled' = cancelled
    BY <1>2, ReplyTypes DEF CallsInv, Writes
  <2>2. DOMAIN sent = 1 .. Len(sent) /\ DOMAIN sent' = 1 .. Len(sent) + 1
        /\ sent'[Len(sent) + 1] = i /\ \A k \in 1 .. Len(sent) : sent'[k] = sent[k]
    BY <2>1, AppendProperties, LenProperties
  <2>3. i \notin cancelled
    BY <1>2, CallsMade DEF Writes, CallsInv, FailInv
  <2>4. cancelled \cap Range(sent') = cancelled \cap Range(sent)
    BY <2>1, <2>2, <2>3 DEF Range
  <2> QED BY <2>1, <2>4 DEF Lags
<1>3. ASSUME NEW i \in Calls, Ends(i) PROVE \A j : Lags(j) => Lags(j)'
  <2>1. cancelled \subseteq cancelled' /\ sent' = sent
    BY <1>3 DEF Ends
  <2> QED BY <2>1 DEF Lags
<1> QED BY <1>1, <1>2, <1>3

\* What has been heard, and is on the wire, stays.
LEMMA Unheard ==
  ASSUME RepliesInv, UNCHANGED <<got, delivered>>,
         \A m \in 1 .. got : s2c'[m] = s2c[m],
         Len(sent') \in Nat, Len(sent) <= Len(sent'),
         \A k \in 1 .. Len(sent) : sent'[k] = sent[k],
         \A j : Lags(j) => Lags(j)',
         \A i \in cfinished' : i \notin failed' /\ requests'[i].mode # "oneway"
                  => i \in cfinished /\ i \notin failed /\ requests[i].mode # "oneway",
         \A k \in 1 .. Len(sent') : k > Len(sent) => sent'[k] \notin cfinished'
  PROVE  MatchInv' /\ CompleteInv' /\ ConsumedInv'
<1>0. Len(sent) \in Nat
  BY ReplyTypes DEF RepliesInv, CallsInv
<1>1. ASSUME NEW i, NEW r, Takes(i, r) PROVE Takes(i, r)'
  <2>1. r.req \in 1 .. Len(sent) /\ r.req \in 1 .. Len(sent') /\ sent'[r.req] = sent[r.req]
    BY <1>0, <1>1 DEF Takes
  <2>2. Lags(sent[r.req] + 1) => Lags(sent[r.req] + 1)'
    BY <2>1
  <2> QED BY <1>1, <2>1, <2>2 DEF Takes
<1>2. MatchInv'
  <2> SUFFICES ASSUME NEW i \in Calls, NEW k \in 1 .. Len(delivered[i])
               PROVE  Takes(i, delivered[i][k])'
    BY DEF MatchInv
  <2>1. Takes(i, delivered[i][k])
    BY DEF RepliesInv, MatchInv
  <2> QED BY <1>1, <2>1
<1>3. CompleteInv'
  BY DEF RepliesInv, CompleteInv
<1>4. ASSUME NEW k \in 1 .. Len(sent'), sent'[k] \in cfinished', sent'[k] \notin failed',
             requests'[sent'[k]].mode # "oneway", ~Lags(sent[k] + 1)'
      PROVE  Consumed(k)'
  <2>1. k \in 1 .. Len(sent) /\ sent'[k] = sent[k]
    BY <1>0, <1>4
  <2>2. ~Lags(sent[k] + 1)
    BY <1>4
  <2>3. Consumed(k)
    BY <1>4, <2>1, <2>2 DEF RepliesInv, ConsumedInv
  <2> QED BY <2>3 DEF Consumed
<1>5. ConsumedInv'
  BY <1>0, <1>4 DEF ConsumedInv
<1> QED BY <1>2, <1>3, <1>5

LEMMA QuietReplies ==
  ASSUME RepliesInv, ServeInv', Quiet
  PROVE  MatchInv' /\ CompleteInv' /\ ConsumedInv' /\ HalfwayInv'
<1>1. /\ UNCHANGED <<sent, receiving, got, delivered, failed, cancelled, cfinished>>
      /\ \A k \in 1 .. Len(requests) : requests'[k] = requests[k]
  BY DEF Quiet
<1>2. \A m \in 1 .. got : s2c'[m] = s2c[m]
  <2>1. s2c \in Seq(Srv!Reply) /\ Len(s2c) \in Nat /\ got \in 0 .. Len(s2c)
    BY ReplyTypes DEF RepliesInv, CallsInv
  <2> QED BY <2>1, AppendProperties DEF Quiet
<1>3. \A j : Lags(j)' <=> Lags(j)
  BY LagsStay DEF RepliesInv
<1>4. Len(sent) \in Nat /\ Served \subseteq 1 .. Len(requests) /\ cfinished \subseteq Served
  BY CallsMade, ReplyTypes DEF RepliesInv, CallsInv, Served
<1>5. MatchInv' /\ CompleteInv' /\ ConsumedInv'
  BY <1>1, <1>2, <1>3, <1>4, Unheard
<1>6. ASSUME NEW k \in 1 .. Len(sent), sent[k] \in (wrunning \cup receiving)',
             ~Lags(sent[k])
      PROVE  Halfway(sent[k])'
  <2>1. sent[k] \in wrunning \cup receiving
    <3>1. sent[k] \notin cfinished
      BY <1>1, <1>6, NotYetOverNext
    <3> QED BY <3>1 DEF RepliesInv, CallsInv, WireInv, Served
  <2>2. Halfway(sent[k])
    BY <1>6, <2>1 DEF RepliesInv, HalfwayInv
  <2>3. got \in Nat
    BY ReplyTypes DEF RepliesInv, CallsInv
  <2> QED BY <1>1, <1>2, <2>2, <2>3 DEF Halfway
<1>7. HalfwayInv'
  BY <1>1, <1>3, <1>6 DEF HalfwayInv
<1> QED BY <1>5, <1>7

LEMMA WriteReplies ==
  ASSUME RepliesInv, NEW i \in Calls, Writes(i)
  PROVE  MatchInv' /\ CompleteInv' /\ ConsumedInv' /\ HalfwayInv'
<1> DEFINE n == Len(sent)
<1>1. /\ UNCHANGED <<requests, s2c, got, delivered, failed, cancelled, wrunning, receiving, cfinished>>
      /\ i \in wrunning /\ \A k \in 1 .. n : sent[k] # i
  BY DEF Writes
<1>2. /\ n \in Nat /\ Len(sent') = n + 1 /\ sent'[n + 1] = i
      /\ \A k \in 1 .. n : sent'[k] = sent[k]
  <2>1. sent \in Seq(Calls) /\ n \in Nat /\ sent' = Append(sent, i)
    BY ReplyTypes DEF RepliesInv, CallsInv, Writes
  <2> QED BY <2>1, AppendProperties
<1>3. \A j : Lags(j)' <=> Lags(j)
  BY LagsStay DEF RepliesInv
<1>4. wrunning \cup receiving = {i} /\ receiving = {} /\ i \notin cfinished
  BY <1>1, CallsMade DEF RepliesInv, CallsInv
<1> HIDE DEF n
<1>5. \A k \in 1 .. Len(sent') : k > n => k = n + 1
  BY <1>2
<1>6. MatchInv' /\ CompleteInv' /\ ConsumedInv'
  BY <1>1, <1>2, <1>3, <1>4, <1>5, Unheard DEF n
<1>7. ASSUME NEW k \in 1 .. Len(sent'), sent'[k] \in (wrunning \cup receiving)'
      PROVE  Halfway(sent[k])'
  <2>1. sent'[k] = i
    BY <1>1, <1>4, <1>7
  <2>2. delivered[i] = <<>> /\ Len(delivered[i]) = 0
    BY <1>4 DEF RepliesInv, CallsInv, ServeInv, HandlerInv, HeardInv
  <2>3. \A m \in 1 .. got : s2c[m].req < n + 1
    <3>1. \A m \in 1 .. got : m \in 1 .. Len(s2c)
      BY ReplyTypes DEF RepliesInv, CallsInv
    <3>2. \A m \in 1 .. got : s2c[m].req \in 1 .. n
      BY <3>1, ReplyFits DEF RepliesInv, n
    <3> QED BY <1>2, <3>2
  <2>4. delivered'[sent'[k]] = <<>> /\ Len(delivered'[sent'[k]]) = 0
    BY <1>1, <2>1, <2>2
  <2> QED BY <1>1, <1>2, <2>3, <2>4 DEF Halfway
<1>8. HalfwayInv'
  BY <1>7 DEF HalfwayInv
<1> QED BY <1>6, <1>8

LEMMA ReadReplies ==
  ASSUME RepliesInv, NEW i \in Calls, Reads(i)
  PROVE  MatchInv' /\ CompleteInv' /\ ConsumedInv' /\ HalfwayInv'
<1>1. /\ UNCHANGED <<requests, s2c, sent, got, delivered, failed, cancelled, cfinished>>
      /\ i \in wrunning /\ wrunning' = {} /\ receiving' = {i}
  BY DEF Reads
<1>2. \A j : Lags(j)' <=> Lags(j)
  BY LagsStay DEF RepliesInv
<1>3. wrunning \cup receiving = {i} /\ Len(sent) \in Nat
  BY <1>1, CallsMade, ReplyTypes DEF RepliesInv, CallsInv
<1>4. MatchInv' /\ CompleteInv' /\ ConsumedInv'
  BY <1>1, <1>2, <1>3, Unheard
<1>5. ASSUME NEW k \in 1 .. Len(sent), sent[k] = i, ~Lags(sent[k])
      PROVE  Halfway(sent[k])'
  <2>1. Halfway(sent[k])
    BY <1>3, <1>5 DEF RepliesInv, HalfwayInv
  <2> QED BY <1>1, <2>1 DEF Halfway
<1>6. HalfwayInv'
  BY <1>1, <1>2, <1>5 DEF HalfwayInv
<1> QED BY <1>4, <1>6

LEMMA EndReplies ==
  ASSUME RepliesInv, NEW i \in Calls, Ends(i)
  PROVE  MatchInv' /\ CompleteInv' /\ ConsumedInv' /\ HalfwayInv'
<1>1. /\ UNCHANGED <<requests, s2c, sent, got, delivered>>
      /\ wrunning' = {} /\ receiving' = {} /\ cfinished' = cfinished \cup {i}
      /\ failed \subseteq failed' /\ (requests[i].mode = "oneway" \/ i \in failed')
  BY DEF Ends
<1>2. \A j : Lags(j) => Lags(j)'
  BY LagsStay DEF RepliesInv
<1>3. Len(sent) \in Nat
  BY ReplyTypes DEF RepliesInv, CallsInv
<1>4. MatchInv' /\ CompleteInv' /\ ConsumedInv'
  BY <1>1, <1>2, <1>3, Unheard
<1>5. HalfwayInv'
  BY <1>1 DEF HalfwayInv
<1> QED BY <1>4, <1>5
-----------------------------------------------------------------------------
(* A reply is heard.                                                       *)

\* The next reply is to a request on the wire, and a call that reads takes it
\* for its own.
LEMMA NextIsTaken ==
  ASSUME RepliesInv, NEW i \in receiving, got + 1 \in 1 .. Len(s2c)
  PROVE  /\ Takes(i, s2c[got + 1])
         /\ ~Lags(i) => s2c[got + 1].req = Len(sent)
         /\ Len(sent) \in 1 .. Len(sent) /\ sent[Len(sent)] = i /\ i \in Calls
<1> DEFINE r == s2c[got + 1]
           n == Len(sent)
           p == r.req
<1>1. p \in 1 .. n /\ requests[sent[p]].mode # "oneway"
  BY ReplyFits DEF RepliesInv
<1>2. n \in Nat /\ got \in Nat /\ \A k \in 1 .. n : sent[k] \in Calls
  BY ReplyTypes DEF RepliesInv, CallsInv
<1>3. n \in 1 .. n /\ sent[n] = i /\ i \in Calls
  <2>1. PICK k \in 1 .. n : sent[k] = i
    BY DEF RepliesInv, CallsInv, WireInv
  <2>2. k = n
    BY <2>1, LastOnWire DEF RepliesInv
  <2> QED BY <1>2, <2>1, <2>2
<1>4. ASSUME p # n PROVE sent[p] < i /\ Lags(sent[p] + 1)
  <2>1. sent[p] < i /\ sent[p] \in Calls
    <3>1. p < n
      BY <1>1, <1>2, <1>4
    <3> QED BY <1>1, <1>2, <1>3, <3>1 DEF RepliesInv, CallsInv, WireInv
  <2>2. SUFFICES ASSUME ~Lags(sent[p] + 1) PROVE FALSE
    BY <2>1
  <2>3. sent[p] \in cfinished
    <3>1. sent[p] # i
      BY <2>1 DEF Calls
    <3> QED BY <1>1, <3>1, LastOnWire DEF RepliesInv
  <2>4. sent[p] \notin failed
    <3>1. SUFFICES ASSUME sent[p] \in failed PROVE FALSE
      OBVIOUS
    <3>2. p < n
      BY <1>1, <1>2, <1>4
    <3>3. sent[p] \in cancelled
      BY <1>1, <3>1, <3>2 DEF RepliesInv, CallsInv, FailInv
    <3>4. sent[p] \in Range(sent)
      <4>1. DOMAIN sent = 1 .. n
        BY LenProperties, ReplyTypes DEF RepliesInv, CallsInv
      <4> QED BY <1>1, <4>1 DEF Range
    <3>5. sent[p] < sent[p] + 1
      BY <2>1 DEF Calls
    <3> QED BY <2>2, <3>3, <3>4, <3>5 DEF Lags
  <2>5. Consumed(p)
    BY <1>1, <2>2, <2>3, <2>4 DEF RepliesInv, ConsumedInv
  <2>6. PICK m \in 1 .. got : s2c[m].req = p /\ s2c[m].last
    BY <2>5 DEF Consumed
  <2>7. m \in 1 .. Len(s2c) /\ m < got + 1
    BY <1>2, <2>6
  <2>8. s2c[m].req < r.req
    BY <2>6, <2>7, RepliesGrow DEF RepliesInv
  <2> QED BY <1>1, <1>2, <2>6, <2>8
<1>5. Takes(i, r)
  BY <1>1, <1>3, <1>4 DEF Takes
<1>6. ~Lags(i) => p = n
  <2>1. SUFFICES ASSUME p # n PROVE Lags(i)
    OBVIOUS
  <2>2. sent[p] + 1 \in Int /\ i \in Int /\ sent[p] + 1 <= i
    BY <1>1, <1>2, <1>3, <1>4, <2>1 DEF Calls
  <2> QED BY <1>4, <2>1, <2>2, LagsGrow DEF RepliesInv
<1> QED BY <1>3, <1>5, <1>6

\* A call that does not lag is given the next reply to its own request.
LEMMA NextInOrder ==
  ASSUME RepliesInv, NEW i \in receiving, got + 1 \in 1 .. Len(s2c), ~Lags(i)
  PROVE  s2c[got + 1].n = Len(delivered[i]) + 1
<1> DEFINE n == Len(sent)
<1>1. n \in 1 .. n /\ sent[n] = i /\ s2c[got + 1].req = n /\ i \in Calls
  BY NextIsTaken
<1>2. Halfway(i)
  BY <1>1 DEF RepliesInv, HalfwayInv
<1>3. delivered[i] \in Seq(Srv!Reply) /\ Len(delivered[i]) \in Nat /\ got \in Nat
      /\ (delivered[i] = <<>> <=> Len(delivered[i]) = 0)
  BY <1>1, ReplyTypes, LenProperties, EmptySeq DEF RepliesInv, CallsInv, WireTypes, HeardTypes
<1>4. CASE delivered[i] = <<>>
  <2>1. got = 0 => s2c[got + 1].n = 1
    BY NextReply DEF RepliesInv
  <2>2. CASE got > 0
    <3>1. got \in 1 .. got /\ got + 1 > 1 /\ got + 1 - 1 = got
      BY <1>3, <2>2
    <3>2. s2c[got].req < n
      BY <1>2, <1>4, <3>1 DEF Halfway
    <3>3. s2c[got].req # s2c[got + 1].req
      BY <1>1, <3>2
    <3> QED BY <1>3, <1>4, <3>1, <3>3, NextReply DEF RepliesInv
  <2> QED BY <1>3, <1>4, <2>1, <2>2
<1>5. CASE delivered[i] # <<>>
  <2> DEFINE d == Len(delivered[i])
  <2>1. got > 0 /\ s2c[got] = delivered[i][d] /\ s2c[got].req = n /\ d \in 1 .. d
    BY <1>2, <1>3, <1>5 DEF Halfway
  <2>2. delivered[i][d].n = d
    BY <1>1, <2>1 DEF RepliesInv, CompleteInv
  <2>3. s2c[got + 1].n = s2c[got].n + 1
    <3>1. ~(s2c[got + 1].req > s2c[got].req)
      BY <1>1, <2>1
    <3> DEFINE k == got + 1
    <3>2. k \in 1 .. Len(s2c) /\ k > 1 /\ k - 1 = got
      BY <1>3, <2>1
    <3> HIDE DEF k
    <3>3. \/ s2c[k].req = s2c[k - 1].req /\ s2c[k].n = s2c[k - 1].n + 1
          \/ s2c[k].req > s2c[k - 1].req
      BY <3>2, NextReply DEF RepliesInv
    <3>4. \/ s2c[k].req = s2c[got].req /\ s2c[k].n = s2c[got].n + 1
          \/ s2c[k].req > s2c[got].req
      BY <3>2, <3>3
    <3> QED BY <3>1, <3>4 DEF k
  <2> QED BY <2>1, <2>2, <2>3
<1> QED BY <1>4, <1>5

LEMMA HearReplies ==
  ASSUME RepliesInv, NEW i \in Calls, Hears(i)
  PROVE  MatchInv' /\ CompleteInv' /\ ConsumedInv' /\ HalfwayInv'
<1> DEFINE r == s2c[got + 1]
           n == Len(sent)
           d == Len(delivered[i])
<1>1. /\ UNCHANGED <<requests, s2c, sent, wrunning, failed, cancelled>>
      /\ i \in receiving /\ got' = got + 1
  BY DEF Hears
<1>2. /\ s2c \in Seq(Srv!Reply) /\ Len(s2c) \in Nat /\ got \in Nat /\ got + 1 \in 1 .. Len(s2c)
      /\ n \in Nat
  BY ReplyTypes DEF RepliesInv, CallsInv, Hears
<1>3. /\ Takes(i, r) /\ (~Lags(i) => r.req = n /\ r.n = d + 1)
      /\ n \in 1 .. n /\ sent[n] = i
  BY <1>1, <1>2, NextIsTaken, NextInOrder
<1>4. ~r.last /\ ~Lags(i) => requests[i].mode = "more"
  BY <1>2, <1>3, ReplyFits DEF RepliesInv
<1>5. /\ delivered \in [Calls -> Seq(Srv!Reply)] /\ r \in Srv!Reply
      /\ delivered[i] \in Seq(Srv!Reply) /\ d \in Nat
  BY <1>2, ElementOfSeq, LenProperties DEF RepliesInv, CallsInv, WireTypes, HeardTypes
<1>6. delivered' = [delivered EXCEPT ![i] = Append(@, r)]
  BY <1>1 DEF Hears
<1> HIDE DEF r
<1>7. /\ \A j \in Calls : j # i => delivered'[j] = delivered[j]
      /\ delivered'[i] = Append(delivered[i], r)
  BY <1>5, <1>6
<1>8. /\ delivered'[i] # <<>> /\ Len(delivered'[i]) = d + 1 /\ delivered'[i][d + 1] = r
      /\ \A k \in 1 .. d : delivered'[i][k] = delivered[i][k]
  BY <1>5, <1>7, AppendProperties, LenProperties, EmptySeq
<1>9. \A j : Lags(j)' <=> Lags(j)
  BY LagsStay DEF RepliesInv
<1>10. wrunning = {} /\ receiving = {i} /\ i \notin cfinished
  BY <1>1, CallsMade DEF RepliesInv, CallsInv
<1>11. \/ /\ requests[i].mode = "more" /\ ~r.last /\ UNCHANGED <<receiving, cfinished>>
       \/ /\ ~(requests[i].mode = "more" /\ ~r.last)
          /\ receiving' = {} /\ cfinished' = cfinished \cup {i}
  BY <1>1 DEF Hears, r
<1> HIDE DEF n, d
<1>12. ASSUME NEW j, NEW q, Takes(j, q) PROVE Takes(j, q)'
  <2>1. Lags(sent[q.req] + 1)' <=> Lags(sent[q.req] + 1)
    BY <1>1, <1>9
  <2> QED BY <1>1, <1>12, <2>1 DEF Takes
<1>13. MatchInv'
  <2> SUFFICES ASSUME NEW j \in Calls, NEW k \in 1 .. Len(delivered'[j])
               PROVE  Takes(j, delivered[j][k])'
    BY DEF MatchInv
  <2>1. Takes(j, delivered'[j][k])
    <3>1. CASE j # i
      BY <1>7, <3>1 DEF RepliesInv, MatchInv
    <3>2. CASE j = i /\ k = d + 1
      BY <1>3, <1>8, <3>2
    <3>3. CASE j = i /\ k \in 1 .. d
      BY <1>8, <3>3 DEF RepliesInv, MatchInv, d
    <3> QED BY <1>5, <1>8, <3>1, <3>2, <3>3 DEF d
  <2> QED BY <1>1, <1>9, <2>1 DEF Takes
<1>14. CompleteInv'
  <2> SUFFICES ASSUME NEW j \in Calls, ~Lags(j)
               PROVE  /\ \A k \in 1 .. Len(delivered'[j]) :
                           /\ delivered'[j][k].n = k
                           /\ delivered'[j][k].last => k = Len(delivered'[j])
                      /\ j \in cfinished' /\ j \notin failed' /\ requests'[j].mode # "oneway"
                           => Len(delivered'[j]) > 0 /\ delivered'[j][Len(delivered'[j])].last
    BY <1>9 DEF CompleteInv
  <2>1. CASE j # i
    <3>1. delivered'[j] = delivered[j] /\ (j \in cfinished' => j \in cfinished)
      BY <1>7, <1>11, <2>1
    <3> QED BY <1>1, <3>1 DEF RepliesInv, CompleteInv
  <2>2. CASE j = i
    <3>1. \A k \in 1 .. d : delivered[i][k].n = k /\ ~delivered[i][k].last
      BY <1>3, <1>10, <2>2 DEF RepliesInv, CompleteInv, HalfwayInv, Halfway, d, n
    <3>2. \A k \in 1 .. d + 1 : /\ delivered'[i][k].n = k
                                /\ delivered'[i][k].last => k = d + 1
      <4> SUFFICES ASSUME NEW k \in 1 .. d + 1
                   PROVE  delivered'[i][k].n = k /\ (delivered'[i][k].last => k = d + 1)
        OBVIOUS
      <4>1. CASE k = d + 1
        BY <1>3, <1>8, <2>2, <4>1
      <4>2. CASE k \in 1 .. d
        BY <1>8, <3>1, <4>2
      <4> QED BY <1>5, <4>1, <4>2 DEF d
    <3>3. i \in cfinished' => r.last
      BY <1>4, <1>10, <1>11, <2>2
    <3>4. d + 1 > 0
      BY <1>5 DEF d
    <3> QED BY <1>8, <2>2, <3>2, <3>3, <3>4
  <2> QED BY <2>1, <2>2
<1>15. ConsumedInv'
  <2> SUFFICES ASSUME NEW k \in 1 .. Len(sent), sent[k] \in cfinished', sent[k] \notin failed,
                      requests[sent[k]].mode # "oneway", ~Lags(sent[k] + 1)
               PROVE  Consumed(k)'
    BY <1>1, <1>9 DEF ConsumedInv
  <2>1. CASE sent[k] \in cfinished
    <3>1. Consumed(k)
      BY <2>1 DEF RepliesInv, ConsumedInv
    <3>2. PICK m \in 1 .. got : s2c[m].req = k /\ s2c[m].last
      BY <3>1 DEF Consumed
    <3>3. m \in 1 .. got + 1
      BY <1>2, <3>2
    <3> QED BY <1>1, <3>2, <3>3 DEF Consumed
  <2>2. CASE sent[k] \notin cfinished
    <3>1. sent[k] = i /\ i \in cfinished'
      BY <1>11, <2>2
    <3>2. k = n
      BY <1>1, <3>1, LastOnWire DEF RepliesInv, n
    <3>3. ~Lags(i)
      <4>1. i \in Int /\ i + 1 \in Int /\ i <= i + 1
        BY DEF Calls
      <4> QED BY <3>1, <4>1, LagsGrow DEF RepliesInv
    <3>4. r.last /\ r.req = k
      BY <1>3, <1>4, <1>10, <1>11, <3>1, <3>2, <3>3
    <3>5. got + 1 \in 1 .. got + 1
      BY <1>2
    <3> QED BY <1>1, <3>4, <3>5 DEF Consumed, r
  <2> QED BY <2>1, <2>2
<1>16. HalfwayInv'
  <2> SUFFICES ASSUME NEW k \in 1 .. Len(sent), sent[k] \in wrunning' \cup receiving',
                      ~Lags(sent[k])
               PROVE  Halfway(sent[k])'
    BY <1>1, <1>9 DEF HalfwayInv
  <2>1. sent[k] = i /\ ~r.last
    BY <1>1, <1>10, <1>11
  <2>2. Halfway(i)
    BY <1>10, <2>1 DEF RepliesInv, HalfwayInv
  <2>3. \A l \in 1 .. d + 1 : ~delivered'[i][l].last
    <3> SUFFICES ASSUME NEW l \in 1 .. d + 1 PROVE ~delivered'[i][l].last
      OBVIOUS
    <3>1. CASE l = d + 1
      BY <1>8, <2>1, <3>1
    <3>2. CASE l \in 1 .. d
      BY <1>8, <2>2, <3>2 DEF Halfway, d
    <3> QED BY <1>5, <3>1, <3>2 DEF d
  <2>4. got + 1 > 0 /\ s2c[got + 1] = delivered'[i][d + 1] /\ s2c[got + 1].req = n
    BY <1>2, <1>3, <1>8, <2>1 DEF r
  <2>5. sent'[k] = i /\ Len(sent') = n /\ s2c' = s2c
    BY <1>1, <2>1 DEF n
  <2> QED BY <1>1, <1>8, <2>3, <2>4, <2>5 DEF Halfway
<1> QED BY <1>13, <1>14, <1>15, <1>16
-----------------------------------------------------------------------------
(* Client and session together.                                            *)

LEMMA ServerKeeps ==
  ASSUME OnewayFound, OnewayIsQuiet, RepliesInv, [Next]_vars
  PROVE  ServerInv'
<1>1. Srv!OnewayFound
  BY SessionAssumption DEF OnewayFound, Srv!OnewayFound, Frames
<1>2. "oneway_throws" \notin CallbackMay /\ "oneway_continues" \notin CallbackMay
  BY DEF OnewayIsQuiet
<1>3. Srv!SessionInv /\ Srv!FitsInv /\ Srv!Types /\ Srv!Types'
  BY StepBasics DEF RepliesInv, ServerInv, CallsInv, WireTypes
<1>4. Srv!SessionInv'
  BY <1>2, <1>3, ServerSide, FramesAreRequests, Srv!SessionStep, Srv!OutsideStep DEF RepliesInv
<1>5. Srv!FitsInv'
  BY <1>1, <1>2, <1>3, ServerSide, FramesAreRequests, Srv!SessionKeepsFits,
     Srv!OutsideKeepsFits DEF RepliesInv
<1> QED BY <1>4, <1>5 DEF ServerInv

LEMMA RepliesStep ==
  ASSUME OnewayFound, OnewayIsQuiet
  PROVE  RepliesInv /\ [Next]_vars => RepliesInv'
<1> SUFFICES ASSUME RepliesInv, [Next]_vars PROVE RepliesInv'
  OBVIOUS
<1>1. CallsInv' /\ ServeInv' /\ ServerInv'
  BY CallsStep, StepBasics, ServerKeeps DEF RepliesInv
<1>2. MatchInv' /\ CompleteInv' /\ ConsumedInv' /\ HalfwayInv'
  BY <1>1, StepKinds, QuietReplies, WriteReplies, ReadReplies, EndReplies, HearReplies, Zenon
     DEF RepliesInv
<1> QED BY <1>1, <1>2 DEF RepliesInv

LEMMA RepliesInit == Init => RepliesInv
<1> SUFFICES ASSUME Init PROVE RepliesInv
  OBVIOUS
<1>1. CallsInv
  BY CallsInit
<1>2. Srv!Init
  BY SameInit DEF Init
<1>3. ServerInv
  BY <1>2, FramesAreRequests, Srv!InitSession, Srv!InitFits DEF ServerInv
<1>4. sent = <<>> /\ Len(sent) = 0 /\ cfinished = {}
      /\ delivered = [i \in Calls |-> <<>>] /\ \A i \in Calls : Len(delivered[i]) = 0
  BY EmptySeq DEF Init, Client!Init, Client!Calls, Calls, Client!CallStrand!Init
<1>5. MatchInv /\ CompleteInv /\ ConsumedInv /\ HalfwayInv
  BY <1>4 DEF MatchInv, CompleteInv, ConsumedInv, HalfwayInv
<1> QED BY <1>1, <1>3, <1>5 DEF RepliesInv

\* For any number of calls, replies and cancels, as long as oneway requests
\* find a callback that keeps quiet: every reply reaches the handler of the
\* call whose request it answers.  Only a receive that was cancelled lets
\* replies reach the calls made after it, and none ever reaches a call made
\* before the request that it answers.
THEOREM RepliesMatchCalls ==
  ASSUME OnewayFound, OnewayIsQuiet
  PROVE  Spec => []ReplyMatchesCall
<1>1. RepliesInv => ReplyMatchesCall
  <2> SUFFICES ASSUME RepliesInv, NEW i \in Calls, NEW k \in DOMAIN delivered[i]
               PROVE  LET p == delivered[i][k].req
                      IN  p \in DOMAIN sent /\ (sent[p] = i \/ (sent[p] < i /\ Lags(sent[p] + 1)))
    BY DEF ReplyMatchesCall
  <2>1. delivered[i] \in Seq(Srv!Reply) /\ sent \in Seq(Calls)
    BY DEF RepliesInv, CallsInv, WireTypes, HeardTypes, SentTypes
  <2>2. k \in 1 .. Len(delivered[i]) /\ DOMAIN sent = 1 .. Len(sent)
    BY <2>1, LenProperties
  <2> QED BY <2>2 DEF RepliesInv, MatchInv, Takes
<1> QED BY <1>1, RepliesInit, RepliesStep, PTL DEF Spec

\* Under the same conditions, a handler is given the replies to its call from
\* the first on, each once and in order, nothing follows the final one, and a
\* call that ended without an error was given that one: unless a receive was
\* cancelled before, when the handler may be given the replies of others.
THEOREM RepliesAreComplete ==
  ASSUME OnewayFound, OnewayIsQuiet
  PROVE  Spec => []RepliesComplete
<1>1. RepliesInv => RepliesComplete
  <2> SUFFICES ASSUME RepliesInv, NEW i \in Calls, ~Lags(i)
               PROVE  /\ \A k \in DOMAIN delivered[i] :
                           /\ delivered[i][k].n = k
                           /\ delivered[i][k].last => k = Len(delivered[i])
                      /\ i \in cfinished /\ i \notin failed /\ requests[i].mode # "oneway"
                           => Len(delivered[i]) > 0 /\ delivered[i][Len(delivered[i])].last
    BY DEF RepliesComplete
  <2>1. delivered[i] \in Seq(Srv!Reply)
    BY DEF RepliesInv, CallsInv, WireTypes, HeardTypes
  <2>2. DOMAIN delivered[i] = 1 .. Len(delivered[i])
    BY <2>1, LenProperties
  <2> QED BY <2>2 DEF RepliesInv, CompleteInv
<1> QED BY <1>1, RepliesInit, RepliesStep, PTL DEF Spec

\* Under the same conditions, on a connection that both ends keep open, a call
\* writes only after the final replies to all calls before it that ask for
\* replies, unless one of these was cancelled.
THEOREM CallsTakeTurns ==
  ASSUME OnewayFound, OnewayIsQuiet
  PROVE  Spec => []NoPipelining
<1>1. RepliesInv => NoPipelining
  <2> SUFFICES ASSUME RepliesInv, NEW i \in wrunning, NEW k \in DOMAIN sent, sent[k] # i,
                      requests[sent[k]].mode # "oneway", ~closed, ~ServerGone, ~Lags(i)
               PROVE  Session!Answered(k)
    BY DEF NoPipelining
  <2>1. DOMAIN sent = 1 .. Len(sent) /\ k \in 1 .. Len(sent) /\ sent[k] \in Calls
    BY LenProperties, ReplyTypes DEF RepliesInv, CallsInv
  <2>2. sent[k] \in cfinished /\ sent[k] < i
    BY <2>1, LastOnWire DEF RepliesInv
  <2>3. sent[k] \notin failed
    <3>1. failed = cancelled
      BY DEF RepliesInv, CallsInv, FailInv
    <3>2. sent[k] \in Range(sent)
      BY DEF Range
    <3> QED BY <2>2, <3>1, <3>2 DEF Lags
  <2>4. ~Lags(sent[k] + 1)
    <3>1. sent[k] + 1 \in Int /\ i \in Int /\ sent[k] + 1 <= i
      BY <2>1, <2>2, CallsMade DEF RepliesInv, CallsInv, Calls
    <3> QED BY <3>1, LagsGrow DEF RepliesInv
  <2>5. Consumed(k)
    BY <2>1, <2>2, <2>3, <2>4 DEF RepliesInv, ConsumedInv
  <2>6. PICK m \in 1 .. got : s2c[m].req = k /\ s2c[m].last
    BY <2>5 DEF Consumed
  <2>7. m \in DOMAIN s2c
    BY <2>6, ReplyTypes, LenProperties DEF RepliesInv, CallsInv
  <2> QED BY <2>6, <2>7 DEF Session!Answered
<1> QED BY <1>1, RepliesInit, RepliesStep, PTL DEF Spec
-----------------------------------------------------------------------------
(* Client and session never wait for each other.                           *)

\* A call that writes or reads has not heard its final reply.
OpenInv == \A k \in 1 .. Len(sent) : sent[k] \in wrunning \cup receiving => ~Consumed(k)

WaitInv == CallsInv /\ Srv!SessionInv /\ Srv!AttendInv /\ OpenInv

\* Every reply answers a request that is on the wire.
LEMMA AnswersSent ==
  ASSUME CallsInv, Srv!SessionInv, NEW m \in 1 .. Len(s2c)
  PROVE  s2c[m].req <= Len(sent)
<1>1. /\ s2c \in Seq(Srv!Reply) /\ Len(s2c) \in Nat /\ Len(sent) \in Nat
      /\ Len(c2s) = Len(sent)
  BY ReplyTypes DEF CallsInv
<1>2. taken \in Nat /\ taken <= Len(sent)
  BY <1>1 DEF CallsInv, WireTypes, Srv!Types, Srv!ReadTypes
<1>3. Srv!Written \in Seq(Srv!Link) /\ Len(Srv!Written) = Len(s2c) + 1
      /\ Srv!Written[m + 1] = s2c[m]
  <2>1. <<Srv!First>> \in Seq(Srv!Link) /\ Len(<<Srv!First>>) = 1 /\ s2c \in Seq(Srv!Link)
    BY <1>1, SeqMonotonic DEF Srv!Link
  <2> QED BY <1>1, <2>1, ConcatProperties DEF Srv!Written
<1>4. m + 1 \in 1 .. Len(Srv!Written)
  BY <1>1, <1>3
<1>5. s2c[m].req \in 0 .. taken
  BY <1>3, <1>4 DEF Srv!SessionInv, Srv!FlowInv, Srv!InOrder
<1> QED BY <1>1, <1>2, <1>5

LEMMA OpenStays ==
  ASSUME WaitInv, [Next]_vars, ServeInv'
  PROVE  OpenInv'
<1>1. /\ s2c \in Seq(Srv!Reply) /\ Len(s2c) \in Nat /\ Len(sent) \in Nat
      /\ got \in 0 .. Len(s2c) /\ sent \in Seq(Calls)
  BY ReplyTypes DEF WaitInv, CallsInv
<1>2. CASE Quiet
  <2> SUFFICES ASSUME NEW k \in 1 .. Len(sent'), sent'[k] \in wrunning' \cup receiving'
               PROVE  ~Consumed(k)'
    BY DEF OpenInv
  <2>1. k \in 1 .. Len(sent) /\ sent' = sent /\ UNCHANGED <<receiving, cfinished, got>>
    BY <1>2 DEF Quiet
  <2>2. sent[k] \in wrunning \cup receiving
    <3>1. sent[k] \in Served
      BY <2>1 DEF WaitInv, CallsInv, WireInv
    <3>2. sent[k] \notin cfinished
      BY <2>1, NotYetOverNext
    <3> QED BY <3>1, <3>2 DEF Served
  <2>3. \A m \in 1 .. got : s2c'[m] = s2c[m]
    <3>1. \A m \in 1 .. got : m \in 1 .. Len(s2c)
      BY <1>1
    <3>2. \A r \in Srv!Reply : \A m \in 1 .. Len(s2c) : Append(s2c, r)[m] = s2c[m]
      BY <1>1, AppendProperties
    <3> QED BY <1>2, <3>1, <3>2 DEF Quiet
  <2> QED BY <2>1, <2>2, <2>3 DEF WaitInv, OpenInv, Consumed
<1>3. ASSUME NEW i \in Calls, Writes(i) PROVE OpenInv'
  <2> SUFFICES ASSUME NEW k \in 1 .. Len(sent'), sent'[k] \in wrunning \cup receiving
               PROVE  ~Consumed(k)
    BY <1>3 DEF OpenInv, Writes, Consumed
  <2>1. Len(sent') = Len(sent) + 1 /\ \A l \in 1 .. Len(sent) : sent'[l] = sent[l]
    BY <1>1, <1>3, AppendProperties DEF Writes
  <2>2. CASE k \in 1 .. Len(sent)
    BY <2>1, <2>2 DEF WaitInv, OpenInv
  <2>3. CASE k = Len(sent) + 1
    <3>1. \A m \in 1 .. got : s2c[m].req <= Len(sent)
      BY <1>1, AnswersSent DEF WaitInv
    <3> QED BY <1>1, <2>3, <3>1 DEF Consumed
  <2> QED BY <1>1, <2>1, <2>2, <2>3
<1>4. ASSUME NEW i \in Calls, Reads(i) PROVE OpenInv'
  BY <1>4 DEF Reads, WaitInv, OpenInv, Consumed
<1>5. ASSUME NEW i \in Calls, Ends(i) PROVE OpenInv'
  BY <1>5 DEF Ends, OpenInv
<1>6. ASSUME NEW i \in Calls, Hears(i) PROVE OpenInv'
  <2>1. wrunning' = {} /\ receiving = {i} /\ UNCHANGED <<sent, s2c>> /\ got' = got + 1
    BY <1>6, CallsMade DEF Hears, WaitInv, CallsInv
  <2>2. CASE receiving' = {}
    BY <2>1, <2>2 DEF OpenInv
  <2>3. CASE ~s2c[got'].last /\ UNCHANGED receiving
    <3> SUFFICES ASSUME NEW k \in 1 .. Len(sent), sent[k] \in receiving,
                        NEW m \in 1 .. got', s2c[m].req = k, s2c[m].last
                 PROVE  FALSE
      BY <2>1, <2>3 DEF OpenInv, Consumed
    <3>1. m \in 1 .. got
      BY <1>1, <2>1, <2>3
    <3> QED BY <3>1 DEF WaitInv, OpenInv, Consumed
  <2> QED BY <1>6, <2>2, <2>3 DEF Hears
<1> QED BY <1>2, <1>3, <1>4, <1>5, <1>6, StepKinds DEF WaitInv

LEMMA WaitStep ==
  ASSUME "oneway_continues" \notin CallbackMay
  PROVE  WaitInv /\ [Next]_vars => WaitInv'
<1> SUFFICES ASSUME WaitInv, [Next]_vars PROVE WaitInv'
  OBVIOUS
<1>1. CallsInv' /\ ServeInv'
  BY CallsStep, StepBasics DEF WaitInv
<1>2. Srv!Types /\ (Srv!SessionNext \/ Srv!Outside)
  BY ServerSide DEF WaitInv, CallsInv, WireTypes
<1>3. Srv!SessionInv'
  BY <1>2, FramesAreRequests, Srv!SessionStep, Srv!OutsideStep DEF WaitInv
<1>4. Srv!AttendInv'
  BY <1>2, FramesAreRequests, Srv!SessionAttends, Srv!OutsideAttends DEF WaitInv
<1> QED BY <1>1, <1>3, <1>4, OpenStays DEF WaitInv

LEMMA WaitInit == Init => WaitInv
<1> SUFFICES ASSUME Init PROVE WaitInv
  OBVIOUS
<1>1. Srv!Init
  BY SameInit DEF Init
<1>2. Srv!SessionInv /\ Srv!AttendInv
  BY <1>1, FramesAreRequests, Srv!InitSession, Srv!InitAttends
<1>3. Len(sent) = 0
  BY EmptySeq DEF Init, Client!Init
<1>4. OpenInv
  BY <1>3 DEF OpenInv
<1> QED BY <1>2, <1>4, CallsInit DEF WaitInv

\* As long as a call has not ended, one is served, or a lambda is due that will
\* serve the next.
LEMMA SomeoneIsServed ==
  ASSUME CallsInv, NEW i \in 1 .. Len(requests), i \notin cfinished
  PROVE  \/ cpushes # <<>> \/ cnexts > 0
         \/ wpushes # <<>> \/ wnexts > 0 \/ wrunning # {}
         \/ receiving # {}
<1> SUFFICES ASSUME cpushes = <<>>, ~(cnexts > 0), wpushes = <<>>, ~(wnexts > 0),
                    wrunning = {}, receiving = {}
             PROVE  FALSE
  OBVIOUS
<1>0. crunning = {}
  <2>1. wqueue = <<>>
    <3>1. Writer!IInv /\ wnexts = 0
      BY DEF CallsInv, ServeInv, ClientInv, Writer!IInv, Writer!TypeOK
    <3> QED BY <3>1, WriterTypes
  <2>2. \A j \in Calls : ~UsesWire(j)
    BY <2>1, OneWaits DEF UsesWire
  <2> QED BY <2>2 DEF CallsInv, ServeInv, ClientInv, HolderInv
<1>1. /\ crunning = {} /\ Strand!TypeOK /\ Strand!TokenInv
      /\ requests \in Seq(Request) /\ Len(requests) \in Nat
  BY <1>0, CallsMade DEF CallsInv, ServeInv, ClientInv, Strand!IInv
<1>2. cnexts = 0
  BY <1>1 DEF Strand!TypeOK
<1>3. cqueue = <<>>
  BY <1>1, <1>2 DEF Strand!TokenInv, Strand!OneToken
<1>4. Len(Strand!Pending) = 0
  BY <1>3, ConcatEmptySeq, EmptySeq DEF Strand!Pending
<1>5. PICK m \in Nat, s \in Nat : Reached(m, s)
  BY DEF CallsInv, ServeInv, OrderInv
<1>6. s = m /\ cfinished = 1 .. m /\ m = Len(requests)
  BY <1>1, <1>4, <1>5 DEF Reached, Ascending
<1> QED BY <1>6

\* A call that has read all replies there are has its request in the session's
\* hands, unless the session is over or finishes its writes.
LEMMA SomeoneAnswers ==
  ASSUME WaitInv, NEW k \in 1 .. Len(sent), sent[k] \in receiving,
         got = Len(s2c), ~closed, ~ServerGone
  PROVE  Session!Attended(k) \/ Session!Writing
<1> SUFFICES ASSUME ~Session!Attended(k), ~Session!Writing PROVE FALSE
  OBVIOUS
<1>1. ~Srv!Attended(k) /\ ~Srv!Writing /\ ~Srv!SessionOver
  BY SameWaits, SameOver, Zenon
<1>2. Len(c2s) = Len(sent) /\ c2s \in Seq(Frames) /\ s2c \in Seq(Srv!Reply)
      /\ Len(sent) \in Nat /\ Srv!Types
  BY ReplyTypes DEF WaitInv, CallsInv, WireTypes
<1>3. Srv!Settled(k)
  <2>1. k \in DOMAIN c2s
    BY <1>2, LenProperties
  <2>2. Srv!NoRequestForgotten
    BY <1>2, FramesAreRequests, Srv!AttendSuffices DEF WaitInv
  <2> QED BY <1>1, <2>1, <2>2 DEF Srv!NoRequestForgotten
<1>4. ~Srv!Answered(k)
  <2>1. DOMAIN s2c = 1 .. got
    BY <1>2, LenProperties
  <2>2. ~Consumed(k)
    BY DEF WaitInv, OpenInv
  <2> QED BY <2>1, <2>2 DEF Srv!Answered, Consumed
<1>5. c2s[k].mode # "oneway"
  <2>1. c2s[k].mode = requests[sent[k]].mode
    BY DEF WaitInv, CallsInv, WireInv
  <2> QED BY <2>1 DEF WaitInv, CallsInv, ServeInv, HandlerInv
<1>6. PICK j \in 1 .. k : pc[j] = "dropped"
  BY <1>3, <1>4, <1>5 DEF Srv!Settled
<1>7. j \in Srv!Calls
  <2>1. Len(c2s) <= MaxRequests
    BY <1>2 DEF Srv!Types, Srv!WireTypes
  <2> QED BY <1>2, <1>6, <2>1, BoundAssumption DEF Srv!Calls
<1>8. Srv!SessionOver
  BY <1>1, <1>6, <1>7, FramesAreRequests, Srv!GivenUpIsOver DEF WaitInv
<1> QED BY <1>1, <1>8

\* However many calls are made, cancelled or answered with errors, and even
\* when a callback throws a system_error or a frame is garbled: client and
\* session are never both waiting for the other.  The one condition is that no
\* callback sends a continued reply to a oneway call, which would make the
\* session read twice.
THEOREM SomeoneGoesOn ==
  ASSUME "oneway_continues" \notin CallbackMay
  PROVE  Spec => []NoMutualWait
<1>1. WaitInv => NoMutualWait
  <2> SUFFICES ASSUME WaitInv, NEW i \in 1 .. Len(requests), i \notin cfinished,
                      cpushes = <<>>, ~(cnexts > 0),
                      wpushes = <<>>, ~(wnexts > 0), wrunning = {}
               PROVE  \E k \in DOMAIN sent :
                         /\ sent[k] \in receiving
                         /\ \/ got < Len(s2c) \/ closed \/ ServerGone
                            \/ Session!Attended(k) \/ Session!Writing
    BY DEF NoMutualWait
  <2>1. PICK c \in receiving : TRUE
    BY SomeoneIsServed DEF WaitInv
  <2>2. PICK k \in 1 .. Len(sent) : sent[k] = c
    BY DEF WaitInv, CallsInv, WireInv
  <2>3. k \in DOMAIN sent /\ got \in Nat /\ Len(s2c) \in Nat /\ got <= Len(s2c)
    BY ReplyTypes, LenProperties DEF WaitInv, CallsInv
  <2>4. CASE got < Len(s2c) \/ closed \/ ServerGone
    BY <2>2, <2>3, <2>4
  <2>5. CASE got = Len(s2c) /\ ~closed /\ ~ServerGone
    BY <2>2, <2>3, <2>5, SomeoneAnswers
  <2> QED BY <2>3, <2>4, <2>5
<1> QED BY <1>1, WaitInit, WaitStep, PTL DEF Spec
-----------------------------------------------------------------------------
(* Without cancel().                                                       *)

\* Every handler hears the replies to its own request, with no exception.
OwnAnswers == \A i \in Calls : \A k \in DOMAIN delivered[i] :
    sent[delivered[i][k].req] = i

LEMMA NobodyCancels ==
  ASSUME MaxCancels = 0, cancelled = {}, [Next]_vars
  PROVE  cancelled' = {}
<1>1. ASSUME NEW i, Client!Cancel(i) PROVE FALSE
  <2>1. Client!Cardinality({}) < 0
    BY <1>1 DEF Client!Cancel
  <2>2. Client!Cardinality({}) = 0
    BY FS_EmptySet DEF Client!Cardinality, Cardinality, Client!IsFiniteSet, IsFiniteSet
  <2> QED BY <2>1, <2>2
<1>2. ASSUME NEW i, Client!CallStep(i) PROVE cancelled' = cancelled
  <2>1. Client!RequestReachesWire(i) => cancelled' = cancelled
    BY DEF Client!RequestReachesWire
  <2>2. Client!WriteCompletes(i) => cancelled' = cancelled
    BY DEF Client!WriteCompletes
  <2>3. Client!WriteFails(i) => cancelled' = cancelled
    BY DEF Client!WriteFails
  <2>4. Client!ReceiveBuffered(i) \/ Client!ReceiveFromSocket(i) => cancelled' = cancelled
    BY DEF Client!ReceiveBuffered, Client!ReceiveFromSocket, Client!DeliverReply
  <2>5. Client!ReceiveFails(i) => cancelled' = cancelled
    BY DEF Client!ReceiveFails
  <2> QED BY <1>2, <2>1, <2>2, <2>3, <2>4, <2>5 DEF Client!CallStep
<1>3. CASE UNCHANGED clientVars
  BY <1>3 DEF clientVars
<1>4. CASE Client!Next
  <2>1. ASSUME NEW request, Client!AsyncCall(request) PROVE cancelled' = cancelled
    BY <2>1 DEF Client!AsyncCall
  <2>2. Client!CallStrandStep \/ Client!WriteStrandStep => cancelled' = cancelled
    BY DEF Client!CallStrandStep, Client!WriteStrandStep
  <2>4. ASSUME NEW i, Client!CallHandler(i) PROVE cancelled' = cancelled
    BY <2>4 DEF Client!CallHandler
  <2>3. Client!Close => cancelled' = cancelled
    BY DEF Client!Close, Client!clientVars
  <2> QED BY <1>1, <1>2, <1>4, <2>1, <2>2, <2>3, <2>4 DEF Client!Next
<1>5. CASE ServerStops
  BY <1>5 DEF ServerStops, clientVars
<1>6. CASE UNCHANGED vars
  BY <1>6 DEF vars, clientVars
<1> QED BY <1>3, <1>4, <1>5, <1>6 DEF Next

\* While nothing is cancelled, whichever call fails and whichever end goes
\* away, a handler is given replies to its own request only.
THEOREM UncancelledRepliesMatch ==
  ASSUME OnewayFound, OnewayIsQuiet, MaxCancels = 0
  PROVE  Spec => []OwnAnswers
<1>1. ReplyMatchesCall /\ cancelled = {} => OwnAnswers
  BY DEF ReplyMatchesCall, OwnAnswers, Lags
<1>2. Init => cancelled = {}
  BY DEF Init, Client!Init
<1>3. cancelled = {} /\ [Next]_vars => (cancelled = {})'
  BY NobodyCancels
<1> QED BY <1>1, <1>2, <1>3, RepliesMatchCalls, PTL DEF Spec
=============================================================================
