--------------------------- MODULE VarlinkProofs ----------------------------
(***************************************************************************)
(* Proofs about Varlink for any number of calls, cancels and replies: the  *)
(* connection belongs to one call at a time, and client, session and       *)
(* connection together implement RemoteCalls: whichever calls are          *)
(* cancelled or fail, they are served in the order in which they were      *)
(* made.  What the two strands of the client guarantee is taken from       *)
(* ManualStrandProofs.                                                     *)
(***************************************************************************)
EXTENDS Varlink, SequenceFacts

\* The call strand of the client, and its write strand.
Strand == INSTANCE ManualStrandProofs
            WITH Fn <- Calls, pushes <- cpushes, nexts <- cnexts,
                 queue <- cqueue, executing <- cexecuting,
                 running <- crunning, finished <- cfinished

Writer == INSTANCE ManualStrandProofs
            WITH Fn <- Calls, pushes <- wpushes, nexts <- wnexts,
                 queue <- wqueue, executing <- wexecuting,
                 running <- wrunning, finished <- wfinished

\* Nothing waits for the write strand.
NoWriteWaits == wqueue = <<>> /\ wpushes = <<>>

\* Call i waits for the write strand, writes, or reads.
UsesWire(i) ==
    \/ /\ \/ wqueue = <<i>> /\ wpushes = <<>>
          \/ wqueue = <<>> /\ wpushes = <<i>>
       /\ wrunning = {} /\ receiving = {}
    \/ NoWriteWaits /\ wrunning = {i} /\ receiving = {}
    \/ NoWriteWaits /\ wrunning = {} /\ receiving = {i}

\* The token of the call strand is with the one call that uses the connection.
HolderInv ==
    \/ crunning = {} /\ NoWriteWaits /\ wrunning = {} /\ receiving = {}
    \/ \E i \in Calls : crunning = {i} /\ UsesWire(i)

ClientInv ==
    /\ requests \in Seq(Request)
    /\ Strand!IInv
    /\ Writer!IInv
    /\ HolderInv

-----------------------------------------------------------------------------
(* The call strand.                                                        *)

\* One function at most is in progress, and it leaves an idle strand behind.
LEMMA OneRunning ==
  ASSUME Strand!IInv
  PROVE  /\ \A i, j \in crunning : i = j
         /\ crunning \subseteq Calls
BY DEF Strand!IInv, Strand!TypeOK, Strand!TokenInv, Strand!OneToken

\* A step of the client that leaves the call strand alone, pushes to it, runs
\* one of its lambdas or completes a call is a step of the strand.
LEMMA StrandStep ==
  ASSUME Strand!IInv,
         \/ UNCHANGED Client!callStrandVars
         \/ \E i \in Calls : Client!CallStrand!Push(i) \/ Client!CallStrand!Complete(i)
         \/ Client!CallStrand!RunPush
         \/ Client!CallStrand!RunNext
  PROVE  Strand!IInv'
<1>1. CASE UNCHANGED Client!callStrandVars
  <2>1. UNCHANGED Strand!vars
    BY <1>1 DEF Client!callStrandVars, Strand!vars
  <2> QED BY <2>1, Strand!StepIInv
<1>2. ASSUME NEW i \in Calls, Client!CallStrand!Push(i) PROVE Strand!IInv'
  <2>1. Strand!Push(i)
    BY <1>2 DEF Client!CallStrand!Push, Strand!Push, Client!CallStrand!Known,
       Strand!Known, Client!CallStrand!Pending, Strand!Pending,
       Client!CallStrand!Range, Strand!Range
  <2> QED BY <2>1, Strand!StepIInv DEF Strand!Next
<1>3. ASSUME NEW i \in Calls, Client!CallStrand!Complete(i) PROVE Strand!IInv'
  <2>1. Strand!Complete(i)
    BY <1>3 DEF Client!CallStrand!Complete, Strand!Complete
  <2> QED BY <2>1, Strand!StepIInv DEF Strand!Next
<1>4. CASE Client!CallStrand!RunPush
  <2>1. Strand!RunPush
    BY <1>4 DEF Client!CallStrand!RunPush, Strand!RunPush,
       Client!CallStrand!Execute, Strand!Execute
  <2> QED BY <2>1, Strand!StepIInv DEF Strand!Next
<1>5. CASE Client!CallStrand!RunNext
  <2>1. Strand!RunNext
    BY <1>5 DEF Client!CallStrand!RunNext, Strand!RunNext,
       Client!CallStrand!Execute, Strand!Execute
  <2> QED BY <2>1, Strand!StepIInv DEF Strand!Next
<1> QED BY <1>1, <1>2, <1>3, <1>4, <1>5

\* A lambda of the strand starts at most one call, and only when no other is
\* in progress.
LEMMA StrandStarts ==
  ASSUME Strand!IInv, Client!CallStrand!RunPush \/ Client!CallStrand!RunNext
  PROVE  \/ crunning' = crunning
         \/ crunning = {} /\ \E i \in Calls : crunning' = {i}
<1>1. Strand!IInv'
  BY StrandStep
<1>2. crunning \subseteq crunning'
  BY DEF Client!CallStrand!RunPush, Client!CallStrand!RunNext,
     Client!CallStrand!Execute
<1>3. /\ \A i, j \in crunning' : i = j
      /\ crunning' \subseteq Calls
  BY <1>1 DEF Strand!IInv, Strand!TypeOK, Strand!TokenInv, Strand!OneToken
<1>4. CASE crunning = {}
  <2>1. CASE crunning' = {}
    BY <1>4, <2>1
  <2>2. ASSUME NEW i \in crunning' PROVE crunning' = {i} /\ i \in Calls
    BY <1>3
  <2> QED BY <1>4, <2>1, <2>2
<1>5. ASSUME NEW i \in crunning PROVE crunning' = crunning
  BY <1>2, <1>3
<1> QED BY <1>4, <1>5

-----------------------------------------------------------------------------
(* The write strand.                                                       *)

LEMMA WriterTypes ==
  ASSUME Writer!IInv
  PROVE  /\ wpushes \in Seq(Calls) /\ wqueue \in Seq(Calls)
         /\ wrunning \subseteq Calls /\ wexecuting \in BOOLEAN
         /\ wrunning = {} /\ wnexts = 0 => ~wexecuting
         /\ ~wexecuting => wrunning = {} /\ wnexts = 0 /\ wqueue = <<>>
         /\ wnexts # 0 => wrunning = {}
         /\ \A i, j \in wrunning : i = j
BY DEF Writer!IInv, Writer!TypeOK, Writer!TokenInv, Writer!OneToken

\* A sequence of one call.
LEMMA OneWaits ==
  ASSUME NEW i \in Calls
  PROVE  /\ Append(<<>>, i) = <<i>>
         /\ <<i>> # <<>> /\ Head(<<i>>) = i /\ Tail(<<i>>) = <<>>
         /\ <<i>> \in Seq(Calls)
OBVIOUS

\* A step of the client that leaves the write strand alone, runs one of its
\* lambdas or completes a write is a step of the strand.
LEMMA WriterStep ==
  ASSUME Writer!IInv,
         \/ UNCHANGED Client!writeStrandVars
         \/ \E i \in Calls : Client!WriteStrand!Push(i) \/ Client!WriteStrand!Complete(i)
         \/ Client!WriteStrand!RunPush
         \/ Client!WriteStrand!RunNext
  PROVE  Writer!IInv'
<1>1. CASE UNCHANGED Client!writeStrandVars
  <2>1. UNCHANGED Writer!vars
    BY <1>1 DEF Client!writeStrandVars, Writer!vars
  <2> QED BY <2>1, Writer!StepIInv
<1>2. ASSUME NEW i \in Calls, Client!WriteStrand!Push(i) PROVE Writer!IInv'
  <2>1. Writer!Push(i)
    BY <1>2 DEF Client!WriteStrand!Push, Writer!Push, Client!WriteStrand!Known,
       Writer!Known, Client!WriteStrand!Pending, Writer!Pending,
       Client!WriteStrand!Range, Writer!Range
  <2> QED BY <2>1, Writer!StepIInv DEF Writer!Next
<1>3. ASSUME NEW i \in Calls, Client!WriteStrand!Complete(i) PROVE Writer!IInv'
  <2>1. Writer!Complete(i)
    BY <1>3 DEF Client!WriteStrand!Complete, Writer!Complete
  <2> QED BY <2>1, Writer!StepIInv DEF Writer!Next
<1>4. CASE Client!WriteStrand!RunPush
  <2>1. Writer!RunPush
    BY <1>4 DEF Client!WriteStrand!RunPush, Writer!RunPush,
       Client!WriteStrand!Execute, Writer!Execute
  <2> QED BY <2>1, Writer!StepIInv DEF Writer!Next
<1>5. CASE Client!WriteStrand!RunNext
  <2>1. Writer!RunNext
    BY <1>5 DEF Client!WriteStrand!RunNext, Writer!RunNext,
       Client!WriteStrand!Execute, Writer!Execute
  <2> QED BY <2>1, Writer!StepIInv DEF Writer!Next
<1> QED BY <1>1, <1>2, <1>3, <1>4, <1>5

\* With no other call on the wire, the write of a call starts at once, or it
\* waits for the write strand.
LEMMA WritePushUses ==
  ASSUME Writer!IInv, NEW i \in Calls, NoWriteWaits, wrunning = {},
         Client!WritePush(i), receiving' = {}
  PROVE  Writer!IInv' /\ UsesWire(i)'
<1>1. CASE wnexts = 0 /\ ~Client!WriteStrand!Push(i)
  <2>1. ~wexecuting
    BY <1>1, WriterTypes
  <2>2. /\ Client!WriteStrand!Execute(<<i>>)
        /\ UNCHANGED <<wpushes, wnexts, wfinished>>
    BY <1>1, <2>1, OneWaits DEF Client!WritePush, NoWriteWaits
  <2>3. Writer!Execute(<<i>>)
    BY <2>2 DEF Client!WriteStrand!Execute, Writer!Execute
  <2>4. wqueue' \in Seq(Calls) /\ wexecuting' \in BOOLEAN /\ wrunning' \subseteq Calls
        /\ Writer!TokenInv'
    BY <1>1, <2>2, <2>3, OneWaits, Writer!ExecuteGivesToken
  <2>5. Writer!IInv'
    BY <2>2, <2>4 DEF Writer!IInv, Writer!TypeOK
  <2>6. wqueue' = <<>> /\ wrunning' = {i} /\ wpushes' = <<>>
    BY <2>2, OneWaits DEF Client!WriteStrand!Execute, NoWriteWaits
  <2> QED BY <2>5, <2>6 DEF UsesWire, NoWriteWaits
<1>2. CASE Client!WriteStrand!Push(i)
  <2>1. Writer!IInv'
    BY <1>2, WriterStep
  <2>2. wqueue' = <<>> /\ wpushes' = <<i>> /\ wrunning' = {}
    BY <1>2, OneWaits DEF Client!WriteStrand!Push, NoWriteWaits
  <2> QED BY <2>1, <2>2 DEF UsesWire
<1> QED BY <1>1, <1>2 DEF Client!WritePush, NoWriteWaits

\* A lambda of the write strand starts what waits, or moves it, or does
\* nothing: the connection stays with the call that had it.
LEMMA LambdaUses ==
  ASSUME Writer!IInv, Client!WriteStrand!RunPush \/ Client!WriteStrand!RunNext,
         receiving' = receiving
  PROVE  /\ \A i \in Calls : UsesWire(i) => UsesWire(i)'
         /\ NoWriteWaits /\ wrunning = {} => NoWriteWaits' /\ wrunning' = {}
<1>1. CASE Client!WriteStrand!RunPush
  <2>1. wpushes # <<>> /\ wpushes' = Tail(wpushes)
    BY <1>1 DEF Client!WriteStrand!RunPush
  <2>2. ASSUME NEW i \in Calls, UsesWire(i) PROVE UsesWire(i)'
    <3>1. wqueue = <<>> /\ wpushes = <<i>> /\ wrunning = {} /\ receiving = {}
      BY <2>1, <2>2 DEF UsesWire, NoWriteWaits
    <3>2. wpushes' = <<>> /\ Append(wqueue, Head(wpushes)) = <<i>>
      BY <2>1, <3>1, OneWaits
    <3>3. CASE wexecuting
      <4>1. wqueue' = <<i>> /\ wrunning' = {}
        BY <1>1, <3>1, <3>2, <3>3 DEF Client!WriteStrand!RunPush
      <4> QED BY <3>1, <3>2, <4>1 DEF UsesWire
    <3>4. CASE ~wexecuting
      <4>1. Client!WriteStrand!Execute(<<i>>)
        BY <1>1, <3>2, <3>4 DEF Client!WriteStrand!RunPush
      <4>2. wqueue' = <<>> /\ wrunning' = {i}
        BY <3>1, <4>1, OneWaits DEF Client!WriteStrand!Execute
      <4> QED BY <3>1, <3>2, <4>2 DEF UsesWire, NoWriteWaits
    <3> QED BY <3>3, <3>4
  <2> QED BY <2>1, <2>2 DEF NoWriteWaits
<1>2. CASE Client!WriteStrand!RunNext
  <2>1. wnexts > 0 /\ wpushes' = wpushes /\ Client!WriteStrand!Execute(wqueue)
    BY <1>2 DEF Client!WriteStrand!RunNext
  <2>2. wrunning = {}
    BY <2>1, WriterTypes
  <2>3. CASE wqueue = <<>>
    <3>1. wqueue' = <<>> /\ wrunning' = {}
      BY <2>1, <2>2, <2>3 DEF Client!WriteStrand!Execute
    <3> QED BY <2>1, <2>2, <2>3, <3>1 DEF UsesWire, NoWriteWaits
  <2>4. ASSUME NEW i \in Calls, UsesWire(i), wqueue # <<>> PROVE UsesWire(i)'
    <3>1. wqueue = <<i>> /\ wpushes = <<>> /\ receiving = {}
      BY <2>4 DEF UsesWire, NoWriteWaits
    <3>2. wqueue' = <<>> /\ wrunning' = {i}
      BY <2>1, <2>2, <3>1, OneWaits DEF Client!WriteStrand!Execute
    <3> QED BY <2>1, <3>1, <3>2 DEF UsesWire, NoWriteWaits
  <2> QED BY <2>3, <2>4 DEF NoWriteWaits
<1> QED BY <1>1, <1>2

-----------------------------------------------------------------------------
(* The steps of the client.                                                *)

\* The call that writes or receives is the one in progress.
LEMMA OneCall ==
  ASSUME ClientInv, NEW i \in wrunning \cup receiving
  PROVE  /\ wrunning \cup receiving = {i}
         /\ wrunning \cap receiving = {}
         /\ crunning = {i}
         /\ i \in Calls
         /\ NoWriteWaits
BY DEF ClientInv, HolderInv, UsesWire, NoWriteWaits

\* The call in progress is over: it has written and received.
LEMMA CallOver ==
  ASSUME ClientInv, NEW i \in wrunning \cup receiving,
         Client!CallStrand!Complete(i), requests' = requests, Writer!IInv',
         wqueue' = wqueue, wpushes' = wpushes, wrunning' = {}, receiving' = {}
  PROVE  ClientInv'
<1>1. Strand!IInv'
  BY OneCall, StrandStep DEF ClientInv
<1>2. crunning' = {}
  BY OneCall DEF Client!CallStrand!Complete
<1>3. NoWriteWaits'
  BY OneCall DEF NoWriteWaits
<1> QED BY <1>1, <1>2, <1>3 DEF ClientInv, HolderInv

\* Steps that leave both strands and the reads alone.
LEMMA NothingMoves ==
  ASSUME ClientInv, UNCHANGED <<requests, Client!writeStrandVars, receiving,
                                Client!callStrandVars>>
  PROVE  ClientInv'
<1>1. Strand!IInv' /\ Writer!IInv'
  BY StrandStep, WriterStep DEF ClientInv
<1>2. UNCHANGED <<requests, wqueue, wpushes, wrunning, receiving, crunning>>
  BY DEF Client!writeStrandVars, Client!callStrandVars
<1> QED BY <1>1, <1>2 DEF ClientInv, HolderInv, UsesWire, NoWriteWaits

LEMMA CallKeepsInv ==
  ASSUME ClientInv, NEW request \in Request, Client!AsyncCall(request)
  PROVE  ClientInv'
<1>1. requests' \in Seq(Request) /\ Len(requests') = Len(requests) + 1
  BY AppendProperties DEF ClientInv, Client!AsyncCall
<1>2. Len(requests') \in Calls
  BY <1>1, LenProperties, BoundAssumption DEF ClientInv, Client!AsyncCall, Calls
<1>3. Client!CallStrand!Push(Len(requests')) /\ UNCHANGED Client!writeStrandVars
  BY DEF Client!AsyncCall
<1>4. Strand!IInv' /\ Writer!IInv'
  BY <1>2, <1>3, StrandStep, WriterStep DEF ClientInv
<1>5. UNCHANGED <<wqueue, wpushes, wrunning, receiving, crunning>>
  BY <1>3 DEF Client!AsyncCall, Client!writeStrandVars, Client!readVars,
     Client!CallStrand!Push
<1> QED BY <1>1, <1>4, <1>5 DEF ClientInv, HolderInv, UsesWire, NoWriteWaits

LEMMA StrandKeepsInv ==
  ASSUME ClientInv, Client!CallStrandStep
  PROVE  ClientInv'
<1>1. Strand!IInv'
  BY StrandStep DEF ClientInv, Client!CallStrandStep
<1>2. UNCHANGED <<requests, receiving>>
  BY DEF Client!CallStrandStep, Client!readVars
<1>3. CASE crunning' = crunning
  <2>1. UNCHANGED Client!writeStrandVars
    BY <1>3 DEF Client!CallStrandStep
  <2>2. Writer!IInv' /\ UNCHANGED <<wqueue, wpushes, wrunning>>
    BY <2>1, WriterStep DEF ClientInv, Client!writeStrandVars
  <2> QED BY <1>1, <1>2, <1>3, <2>2 DEF ClientInv, HolderInv, UsesWire, NoWriteWaits
<1>4. ASSUME NEW i \in Calls, crunning = {}, crunning' = {i} PROVE ClientInv'
  <2>1. NoWriteWaits /\ wrunning = {} /\ receiving = {}
    BY <1>4 DEF ClientInv, HolderInv
  <2>2. Client!WritePush(i)
    BY <1>4 DEF Client!CallStrandStep
  <2>3. Writer!IInv' /\ UsesWire(i)'
    BY <1>2, <2>1, <2>2, WritePushUses DEF ClientInv
  <2> QED BY <1>1, <1>2, <1>4, <2>3 DEF ClientInv, HolderInv
<1> QED BY <1>3, <1>4, StrandStarts DEF ClientInv, Client!CallStrandStep

LEMMA WriterKeepsInv ==
  ASSUME ClientInv, Client!WriteStrandStep
  PROVE  ClientInv'
<1>1. /\ Client!WriteStrand!RunPush \/ Client!WriteStrand!RunNext
      /\ UNCHANGED <<requests, receiving, Client!callStrandVars>>
  BY DEF Client!WriteStrandStep, Client!readVars
<1>2. Strand!IInv' /\ Writer!IInv' /\ crunning' = crunning
  BY <1>1, StrandStep, WriterStep DEF ClientInv, Client!callStrandVars
<1>3. /\ \A i \in Calls : UsesWire(i) => UsesWire(i)'
      /\ NoWriteWaits /\ wrunning = {} => NoWriteWaits' /\ wrunning' = {}
  BY <1>1, LambdaUses DEF ClientInv
<1> QED BY <1>1, <1>2, <1>3 DEF ClientInv, HolderInv

LEMMA WriteKeepsInv ==
  ASSUME ClientInv, NEW i \in wrunning,
         Client!WriteCompletes(i) \/ Client!WriteFails(i) \/ Client!CancelWrite(i)
  PROVE  ClientInv'
<1>1. Client!WriteStrand!Complete(i) /\ requests' = requests
  BY DEF Client!WriteCompletes, Client!WriteFails, Client!CancelWrite
<1>2. wrunning = {i} /\ receiving = {} /\ crunning = {i} /\ i \in Calls /\ NoWriteWaits
  BY OneCall
<1>3. Writer!IInv' /\ wrunning' = {} /\ wqueue' = wqueue /\ wpushes' = wpushes
  BY <1>1, <1>2, WriterStep DEF ClientInv, Client!WriteStrand!Complete
<1>4. CASE Client!CallStrand!Complete(i) /\ receiving' = receiving
  BY <1>1, <1>2, <1>3, <1>4, CallOver
<1>5. CASE UNCHANGED Client!callStrandVars /\ receiving' = receiving \cup {i}
  <2>1. Strand!IInv' /\ crunning' = {i}
    BY <1>2, <1>5, StrandStep DEF ClientInv, Client!callStrandVars
  <2>2. UsesWire(i)'
    BY <1>2, <1>3, <1>5 DEF UsesWire, NoWriteWaits
  <2> QED BY <1>1, <1>2, <1>3, <2>1, <2>2 DEF ClientInv, HolderInv
<1> QED BY <1>4, <1>5 DEF Client!WriteCompletes, Client!WriteFails,
        Client!CancelWrite, Client!ReleaseBeforeHandler, Client!readVars

LEMMA ReceiveKeepsInv ==
  ASSUME ClientInv, NEW i \in receiving,
         Client!DeliverReply(i) \/ Client!ReceiveFails(i) \/ Client!CancelReceive(i)
  PROVE  ClientInv'
<1>1. UNCHANGED <<requests, Client!writeStrandVars>>
  BY DEF Client!DeliverReply, Client!ReceiveFails, Client!CancelReceive
<1>2. receiving = {i} /\ wrunning = {}
  BY OneCall
<1>3. CASE Client!CallStrand!Complete(i) /\ receiving' = receiving \ {i}
  <2>1. UNCHANGED <<wqueue, wpushes>> /\ wrunning' = {} /\ receiving' = {}
    BY <1>1, <1>2, <1>3 DEF Client!writeStrandVars
  <2>2. Writer!IInv'
    BY <1>1, WriterStep DEF ClientInv
  <2> QED BY <1>1, <1>3, <2>1, <2>2, CallOver
<1>4. CASE UNCHANGED <<receiving, Client!callStrandVars>>
  BY <1>1, <1>4, NothingMoves
<1> QED BY <1>3, <1>4 DEF Client!DeliverReply, Client!ReceiveFails,
        Client!CancelReceive

LEMMA ClientStep == ClientInv /\ [Next]_vars => ClientInv'
<1> SUFFICES ASSUME ClientInv, [Next]_vars PROVE ClientInv'
  OBVIOUS
<1>1. ASSUME NEW request \in Request, Client!AsyncCall(request) PROVE ClientInv'
  BY <1>1, CallKeepsInv
<1>2. CASE Client!CallStrandStep \/ Client!WriteStrandStep
  BY <1>2, StrandKeepsInv, WriterKeepsInv
<1>3. ASSUME NEW i \in Calls, Client!CallStep(i) PROVE ClientInv'
  <2>1. CASE Client!RequestReachesWire(i)
    BY <2>1, NothingMoves DEF Client!RequestReachesWire, Client!readVars
  <2>2. CASE Client!WriteCompletes(i) \/ Client!WriteFails(i)
    BY <2>2, WriteKeepsInv DEF Client!WriteCompletes, Client!WriteFails
  <2>3. CASE Client!DeliverReply(i) \/ Client!ReceiveFails(i)
    BY <2>3, ReceiveKeepsInv DEF Client!DeliverReply, Client!ReceiveFails
  <2> QED BY <1>3, <2>1, <2>2, <2>3 DEF Client!CallStep, Client!ReceiveBuffered,
          Client!ReceiveFromSocket
<1>4. ASSUME NEW i \in Calls, Client!CallHandler(i) PROVE ClientInv'
  BY <1>4, NothingMoves DEF Client!CallHandler, Client!readVars
<1>5. ASSUME NEW i \in Calls, Client!Cancel(i) PROVE ClientInv'
  <2>1. CASE Client!CancelWrite(i)
    BY <2>1, WriteKeepsInv DEF Client!CancelWrite
  <2>2. CASE Client!CancelReceive(i)
    BY <2>2, ReceiveKeepsInv DEF Client!CancelReceive
  <2> QED BY <1>5, <2>1, <2>2 DEF Client!Cancel
<1>6. CASE UNCHANGED clientVars
  <2>1. UNCHANGED <<requests, Client!writeStrandVars, receiving, Client!callStrandVars>>
    BY <1>6 DEF clientVars, Client!writeStrandVars, Client!callStrandVars
  <2> QED BY <2>1, NothingMoves
<1>7. CASE Client!Close
  <2>1. UNCHANGED <<requests, Client!writeStrandVars, receiving, Client!callStrandVars>>
    BY <1>7 DEF Client!Close, Client!clientVars, Client!readVars
  <2> QED BY <2>1, NothingMoves
<1> QED BY <1>1, <1>2, <1>3, <1>4, <1>5, <1>6, <1>7 DEF Next, Client!Next,
        Client!Calls, Calls, ServerStops, vars

LEMMA ClientInit == Init => ClientInv
<1> SUFFICES ASSUME Init PROVE ClientInv
  OBVIOUS
<1>1. Strand!Init /\ Writer!Init
  BY DEF Init, Client!Init, Client!CallStrand!Init, Strand!Init,
     Client!WriteStrand!Init, Writer!Init
<1>2. Strand!IInv /\ Writer!IInv
  BY <1>1, Strand!InitIInv, Writer!InitIInv
<1>3. crunning = {} /\ wrunning = {} /\ NoWriteWaits
  BY <1>1 DEF Strand!Init, Writer!Init, NoWriteWaits
<1> QED BY <1>2, <1>3, EmptySeq DEF Init, Client!Init, ClientInv, HolderInv

LEMMA HolderOnTheWire == ClientInv => ClientOwnsWire
<1> SUFFICES ASSUME ClientInv PROVE ClientOwnsWire
  OBVIOUS
<1> DEFINE pending == Client!WriteStrand!Pending
           waiting == Client!Range(pending)
<1>1. CASE NoWriteWaits
  <2>1. pending = <<>>
    BY <1>1 DEF NoWriteWaits, Client!WriteStrand!Pending
  <2>2. Len(pending) = 0 /\ waiting = {}
    BY <2>1 DEF Client!Range
  <2> QED BY <1>1, <2>2 DEF ClientInv, HolderInv, UsesWire, NoWriteWaits,
          ClientOwnsWire, Client!OneCallOnTheWire
<1>2. ASSUME NEW i \in Calls, wrunning = {}, receiving = {}, crunning = {i},
             \/ wqueue = <<i>> /\ wpushes = <<>>
             \/ wqueue = <<>> /\ wpushes = <<i>>
      PROVE  ClientOwnsWire
  <2>1. pending = <<i>>
    <3>1. <<i>> \o <<>> = <<i>> /\ <<>> \o <<i>> = <<i>>
      BY OneWaits, ConcatEmptySeq
    <3> QED BY <1>2, <3>1 DEF Client!WriteStrand!Pending
  <2>2. Len(pending) = 1 /\ waiting = {i}
    BY <2>1 DEF Client!Range
  <2> QED BY <1>2, <2>2 DEF ClientOwnsWire, Client!OneCallOnTheWire
<1> QED BY <1>1, <1>2 DEF ClientInv, HolderInv, UsesWire

\* However many calls are made, from whatever threads, whichever of them are
\* cancelled or fail, and however late the lambdas of the two strands run:
\* one call at a time has the connection, first to wait for the write strand,
\* then to write and then to read.
THEOREM OneCallOwnsTheWire == Spec => []ClientOwnsWire
BY HolderOnTheWire, ClientInit, ClientStep, PTL DEF Spec
-----------------------------------------------------------------------------
(* The order of the calls.                                                 *)

\* The sequence counts from s + 1 to n.
Ascending(q, s, n) == s + Len(q) = n /\ \A k \in 1 .. Len(q) : q[k] = s + k

\* The calls up to m are over, those up to s have started, and the others wait
\* in the order in which they were made.
Reached(m, s) ==
    /\ cfinished = 1 .. m
    /\ \/ crunning = {} /\ s = m
       \/ crunning = {m + 1} /\ s = m + 1
    /\ Ascending(Strand!Pending, s, Len(requests))

OrderInv == \E m, s \in Nat : Reached(m, s)

\* A sequence of whatever it consists of.
IsList(s) == \E S : s \in Seq(S)

\* Handlers hear nothing before their call reads.
HeardInv == \A i \in Calls : delivered[i] # <<>> => i \in cfinished \cup receiving

HandlerInv ==
    /\ \A i \in receiving : requests[i].mode # "oneway"
    /\ delivered = [i \in Calls |-> delivered[i]]
    /\ \A i \in Calls : IsList(delivered[i])
    /\ HeardInv
    /\ ending \subseteq cfinished

ServeInv == ClientInv /\ OrderInv /\ HandlerInv
-----------------------------------------------------------------------------
(* Facts about sequences.                                                  *)

LEMMA AppendAscending ==
  ASSUME NEW s \in Nat, NEW n \in Nat, NEW q \in Seq(Nat), Ascending(q, s, n)
  PROVE  Ascending(Append(q, n + 1), s, n + 1)
<1>1. /\ Len(Append(q, n + 1)) = Len(q) + 1
      /\ \A k \in 1 .. Len(q) : Append(q, n + 1)[k] = q[k]
      /\ Append(q, n + 1)[Len(q) + 1] = n + 1
  BY AppendProperties
<1>2. Len(q) \in Nat /\ n = s + Len(q)
  BY LenProperties DEF Ascending
<1> QED BY <1>1, <1>2 DEF Ascending

LEMMA TailAscending ==
  ASSUME NEW s \in Nat, NEW n \in Nat, NEW q \in Seq(Nat), q # <<>>,
         Ascending(q, s, n)
  PROVE  Head(q) = s + 1 /\ Ascending(Tail(q), s + 1, n)
<1>1. /\ Len(Tail(q)) = Len(q) - 1
      /\ \A k \in 1 .. Len(Tail(q)) : Tail(q)[k] = q[k + 1]
  BY HeadTailProperties
<1>2. Len(q) \in Nat /\ Len(q) > 0 /\ Head(q) = q[1]
  BY LenProperties
<1> QED BY <1>1, <1>2 DEF Ascending

LEMMA AppendIsList ==
  ASSUME NEW s, IsList(s), NEW e
  PROVE  Len(Append(s, e)) = Len(s) + 1 /\ IsList(Append(s, e))
<1>1. PICK S : s \in Seq(S)
  BY DEF IsList
<1>2. s \in Seq(S \cup {e})
  BY <1>1, SeqMonotonic
<1> QED BY <1>2, AppendProperties DEF IsList

-----------------------------------------------------------------------------
(* The order of the calls.                                                 *)

LEMMA StrandTypes ==
  ASSUME Strand!IInv
  PROVE  /\ cqueue \in Seq(Calls) /\ cpushes \in Seq(Calls)
         /\ Strand!Pending \in Seq(Calls)
         /\ Calls \subseteq Nat
BY ConcatProperties DEF Strand!IInv, Strand!TypeOK, Strand!Pending, Calls

\* Only push() adds to what is pending, at its end.
LEMMA PushKeepsOrder ==
  ASSUME ClientInv, OrderInv, NEW request \in Request, Client!AsyncCall(request)
  PROVE  OrderInv'
<1> DEFINE n == Len(requests)
<1>1. PICK m \in Nat, s \in Nat : Reached(m, s)
  BY DEF OrderInv
<1>2. n \in Nat /\ Len(requests') = n + 1 /\ n + 1 \in Calls
  BY AppendProperties, LenProperties, BoundAssumption
     DEF ClientInv, Client!AsyncCall, Calls
<1>3. cqueue' = cqueue /\ cpushes' = Append(cpushes, n + 1)
      /\ UNCHANGED <<crunning, cfinished>>
  BY <1>2 DEF Client!AsyncCall, Client!CallStrand!Push
<1>4. Strand!Pending' = Append(Strand!Pending, n + 1)
  <2>1. cqueue \in Seq(Calls) /\ cpushes \in Seq(Calls)
    BY StrandTypes DEF ClientInv
  <2> QED BY <1>2, <1>3, <2>1, AppendToConcat DEF Strand!Pending
<1>5. Strand!Pending \in Seq(Nat)
  BY StrandTypes, SeqMonotonic DEF ClientInv
<1>6. Ascending(Strand!Pending', s, n + 1)
  BY <1>1, <1>2, <1>4, <1>5, AppendAscending DEF Reached
<1> QED BY <1>1, <1>2, <1>3, <1>6 DEF OrderInv, Reached

\* execute() starts the oldest pending call.
LEMMA ExecuteKeepsOrder ==
  ASSUME Strand!IInv, NEW m \in Nat, NEW n \in Nat, cfinished = 1 .. m,
         crunning = {}, requests' = requests, n = Len(requests),
         Ascending(Strand!Pending, m, n),
         NEW q \in Seq(Calls), NEW p \in Seq(Calls), Strand!Pending = q \o p,
         Strand!Execute(q), cpushes' = p, UNCHANGED cfinished
  PROVE  OrderInv'
<1>1. CASE q = <<>>
  <2>1. cqueue' = q /\ crunning' = {}
    BY <1>1 DEF Strand!Execute
  <2>2. Strand!Pending' = Strand!Pending
    BY <2>1 DEF Strand!Pending
  <2> QED BY <2>1, <2>2 DEF OrderInv, Reached
<1>2. CASE q # <<>>
  <2>1. cqueue' = Tail(q) /\ crunning' = {Head(q)}
    BY <1>2 DEF Strand!Execute
  <2>2. /\ Strand!Pending # <<>>
        /\ Head(Strand!Pending) = Head(q)
        /\ Tail(Strand!Pending) = Tail(q) \o p
    BY <1>2, HeadTailOfConcat
  <2>3. Strand!Pending' = Tail(Strand!Pending)
    BY <2>1, <2>2 DEF Strand!Pending
  <2>4. Strand!Pending \in Seq(Nat)
    BY StrandTypes, SeqMonotonic
  <2>5. Head(q) = m + 1 /\ Ascending(Strand!Pending', m + 1, n)
    BY <2>2, <2>3, <2>4, TailAscending
  <2> QED BY <2>1, <2>5 DEF OrderInv, Reached
<1> QED BY <1>1, <1>2

LEMMA LambdaKeepsOrder ==
  ASSUME ClientInv, OrderInv, Client!CallStrandStep
  PROVE  OrderInv' /\ UNCHANGED cfinished
<1> DEFINE n == Len(requests)
<1>1. PICK m \in Nat, s \in Nat : Reached(m, s)
  BY DEF OrderInv
<1>2. n \in Nat /\ requests' = requests /\ Strand!IInv
  BY LenProperties DEF ClientInv, Client!CallStrandStep
<1>3. CASE Client!CallStrand!RunPush
  <2> DEFINE q == Append(cqueue, Head(cpushes))
  <2>1. cpushes # <<>> /\ cpushes' = Tail(cpushes) /\ UNCHANGED cfinished
    BY <1>3 DEF Client!CallStrand!RunPush
  <2>2. Head(cpushes) \in Calls /\ Tail(cpushes) \in Seq(Calls)
    BY <1>2, <2>1, StrandTypes, HeadBeforeTail
  <2>3. q \in Seq(Calls)
    BY <1>2, <2>2, StrandTypes, AppendProperties
  <2>4. Strand!Pending = q \o Tail(cpushes)
    BY <1>2, <2>1, StrandTypes, MoveHead DEF Strand!Pending
  <2>5. CASE cexecuting
    <3>1. cqueue' = q /\ crunning' = crunning
      BY <1>3, <2>5 DEF Client!CallStrand!RunPush
    <3>2. Strand!Pending' = Strand!Pending
      BY <2>1, <2>4, <3>1 DEF Strand!Pending
    <3> QED BY <1>1, <1>2, <2>1, <3>1, <3>2 DEF OrderInv, Reached
  <2>6. CASE ~cexecuting
    <3>1. crunning = {} /\ s = m
      BY <1>1, <1>2, <2>6 DEF Strand!IInv, Strand!TokenInv, Reached
    <3>2. Strand!Execute(q)
      BY <1>3, <2>6 DEF Client!CallStrand!RunPush, Client!CallStrand!Execute,
         Strand!Execute
    <3> HIDE DEF q
    <3> QED BY <1>1, <1>2, <2>1, <2>2, <2>3, <2>4, <3>1, <3>2, ExecuteKeepsOrder
            DEF Reached
  <2> QED BY <2>5, <2>6
<1>4. CASE Client!CallStrand!RunNext
  <2>1. cpushes' = cpushes /\ UNCHANGED cfinished
    BY <1>4 DEF Client!CallStrand!RunNext
  <2>2. Strand!Execute(cqueue)
    BY <1>4 DEF Client!CallStrand!RunNext, Client!CallStrand!Execute, Strand!Execute
  <2>3. crunning = {} /\ s = m
    BY <1>1, <1>2, <1>4 DEF Client!CallStrand!RunNext, Strand!IInv, Strand!TypeOK,
       Strand!TokenInv, Strand!OneToken, Reached
  <2>4. Strand!Pending = cqueue \o cpushes
    BY DEF Strand!Pending
  <2> QED BY <1>1, <1>2, <2>1, <2>2, <2>3, <2>4, StrandTypes, ExecuteKeepsOrder
          DEF Reached
<1> QED BY <1>3, <1>4 DEF Client!CallStrandStep

\* The call in progress is the oldest that is not over.
LEMMA CurrentIsServed ==
  ASSUME ClientInv, OrderInv, NEW i \in Calls, crunning = {i}
  PROVE  Abstract!Current(i)
<1>1. PICK m \in Nat, s \in Nat : Reached(m, s)
  BY DEF OrderInv
<1>2. i = m + 1 /\ s = m + 1 /\ cfinished = 1 .. m
  BY <1>1 DEF Reached
<1>3. i <= Len(requests) /\ Len(requests) \in Nat
  BY <1>1, <1>2, LenProperties, StrandTypes DEF Reached, Ascending, ClientInv
<1>4. DOMAIN requests = 1 .. Len(requests)
  BY LenProperties DEF ClientInv
<1> QED BY <1>2, <1>3, <1>4 DEF Abstract!Current

LEMMA CompleteKeepsOrder ==
  ASSUME ClientInv, OrderInv, NEW i \in Calls, Client!CallStrand!Complete(i),
         requests' = requests
  PROVE  /\ OrderInv' /\ cfinished' = cfinished \cup {i}
         /\ Abstract!Current(i) /\ i \notin cfinished
<1>1. PICK m \in Nat, s \in Nat : Reached(m, s)
  BY DEF OrderInv
<1>2. i \in crunning /\ crunning' = crunning \ {i} /\ cfinished' = cfinished \cup {i}
      /\ UNCHANGED <<cpushes, cqueue>>
  BY DEF Client!CallStrand!Complete
<1>3. crunning = {i} /\ i = m + 1 /\ s = m + 1 /\ crunning' = {}
  BY <1>1, <1>2 DEF Reached
<1>4. cfinished' = 1 .. m + 1
  BY <1>1, <1>2, <1>3 DEF Reached
<1>5. Strand!Pending' = Strand!Pending
  BY <1>2 DEF Strand!Pending
<1>6. Reached(m + 1, m + 1)'
  BY <1>1, <1>3, <1>4, <1>5 DEF Reached
<1>7. OrderInv'
  BY <1>6 DEF OrderInv
<1>8. i \notin cfinished
  BY <1>1, <1>3 DEF Reached
<1> QED BY <1>2, <1>3, <1>7, <1>8, CurrentIsServed
-----------------------------------------------------------------------------
(* Every step is one of RemoteCalls, or none.                              *)

Follows == OrderInv' /\ HandlerInv' /\ [Abstract!Next]_(Abstract!vars)

\* Steps that the handlers do not see.
LEMMA NothingSeen ==
  ASSUME ServeInv, UNCHANGED <<requests, delivered, ending, Client!callStrandVars>>,
         receiving \subseteq receiving', \A i \in receiving' : requests[i].mode # "oneway"
  PROVE  Follows
<1>1. UNCHANGED <<cpushes, cqueue, crunning, cfinished>>
  BY DEF Client!callStrandVars
<1>2. Strand!Pending' = Strand!Pending
  BY <1>1 DEF Strand!Pending
<1>3. OrderInv'
  BY <1>1, <1>2 DEF ServeInv, OrderInv, Reached
<1>4. HandlerInv'
  BY <1>1 DEF ServeInv, HandlerInv, HeardInv
<1>5. UNCHANGED Abstract!vars
  BY <1>1 DEF Abstract!vars
<1> QED BY <1>3, <1>4, <1>5 DEF Follows

\* A call that reads ends without another reply.
LEMMA CallFails ==
  ASSUME ServeInv, NEW i \in Calls, Client!CallStrand!Complete(i),
         UNCHANGED <<requests, delivered, ending>>, receiving' = receiving \ {i}
  PROVE  Follows
<1>1. /\ OrderInv' /\ cfinished' = cfinished \cup {i}
      /\ Abstract!Current(i) /\ i \notin cfinished
  BY CompleteKeepsOrder DEF ServeInv
<1>2. HandlerInv'
  BY <1>1 DEF ServeInv, HandlerInv, HeardInv
<1>3. (cfinished \ ending)' = (cfinished \ ending) \cup {i}
  BY <1>1 DEF ServeInv, HandlerInv, HeardInv
<1>4. Abstract!Fail(i)
  BY <1>1, <1>3 DEF Abstract!Fail, Abstract!Ends
<1> QED BY <1>1, <1>2, <1>4 DEF Follows, Abstract!Next, Abstract!Calls, Calls

\* A call that has not read lets the next one go before its handler.
LEMMA CallMakesWay ==
  ASSUME ServeInv, NEW i \in Calls, Client!ReleaseBeforeHandler(i),
         UNCHANGED <<requests, delivered, receiving>>, i \notin receiving
  PROVE  Follows
<1>1. /\ OrderInv' /\ cfinished' = cfinished \cup {i}
      /\ Abstract!Current(i) /\ i \notin cfinished
  BY CompleteKeepsOrder DEF ServeInv, Client!ReleaseBeforeHandler
<1>2. ending' = ending \cup {i}
  BY DEF Client!ReleaseBeforeHandler
<1>3. HandlerInv'
  BY <1>1, <1>2 DEF ServeInv, HandlerInv, HeardInv
<1>4. (cfinished \ ending)' = cfinished \ ending
  BY <1>1, <1>2
<1>5. Len(delivered[i]) = 0
  BY <1>1 DEF ServeInv, HandlerInv, HeardInv
<1>6. Abstract!MakeWay(i)
  BY <1>1, <1>4, <1>5 DEF Abstract!MakeWay
<1> QED BY <1>1, <1>3, <1>6 DEF Follows, Abstract!Next, Abstract!Calls, Calls

\* And then its handler is called.
LEMMA HandlerEnds ==
  ASSUME ServeInv, NEW i \in Calls, Client!CallHandler(i)
  PROVE  Follows
<1>1. /\ UNCHANGED <<requests, delivered, receiving, cpushes, cqueue, crunning, cfinished>>
      /\ i \in ending /\ ending' = ending \ {i}
  BY DEF Client!CallHandler, Client!callStrandVars, Client!readVars
<1>2. OrderInv'
  BY <1>1 DEF ServeInv, OrderInv, Reached, Strand!Pending
<1>3. HandlerInv'
  BY <1>1 DEF ServeInv, HandlerInv, HeardInv
<1>4. i \in cfinished /\ (cfinished \ ending)' = (cfinished \ ending) \cup {i}
  BY <1>1 DEF ServeInv, HandlerInv, HeardInv
<1>5. Abstract!End(i)
  BY <1>1, <1>4 DEF Abstract!End
<1> QED BY <1>2, <1>3, <1>5 DEF Follows, Abstract!Next, Abstract!Calls, Calls

LEMMA ReplyIsHeard ==
  ASSUME ServeInv, NEW i \in Calls, Client!DeliverReply(i)
  PROVE  Follows
<1>1. i \in receiving /\ requests' = requests /\ requests[i].mode # "oneway"
  BY DEF Client!DeliverReply, ServeInv, HandlerInv
<1>2. crunning = {i} /\ Abstract!Current(i)
  BY <1>1, OneCall, CurrentIsServed DEF ServeInv
<1>3. HandlerInv'
  <2>1. delivered' = [delivered EXCEPT ![i] = Append(@, s2c[got'])]
    BY DEF Client!DeliverReply
  <2>2. \A j \in Calls : IsList(delivered'[j])
    BY <2>1, AppendIsList DEF ServeInv, HandlerInv, HeardInv
  <2>3. /\ receiving' \subseteq receiving /\ ending' = ending
        /\ cfinished \subseteq cfinished'
        /\ receiving \ receiving' \subseteq cfinished'
    BY DEF Client!DeliverReply, Client!CallStrand!Complete, Client!callStrandVars
  <2> QED BY <1>1, <2>1, <2>2, <2>3 DEF ServeInv, HandlerInv, HeardInv
<1>4. [j \in Calls |-> Len(delivered'[j])]
        = [[j \in Calls |-> Len(delivered[j])] EXCEPT ![i] = @ + 1]
  <2>1. delivered' = [delivered EXCEPT ![i] = Append(@, s2c[got'])]
    BY DEF Client!DeliverReply
  <2>2. Len(Append(delivered[i], s2c[got'])) = Len(delivered[i]) + 1
    BY AppendIsList DEF ServeInv, HandlerInv, HeardInv
  <2> QED BY <2>1, <2>2 DEF ServeInv, HandlerInv, HeardInv
<1>5. CASE Client!CallStrand!Complete(i)
  <2>1. OrderInv' /\ cfinished' = cfinished \cup {i} /\ i \notin cfinished
    BY <1>1, <1>5, CompleteKeepsOrder DEF ServeInv
  <2>3. (cfinished \ ending)' = (cfinished \ ending) \cup {i}
    BY <2>1 DEF Client!DeliverReply, ServeInv, HandlerInv
  <2>2. Abstract!Hear(i)
    BY <1>1, <1>2, <1>4, <2>1, <2>3 DEF Abstract!Hear, Abstract!Ends
  <2> QED BY <1>3, <2>1, <2>2 DEF Follows, Abstract!Next, Abstract!Calls, Calls
<1>6. CASE UNCHANGED Client!callStrandVars /\ requests[i].mode = "more"
  <2>1. UNCHANGED <<cpushes, cqueue, crunning, cfinished>>
    BY <1>6 DEF Client!callStrandVars
  <2>2. OrderInv'
    BY <1>1, <2>1 DEF ServeInv, OrderInv, Reached, Strand!Pending
  <2>3. Abstract!Hear(i)
    BY <1>1, <1>2, <1>4, <1>6, <2>1 DEF Abstract!Hear, Client!DeliverReply
  <2> QED BY <1>3, <2>2, <2>3 DEF Follows, Abstract!Next, Abstract!Calls, Calls
<1> QED BY <1>5, <1>6 DEF Client!DeliverReply, Client!Mode

LEMMA CallFollows ==
  ASSUME ServeInv, NEW i \in Calls, Client!CallStep(i) \/ Client!Cancel(i)
  PROVE  Follows
<1> USE DEF Client!Mode
<1>0. \A j \in receiving : requests[j].mode # "oneway"
  BY DEF ServeInv, HandlerInv, HeardInv
<1>1. CASE Client!RequestReachesWire(i)
  BY <1>0, <1>1, NothingSeen DEF Client!RequestReachesWire, Client!readVars,
     Client!handlerVars
<1>2. CASE Client!WriteCompletes(i)
  <2>1. UNCHANGED <<requests, delivered>> /\ i \notin receiving
    BY <1>2, OneCall DEF Client!WriteCompletes, ServeInv
  <2>2. CASE Client!ReleaseBeforeHandler(i) /\ receiving' = receiving
    BY <2>1, <2>2, CallMakesWay
  <2>3. CASE /\ requests[i].mode # "oneway" /\ receiving' = receiving \cup {i}
             /\ UNCHANGED <<ending, Client!callStrandVars>>
    BY <1>0, <2>1, <2>3, NothingSeen
  <2> QED BY <1>2, <2>2, <2>3 DEF Client!WriteCompletes
<1>3. CASE Client!WriteFails(i) \/ Client!CancelWrite(i)
  <2>1. i \notin receiving
    BY <1>3, OneCall DEF Client!WriteFails, Client!CancelWrite, ServeInv
  <2> QED BY <1>3, <2>1, CallMakesWay DEF Client!WriteFails, Client!CancelWrite,
          Client!readVars
<1>4. CASE Client!DeliverReply(i)
  BY <1>4, ReplyIsHeard
<1>5. CASE Client!ReceiveFails(i) \/ Client!CancelReceive(i)
  BY <1>5, CallFails DEF Client!ReceiveFails, Client!CancelReceive
<1> QED BY <1>1, <1>2, <1>3, <1>4, <1>5 DEF Client!CallStep, Client!Cancel,
        Client!ReceiveBuffered, Client!ReceiveFromSocket

LEMMA ServeStep == ServeInv /\ [Next]_vars => Follows
<1> SUFFICES ASSUME ServeInv, [Next]_vars PROVE Follows
  OBVIOUS
<1>0. \A j \in receiving : requests[j].mode # "oneway"
  BY DEF ServeInv, HandlerInv, HeardInv
<1>1. ASSUME NEW request \in Request, Client!AsyncCall(request) PROVE Follows
  <2>1. OrderInv'
    BY <1>1, PushKeepsOrder DEF ServeInv
  <2>2. /\ requests' = Append(requests, request)
        /\ UNCHANGED <<delivered, receiving, cfinished, ending>>
    BY <1>1 DEF Client!AsyncCall, Client!CallStrand!Push, Client!readVars,
       Client!handlerVars
  <2>3. HandlerInv'
    <3>1. \A i \in receiving : requests'[i] = requests[i]
      <4>1. SUFFICES ASSUME NEW i \in receiving PROVE requests'[i] = requests[i]
        OBVIOUS
      <4>2. Abstract!Current(i)
        BY OneCall, CurrentIsServed DEF ServeInv
      <4>3. i \in 1 .. Len(requests)
        BY <4>2, LenProperties DEF Abstract!Current, ServeInv, ClientInv
      <4> QED BY <2>2, <4>3, AppendProperties DEF ServeInv, ClientInv
    <3> QED BY <1>0, <2>2, <3>1 DEF ServeInv, HandlerInv, HeardInv
  <2>4. Abstract!Make(request)
    BY <2>2 DEF Abstract!Make
  <2> QED BY <2>1, <2>3, <2>4 DEF Follows, Abstract!Next
<1>2. CASE Client!CallStrandStep
  <2>1. OrderInv' /\ UNCHANGED cfinished
    BY <1>2, LambdaKeepsOrder DEF ServeInv
  <2>2. UNCHANGED <<requests, delivered, receiving, ending>>
    BY <1>2 DEF Client!CallStrandStep, Client!readVars, Client!handlerVars
  <2>3. HandlerInv'
    BY <2>1, <2>2 DEF ServeInv, HandlerInv, HeardInv
  <2>4. UNCHANGED Abstract!vars
    BY <2>1, <2>2 DEF Abstract!vars
  <2> QED BY <2>1, <2>3, <2>4 DEF Follows
<1>3. ASSUME NEW i \in Calls, Client!CallStep(i) \/ Client!Cancel(i) PROVE Follows
  BY <1>3, CallFollows
<1>4. CASE UNCHANGED clientVars
  <2>1. UNCHANGED <<requests, delivered, ending, receiving, Client!callStrandVars>>
    BY <1>4 DEF clientVars, Client!callStrandVars
  <2> QED BY <1>0, <2>1, NothingSeen
<1>5. CASE Client!Close
  <2>1. UNCHANGED <<requests, delivered, ending, receiving, Client!callStrandVars>>
    BY <1>5 DEF Client!Close, Client!clientVars, Client!readVars, Client!handlerVars
  <2> QED BY <1>0, <2>1, NothingSeen
<1>6. CASE Client!WriteStrandStep
  <2>1. UNCHANGED <<requests, delivered, ending, receiving, Client!callStrandVars>>
    BY <1>6 DEF Client!WriteStrandStep, Client!readVars, Client!handlerVars
  <2> QED BY <1>0, <2>1, NothingSeen
<1>7. ASSUME NEW i \in Calls, Client!CallHandler(i) PROVE Follows
  BY <1>7, HandlerEnds
<1> QED BY <1>1, <1>2, <1>3, <1>4, <1>5, <1>6, <1>7 DEF Next, Client!Next, Client!Calls,
        Calls, ServerStops, vars

LEMMA ServeInit == Init => ServeInv /\ Abstract!Init
<1> SUFFICES ASSUME Init PROVE ServeInv /\ Abstract!Init
  OBVIOUS
<1>1. ClientInv
  BY ClientInit
<1>2. /\ requests = <<>> /\ receiving = {} /\ delivered = [i \in Calls |-> <<>>]
      /\ cqueue = <<>> /\ cpushes = <<>> /\ crunning = {} /\ cfinished = {}
      /\ ending = {}
  BY DEF Init, Client!Init, Client!CallStrand!Init, Client!Calls, Calls
<1>3. Strand!Pending = <<>> /\ cfinished = 1 .. 0
  BY <1>2 DEF Strand!Pending
<1>4. Reached(0, 0)
  BY <1>2, <1>3 DEF Reached, Ascending
<1>5. OrderInv
  BY <1>4 DEF OrderInv
<1>6. HandlerInv
  BY <1>2, EmptySeq DEF HandlerInv, HeardInv, IsList
<1>7. Abstract!Init
  BY <1>2 DEF Abstract!Init, Abstract!Calls, Calls
<1> QED BY <1>1, <1>5, <1>6, <1>7 DEF ServeInv

\* For any number of calls, whichever of them are cancelled, however client,
\* session and connection fare, and on however many threads handlers run: calls
\* are served one at a time in the order in which they were made, a call that
\* hears a reply is over before the next one is served, and handlers are called
\* as the modes of their calls allow, and never after the end.  Only a call that
\* has heard nothing, a oneway one or one whose request was not sent, may have its
\* handler called after those of later calls.
THEOREM CallsAreServedInOrder == Spec => ImplementsRemoteCalls
<1>1. ServeInv /\ [Next]_vars => ServeInv' /\ [Abstract!Next]_(Abstract!vars)
  BY ServeStep, ClientStep DEF ServeInv, Follows
<1>2. Spec => Abstract!Spec
  BY <1>1, ServeInit, PTL DEF Spec, Abstract!Spec
<1> QED BY <1>2 DEF ImplementsRemoteCalls
=============================================================================
