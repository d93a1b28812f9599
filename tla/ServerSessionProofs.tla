------------------------ MODULE ServerSessionProofs -------------------------
(***************************************************************************)
(* Proofs about ServerSession for any number of requests and replies: its  *)
(* variables keep their types whatever callbacks do, and it forgets no     *)
(* request; a session whose callbacks do not send continued replies to     *)
(* oneway calls is half duplex and writes its replies in the order of the  *)
(* requests.                                                               *)
(***************************************************************************)
EXTENDS ServerSession, SequenceFacts

\* The counters of the read side and the phase of each call have their types.
Counts == /\ taken \in Nat /\ fetched \in Nat /\ arrived \in Nat /\ reads \in Nat
          /\ taken <= fetched /\ fetched <= arrived
          /\ posted \subseteq 1 .. taken
          /\ pc \in [Calls -> States]

\* Where a call stands agrees with what is due for it: a handler that is due,
\* or a request not yet taken, has not been dispatched, and a start() that is
\* due follows a final reply.
Phases == /\ posted \cap restarts = {}
          /\ \A i \in Calls :
                /\ i \in posted \/ i > taken => pc[i] = "waiting"
                /\ i \in restarts => pc[i] = "replied"

\* The inductive invariant.
IInv == Counts /\ Phases /\ HalfDuplex

\* A step that hands the turn from i to i, or takes it from i, keeps the
\* session half duplex.
LEMMA TurnStays ==
  ASSUME NEW i, InTurn' \subseteq {i}, reads' = 0, arrived' = fetched',
         fetched' \in Nat
  PROVE  HalfDuplex'
BY DEF HalfDuplex

\* Whoever has the turn has it alone, and nothing is being read.
LEMMA TurnIsExclusive ==
  ASSUME IInv, NEW i \in InTurn
  PROVE  InTurn = {i} /\ reads = 0 /\ arrived = fetched
BY DEF IInv, HalfDuplex, Counts

\* The calls that are not taken when one more request is.
LEMMA OneMoreTaken ==
  ASSUME Counts, NEW j \in Calls
  PROVE  j = taken + 1 \/ j > taken + 1 <=> j > taken
BY BoundAssumption DEF Counts, Calls

\* What dispatching request i does to the phase of that call, and to no other.
LEMMA DispatchEffect ==
  ASSUME NEW i, Dispatch(i), pc \in [Calls -> States]
  PROVE  /\ pc' \in [Calls -> States]
         /\ restarts \subseteq restarts' /\ restarts' \subseteq restarts \cup {i}
         /\ \A j \in Calls : j # i => pc'[j] = pc[j]
         /\ i \in Calls /\ i \in restarts' /\ i \notin restarts
               => pc'[i] = "replied"
BY DEF Dispatch, ReplyError, SendReply, callVars, States

LEMMA InitIInv == Init => IInv
BY DEF Init, IInv, Counts, Phases, HalfDuplex, InTurn, States
-----------------------------------------------------------------------------
(* Sending, the peer, and a stutter leave the turn where it is.            *)

LEMMA ElsewhereIInv ==
  ASSUME IInv, UNCHANGED <<readVars, pc, restarts>>
  PROVE  IInv'
BY DEF IInv, Counts, Phases, HalfDuplex, InTurn, readVars

\* connection.cancel() after a failed write: one read fewer, if any.
LEMMA SendFailedIInv == IInv /\ SendFailed => IInv'
BY DEF SendFailed, callVars, IInv, Counts, Phases, HalfDuplex, InTurn
-----------------------------------------------------------------------------
(* A callback's steps: the call keeps the turn, or gives it up.            *)

LEMMA CallbackIInv ==
  ASSUME IInv, NEW i \in Calls, Open(i), UNCHANGED readVars,
         pc' \in [Calls -> States],
         \A j \in Calls : j # i => pc'[j] = pc[j],
         pc'[i] # "waiting",
         \/ restarts' = restarts
         \/ restarts' = restarts \cup {i} /\ pc'[i] = "replied"
  PROVE  IInv'
<1> USE DEF IInv
<1>1. i \in InTurn /\ pc[i] # "waiting" /\ i \notin restarts
  BY DEF Open, InTurn
<1>2. InTurn = {i} /\ reads = 0 /\ arrived = fetched
  BY <1>1, TurnIsExclusive
<1>3. i \notin posted /\ ~(i > taken)
  BY <1>1 DEF Phases
<1>4. posted = {} /\ restarts = {}
  BY <1>1, <1>2, <1>3 DEF InTurn
<1>5. InTurn' \subseteq {i}
  BY <1>2, <1>4 DEF InTurn, readVars
<1>6. UNCHANGED <<arrived, fetched, taken, reads, posted>>
  BY DEF readVars
<1>7. Counts' /\ HalfDuplex'
  BY <1>2, <1>5, <1>6, TurnStays DEF Counts
<1>8. Phases'
  BY <1>1, <1>3, <1>4, <1>6 DEF Phases
<1> QED BY <1>7, <1>8
-----------------------------------------------------------------------------
(* start() and the reads.                                                  *)

LEMMA StartIInv == \A i \in Calls : IInv /\ Start(i) => IInv'
<1> SUFFICES ASSUME NEW i \in Calls, IInv, Start(i) PROVE IInv'
  OBVIOUS
<1> USE DEF IInv
<1>1. InTurn = {i} /\ reads = 0 /\ arrived = fetched
  <2>1. i \in InTurn
    BY DEF Start, InTurn
  <2> QED BY <2>1, TurnIsExclusive
<1>2. i \notin posted /\ pc[i] = "replied"
  BY DEF Start, Phases
<1>3. posted = {} /\ restarts' = {} /\ UNCHANGED <<arrived, fetched, pc>>
  BY <1>1, <1>2 DEF Start, InTurn
<1>4. \A j \in Calls : pc[j] \notin {"body", "parked"}
  BY <1>1, <1>2 DEF InTurn
<1>5. CASE taken < fetched /\ taken' = taken + 1 /\ posted' = posted \cup {taken'}
           /\ UNCHANGED reads
  <2>1. InTurn' \subseteq {taken + 1}
    BY <1>3, <1>4, <1>5 DEF InTurn
  <2>2. Counts'
    BY <1>3, <1>5 DEF Counts
  <2>3. HalfDuplex'
    BY <1>1, <1>3, <1>5, <2>1, TurnStays DEF Counts
  <2>4. Phases'
    BY <1>3, <1>5, OneMoreTaken DEF Phases
  <2> QED BY <2>2, <2>3, <2>4
<1>6. CASE taken = fetched /\ reads' = reads + 1 /\ UNCHANGED <<taken, posted>>
  <2>1. InTurn' = {}
    BY <1>3, <1>4, <1>6 DEF InTurn
  <2>2. Counts'
    BY <1>3, <1>6 DEF Counts
  <2>3. HalfDuplex'
    BY <1>1, <1>3, <1>6, <2>1 DEF HalfDuplex, Counts
  <2>4. Phases'
    BY <1>3, <1>6 DEF Phases
  <2> QED BY <2>2, <2>3, <2>4
<1> QED BY <1>5, <1>6 DEF Start

LEMMA ReadEndsIInv ==
  IInv /\ (ReadFails \/ \E k \in Calls : ReadCompletes(k)) => IInv'
<1> SUFFICES ASSUME IInv, ReadFails \/ \E k \in Calls : ReadCompletes(k)
             PROVE  IInv'
  OBVIOUS
<1> USE DEF IInv
<1>1. reads = 1 /\ InTurn = {} /\ arrived = fetched
  BY DEF ReadFails, ReadCompletes, HalfDuplex, Counts
<1>2. reads' = 0 /\ UNCHANGED <<fetched, taken, posted, pc, restarts>>
  BY <1>1 DEF ReadFails, ReadCompletes, callVars
<1>3. arrived' \in Nat /\ arrived <= arrived'
  BY DEF ReadFails, ReadCompletes, Counts, Calls
<1>4. InTurn' = {}
  BY <1>1, <1>2 DEF InTurn
<1>5. Counts' /\ Phases'
  BY <1>2, <1>3 DEF Counts, Phases
<1>6. HalfDuplex'
  BY <1>2, <1>4 DEF HalfDuplex
<1> QED BY <1>5, <1>6

LEMMA HandleReadIInv == IInv /\ HandleRead => IInv'
<1> SUFFICES ASSUME IInv, HandleRead PROVE IInv'
  OBVIOUS
<1> DEFINE i == taken + 1
<1> USE DEF IInv
<1>1. InTurn = {} /\ reads = 0
  BY DEF HandleRead, HalfDuplex, Counts
<1>2. /\ taken' = i /\ fetched' = arrived
      /\ UNCHANGED <<arrived, reads, posted>>
      /\ Dispatch(i)
  BY DEF HandleRead
<1>3. posted = {} /\ restarts = {}
  BY <1>1 DEF InTurn
<1>4. /\ pc' \in [Calls -> States]
      /\ restarts' \subseteq {i}
      /\ \A j \in Calls : j # i => pc'[j] = pc[j]
      /\ i \in Calls /\ i \in restarts' => pc'[i] = "replied"
  BY <1>2, <1>3, DispatchEffect DEF Counts
<1>5. i \in Nat /\ i <= arrived
  BY DEF HandleRead, Counts
<1>6. InTurn' \subseteq {i}
  BY <1>1, <1>2, <1>3, <1>4 DEF InTurn
<1>7. Counts'
  BY <1>2, <1>3, <1>4, <1>5 DEF Counts
<1>8. HalfDuplex'
  BY <1>1, <1>2, <1>6, TurnStays DEF Counts
<1>9. ASSUME NEW j \in Calls, j \in posted' \/ j > taken'
      PROVE  pc'[j] = "waiting"
  <2>1. j > taken /\ j # i
    BY <1>2, <1>3, <1>9, OneMoreTaken DEF Counts
  <2> QED BY <1>4, <2>1 DEF Phases
<1>10. Phases'
  BY <1>2, <1>3, <1>4, <1>9 DEF Phases
<1> QED BY <1>7, <1>8, <1>10

LEMMA HandlePostedIInv == \A i \in Calls : IInv /\ HandlePosted(i) => IInv'
<1> SUFFICES ASSUME NEW i \in Calls, IInv, HandlePosted(i) PROVE IInv'
  OBVIOUS
<1> USE DEF IInv
<1>1. InTurn = {i} /\ reads = 0 /\ arrived = fetched
  <2>1. i \in InTurn
    BY DEF HandlePosted, InTurn
  <2> QED BY <2>1, TurnIsExclusive
<1>2. i \notin restarts /\ ~(i > taken)
  BY DEF HandlePosted, Phases, Counts
<1>3. restarts = {} /\ posted' = {} /\ UNCHANGED <<arrived, fetched, taken, reads>>
  BY <1>1, <1>2 DEF HandlePosted, InTurn
<1>4. /\ pc' \in [Calls -> States]
      /\ restarts' \subseteq {i}
      /\ \A j \in Calls : j # i => pc'[j] = pc[j]
      /\ i \in restarts' => pc'[i] = "replied"
  BY <1>3, DispatchEffect DEF HandlePosted, Counts
<1>5. InTurn' \subseteq {i}
  BY <1>1, <1>3, <1>4 DEF InTurn
<1>6. Counts' /\ HalfDuplex'
  BY <1>1, <1>3, <1>4, <1>5, TurnStays DEF Counts
<1>7. Phases'
  BY <1>2, <1>3, <1>4 DEF Phases, Counts
<1> QED BY <1>6, <1>7
-----------------------------------------------------------------------------
\* Each step keeps the turn with one party.
LEMMA StepIInv ==
  ASSUME "oneway_continues" \notin CallbackMay
  PROVE  IInv /\ [Next]_vars => IInv'
<1> SUFFICES ASSUME IInv, [Next]_vars PROVE IInv'
  OBVIOUS
<1>1. ASSUME NEW i \in Calls, CallStep(i) PROVE IInv'
  <2>1. CASE CallbackContinues(i)
    BY <2>1, ElsewhereIInv DEF CallbackContinues
  <2>2. CASE CallbackReplies(i)
    BY <2>2, CallbackIInv DEF CallbackReplies, IInv, Counts, States
  <2>3. ASSUME NEW continues \in BOOLEAN, OnewayReplies(i, continues) PROVE IInv'
    BY <2>3, CallbackIInv DEF OnewayReplies, IInv, Counts, States
  <2>4. CASE CallbackStops(i)
    BY <2>4, CallbackIInv DEF CallbackStops, IInv, Counts, States
  <2>5. CASE CallbackThrows(i)
    <3>1. CASE send_ec
      BY <2>5, <3>1, ElsewhereIInv DEF CallbackThrows, ReplyError, callVars
    <3>2. CASE ~send_ec
      BY <2>5, <3>2, CallbackIInv
         DEF CallbackThrows, ReplyError, IInv, Counts, States
    <3> QED BY <3>1, <3>2
  <2>6. CASE CallbackParks(i)
    BY <2>6, CallbackIInv DEF CallbackParks, IInv, Counts, States
  <2>7. CASE Start(i)
    BY <2>7, StartIInv
  <2>8. CASE HandlePosted(i)
    BY <2>8, HandlePostedIInv
  <2> QED BY <1>1, <2>1, <2>2, <2>3, <2>4, <2>5, <2>6, <2>7, <2>8 DEF CallStep
<1>2. CASE ReadFails \/ \E k \in Calls : ReadCompletes(k)
  BY <1>2, ReadEndsIInv
<1>3. CASE HandleRead
  BY <1>3, HandleReadIInv
<1>4. CASE \E r \in running : WriteSucceeds(r) \/ WriteFails(r)
  BY <1>4, ElsewhereIInv DEF WriteSucceeds, WriteFails, callVars
<1>5. CASE SendFailed
  BY <1>5, SendFailedIInv
<1>6. CASE WriteStrandStep
  BY <1>6, ElsewhereIInv DEF WriteStrandStep, callVars
<1>7. CASE PeerCloses \/ \E request \in Request : PeerSends(request)
  BY <1>7, ElsewhereIInv DEF PeerSends, PeerCloses, callVars
<1>8. CASE UNCHANGED vars
  BY <1>8, ElsewhereIInv DEF vars, callVars
<1> QED BY <1>1, <1>2, <1>3, <1>4, <1>5, <1>6, <1>7, <1>8 DEF Next, SessionNext

\* A session reads or has one request in its hands, never both and never two,
\* for any number of requests that a peer may send at once, any callbacks that
\* keep to one final reply, and any failure of the connection.
THEOREM HalfDuplexHolds ==
  ASSUME "oneway_continues" \notin CallbackMay
  PROVE  Spec => []HalfDuplex
<1>1. IInv => HalfDuplex
  BY DEF IInv
<1> QED BY InitIInv, StepIInv, <1>1, PTL DEF Spec
-----------------------------------------------------------------------------
(* Types.                                                                  *)

\* What ManualStrandProofs proves of a strand, for the write strand.
Strand == INSTANCE ManualStrandProofs WITH Fn <- Reply

WireTypes == /\ c2s \in Seq(Request) /\ Len(c2s) <= MaxRequests
             /\ peerClosed \in BOOLEAN
             /\ s2c \in Seq(Reply)
             /\ failures \in Nat /\ send_ec \in BOOLEAN /\ terminated \in BOOLEAN

ReadTypes == /\ taken \in 0 .. fetched /\ fetched \in 0 .. arrived
             /\ arrived \in 0 .. Len(c2s)
             /\ reads \in Nat
             /\ posted \subseteq 1 .. taken

\* A request whose handler has not run has had no reply, and one that can
\* still be replied to has had one fewer than the most there may be.
CallTypes ==
    /\ pc \in [Calls -> States]
    /\ replies \in [Calls -> 0 .. MaxReplies + 1]
    /\ restarts \subseteq Calls
    /\ \A i \in Calls :
          /\ i \in posted \/ i > taken => pc[i] = "waiting"
          /\ pc[i] = "waiting" => replies[i] = 0
          /\ pc[i] # "replied" => replies[i] <= MaxReplies

\* The inductive invariant for the types, whatever callbacks do.
Types == WireTypes /\ ReadTypes /\ CallTypes /\ Strand!IInv

LEMMA TypesSuffice == Types => TypeOK
BY Zenon DEF Types, WireTypes, ReadTypes, CallTypes, TypeOK, Strand!IInv, Strand!TypeOK,
   WriteStrand!TypeOK

\* The steps of the session with its write strand are steps of a strand.
LEMMA StrandStep ==
  ASSUME Strand!IInv,
         \/ UNCHANGED strandVars
         \/ \E r \in Reply : WriteStrand!Push(r) \/ WriteStrand!Complete(r)
         \/ WriteStrand!RunPush
         \/ WriteStrand!RunNext
  PROVE  Strand!IInv'
<1>1. CASE UNCHANGED strandVars
  <2>1. UNCHANGED Strand!vars
    BY <1>1 DEF strandVars, Strand!vars
  <2> QED BY <2>1, Strand!StepIInv
<1>2. ASSUME NEW r \in Reply, WriteStrand!Push(r) PROVE Strand!IInv'
  <2>1. Strand!Push(r)
    BY <1>2 DEF WriteStrand!Push, Strand!Push, WriteStrand!Known, Strand!Known,
       WriteStrand!Pending, Strand!Pending, WriteStrand!Range, Strand!Range
  <2> QED BY <2>1, Strand!StepIInv DEF Strand!Next
<1>3. ASSUME NEW r \in Reply, WriteStrand!Complete(r) PROVE Strand!IInv'
  <2>1. Strand!Complete(r)
    BY <1>3 DEF WriteStrand!Complete, Strand!Complete
  <2> QED BY <2>1, Strand!StepIInv DEF Strand!Next
<1>4. CASE WriteStrand!RunPush
  <2>1. Strand!RunPush
    BY <1>4 DEF WriteStrand!RunPush, Strand!RunPush, WriteStrand!Execute, Strand!Execute
  <2> QED BY <2>1, Strand!StepIInv DEF Strand!Next
<1>5. CASE WriteStrand!RunNext
  <2>1. Strand!RunNext
    BY <1>5 DEF WriteStrand!RunNext, Strand!RunNext, WriteStrand!Execute, Strand!Execute
  <2> QED BY <2>1, Strand!StepIInv DEF Strand!Next
<1> QED BY <1>1, <1>2, <1>3, <1>4, <1>5

\* A reply that is written was pushed by the reply function.
LEMMA RunningIsReply == Strand!IInv => running \subseteq Reply
BY DEF Strand!IInv, Strand!TypeOK

\* The requests that have been taken are calls.
LEMMA TakenIsCall ==
  ASSUME WireTypes, ReadTypes
  PROVE  /\ taken \in Nat /\ taken <= MaxRequests /\ Len(c2s) \in Nat
         /\ taken < arrived => taken + 1 \in Calls
BY LenProperties, BoundAssumption DEF WireTypes, ReadTypes, Calls

\* A call goes on to another phase: its handler has run, or is running.
LEMMA CallMoves ==
  ASSUME CallTypes, NEW i \in Calls,
         pc' \in [Calls -> States], replies' \in [Calls -> 0 .. MaxReplies + 1],
         restarts' \subseteq restarts \cup {i},
         \A j \in Calls : j # i => pc'[j] = pc[j] /\ replies'[j] = replies[j],
         pc'[i] = "waiting" => replies'[i] = 0,
         pc'[i] # "replied" => replies'[i] <= MaxReplies,
         i \notin posted', ~(i > taken'),
         \A j \in Calls : j # i /\ (j \in posted' \/ j > taken') => j \in posted \/ j > taken
  PROVE  CallTypes'
BY DEF CallTypes

\* No call goes on.
LEMMA NoCallMoves ==
  ASSUME CallTypes, UNCHANGED <<pc, replies>>, restarts' \subseteq Calls,
         \A j \in Calls : j \in posted' \/ j > taken' => j \in posted \/ j > taken
  PROVE  CallTypes'
BY DEF CallTypes

\* A reply counts as one more of its call.
LEMMA SendTypes ==
  ASSUME Types, NEW i \in Calls, replies[i] <= MaxReplies, NEW last \in BOOLEAN,
         SendReply(i, last)
  PROVE  /\ Strand!IInv'
         /\ [req |-> i, n |-> replies[i] + 1, last |-> last] \in Reply
         /\ replies' \in [Calls -> 0 .. MaxReplies + 1]
         /\ replies'[i] = replies[i] + 1
         /\ \A j \in Calls : j # i => replies'[j] = replies[j]
<1>1. replies[i] + 1 \in 1 .. MaxReplies + 1 /\ replies \in [Calls -> 0 .. MaxReplies + 1]
  BY BoundAssumption DEF Types, CallTypes
<1>2. [req |-> i, n |-> replies[i] + 1, last |-> last] \in Reply
  BY <1>1 DEF Reply
<1>3. Strand!IInv'
  BY <1>2, StrandStep DEF SendReply, Types
<1>4. replies' = [replies EXCEPT ![i] = replies[i] + 1]
  BY DEF SendReply
<1>5. /\ replies' \in [Calls -> 0 .. MaxReplies + 1]
      /\ replies'[i] = replies[i] + 1
      /\ \A j \in Calls : j # i => replies'[j] = replies[j]
  BY <1>1, <1>4, BoundAssumption
<1> QED BY <1>2, <1>3, <1>5

\* What the handler of a request, or a callback that throws, does to its call.
LEMMA ErrorTypes ==
  ASSUME Types, NEW i \in Calls, pc[i] # "replied", ReplyError(i)
  PROVE  /\ Strand!IInv' /\ terminated' \in BOOLEAN
         /\ pc' \in [Calls -> States] /\ replies' \in [Calls -> 0 .. MaxReplies + 1]
         /\ restarts' \subseteq restarts \cup {i}
         /\ \A j \in Calls : j # i => pc'[j] = pc[j] /\ replies'[j] = replies[j]
         /\ \/ UNCHANGED <<pc, replies>>
            \/ pc'[i] = "replied"
<1>1. pc \in [Calls -> States] /\ replies[i] <= MaxReplies
      /\ replies \in [Calls -> 0 .. MaxReplies + 1]
  BY DEF Types, CallTypes
<1>2. CASE send_ec
  <2>1. terminated' = TRUE /\ UNCHANGED <<pc, replies, restarts, strandVars>>
    BY <1>2 DEF ReplyError, callVars
  <2>2. Strand!IInv'
    BY <2>1, StrandStep DEF Types
  <2> QED BY <1>1, <2>1, <2>2
<1>3. CASE ~send_ec
  <2>1. /\ SendReply(i, TRUE) /\ pc' = [pc EXCEPT ![i] = "replied"]
        /\ restarts' = restarts \cup {i} /\ terminated' = terminated
    BY <1>3 DEF ReplyError
  <2>2. pc' \in [Calls -> States] /\ pc'[i] = "replied"
        /\ \A j \in Calls : j # i => pc'[j] = pc[j]
    BY <1>1, <2>1 DEF States
  <2> QED BY <1>1, <2>1, <2>2, SendTypes DEF Types, WireTypes
<1> QED BY <1>2, <1>3

LEMMA DispatchTypes ==
  ASSUME Types, NEW i \in Calls, pc[i] = "waiting", Dispatch(i),
         UNCHANGED <<c2s, peerClosed, s2c, failures, send_ec>>, ReadTypes',
         i \notin posted', ~(i > taken'),
         \A j \in Calls : j # i /\ (j \in posted' \/ j > taken') => j \in posted \/ j > taken
  PROVE  Types'
<1>1. pc \in [Calls -> States] /\ replies \in [Calls -> 0 .. MaxReplies + 1]
      /\ replies[i] <= MaxReplies
  BY DEF Types, CallTypes
<1>2. CASE \/ c2s[i].target = "malformed" /\ pc' = [pc EXCEPT ![i] = "dropped"]
           \/ c2s[i].target = "callback" /\ pc' = [pc EXCEPT ![i] = "body"]
  <2>1. UNCHANGED <<replies, restarts, terminated, strandVars>>
    BY <1>2 DEF Dispatch
  <2>2. Strand!IInv'
    BY <2>1, StrandStep DEF Types
  <2>3. pc' \in [Calls -> States] /\ pc'[i] # "waiting"
        /\ \A j \in Calls : j # i => pc'[j] = pc[j]
    BY <1>1, <1>2 DEF States
  <2>4. CallTypes'
    BY <1>1, <2>1, <2>3, CallMoves DEF Types
  <2> QED BY <2>1, <2>2, <2>4 DEF Types, WireTypes
<1>3. CASE ReplyError(i)
  <2>1. /\ Strand!IInv' /\ terminated' \in BOOLEAN
        /\ pc' \in [Calls -> States] /\ replies' \in [Calls -> 0 .. MaxReplies + 1]
        /\ restarts' \subseteq restarts \cup {i}
        /\ \A j \in Calls : j # i => pc'[j] = pc[j] /\ replies'[j] = replies[j]
        /\ UNCHANGED <<pc, replies>> \/ pc'[i] = "replied"
    BY <1>3, ErrorTypes
  <2>2. CallTypes'
    BY <1>1, <2>1, CallMoves DEF Types, CallTypes
  <2> QED BY <2>1, <2>2 DEF Types, WireTypes
<1> QED BY <1>2, <1>3 DEF Dispatch

\* Steps of the peer, the strand and the writes, and reads that end.
LEMMA NoCallTypes ==
  ASSUME Types, UNCHANGED <<callVars, posted, taken>>, WireTypes', ReadTypes', Strand!IInv'
  PROVE  Types'
BY NoCallMoves DEF Types, callVars, CallTypes

LEMMA WriteTypes ==
  ASSUME Types, NEW r \in running, WriteSucceeds(r) \/ WriteFails(r)
  PROVE  Types'
<1>1. r \in Reply /\ WriteStrand!Complete(r) /\ UNCHANGED <<callVars, readVars>>
  BY RunningIsReply DEF WriteSucceeds, WriteFails, Types
<1>2. Strand!IInv'
  BY <1>1, StrandStep DEF Types
<1>3. s2c' \in Seq(Reply)
  BY <1>1, AppendProperties DEF WriteSucceeds, WriteFails, Types, WireTypes
<1>4. WireTypes' /\ ReadTypes'
  BY <1>1, <1>3 DEF WriteSucceeds, WriteFails, peerVars, readVars, Types, WireTypes, ReadTypes
<1> QED BY <1>1, <1>2, <1>4, NoCallTypes DEF readVars

LEMMA PeerTypes ==
  ASSUME Types, PeerCloses \/ \E request \in Request : PeerSends(request)
  PROVE  Types'
<1>1. UNCHANGED <<callVars, readVars, sendVars, terminated, strandVars>>
  BY DEF PeerCloses, PeerSends
<1>2. Strand!IInv'
  BY <1>1, StrandStep DEF Types
<1>3. c2s' \in Seq(Request) /\ Len(c2s') <= MaxRequests /\ Len(c2s) <= Len(c2s')
      /\ Len(c2s') \in Nat
  BY AppendProperties, LenProperties, BoundAssumption
     DEF PeerCloses, PeerSends, Types, WireTypes
<1>4. peerClosed' \in BOOLEAN
  BY DEF PeerCloses, PeerSends, Types, WireTypes
<1>5. WireTypes' /\ ReadTypes'
  BY <1>1, <1>3, <1>4, LenProperties DEF Types, WireTypes, ReadTypes, readVars, sendVars
<1> QED BY <1>1, <1>2, <1>5, NoCallTypes DEF readVars

LEMMA ReadEndTypes ==
  ASSUME Types, ReadFails \/ SendFailed \/ \E k \in Calls : ReadCompletes(k)
  PROVE  Types'
<1>1. UNCHANGED <<c2s, peerClosed, s2c, terminated, callVars, posted, taken, fetched,
                  strandVars>>
  BY DEF ReadFails, SendFailed, ReadCompletes, peerVars, sendVars
<1>2. Strand!IInv'
  BY <1>1, StrandStep DEF Types
<1>3. failures' \in Nat /\ send_ec' \in BOOLEAN
  <2>1. failures \in Nat /\ send_ec \in BOOLEAN
    BY DEF Types, WireTypes
  <2>2. CASE ReadFails \/ \E k \in Calls : ReadCompletes(k)
    BY <2>1, <2>2 DEF ReadFails, ReadCompletes, sendVars
  <2>3. CASE SendFailed
    BY <2>1, <2>3 DEF SendFailed
  <2> QED BY <2>2, <2>3
<1>4. ReadTypes'
  BY <1>1, LenProperties DEF ReadFails, SendFailed, ReadCompletes, Types, WireTypes, ReadTypes
<1> QED BY <1>1, <1>2, <1>3, <1>4, NoCallTypes DEF Types, WireTypes

LEMMA StartTypes ==
  ASSUME Types, NEW i \in Calls, Start(i)
  PROVE  Types'
<1>1. /\ UNCHANGED <<c2s, peerClosed, arrived, fetched, pc, replies, sendVars, terminated,
                     strandVars>>
      /\ restarts' \subseteq restarts
  BY DEF Start, peerVars
<1>2. Strand!IInv' /\ WireTypes'
  BY <1>1, StrandStep DEF Types, WireTypes, sendVars
<1>3. CASE taken < fetched /\ taken' = taken + 1 /\ posted' = posted \cup {taken'}
           /\ UNCHANGED reads
  <2>1. ReadTypes'
    BY <1>1, <1>3, TakenIsCall DEF Types, ReadTypes
  <2>2. CallTypes'
    BY <1>1, <1>3, TakenIsCall, NoCallMoves DEF Types, CallTypes, ReadTypes, Calls
  <2> QED BY <1>2, <2>1, <2>2 DEF Types
<1>4. CASE reads' = reads + 1 /\ UNCHANGED <<taken, posted>>
  <2>1. ReadTypes'
    BY <1>1, <1>4 DEF Types, ReadTypes
  <2>2. CallTypes'
    BY <1>1, <1>4, NoCallMoves DEF Types, CallTypes
  <2> QED BY <1>2, <2>1, <2>2 DEF Types
<1> QED BY <1>3, <1>4 DEF Start

LEMMA HandleReadTypes ==
  ASSUME Types, HandleRead
  PROVE  Types'
<1> DEFINE i == taken + 1
<1>1. /\ arrived > fetched /\ fetched' = arrived /\ taken' = i /\ Dispatch(i)
      /\ UNCHANGED <<c2s, peerClosed, arrived, reads, posted, s2c, failures, send_ec>>
  BY DEF HandleRead, peerVars, sendVars
<1>2. i \in Calls /\ i \in Nat /\ taken \in Nat
  BY <1>1, TakenIsCall DEF Types, ReadTypes
<1>3. i \notin posted
  BY <1>2 DEF Types, ReadTypes
<1>4. pc[i] = "waiting"
  BY <1>2 DEF Types, CallTypes
<1>5. ReadTypes'
  BY <1>1 DEF Types, ReadTypes
<1>6. \A j \in Calls : j # i /\ (j \in posted' \/ j > taken') => j \in posted \/ j > taken
  BY <1>1, <1>2 DEF Calls
<1>7. ~(i > taken') /\ i \notin posted'
  BY <1>1, <1>2, <1>3
<1> HIDE DEF i
<1> QED BY <1>1, <1>2, <1>4, <1>5, <1>6, <1>7, DispatchTypes

LEMMA HandlePostedTypes ==
  ASSUME Types, NEW i \in Calls, HandlePosted(i)
  PROVE  Types'
<1>1. /\ i \in posted /\ posted' = posted \ {i} /\ Dispatch(i)
      /\ UNCHANGED <<c2s, peerClosed, arrived, fetched, taken, reads, s2c, failures, send_ec>>
  BY DEF HandlePosted, peerVars, sendVars
<1>2. pc[i] = "waiting" /\ ~(i > taken)
  BY <1>1 DEF Types, CallTypes, ReadTypes
<1>3. ReadTypes'
  BY <1>1 DEF Types, ReadTypes
<1> QED BY <1>1, <1>2, <1>3, DispatchTypes

\* A callback's steps.
LEMMA CallbackTypes ==
  ASSUME Types, NEW i \in Calls, Open(i), UNCHANGED <<peerVars, readVars, sendVars>>,
         \/ CallbackContinues(i) \/ CallbackReplies(i) \/ CallbackStops(i)
         \/ CallbackThrows(i) \/ CallbackParks(i)
         \/ \E continues \in BOOLEAN : OnewayReplies(i, continues)
  PROVE  Types'
<1>1. /\ pc \in [Calls -> States] /\ replies \in [Calls -> 0 .. MaxReplies + 1]
      /\ pc[i] # "waiting" /\ pc[i] # "replied" /\ replies[i] <= MaxReplies
      /\ i \notin posted /\ ~(i > taken)
  BY DEF Types, CallTypes, Open
<1>2. ReadTypes'
  BY DEF Types, ReadTypes, peerVars, readVars
<1>3. \A j \in Calls : j \in posted' \/ j > taken' => j \in posted \/ j > taken
  BY DEF readVars
<1>4. CASE CallbackContinues(i)
  <2>1. /\ replies[i] < MaxReplies /\ SendReply(i, FALSE)
        /\ UNCHANGED <<pc, restarts, terminated>>
    BY <1>4 DEF CallbackContinues
  <2>2. /\ Strand!IInv' /\ replies' \in [Calls -> 0 .. MaxReplies + 1]
        /\ replies'[i] = replies[i] + 1
        /\ \A j \in Calls : j # i => replies'[j] = replies[j]
    BY <1>1, <2>1, SendTypes
  <2>3. replies'[i] <= MaxReplies
    BY <1>1, <2>1, <2>2, BoundAssumption
  <2>4. CallTypes'
    BY <1>1, <1>3, <2>1, <2>2, <2>3, CallMoves DEF readVars, Types
  <2> QED BY <1>2, <2>1, <2>2, <2>4 DEF Types, WireTypes, peerVars, sendVars
<1>5. CASE CallbackReplies(i)
  <2>1. /\ SendReply(i, TRUE) /\ pc' = [pc EXCEPT ![i] = "replied"]
        /\ restarts' = restarts \cup {i} /\ terminated' = terminated
    BY <1>5 DEF CallbackReplies
  <2>2. pc' \in [Calls -> States] /\ pc'[i] = "replied"
        /\ \A j \in Calls : j # i => pc'[j] = pc[j]
    BY <1>1, <2>1 DEF States
  <2>3. Strand!IInv' /\ CallTypes'
    BY <1>1, <1>3, <2>1, <2>2, SendTypes, CallMoves DEF readVars, Types
  <2> QED BY <1>2, <2>1, <2>3 DEF Types, WireTypes, peerVars, sendVars
<1>6. ASSUME NEW continues \in BOOLEAN, OnewayReplies(i, continues) PROVE Types'
  <2>1. /\ continues => replies[i] < MaxReplies
        /\ replies' = [replies EXCEPT ![i] = replies[i] + 1]
        /\ pc' = [pc EXCEPT ![i] = IF continues THEN pc[i] ELSE "replied"]
        /\ restarts' = restarts \cup {i} /\ UNCHANGED <<terminated, strandVars>>
    BY <1>6 DEF OnewayReplies
  <2>2. pc' \in [Calls -> States] /\ pc'[i] = (IF continues THEN pc[i] ELSE "replied")
        /\ \A j \in Calls : j # i => pc'[j] = pc[j]
    BY <1>1, <2>1 DEF States
  <2>3. replies' \in [Calls -> 0 .. MaxReplies + 1] /\ replies'[i] = replies[i] + 1
        /\ \A j \in Calls : j # i => replies'[j] = replies[j]
    BY <1>1, <2>1, BoundAssumption
  <2>4. CallTypes'
    BY <1>1, <1>3, <2>1, <2>2, <2>3, CallMoves, BoundAssumption DEF readVars, Types
  <2>5. Strand!IInv'
    BY <2>1, StrandStep DEF Types
  <2> QED BY <1>2, <2>1, <2>4, <2>5 DEF Types, WireTypes, peerVars, sendVars
<1>7. CASE CallbackStops(i) \/ CallbackParks(i)
  <2>1. /\ \/ pc' = [pc EXCEPT ![i] = "dropped"] \/ pc' = [pc EXCEPT ![i] = "parked"]
        /\ UNCHANGED <<replies, restarts, terminated, strandVars>>
    BY <1>7 DEF CallbackStops, CallbackParks
  <2>2. pc' \in [Calls -> States] /\ pc'[i] \in {"dropped", "parked"}
        /\ \A j \in Calls : j # i => pc'[j] = pc[j]
    BY <1>1, <2>1 DEF States
  <2>3. CallTypes'
    BY <1>1, <1>3, <2>1, <2>2, CallMoves DEF readVars, Types
  <2>4. Strand!IInv'
    BY <2>1, StrandStep DEF Types
  <2> QED BY <1>2, <2>1, <2>3, <2>4 DEF Types, WireTypes, peerVars, sendVars
<1>8. CASE CallbackThrows(i)
  <2>1. /\ Strand!IInv' /\ terminated' \in BOOLEAN
        /\ pc' \in [Calls -> States] /\ replies' \in [Calls -> 0 .. MaxReplies + 1]
        /\ restarts' \subseteq restarts \cup {i}
        /\ \A j \in Calls : j # i => pc'[j] = pc[j] /\ replies'[j] = replies[j]
        /\ UNCHANGED <<pc, replies>> \/ pc'[i] = "replied"
    BY <1>1, <1>8, ErrorTypes DEF CallbackThrows
  <2>2. CallTypes'
    BY <1>1, <1>3, <2>1, CallMoves DEF readVars, Types
  <2> QED BY <1>2, <2>1, <2>2 DEF Types, WireTypes, peerVars, sendVars
<1> QED BY <1>4, <1>5, <1>6, <1>7, <1>8

LEMMA SessionKeepsTypes == Types /\ SessionNext => Types'
<1> SUFFICES ASSUME Types, SessionNext PROVE Types'
  OBVIOUS
<1>1. ASSUME NEW i \in Calls, CallStep(i) PROVE Types'
  <2>1. CASE Start(i)
    BY <2>1, StartTypes
  <2>2. CASE HandlePosted(i)
    BY <2>2, HandlePostedTypes
  <2>3. CASE \/ CallbackContinues(i) \/ CallbackReplies(i) \/ CallbackStops(i)
             \/ CallbackThrows(i) \/ CallbackParks(i)
             \/ \E continues \in BOOLEAN : OnewayReplies(i, continues)
    <3>1. Open(i) /\ UNCHANGED <<peerVars, readVars, sendVars>>
      BY <2>3 DEF CallbackContinues, CallbackReplies, CallbackStops, CallbackThrows,
         CallbackParks, OnewayReplies
    <3> QED BY <2>3, <3>1, CallbackTypes
  <2> QED BY <1>1, <2>1, <2>2, <2>3 DEF CallStep
<1>2. CASE ReadFails \/ SendFailed \/ \E k \in Calls : ReadCompletes(k)
  BY <1>2, ReadEndTypes
<1>3. CASE HandleRead
  BY <1>3, HandleReadTypes
<1>4. CASE \E r \in running : WriteSucceeds(r) \/ WriteFails(r)
  BY <1>4, WriteTypes
<1>5. CASE WriteStrandStep
  <2>1. Strand!IInv' /\ UNCHANGED <<peerVars, readVars, callVars, sendVars, terminated>>
    BY <1>5, StrandStep DEF WriteStrandStep, Types
  <2>2. WireTypes' /\ ReadTypes'
    BY <2>1 DEF Types, WireTypes, ReadTypes, peerVars, readVars, sendVars
  <2> QED BY <2>1, <2>2, NoCallTypes DEF readVars
<1> QED BY <1>1, <1>2, <1>3, <1>4, <1>5 DEF SessionNext

\* Nothing happens, or the process ends.
Still == /\ UNCHANGED <<peerVars, readVars, callVars, sendVars, strandVars>>
         /\ terminated' \in {terminated, TRUE}

\* The steps of the peer, and of nobody.
Outside == PeerCloses \/ (\E request \in Request : PeerSends(request)) \/ Still

LEMMA OutsideTypes == Types /\ Outside => Types'
<1> SUFFICES ASSUME Types, Still PROVE Types'
  BY PeerTypes DEF Outside
<1>1. Strand!IInv'
  BY StrandStep DEF Still, Types
<1>2. WireTypes' /\ ReadTypes'
  BY DEF Still, Types, WireTypes, ReadTypes, peerVars, readVars, sendVars
<1> QED BY <1>1, <1>2, NoCallTypes DEF Still, readVars

LEMMA InitTypes == Init => Types
<1> SUFFICES ASSUME Init PROVE Types
  OBVIOUS
<1>1. Strand!Init
  BY DEF Init, WriteStrand!Init, Strand!Init
<1>2. Strand!IInv
  BY <1>1, Strand!InitIInv
<1>3. WireTypes /\ ReadTypes
  <2>1. /\ c2s = <<>> /\ s2c = <<>> /\ peerClosed = FALSE /\ terminated = FALSE
        /\ failures = 0 /\ send_ec = FALSE
        /\ arrived = 0 /\ fetched = 0 /\ taken = 0 /\ reads = 1 /\ posted = {}
    BY DEF Init
  <2>2. /\ c2s \in Seq(Request) /\ s2c \in Seq(Reply) /\ Len(c2s) = 0
    BY <2>1, EmptySeq
  <2>3. ReadTypes
    BY <2>1, <2>2 DEF ReadTypes
  <2>4. Len(c2s) <= MaxRequests /\ failures \in Nat
    BY <2>1, <2>2, BoundAssumption
  <2>5. WireTypes
    BY <2>1, <2>2, <2>4, Zenon DEF WireTypes
  <2> QED BY <2>3, <2>5
<1>4. CallTypes
  BY BoundAssumption DEF Init, CallTypes, States, Calls
<1> QED BY <1>2, <1>3, <1>4 DEF Types

\* The counters, phases and queues of a session keep their types, whatever
\* callbacks do: no call is replied to more often than the bound allows, and
\* nothing is taken out of readbuf that a read has not put there.
THEOREM TypeCorrect == Spec => []TypeOK
<1>1. Types /\ [Next]_vars => Types'
  BY SessionKeepsTypes, OutsideTypes DEF Next, Outside, Still, vars
<1> QED BY <1>1, InitTypes, TypesSuffice, PTL DEF Spec
-----------------------------------------------------------------------------
(* Whose turn it is.                                                       *)

\* Requests are served in the order in which they were taken: whatever is due
\* is for the last one taken, the ones before it have been replied to, and a
\* session that has not replied, or has given up, does not read.
Turn == /\ InTurn \subseteq {taken}
        /\ \A j \in Calls : j < taken => pc[j] = "replied"
        /\ taken \in Calls /\ pc[taken] # "replied" => reads = 0 /\ arrived = fetched

LEMMA ElsewhereTurn ==
  ASSUME Turn, UNCHANGED <<arrived, fetched, taken, posted, pc, restarts>>, reads' \in {reads, 0}
  PROVE  Turn'
BY DEF Turn, InTurn

\* A step of the callback of call i, or of the handler that is due for it.
LEMMA CallTurn ==
  ASSUME Turn, IInv, NEW i \in InTurn, i \in Calls, posted' \subseteq posted,
         UNCHANGED <<arrived, fetched, taken, reads>>,
         restarts' \subseteq restarts \cup {i},
         \A j \in Calls : j # i => pc'[j] = pc[j]
  PROVE  Turn'
<1>1. i = taken /\ reads = 0 /\ arrived = fetched
  BY TurnIsExclusive DEF Turn
<1>2. InTurn' \subseteq InTurn \cup {i}
  BY DEF InTurn
<1>3. InTurn' \subseteq {taken'} /\ reads' = 0 /\ arrived' = fetched'
  BY <1>1, <1>2 DEF Turn
<1>4. ASSUME NEW j \in Calls, j < taken' PROVE pc'[j] = "replied"
  <2>1. j < taken /\ j # i
    BY <1>1, <1>4 DEF Calls
  <2> QED BY <2>1 DEF Turn
<1> QED BY <1>3, <1>4 DEF Turn

LEMMA ReadEndTurn ==
  ASSUME Turn, IInv, ReadFails \/ \E k \in Calls : ReadCompletes(k)
  PROVE  Turn'
<1>1. reads > 0 /\ reads = 1 /\ InTurn = {}
  BY DEF IInv, Counts, HalfDuplex, ReadFails, ReadCompletes
<1>2. UNCHANGED <<taken, fetched, posted, pc, restarts>>
  BY DEF ReadFails, ReadCompletes, callVars
<1>3. taken \in Calls => pc[taken] = "replied"
  BY <1>1 DEF Turn
<1> QED BY <1>1, <1>2, <1>3 DEF Turn, InTurn

LEMMA StartTurn ==
  ASSUME Turn, IInv, NEW i \in Calls, Start(i)
  PROVE  Turn'
<1>1. i \in InTurn /\ pc[i] = "replied"
  BY DEF Start, InTurn, IInv, Phases
<1>2. i = taken /\ InTurn = {i} /\ reads = 0 /\ arrived = fetched /\ taken \in Nat
  BY <1>1, TurnIsExclusive DEF Turn, IInv, Counts
<1>3. i \notin posted
  BY DEF Start, IInv, Phases
<1>4. posted = {} /\ restarts' = {} /\ UNCHANGED <<arrived, fetched, pc>>
  BY <1>2, <1>3 DEF Start, InTurn
<1>5. \A j \in Calls : pc[j] \notin {"body", "parked"}
  BY <1>1, <1>2 DEF InTurn
<1>6. CASE taken' = taken + 1 /\ posted' = posted \cup {taken'} /\ UNCHANGED reads
  <2>1. InTurn' \subseteq {taken'}
    BY <1>4, <1>5, <1>6 DEF InTurn
  <2>2. \A j \in Calls : j < taken' => pc'[j] = "replied"
    BY <1>1, <1>2, <1>4, <1>6 DEF Turn, Calls
  <2> QED BY <1>2, <1>4, <1>6, <2>1, <2>2 DEF Turn
<1>7. CASE UNCHANGED <<taken, posted>>
  BY <1>1, <1>2, <1>4, <1>5, <1>7 DEF Turn, InTurn
<1> QED BY <1>6, <1>7 DEF Start

LEMMA HandleReadTurn ==
  ASSUME Turn, IInv, HandleRead
  PROVE  Turn'
<1> DEFINE i == taken + 1
<1>1. arrived > fetched /\ arrived # fetched /\ InTurn = {} /\ reads = 0 /\ taken \in Nat
  BY DEF HandleRead, IInv, Counts, HalfDuplex
<1>2. /\ taken' = i /\ fetched' = arrived /\ UNCHANGED <<arrived, reads, posted>> /\ Dispatch(i)
  BY DEF HandleRead
<1>3. posted = {} /\ restarts = {}
  BY <1>1 DEF InTurn
<1>4. restarts' \subseteq {i} /\ \A j \in Calls : j # i => pc'[j] = pc[j]
  BY <1>2, <1>3, DispatchEffect DEF IInv, Counts
<1>5. InTurn' \subseteq {i}
  BY <1>1, <1>2, <1>3, <1>4 DEF InTurn
<1>6. \A j \in Calls : j < i => pc'[j] = "replied"
  <2>1. \A j \in Calls : j < i => j < taken \/ j = taken
    BY <1>1 DEF Calls
  <2>2. taken \in Calls => pc[taken] = "replied"
    BY <1>1 DEF Turn
  <2>3. \A j \in Calls : j < i => j # i
    BY <1>1 DEF Calls
  <2> QED BY <1>4, <2>1, <2>2, <2>3 DEF Turn
<1> QED BY <1>1, <1>2, <1>5, <1>6 DEF Turn

LEMMA HandlePostedTurn ==
  ASSUME Turn, IInv, NEW i \in Calls, HandlePosted(i)
  PROVE  Turn'
<1>1. i \in InTurn /\ posted' \subseteq posted /\ UNCHANGED <<arrived, fetched, taken, reads>>
      /\ Dispatch(i)
  BY DEF HandlePosted, InTurn
<1>2. restarts' \subseteq restarts \cup {i} /\ \A j \in Calls : j # i => pc'[j] = pc[j]
  BY <1>1, DispatchEffect DEF IInv, Counts
<1> QED BY <1>1, <1>2, CallTurn

LEMMA CallbackTurn ==
  ASSUME Turn, IInv, NEW i \in Calls, Open(i),
         \/ CallbackContinues(i) \/ CallbackReplies(i) \/ CallbackStops(i)
         \/ CallbackThrows(i) \/ CallbackParks(i)
         \/ \E continues \in BOOLEAN : OnewayReplies(i, continues)
  PROVE  Turn'
<1>1. i \in InTurn /\ pc \in [Calls -> States]
  BY DEF Open, InTurn, IInv, Counts
<1>2. UNCHANGED <<arrived, fetched, taken, reads, posted>>
  BY DEF CallbackContinues, CallbackReplies, CallbackStops, CallbackThrows,
     CallbackParks, OnewayReplies, readVars
<1>3. restarts' \subseteq restarts \cup {i} /\ \A j \in Calls : j # i => pc'[j] = pc[j]
  BY <1>1 DEF CallbackContinues, CallbackReplies, CallbackStops, CallbackThrows,
     CallbackParks, OnewayReplies, ReplyError, callVars
<1> QED BY <1>1, <1>2, <1>3, CallTurn

LEMMA SessionKeepsTurn == Turn /\ IInv /\ SessionNext => Turn'
<1> SUFFICES ASSUME Turn, IInv, SessionNext PROVE Turn'
  OBVIOUS
<1>1. ASSUME NEW i \in Calls, CallStep(i) PROVE Turn'
  <2>1. CASE Start(i)
    BY <2>1, StartTurn
  <2>2. CASE HandlePosted(i)
    BY <2>2, HandlePostedTurn
  <2>3. CASE \/ CallbackContinues(i) \/ CallbackReplies(i) \/ CallbackStops(i)
             \/ CallbackThrows(i) \/ CallbackParks(i)
             \/ \E continues \in BOOLEAN : OnewayReplies(i, continues)
    <3>1. Open(i)
      BY <2>3 DEF CallbackContinues, CallbackReplies, CallbackStops, CallbackThrows,
         CallbackParks, OnewayReplies
    <3> QED BY <2>3, <3>1, CallbackTurn
  <2> QED BY <1>1, <2>1, <2>2, <2>3 DEF CallStep
<1>2. CASE ReadFails \/ \E k \in Calls : ReadCompletes(k)
  BY <1>2, ReadEndTurn
<1>3. CASE HandleRead
  BY <1>3, HandleReadTurn
<1>4. CASE \/ SendFailed \/ WriteStrandStep
           \/ \E r \in running : WriteSucceeds(r) \/ WriteFails(r)
  BY <1>4, ElsewhereTurn DEF SendFailed, WriteStrandStep, WriteSucceeds, WriteFails,
     readVars, callVars
<1> QED BY <1>1, <1>2, <1>3, <1>4 DEF SessionNext
-----------------------------------------------------------------------------
(* The order of the replies.                                               *)

\* What stands before the first reply.
First == [req |-> 0, n |-> 0, last |-> TRUE]

Link == Reply \cup {First}

\* Reply b may come directly after a, c being the requests.
MayFollow(a, b, c) ==
    \/ b.req = a.req /\ ~a.last /\ b.n = a.n + 1
    \/ /\ b.req > a.req /\ a.last /\ b.n = 1
       /\ \A i \in a.req + 1 .. b.req - 1 : c[i].mode = "oneway"

\* The replies s to the first t requests of c are in order.
InOrder(s, t, c) == /\ \A k \in 1 .. Len(s) : s[k].req \in 0 .. t
                    /\ \A k \in 2 .. Len(s) : MayFollow(s[k - 1], s[k], c)

LEMMA OrderStays ==
  ASSUME NEW S, NEW s \in Seq(S), NEW c, NEW d, NEW t \in Nat, NEW u \in Nat, t <= u,
         \A i \in 1 .. t : d[i] = c[i], InOrder(s, t, c)
  PROVE  InOrder(s, u, d)
<1>1. Len(s) \in Nat
  BY LenProperties
<1>2. \A k \in 1 .. Len(s) : s[k].req \in 0 .. u
  BY DEF InOrder
<1>3. ASSUME NEW k \in 2 .. Len(s) PROVE MayFollow(s[k - 1], s[k], d)
  <2>1. k \in 1 .. Len(s) /\ k - 1 \in 1 .. Len(s)
    BY <1>1, <1>3
  <2>2. s[k].req \in 0 .. t /\ s[k - 1].req \in 0 .. t
    BY <2>1 DEF InOrder
  <2>3. MayFollow(s[k - 1], s[k], c)
    BY <1>3 DEF InOrder
  <2>4. \A i \in s[k - 1].req + 1 .. s[k].req - 1 : d[i] = c[i]
    BY <2>2
  <2> QED BY <2>3, <2>4 DEF MayFollow
<1> QED BY <1>2, <1>3 DEF InOrder

LEMMA OrderOfPart ==
  ASSUME NEW S, NEW s \in Seq(S), NEW p \in Seq(S), NEW c, NEW t, InOrder(s \o p, t, c)
  PROVE  InOrder(s, t, c)
<1> DEFINE w == s \o p
<1>1. Len(s) \in Nat /\ Len(w) \in Nat /\ Len(s) <= Len(w)
      /\ \A k \in 1 .. Len(s) : w[k] = s[k]
  BY ConcatProperties, LenProperties
<1>2. InOrder(w, t, c)
  OBVIOUS
<1> HIDE DEF w
<1>3. \A k \in 1 .. Len(s) : s[k].req \in 0 .. t
  BY <1>1, <1>2 DEF InOrder
<1>4. ASSUME NEW k \in 2 .. Len(s) PROVE MayFollow(s[k - 1], s[k], c)
  <2>1. k \in 1 .. Len(s) /\ k - 1 \in 1 .. Len(s) /\ k \in 2 .. Len(w)
    BY <1>1, <1>4
  <2> QED BY <1>1, <1>2, <2>1 DEF InOrder
<1> QED BY <1>3, <1>4 DEF InOrder

LEMMA OrderOfAppend ==
  ASSUME NEW S, NEW s \in Seq(S), s # <<>>, NEW b \in S, NEW c, NEW t,
         InOrder(s, t, c), b.req \in 0 .. t, MayFollow(s[Len(s)], b, c)
  PROVE  InOrder(Append(s, b), t, c)
<1> DEFINE w == Append(s, b)
<1>1. Len(s) \in Nat /\ Len(s) > 0 /\ Len(w) = Len(s) + 1 /\ w[Len(s) + 1] = b
      /\ \A k \in 1 .. Len(s) : w[k] = s[k]
  BY AppendProperties, LenProperties, EmptySeq
<1> HIDE DEF w
<1>2. ASSUME NEW k \in 1 .. Len(w) PROVE w[k].req \in 0 .. t
  <2>1. k \in 1 .. Len(s) \/ k = Len(s) + 1
    BY <1>1
  <2> QED BY <1>1, <2>1 DEF InOrder
<1>3. ASSUME NEW k \in 2 .. Len(w) PROVE MayFollow(w[k - 1], w[k], c)
  <2>1. CASE k = Len(s) + 1
    BY <1>1, <2>1
  <2>2. CASE k # Len(s) + 1
    <3>1. k \in 2 .. Len(s) /\ k \in 1 .. Len(s) /\ k - 1 \in 1 .. Len(s)
      BY <1>1, <2>2
    <3> QED BY <1>1, <3>1 DEF InOrder
  <2> QED BY <2>1, <2>2
<1>4. InOrder(w, t, c)
  BY <1>2, <1>3 DEF InOrder
<1> QED BY <1>4 DEF w

\* e is the newest reply: that of a call which goes on, or the final one of its
\* call, after which only oneway calls have been served.
Newest(e, p, r, c) ==
    /\ ~e.last => /\ p[e.req] \in {"body", "parked", "dropped"}
                  /\ c[e.req].mode = "more"
                  /\ e.n = r[e.req]
    /\ e.last /\ e.req > 0 => p[e.req] = "replied"
    /\ \A j \in Calls : j > e.req =>
           /\ p[j] = "replied" => c[j].mode = "oneway"
           /\ p[j] # "replied" => r[j] = 0

\* The reply being written, the replies written, and all replies in the order
\* in which they get to the peer.
Active == IF running = {} THEN <<>> ELSE <<CHOOSE r \in running : TRUE>>
Written == <<First>> \o s2c
Flow == Written \o (Active \o Strand!Pending)

\* No write has failed.
Intact == failures = 0 /\ ~send_ec

FlowInv == /\ InOrder(Written, taken, c2s)
           /\ Intact => /\ InOrder(Flow, taken, c2s)
                        /\ Newest(Flow[Len(Flow)], pc, replies, c2s)

LEMMA ActiveIs ==
  /\ running = {} => Active = <<>>
  /\ \A r : running = {r} => Active = <<r>>
BY DEF Active

LEMMA FlowTypes ==
  ASSUME Types
  PROVE  /\ Written \in Seq(Link) /\ Written # <<>>
         /\ Active \in Seq(Link) /\ Strand!Pending \in Seq(Link)
         /\ Flow \in Seq(Link) /\ Flow # <<>>
         /\ Len(Flow) \in Nat /\ Len(Flow) > 0 /\ Flow[Len(Flow)] \in Link
<1>1. /\ s2c \in Seq(Link) /\ queue \in Seq(Link) /\ pushes \in Seq(Link)
      /\ <<First>> \in Seq(Link) /\ Len(<<First>>) = 1
  BY DEF Types, WireTypes, Strand!IInv, Strand!TypeOK, Link
<1>2. Written \in Seq(Link) /\ Len(Written) = 1 + Len(s2c) /\ Strand!Pending \in Seq(Link)
  BY <1>1, ConcatProperties DEF Written, Strand!Pending
<1>3. Active \in Seq(Link)
  <2>1. CASE running = {}
    BY <2>1, ActiveIs, EmptySeq
  <2>2. ASSUME NEW r \in running PROVE Active \in Seq(Link)
    <3>1. running = {r} /\ r \in Link
      BY <2>2 DEF Types, Strand!IInv, Strand!TypeOK, Strand!TokenInv, Strand!OneToken, Link
    <3>2. Active = <<r>>
      BY <3>1, ActiveIs
    <3> QED BY <3>1, <3>2
  <2> QED BY <2>1, <2>2
<1> DEFINE rest == Active \o Strand!Pending
<1>4. rest \in Seq(Link)
  BY <1>2, <1>3, ConcatProperties
<1> HIDE DEF rest
<1>5. Written \o rest \in Seq(Link) /\ Len(Written \o rest) = Len(Written) + Len(rest)
  BY <1>2, <1>4, ConcatProperties
<1>6. Flow = Written \o rest
  BY DEF Flow, rest
<1>7. Flow \in Seq(Link) /\ Len(Flow) \in Nat /\ Len(Flow) > 0
  BY <1>1, <1>2, <1>4, <1>5, <1>6, LenProperties
<1>8. Flow[Len(Flow)] \in Link
  BY <1>7, ElementOfSeq
<1>9. Written # <<>> /\ Flow # <<>>
  BY <1>1, <1>2, <1>7, LenProperties, EmptySeq
<1> QED BY <1>2, <1>3, <1>7, <1>8, <1>9

\* execute() moves the oldest reply from the queue to the wire.
LEMMA ExecuteKeepsFlow ==
  ASSUME NEW q \in Seq(Reply), NEW p \in Seq(Reply), running = {},
         WriteStrand!Execute(q), pushes' = p
  PROVE  Active' \o Strand!Pending' = q \o p
<1>1. CASE q = <<>>
  <2>1. queue' = <<>> /\ running' = {}
    BY <1>1 DEF WriteStrand!Execute
  <2>2. Active' = <<>>
    BY <2>1 DEF Active
  <2>3. Strand!Pending' = <<>> \o p
    BY <2>1 DEF Strand!Pending
  <2>4. <<>> \o p = p
    BY ConcatEmptySeq
  <2> QED BY <1>1, <2>2, <2>3, <2>4
<1>2. CASE q # <<>>
  <2>1. queue' = Tail(q) /\ running' = {Head(q)}
    BY <1>2 DEF WriteStrand!Execute
  <2>2. Active' = <<Head(q)>>
    BY <2>1 DEF Active
  <2>3. Strand!Pending' = Tail(q) \o p
    BY <2>1 DEF Strand!Pending
  <2>4. <<Head(q)>> \in Seq(Reply) /\ Tail(q) \in Seq(Reply) /\ q = <<Head(q)>> \o Tail(q)
    BY <1>2, HeadBeforeTail
  <2>5. <<Head(q)>> \o (Tail(q) \o p) = (<<Head(q)>> \o Tail(q)) \o p
    BY <2>4, ConcatAssociative
  <2> QED BY <2>2, <2>3, <2>4, <2>5
<1> QED BY <1>1, <1>2

\* The write strand takes replies to the wire in the order of the pushes.
LEMMA LambdaKeepsRest ==
  ASSUME Types, WriteStrand!RunPush \/ WriteStrand!RunNext
  PROVE  Active' \o Strand!Pending' = Active \o Strand!Pending
<1>1. queue \in Seq(Reply) /\ pushes \in Seq(Reply) /\ Strand!TokenInv /\ nexts \in Nat
  BY DEF Types, Strand!IInv, Strand!TypeOK
<1>2. Active' \o Strand!Pending' = Active \o Strand!Pending
  <2>1. CASE WriteStrand!RunPush
    <3> DEFINE q == Append(queue, Head(pushes))
    <3>1. pushes # <<>> /\ pushes' = Tail(pushes)
      BY <2>1 DEF WriteStrand!RunPush
    <3>2. Head(pushes) \in Reply /\ Tail(pushes) \in Seq(Reply)
      BY <1>1, <3>1, HeadBeforeTail
    <3>3. q \in Seq(Reply)
      BY <1>1, <3>2, AppendProperties
    <3>4. Strand!Pending = q \o Tail(pushes)
      BY <1>1, <3>1, MoveHead DEF Strand!Pending
    <3>5. CASE executing
      <4>1. queue' = q /\ running' = running
        BY <2>1, <3>5 DEF WriteStrand!RunPush
      <4>2. Strand!Pending' = Strand!Pending
        BY <3>1, <3>4, <4>1 DEF Strand!Pending
      <4>3. Active' = Active
        BY <4>1 DEF Active
      <4> QED BY <4>2, <4>3
    <3>6. CASE ~executing
      <4>1. running = {} /\ WriteStrand!Execute(q)
        BY <1>1, <2>1, <3>6 DEF WriteStrand!RunPush, Strand!TokenInv
      <4> HIDE DEF q
      <4>2. Active' \o Strand!Pending' = q \o Tail(pushes)
        BY <3>1, <3>2, <3>3, <4>1, ExecuteKeepsFlow
      <4>3. Active = <<>> /\ q \o Tail(pushes) \in Seq(Reply)
        BY <3>2, <3>3, <4>1, ActiveIs, ConcatProperties
      <4>4. <<>> \o (q \o Tail(pushes)) = q \o Tail(pushes)
        BY <4>3, ConcatEmptySeq
      <4> QED BY <3>4, <4>2, <4>3, <4>4
    <3> QED BY <3>5, <3>6
  <2>2. CASE WriteStrand!RunNext
    <3>1. running = {} /\ WriteStrand!Execute(queue) /\ pushes' = pushes
      BY <1>1, <2>2 DEF WriteStrand!RunNext, Strand!TokenInv, Strand!OneToken
    <3>2. Active' \o Strand!Pending' = queue \o pushes
      BY <1>1, <3>1, ExecuteKeepsFlow
    <3>3. Active = <<>> /\ queue \o pushes \in Seq(Reply)
      BY <1>1, <3>1, ActiveIs, ConcatProperties
    <3>4. <<>> \o (queue \o pushes) = queue \o pushes
      BY <3>3, ConcatEmptySeq
    <3>5. Strand!Pending = queue \o pushes
      BY DEF Strand!Pending
    <3> QED BY <3>2, <3>3, <3>4, <3>5
  <2> QED BY <2>1, <2>2
<1> QED BY <1>2

LEMMA LambdaKeepsFlow ==
  ASSUME Types, WriteStrand!RunPush \/ WriteStrand!RunNext, UNCHANGED s2c
  PROVE  Flow' = Flow
<1>1. Written' = Written
  BY DEF Written
<1> QED BY <1>1, LambdaKeepsRest DEF Flow

\* A write that succeeds.
LEMMA WriteKeepsFlow ==
  ASSUME Types, NEW r \in running, WriteSucceeds(r)
  PROVE  Flow' = Flow
<1>1. WriteStrand!Complete(r) /\ s2c' = Append(s2c, r)
  BY DEF WriteSucceeds
<1>2. running = {r} /\ r \in Reply /\ r \in Link
  BY DEF Types, Strand!IInv, Strand!TypeOK, Strand!TokenInv, Strand!OneToken, Link
<1>3. running' = {} /\ UNCHANGED <<queue, pushes>>
  BY <1>1, <1>2 DEF WriteStrand!Complete
<1>4. Active = <<r>> /\ Strand!Pending' = Strand!Pending
  BY <1>2, <1>3, ActiveIs DEF Strand!Pending
<1>5. Active' = <<>>
  BY <1>3 DEF Active
<1>6. /\ <<First>> \in Seq(Link) /\ s2c \in Seq(Link) /\ <<r>> \in Seq(Link)
      /\ Strand!Pending \in Seq(Link)
  BY <1>2, FlowTypes DEF Link, Types, WireTypes
<1>7. s2c' = s2c \o <<r>>
  BY <1>1, <1>6, AppendIsConcat
<1>8. Written' = Written \o <<r>>
  BY <1>6, <1>7, ConcatAssociative DEF Written
<1>9. <<>> \o Strand!Pending = Strand!Pending
  BY <1>6, ConcatEmptySeq
<1>10. (Written \o <<r>>) \o Strand!Pending = Written \o (<<r>> \o Strand!Pending)
  <2>1. Written \in Seq(Link)
    BY FlowTypes
  <2> QED BY <1>6, <2>1, ConcatAssociative, SMTT(30)
<1>11. Flow' = Written' \o (<<>> \o Strand!Pending)
  BY <1>4, <1>5 DEF Flow
<1>12. Flow = Written \o (<<r>> \o Strand!Pending)
  BY <1>4 DEF Flow
<1> QED BY <1>8, <1>9, <1>10, <1>11, <1>12

\* A reply that is sent goes behind all others.
LEMMA SendKeepsFlow ==
  ASSUME Types, NEW r \in Reply, WriteStrand!Push(r), UNCHANGED s2c
  PROVE  Flow' = Append(Flow, r)
<1>1. pushes' = Append(pushes, r) /\ UNCHANGED <<queue, running>>
  BY DEF WriteStrand!Push
<1>2. queue \in Seq(Reply) /\ pushes \in Seq(Reply) /\ r \in Link
  BY DEF Types, Strand!IInv, Strand!TypeOK, Link
<1>3. Strand!Pending' = Append(Strand!Pending, r)
  BY <1>1, <1>2, AppendToConcat DEF Strand!Pending
<1>4. Active' = Active /\ Written' = Written
  BY <1>1 DEF Active, Written
<1>5. Active \o Append(Strand!Pending, r) = Append(Active \o Strand!Pending, r)
  BY <1>2, FlowTypes, AppendToConcat
<1>6. Active \o Strand!Pending \in Seq(Link)
  BY FlowTypes, ConcatProperties
<1>7. Written \o Append(Active \o Strand!Pending, r) = Append(Written \o (Active \o Strand!Pending), r)
  BY <1>2, <1>6, FlowTypes, AppendToConcat, SMTT(30)
<1>8. Flow' = Written \o (Active \o Append(Strand!Pending, r))
  BY <1>3, <1>4 DEF Flow
<1>9. Flow = Written \o (Active \o Strand!Pending)
  BY DEF Flow
<1> QED BY <1>5, <1>7, <1>8, <1>9

\* The newest reply when no call goes on, and more requests may have come.
LEMMA NewestKept ==
  ASSUME Types, NEW e \in Link, e.req \in 0 .. taken, Newest(e, pc, replies, c2s),
         UNCHANGED <<pc, replies>>, \A i \in 1 .. taken : c2s'[i] = c2s[i]
  PROVE  Newest(e, pc', replies', c2s')
<1>1. taken \in Nat
  BY TakenIsCall DEF Types
<1>2. ~e.last => e.req \in 1 .. taken
  BY <1>1 DEF Link, First, Reply, Calls
<1>3. \A j \in Calls : j > e.req /\ pc[j] = "replied" => j \in 1 .. taken
  BY <1>1 DEF Types, CallTypes, Calls
<1> QED BY <1>2, <1>3 DEF Newest

\* The newest reply when call i goes on without sending one.
LEMMA NewestPasses ==
  ASSUME Types, NEW e \in Link, Newest(e, pc, replies, c2s), NEW i \in Calls,
         pc[i] # "replied", c2s' = c2s,
         \A j \in Calls : j # i => pc'[j] = pc[j] /\ replies'[j] = replies[j],
         \/ pc'[i] \in {"body", "parked", "dropped"} /\ replies'[i] = replies[i]
         \/ pc'[i] = "replied" /\ c2s[i].mode = "oneway"
  PROVE  Newest(e, pc', replies', c2s')
<1>1. e.req \in Calls \/ (e.last /\ ~(e.req > 0))
  BY DEF Link, First, Reply
<1>2. ~e.last => e.req \in Calls
  BY <1>1
<1>3. ~e.last /\ e.req = i => pc'[i] \in {"body", "parked", "dropped"} /\ replies'[i] = replies[i]
  BY DEF Newest
<1>4. ~e.last => /\ pc'[e.req] \in {"body", "parked", "dropped"}
                 /\ c2s'[e.req].mode = "more" /\ e.n = replies'[e.req]
  BY <1>2, <1>3 DEF Newest
<1>5. e.last /\ e.req > 0 => pc'[e.req] = "replied"
  BY <1>1 DEF Newest
<1>6. ASSUME NEW j \in Calls, j > e.req
      PROVE  /\ pc'[j] = "replied" => c2s'[j].mode = "oneway"
             /\ pc'[j] # "replied" => replies'[j] = 0
  BY <1>6 DEF Newest
<1> QED BY <1>4, <1>5, <1>6 DEF Newest

\* The replies written are the first of all replies, also after a step.
LEMMA WrittenInOrder ==
  Types /\ InOrder(Flow, taken, c2s) => InOrder(Written, taken, c2s)
<1> SUFFICES ASSUME Types, InOrder(Flow, taken, c2s) PROVE InOrder(Written, taken, c2s)
  OBVIOUS
<1>1. Active \o Strand!Pending \in Seq(Link)
  BY FlowTypes, ConcatProperties
<1>2. InOrder(Written \o (Active \o Strand!Pending), taken, c2s)
  BY DEF Flow
<1> QED BY <1>1, <1>2, FlowTypes, OrderOfPart

LEMMA WrittenInOrderNext ==
  (Types /\ InOrder(Flow, taken, c2s) => InOrder(Written, taken, c2s))'
BY WrittenInOrder, PTL

\* Steps that put no reply behind the newest one.
LEMMA FlowStays ==
  ASSUME Types, Types', FlowInv, taken' \in Nat, taken <= taken',
         \A i \in 1 .. taken : c2s'[i] = c2s[i],
         UNCHANGED s2c \/ Intact',
         Intact' => Intact /\ Flow' = Flow,
         \A e \in Link : e.req \in 0 .. taken /\ Newest(e, pc, replies, c2s)
                            => Newest(e, pc', replies', c2s')
  PROVE  FlowInv'
<1>1. taken \in Nat
  BY TakenIsCall DEF Types
<1>2. ASSUME Intact'
      PROVE  InOrder(Flow', taken', c2s') /\ Newest(Flow'[Len(Flow')], pc', replies', c2s')
  <2>1. InOrder(Flow, taken, c2s) /\ Newest(Flow[Len(Flow)], pc, replies, c2s) /\ Flow' = Flow
    BY <1>2 DEF FlowInv
  <2>2. InOrder(Flow, taken', c2s')
    BY <1>1, <2>1, FlowTypes, OrderStays
  <2>3. Flow[Len(Flow)] \in Link /\ Flow[Len(Flow)].req \in 0 .. taken
    BY <2>1, FlowTypes DEF InOrder
  <2>4. Newest(Flow[Len(Flow)], pc', replies', c2s')
    BY <2>1, <2>3
  <2> QED BY <2>1, <2>2, <2>4
<1>3. InOrder(Written', taken', c2s')
  <2>1. CASE UNCHANGED s2c
    <3>1. Written' = Written
      BY <2>1 DEF Written
    <3>2. InOrder(Written, taken', c2s')
      BY <1>1, FlowTypes, OrderStays DEF FlowInv
    <3> QED BY <3>1, <3>2
  <2>2. CASE Intact'
    BY <1>2, <2>2, WrittenInOrderNext
  <2> QED BY <2>1, <2>2
<1> QED BY <1>2, <1>3 DEF FlowInv

\* A reply of call i goes behind all others.
LEMMA ReplyFollows ==
  ASSUME Types, Types', FlowInv, NEW i \in Calls, NEW last \in BOOLEAN,
         SendReply(i, last), UNCHANGED <<c2s, s2c, failures, send_ec>>,
         pc[i] # "replied", i = taken', taken <= taken',
         \A j \in Calls : j < i => pc[j] = "replied",
         \A j \in Calls : j # i => pc'[j] = pc[j],
         IF last THEN pc'[i] = "replied"
                 ELSE pc'[i] \in {"body", "parked"} /\ c2s[i].mode = "more"
  PROVE  FlowInv'
<1> DEFINE b == [req |-> i, n |-> replies[i] + 1, last |-> last]
           e == Flow[Len(Flow)]
<1>1. taken \in Nat /\ taken' \in Nat /\ replies[i] <= MaxReplies
  BY TakenIsCall DEF Types, CallTypes, Calls
<1>2. /\ WriteStrand!Push(b) /\ b \in Reply /\ b \in Link
      /\ replies'[i] = b.n /\ \A j \in Calls : j # i => replies'[j] = replies[j]
  BY <1>1, SendTypes DEF SendReply, Link
<1>3. Flow' = Append(Flow, b)
  BY <1>2, SendKeepsFlow
<1>4. Written' = Written /\ Intact' = Intact
  BY DEF Written, Intact
<1>5. InOrder(Written', taken', c2s')
  BY <1>1, <1>4, FlowTypes, OrderStays DEF FlowInv
<1>6. ASSUME Intact
      PROVE  InOrder(Flow', taken', c2s') /\ Newest(Flow'[Len(Flow')], pc', replies', c2s')
  <2>1. InOrder(Flow, taken', c2s) /\ Newest(e, pc, replies, c2s)
    BY <1>1, <1>6, FlowTypes, OrderStays DEF FlowInv
  <2>2. e \in Link /\ e.req \in 0 .. taken
    BY <1>6, FlowTypes DEF FlowInv, InOrder
  <2> HIDE DEF e
  <2>3. b.req = i /\ b.n = replies[i] + 1 /\ b.last = last /\ i \in Nat
    BY DEF Calls
  <2> HIDE DEF b
  <2>4. MayFollow(e, b, c2s)
    <3>1. CASE e.req = i
      <4>1. ~e.last
        BY <1>1, <2>1, <2>3, <3>1 DEF Newest, Calls
      <4> QED BY <2>1, <2>3, <3>1, <4>1 DEF Newest, MayFollow
    <3>2. CASE e.req # i
      <4>1. e.req < i
        BY <1>1, <2>2, <3>2
      <4>2. e.last
        <5>1. SUFFICES ASSUME ~e.last PROVE FALSE
          OBVIOUS
        <5>2. e.req \in Calls
          BY <2>2, <5>1 DEF Link, Reply, First
        <5> QED BY <2>1, <4>1, <5>1, <5>2 DEF Newest
      <4>3. replies[i] = 0
        BY <2>1, <4>1 DEF Newest
      <4>4. ASSUME NEW j \in e.req + 1 .. i - 1 PROVE c2s[j].mode = "oneway"
        <5>1. j \in Calls /\ j > e.req /\ j < i
          BY <1>1, <2>2, <4>4, BoundAssumption DEF Calls
        <5>2. pc[j] = "replied"
          BY <5>1
        <5> QED BY <2>1, <5>1, <5>2 DEF Newest
      <4>5. b.req > e.req /\ b.n = 1
        BY <2>3, <4>1, <4>3
      <4> QED BY <2>3, <4>2, <4>4, <4>5 DEF MayFollow
    <3> QED BY <3>1, <3>2
  <2>5. b.req \in 0 .. taken'
    BY <1>1, <2>3
  <2>6. InOrder(Append(Flow, b), taken', c2s)
    BY <1>2, <2>1, <2>4, <2>5, FlowTypes, OrderOfAppend DEF e
  <2>7. Append(Flow, b)[Len(Append(Flow, b))] = b
    BY <1>2, FlowTypes, AppendProperties
  <2>8. Newest(b, pc', replies', c2s)
    <3>1. ASSUME NEW j \in Calls, j > i PROVE pc'[j] # "replied" /\ replies'[j] = 0
      <4>1. j > taken' /\ j # i
        BY <3>1
      <4>2. pc'[j] = "waiting"
        BY <4>1 DEF Types, CallTypes
      <4> QED BY <4>2 DEF Types, CallTypes
    <3> QED BY <1>2, <2>3, <3>1 DEF Newest
  <2> QED BY <1>3, <2>6, <2>7, <2>8
<1> QED BY <1>4, <1>5, <1>6 DEF FlowInv

\* Steps that neither send a reply nor let a call go on.
LEMMA QuietFlow ==
  ASSUME Types, Types', FlowInv, UNCHANGED <<pc, replies, s2c, strandVars>>,
         taken <= taken', \A i \in 1 .. taken : c2s'[i] = c2s[i], Intact' => Intact
  PROVE  FlowInv'
<1>1. Flow' = Flow
  BY DEF Flow, Written, Active, Strand!Pending, strandVars
<1>2. taken' \in Nat
  BY DEF Types, ReadTypes, WireTypes
<1> QED BY <1>1, <1>2, FlowStays, NewestKept

\* Call i goes on without a reply.
LEMMA SilentFlow ==
  ASSUME Types, Types', FlowInv, NEW i \in Calls, pc[i] # "replied",
         UNCHANGED <<c2s, s2c, strandVars, failures, send_ec>>, taken <= taken',
         \A j \in Calls : j # i => pc'[j] = pc[j] /\ replies'[j] = replies[j],
         \/ pc'[i] \in {"body", "parked", "dropped"} /\ replies'[i] = replies[i]
         \/ pc'[i] = "replied" /\ c2s[i].mode = "oneway"
  PROVE  FlowInv'
<1>1. Flow' = Flow /\ Intact' = Intact
  BY DEF Flow, Written, Active, Strand!Pending, strandVars, Intact
<1>2. taken' \in Nat
  BY DEF Types, ReadTypes, WireTypes
<1>3. \A e \in Link : Newest(e, pc, replies, c2s) => Newest(e, pc', replies', c2s')
  BY NewestPasses
<1> QED BY <1>1, <1>2, <1>3, FlowStays

\* The error reply that ends call i, or the end of the process.
LEMMA ErrorFlow ==
  ASSUME Types, Types', FlowInv, NEW i \in Calls, pc[i] # "replied", ReplyError(i),
         UNCHANGED <<c2s, s2c, failures, send_ec>>, i = taken', taken <= taken',
         \A j \in Calls : j < i => pc[j] = "replied"
  PROVE  FlowInv'
<1>1. CASE send_ec
  BY <1>1, QuietFlow DEF ReplyError, callVars, Intact
<1>2. CASE ~send_ec
  <2>1. SendReply(i, TRUE) /\ pc' = [pc EXCEPT ![i] = "replied"]
    BY <1>2 DEF ReplyError
  <2>2. pc'[i] = "replied" /\ \A j \in Calls : j # i => pc'[j] = pc[j]
    BY <2>1 DEF Types, CallTypes
  <2> QED BY <2>1, <2>2, ReplyFollows
<1> QED BY <1>1, <1>2

LEMMA DispatchFlow ==
  ASSUME Types, Types', FlowInv, NEW i \in Calls, pc[i] = "waiting", Dispatch(i),
         UNCHANGED <<c2s, s2c, failures, send_ec>>, i = taken', taken <= taken',
         \A j \in Calls : j < i => pc[j] = "replied"
  PROVE  FlowInv'
<1>1. CASE ReplyError(i)
  BY <1>1, ErrorFlow
<1>2. CASE /\ \/ pc' = [pc EXCEPT ![i] = "dropped"] \/ pc' = [pc EXCEPT ![i] = "body"]
           /\ UNCHANGED <<replies, strandVars>>
  <2>1. pc'[i] \in {"dropped", "body"} /\ \A j \in Calls : j # i => pc'[j] = pc[j]
    BY <1>2 DEF Types, CallTypes
  <2> QED BY <1>2, <2>1, SilentFlow
<1> QED BY <1>1, <1>2 DEF Dispatch

\* Requests before the one in turn have been replied to.
LEMMA EarlierReplied ==
  ASSUME Types, Turn, NEW i \in InTurn
  PROVE  i = taken /\ \A j \in Calls : j < i => pc[j] = "replied"
BY DEF Turn

LEMMA HandleReadFlow ==
  ASSUME Types, Types', FlowInv, IInv, Turn, HandleRead
  PROVE  FlowInv'
<1> DEFINE i == taken + 1
<1>1. /\ arrived > fetched /\ taken' = i /\ Dispatch(i)
      /\ UNCHANGED <<c2s, s2c, failures, send_ec>>
  BY DEF HandleRead, peerVars, sendVars
<1>2. i \in Calls /\ i \in Nat /\ taken \in Nat
  BY <1>1, TakenIsCall DEF Types, ReadTypes
<1>3. pc[i] = "waiting"
  BY <1>2 DEF Types, CallTypes
<1>4. taken \in Calls => pc[taken] = "replied"
  BY <1>1 DEF Turn, IInv, Counts
<1>5. \A j \in Calls : j < i => pc[j] = "replied"
  <2>1. \A j \in Calls : j < i => j < taken \/ j = taken
    BY <1>2 DEF Calls
  <2> QED BY <1>4, <2>1 DEF Turn
<1>6. taken <= taken'
  BY <1>1, <1>2
<1> HIDE DEF i
<1> QED BY <1>1, <1>2, <1>3, <1>5, <1>6, DispatchFlow

LEMMA HandlePostedFlow ==
  ASSUME Types, Types', FlowInv, Turn, NEW i \in Calls, HandlePosted(i)
  PROVE  FlowInv'
<1>1. /\ i \in InTurn /\ Dispatch(i) /\ taken' = taken
      /\ UNCHANGED <<c2s, s2c, failures, send_ec>>
  BY DEF HandlePosted, InTurn, peerVars, sendVars
<1>2. pc[i] = "waiting"
  BY DEF HandlePosted, Types, CallTypes
<1>3. taken \in Nat
  BY TakenIsCall DEF Types
<1> QED BY <1>1, <1>2, <1>3, EarlierReplied, DispatchFlow

LEMMA CallbackFlow ==
  ASSUME Types, Types', FlowInv, Turn, "oneway_continues" \notin CallbackMay,
         NEW i \in Calls, Open(i), UNCHANGED <<peerVars, readVars, sendVars>>,
         \/ CallbackContinues(i) \/ CallbackReplies(i) \/ CallbackStops(i)
         \/ CallbackThrows(i) \/ CallbackParks(i)
         \/ \E continues \in BOOLEAN : OnewayReplies(i, continues)
  PROVE  FlowInv'
<1>1. /\ i \in InTurn /\ pc[i] \in {"body", "parked"} /\ pc[i] # "replied"
      /\ pc \in [Calls -> States] /\ replies \in [Calls -> 0 .. MaxReplies + 1]
  BY DEF Open, InTurn, Types, CallTypes
<1>2. taken' = taken /\ taken \in Nat /\ UNCHANGED <<c2s, s2c, failures, send_ec>>
  BY TakenIsCall DEF Types, peerVars, readVars, sendVars
<1>3. i = taken' /\ taken <= taken' /\ \A j \in Calls : j < i => pc[j] = "replied"
  BY <1>1, <1>2, EarlierReplied
<1>4. CASE CallbackContinues(i)
  <2>1. SendReply(i, FALSE) /\ c2s[i].mode = "more" /\ pc' = pc
    BY <1>4 DEF CallbackContinues
  <2> QED BY <1>1, <1>2, <1>3, <2>1, ReplyFollows
<1>5. CASE CallbackReplies(i)
  <2>1. SendReply(i, TRUE) /\ pc' = [pc EXCEPT ![i] = "replied"]
    BY <1>5 DEF CallbackReplies
  <2>2. pc'[i] = "replied" /\ \A j \in Calls : j # i => pc'[j] = pc[j]
    BY <1>1, <2>1
  <2> QED BY <1>1, <1>2, <1>3, <2>1, <2>2, ReplyFollows
<1>6. ASSUME NEW continues \in BOOLEAN, OnewayReplies(i, continues) PROVE FlowInv'
  <2>1. /\ c2s[i].mode = "oneway" /\ UNCHANGED strandVars
        /\ pc' = [pc EXCEPT ![i] = "replied"]
        /\ replies' = [replies EXCEPT ![i] = replies[i] + 1]
    BY <1>6 DEF OnewayReplies
  <2>2. pc'[i] = "replied"
        /\ \A j \in Calls : j # i => pc'[j] = pc[j] /\ replies'[j] = replies[j]
    BY <1>1, <2>1
  <2> QED BY <1>1, <1>2, <1>3, <2>1, <2>2, SilentFlow
<1>7. CASE CallbackStops(i) \/ CallbackParks(i)
  <2>1. /\ \/ pc' = [pc EXCEPT ![i] = "dropped"] \/ pc' = [pc EXCEPT ![i] = "parked"]
        /\ UNCHANGED <<replies, strandVars>>
    BY <1>7 DEF CallbackStops, CallbackParks
  <2>2. pc'[i] \in {"dropped", "parked"} /\ \A j \in Calls : j # i => pc'[j] = pc[j]
    BY <1>1, <2>1
  <2> QED BY <1>1, <1>2, <1>3, <2>1, <2>2, SilentFlow
<1>8. CASE CallbackThrows(i)
  BY <1>1, <1>2, <1>3, <1>8, ErrorFlow DEF CallbackThrows
<1> QED BY <1>4, <1>5, <1>6, <1>7, <1>8

LEMMA WriteFlow ==
  ASSUME Types, Types', FlowInv, NEW r \in running, WriteSucceeds(r) \/ WriteFails(r)
  PROVE  FlowInv'
<1>1. UNCHANGED <<c2s, taken, pc, replies>> /\ taken' \in Nat /\ taken <= taken'
  BY TakenIsCall DEF WriteSucceeds, WriteFails, peerVars, readVars, callVars, Types
<1>2. CASE WriteSucceeds(r)
  <2>1. Flow' = Flow /\ Intact /\ Intact'
    BY <1>2, WriteKeepsFlow DEF WriteSucceeds, Intact
  <2> QED BY <1>1, <2>1, FlowStays
<1>3. CASE WriteFails(r)
  <2>1. UNCHANGED s2c /\ ~Intact'
    BY <1>3 DEF WriteFails, Intact, Types, WireTypes
  <2> QED BY <1>1, <2>1, FlowStays
<1> QED BY <1>2, <1>3

LEMMA SessionKeepsFlow ==
  ASSUME "oneway_continues" \notin CallbackMay
  PROVE  Types /\ Types' /\ FlowInv /\ IInv /\ Turn /\ SessionNext => FlowInv'
<1> SUFFICES ASSUME Types, Types', FlowInv, IInv, Turn, SessionNext PROVE FlowInv'
  OBVIOUS
<1>0. taken \in Nat
  BY TakenIsCall DEF Types
<1>1. ASSUME NEW i \in Calls, CallStep(i) PROVE FlowInv'
  <2>1. CASE Start(i)
    <3>1. taken <= taken'
      BY <1>0, <2>1 DEF Start
    <3> QED BY <2>1, <3>1, QuietFlow DEF Start, sendVars, Intact, peerVars
  <2>2. CASE HandlePosted(i)
    BY <2>2, HandlePostedFlow
  <2>3. CASE \/ CallbackContinues(i) \/ CallbackReplies(i) \/ CallbackStops(i)
             \/ CallbackThrows(i) \/ CallbackParks(i)
             \/ \E continues \in BOOLEAN : OnewayReplies(i, continues)
    <3>1. Open(i) /\ UNCHANGED <<peerVars, readVars, sendVars>>
      BY <2>3 DEF CallbackContinues, CallbackReplies, CallbackStops, CallbackThrows,
         CallbackParks, OnewayReplies
    <3> QED BY <2>3, <3>1, CallbackFlow
  <2> QED BY <1>1, <2>1, <2>2, <2>3 DEF CallStep
<1>2. CASE ReadFails \/ SendFailed \/ \E k \in Calls : ReadCompletes(k)
  <2>1. UNCHANGED <<c2s, taken, pc, replies, s2c, strandVars>>
    BY <1>2 DEF ReadFails, SendFailed, ReadCompletes, peerVars, callVars, sendVars
  <2>2. Intact' => Intact
    BY <1>2 DEF ReadFails, SendFailed, ReadCompletes, sendVars, Intact
  <2> QED BY <1>0, <2>1, <2>2, QuietFlow
<1>3. CASE HandleRead
  BY <1>3, HandleReadFlow
<1>4. CASE \E r \in running : WriteSucceeds(r) \/ WriteFails(r)
  BY <1>4, WriteFlow
<1>5. CASE WriteStrandStep
  <2>1. UNCHANGED <<c2s, taken, pc, replies, s2c, failures, send_ec>>
    BY <1>5 DEF WriteStrandStep, peerVars, readVars, callVars, sendVars
  <2>2. Flow' = Flow
    BY <1>5, <2>1, LambdaKeepsFlow DEF WriteStrandStep
  <2> QED BY <1>0, <2>1, <2>2, FlowStays DEF Intact
<1> QED BY <1>1, <1>2, <1>3, <1>4, <1>5 DEF SessionNext

\* Requests that arrive, a peer that closes, and the end of the process.
LEMMA OutsideKeepsFlow ==
  ASSUME Types, Types', FlowInv,
         UNCHANGED <<readVars, pc, replies, sendVars, strandVars>>,
         \A i \in 1 .. Len(c2s) : c2s'[i] = c2s[i]
  PROVE  FlowInv'
<1>1. UNCHANGED <<taken, failures, send_ec, s2c>>
  BY DEF readVars, sendVars
<1>2. taken \in Nat /\ taken <= Len(c2s) /\ Len(c2s) \in Nat
  BY TakenIsCall DEF Types, ReadTypes
<1>3. \A i \in 1 .. taken : c2s'[i] = c2s[i]
  BY <1>2
<1> QED BY <1>1, <1>2, <1>3, QuietFlow DEF Intact

LEMMA InitFlow == Init => FlowInv
<1> SUFFICES ASSUME Init PROVE FlowInv
  OBVIOUS
<1>1. /\ s2c = <<>> /\ queue = <<>> /\ pushes = <<>> /\ running = {} /\ taken = 0
      /\ pc = [i \in Calls |-> "waiting"] /\ replies = [i \in Calls |-> 0]
  BY DEF Init, WriteStrand!Init
<1>2. Written = <<First>> /\ Flow = <<First>>
  <2>1. <<First>> \in Seq({First}) /\ <<First>> \o <<>> = <<First>>
    BY ConcatEmptySeq
  <2>2. Active = <<>> /\ Strand!Pending = <<>> /\ <<>> \o <<>> = <<>>
    BY <1>1, EmptySeq, ConcatEmptySeq DEF Active, Strand!Pending
  <2> QED BY <1>1, <2>1, <2>2 DEF Written, Flow
<1> DEFINE w == <<First>>
<1>3. Len(w) = 1 /\ w[1] = First /\ First.req = 0 /\ First.last
  BY DEF First
<1> HIDE DEF w
<1>4. InOrder(w, taken, c2s)
  BY <1>1, <1>3 DEF InOrder
<1>5. Newest(w[Len(w)], pc, replies, c2s)
  BY <1>1, <1>3 DEF Newest
<1>6. Written = w /\ Flow = w
  BY <1>2 DEF w
<1> QED BY <1>4, <1>5, <1>6 DEF FlowInv

\* What the order of the links says of the replies written.
LEMMA FlowSuffices == Types /\ FlowInv => RepliesInOrder
<1> SUFFICES ASSUME Types, FlowInv, NEW k \in 1 .. Len(s2c)
             PROVE  LET prev == IF k = 1 THEN First ELSE s2c[k - 1]
                    IN  IF s2c[k].req = prev.req
                          THEN ~prev.last /\ s2c[k].n = prev.n + 1
                          ELSE /\ prev.last /\ s2c[k].n = 1
                               /\ s2c[k].req > prev.req
                               /\ \A i \in prev.req + 1 .. s2c[k].req - 1 :
                                     c2s[i].mode = "oneway"
  BY Zenon DEF RepliesInOrder, First
<1>1. s2c \in Seq(Link) /\ <<First>> \in Seq(Link) /\ Len(s2c) \in Nat /\ Len(<<First>>) = 1
      /\ <<First>>[1] = First
  BY LenProperties DEF Types, WireTypes, Link
<1>2. /\ Len(Written) = Len(s2c) + 1 /\ Written[1] = First
      /\ \A l \in 1 .. Len(s2c) : Written[l + 1] = s2c[l]
  BY <1>1, ConcatProperties DEF Written
<1> DEFINE prev == IF k = 1 THEN First ELSE s2c[k - 1]
<1>3. Written[k] = prev /\ Written[k + 1] = s2c[k] /\ k + 1 \in 2 .. Len(Written)
      /\ k \in 1 .. Len(Written) /\ k + 1 \in 1 .. Len(Written)
  BY <1>1, <1>2
<1>4. /\ MayFollow(prev, s2c[k], c2s) /\ prev.req \in 0 .. taken
      /\ s2c[k].req \in 0 .. taken
  BY <1>3 DEF FlowInv, InOrder
<1>5. taken \in Nat
  BY TakenIsCall DEF Types
<1> HIDE DEF prev
<1>6. IF s2c[k].req = prev.req
        THEN ~prev.last /\ s2c[k].n = prev.n + 1
        ELSE /\ prev.last /\ s2c[k].n = 1
             /\ s2c[k].req > prev.req
             /\ \A i \in prev.req + 1 .. s2c[k].req - 1 : c2s[i].mode = "oneway"
  BY <1>4, <1>5 DEF MayFollow
<1> QED BY <1>6 DEF prev

\* The inductive invariant of a session.
SessionInv == Types /\ IInv /\ Turn /\ FlowInv

LEMMA InitSession == Init => SessionInv
<1> SUFFICES ASSUME Init PROVE SessionInv
  OBVIOUS
<1>1. Turn
  BY DEF Init, Turn, InTurn, Calls
<1> QED BY <1>1, InitTypes, InitIInv, InitFlow DEF SessionInv

LEMMA SessionStep ==
  ASSUME "oneway_continues" \notin CallbackMay
  PROVE  SessionInv /\ SessionNext => SessionInv'
<1> SUFFICES ASSUME SessionInv, SessionNext PROVE SessionInv'
  OBVIOUS
<1>1. Types'
  BY SessionKeepsTypes DEF SessionInv
<1>2. IInv'
  BY StepIInv DEF SessionInv, Next
<1>3. Turn'
  BY SessionKeepsTurn DEF SessionInv
<1>4. FlowInv'
  BY <1>1, SessionKeepsFlow DEF SessionInv
<1> QED BY <1>1, <1>2, <1>3, <1>4 DEF SessionInv

LEMMA OutsideChanges ==
  Types /\ Outside => /\ UNCHANGED <<readVars, pc, replies, restarts, sendVars, strandVars>>
                      /\ \A i \in 1 .. Len(c2s) : c2s'[i] = c2s[i]
<1> SUFFICES ASSUME Types, Outside
             PROVE  /\ UNCHANGED <<readVars, pc, replies, restarts, sendVars, strandVars>>
                    /\ \A i \in 1 .. Len(c2s) : c2s'[i] = c2s[i]
  OBVIOUS
<1>1. CASE PeerCloses \/ Still
  BY <1>1 DEF PeerCloses, Still, callVars, peerVars
<1>2. ASSUME NEW request \in Request, PeerSends(request)
      PROVE  /\ UNCHANGED <<readVars, pc, replies, restarts, sendVars, strandVars>>
             /\ \A i \in 1 .. Len(c2s) : c2s'[i] = c2s[i]
  BY <1>2, AppendProperties DEF PeerSends, callVars, Types, WireTypes
<1> QED BY <1>1, <1>2 DEF Outside

LEMMA OutsideStep == SessionInv /\ Outside => SessionInv'
<1> SUFFICES ASSUME SessionInv, Outside PROVE SessionInv'
  OBVIOUS
<1>1. Types' /\ UNCHANGED <<readVars, pc, replies, restarts, sendVars, strandVars>>
      /\ \A i \in 1 .. Len(c2s) : c2s'[i] = c2s[i]
  BY OutsideTypes, OutsideChanges DEF SessionInv
<1>2. IInv'
  BY <1>1, ElsewhereIInv DEF SessionInv
<1>3. Turn'
  BY <1>1, ElsewhereTurn DEF SessionInv, readVars
<1>4. FlowInv'
  BY <1>1, OutsideKeepsFlow DEF SessionInv
<1> QED BY <1>1, <1>2, <1>3, <1>4 DEF SessionInv

\* The peer can match replies to requests by position alone, for any number of
\* requests sent without waiting, any callbacks that keep to one final reply
\* and any failure of the connection: what the session writes is, in the order
\* of the requests, every continued reply to a request and then the final one.
THEOREM RepliesStayInOrder ==
  ASSUME "oneway_continues" \notin CallbackMay
  PROVE  Spec => []RepliesInOrder
<1>1. SessionInv /\ [Next]_vars => SessionInv'
  BY SessionStep, OutsideStep DEF Next, Outside, Still, vars
<1>2. SessionInv => RepliesInOrder
  BY FlowSuffices DEF SessionInv
<1> QED BY <1>1, <1>2, InitSession, PTL DEF Spec
-----------------------------------------------------------------------------
(* Which replies there are.                                                *)

\* Every oneway request finds its callback.
OnewayFound == \A r \in Request : r.mode = "oneway" => r.target # "error"

\* Reply r is to one of the first t requests of c, which asked for it.
Fits(r, t, c) == /\ r.req \in 1 .. t
                 /\ c[r.req].mode # "oneway"
                 /\ ~r.last => c[r.req].mode = "more"

AllFit(s, t, c) == \A k \in 1 .. Len(s) : Fits(s[k], t, c)

\* The replies written, and those on their way, fit.
FitsInv == /\ AllFit(s2c, taken, c2s)
           /\ AllFit(Active \o Strand!Pending, taken, c2s)

LEMMA FitStays ==
  ASSUME NEW s, NEW c, NEW d, NEW t \in Nat, NEW u \in Nat, t <= u,
         \A i \in 1 .. t : d[i] = c[i], AllFit(s, t, c)
  PROVE  AllFit(s, u, d)
<1> SUFFICES ASSUME NEW k \in 1 .. Len(s) PROVE Fits(s[k], u, d)
  BY DEF AllFit
<1>1. Fits(s[k], t, c)
  BY DEF AllFit
<1> QED BY <1>1 DEF Fits

LEMMA FitConcat ==
  ASSUME NEW S, NEW s \in Seq(S), NEW p \in Seq(S), NEW t, NEW c
  PROVE  AllFit(s \o p, t, c) <=> AllFit(s, t, c) /\ AllFit(p, t, c)
<1> DEFINE w == s \o p
<1>1. /\ Len(s) \in Nat /\ Len(p) \in Nat /\ Len(w) = Len(s) + Len(p)
      /\ \A k \in 1 .. Len(s) : w[k] = s[k]
      /\ \A k \in 1 .. Len(p) : w[Len(s) + k] = p[k]
  BY ConcatProperties, LenProperties
<1> HIDE DEF w
<1>2. ASSUME AllFit(w, t, c) PROVE AllFit(s, t, c) /\ AllFit(p, t, c)
  <2>1. \A k \in 1 .. Len(s) : k \in 1 .. Len(w)
    BY <1>1
  <2>2. \A k \in 1 .. Len(p) : Len(s) + k \in 1 .. Len(w)
    BY <1>1
  <2>3. AllFit(s, t, c)
    BY <1>1, <1>2, <2>1 DEF AllFit
  <2>4. ASSUME NEW k \in 1 .. Len(p) PROVE Fits(p[k], t, c)
    <3>1. Fits(w[Len(s) + k], t, c)
      BY <1>2, <2>2 DEF AllFit
    <3> QED BY <1>1, <3>1
  <2> QED BY <2>3, <2>4 DEF AllFit
<1>3. ASSUME AllFit(s, t, c), AllFit(p, t, c) PROVE AllFit(w, t, c)
  <2> SUFFICES ASSUME NEW k \in 1 .. Len(w) PROVE Fits(w[k], t, c)
    BY DEF AllFit
  <2>1. CASE k \in 1 .. Len(s)
    BY <1>1, <1>3, <2>1 DEF AllFit
  <2>2. CASE ~(k \in 1 .. Len(s))
    <3>1. k - Len(s) \in 1 .. Len(p) /\ k = Len(s) + (k - Len(s))
      BY <1>1, <2>2
    <3>2. Fits(p[k - Len(s)], t, c)
      BY <1>3, <3>1 DEF AllFit
    <3> QED BY <1>1, <3>1, <3>2
  <2> QED BY <2>1, <2>2
<1> QED BY <1>2, <1>3 DEF w

LEMMA FitOne == \A r, t, c : AllFit(<<r>>, t, c) <=> Fits(r, t, c)
BY DEF AllFit

\* Steps that send nothing.
LEMMA QuietFits ==
  ASSUME Types, Types', FitsInv, UNCHANGED <<s2c, strandVars>>,
         taken <= taken', \A i \in 1 .. taken : c2s'[i] = c2s[i]
  PROVE  FitsInv'
<1>1. taken \in Nat /\ taken' \in Nat
  BY DEF Types, ReadTypes, WireTypes
<1>2. (Active \o Strand!Pending)' = Active \o Strand!Pending
  BY DEF Active, Strand!Pending, strandVars
<1>3. AllFit(Active \o Strand!Pending, taken', c2s')
  BY <1>1, FitStays DEF FitsInv
<1>4. AllFit(s2c, taken', c2s')
  BY <1>1, FitStays DEF FitsInv
<1>5. AllFit(s2c', taken', c2s') /\ AllFit((Active \o Strand!Pending)', taken', c2s')
  BY <1>2, <1>3, <1>4
<1> QED BY <1>5 DEF FitsInv

LEMMA SendFits ==
  ASSUME Types, Types', FitsInv, NEW i \in Calls, NEW last \in BOOLEAN, SendReply(i, last),
         UNCHANGED <<c2s, s2c>>, pc[i] # "replied", ~(i > taken'), taken <= taken',
         c2s[i].mode # "oneway", last \/ c2s[i].mode = "more"
  PROVE  FitsInv'
<1> DEFINE b == [req |-> i, n |-> replies[i] + 1, last |-> last]
<1>1. taken \in Nat /\ taken' \in Nat /\ replies[i] <= MaxReplies
  BY DEF Types, ReadTypes, WireTypes, CallTypes
<1>2. WriteStrand!Push(b) /\ b \in Reply
  BY <1>1, SendTypes DEF SendReply
<1>3. b.req = i /\ b.last = last
  OBVIOUS
<1> HIDE DEF b
<1>4. pushes' = Append(pushes, b) /\ UNCHANGED <<queue, running>>
  BY <1>2 DEF WriteStrand!Push
<1>5. queue \in Seq(Reply) /\ pushes \in Seq(Reply) /\ b \in Link /\ <<b>> \in Seq(Link)
  BY <1>2 DEF Types, Strand!IInv, Strand!TypeOK, Link
<1>6. Strand!Pending' = Append(Strand!Pending, b) /\ Active' = Active
  BY <1>2, <1>4, <1>5, AppendToConcat DEF Strand!Pending, Active
<1>7. Active \o Append(Strand!Pending, b) = Append(Active \o Strand!Pending, b)
  BY <1>5, FlowTypes, AppendToConcat, SMTT(30)
<1>8. Active \o Strand!Pending \in Seq(Link)
  BY FlowTypes, ConcatProperties
<1>9. Append(Active \o Strand!Pending, b) = (Active \o Strand!Pending) \o <<b>>
  BY <1>5, <1>8, AppendIsConcat
<1>10. Fits(b, taken', c2s)
  BY <1>1, <1>3 DEF Fits, Calls
<1>11. AllFit(Active \o Strand!Pending, taken', c2s) /\ AllFit(s2c, taken', c2s)
  BY <1>1, FitStays DEF FitsInv
<1>12. AllFit((Active \o Strand!Pending) \o <<b>>, taken', c2s)
  BY <1>5, <1>8, <1>10, <1>11, FitOne, FitConcat
<1>13. (Active \o Strand!Pending)' = (Active \o Strand!Pending) \o <<b>>
  BY <1>6, <1>7, <1>9
<1>14. AllFit(s2c', taken', c2s') /\ AllFit((Active \o Strand!Pending)', taken', c2s')
  BY <1>11, <1>12, <1>13
<1> QED BY <1>14 DEF FitsInv

LEMMA ErrorFits ==
  ASSUME Types, Types', FitsInv, NEW i \in Calls, pc[i] # "replied", ReplyError(i),
         UNCHANGED <<c2s, s2c>>, ~(i > taken'), taken <= taken', c2s[i].mode # "oneway"
  PROVE  FitsInv'
<1>1. CASE send_ec
  BY <1>1, QuietFits DEF ReplyError
<1>2. CASE ~send_ec
  BY <1>2, SendFits DEF ReplyError
<1> QED BY <1>1, <1>2

LEMMA DispatchFits ==
  ASSUME OnewayFound, Types, Types', FitsInv, NEW i \in Calls, pc[i] = "waiting", Dispatch(i),
         UNCHANGED <<c2s, s2c>>, ~(i > taken'), taken <= taken'
  PROVE  FitsInv'
<1>1. CASE UNCHANGED strandVars
  BY <1>1, QuietFits
<1>2. CASE c2s[i].target = "error" /\ ReplyError(i)
  <2>1. i \in 1 .. Len(c2s)
    BY DEF Types, ReadTypes, WireTypes, Calls
  <2>2. c2s[i] \in Request
    BY <2>1, ElementOfSeq DEF Types, WireTypes
  <2> QED BY <1>2, <2>2, ErrorFits DEF OnewayFound
<1> QED BY <1>1, <1>2 DEF Dispatch

LEMMA CallFits ==
  ASSUME OnewayFound, "oneway_throws" \notin CallbackMay,
         Types, Types', FitsInv, NEW i \in Calls, CallStep(i)
  PROVE  FitsInv'
<1>0. UNCHANGED <<c2s, s2c>>
  BY DEF CallStep, Start, HandlePosted, CallbackContinues, CallbackReplies, CallbackStops,
     CallbackThrows, CallbackParks, OnewayReplies, peerVars, sendVars
<1>1. taken \in Nat /\ taken' \in Nat
  BY DEF Types, ReadTypes, WireTypes
<1>2. CASE Start(i)
  <2>1. taken <= taken' /\ UNCHANGED strandVars
    BY <1>1, <1>2 DEF Start
  <2> QED BY <1>0, <2>1, QuietFits
<1>3. CASE HandlePosted(i)
  <2>1. taken' = taken /\ i \in posted /\ Dispatch(i)
    BY <1>3 DEF HandlePosted
  <2>2. pc[i] = "waiting" /\ ~(i > taken) /\ taken <= taken'
    BY <1>1, <2>1 DEF Types, CallTypes, ReadTypes
  <2> QED BY <1>0, <2>1, <2>2, DispatchFits
<1>4. CASE ~Start(i) /\ ~HandlePosted(i)
  <2>1. Open(i) /\ taken' = taken
    BY <1>4 DEF CallStep, CallbackContinues, CallbackReplies, CallbackStops,
       CallbackThrows, CallbackParks, OnewayReplies, readVars
  <2>2. pc[i] # "replied" /\ ~(i > taken') /\ taken <= taken'
    BY <1>1, <2>1 DEF Open, Types, CallTypes
  <2>3. CASE CallbackContinues(i)
    BY <1>0, <2>2, <2>3, SendFits DEF CallbackContinues
  <2>4. CASE CallbackReplies(i)
    BY <1>0, <2>2, <2>4, SendFits DEF CallbackReplies
  <2>5. CASE CallbackThrows(i)
    BY <1>0, <2>2, <2>5, ErrorFits DEF CallbackThrows
  <2>6. CASE \/ CallbackStops(i) \/ CallbackParks(i)
             \/ \E continues \in BOOLEAN : OnewayReplies(i, continues)
    BY <1>0, <2>2, <2>6, QuietFits DEF CallbackStops, CallbackParks, OnewayReplies
  <2> QED BY <1>4, <2>3, <2>4, <2>5, <2>6 DEF CallStep
<1> QED BY <1>2, <1>3, <1>4

LEMMA WriteFits ==
  ASSUME Types, FitsInv, NEW r \in running, WriteSucceeds(r) \/ WriteFails(r)
  PROVE  FitsInv'
<1>1. WriteStrand!Complete(r) /\ UNCHANGED <<c2s, taken>>
  BY DEF WriteSucceeds, WriteFails, peerVars, readVars
<1>2. running = {r} /\ r \in Reply /\ r \in Link
  BY DEF Types, Strand!IInv, Strand!TypeOK, Strand!TokenInv, Strand!OneToken, Link
<1>3. running' = {} /\ UNCHANGED <<queue, pushes>>
  BY <1>1, <1>2 DEF WriteStrand!Complete
<1>4. Active = <<r>> /\ Strand!Pending' = Strand!Pending
  BY <1>2, <1>3, ActiveIs DEF Strand!Pending
<1>5. Active' = <<>>
  BY <1>3 DEF Active
<1>6. s2c \in Seq(Link) /\ <<r>> \in Seq(Link) /\ Strand!Pending \in Seq(Link)
  BY <1>2, FlowTypes DEF Link, Types, WireTypes
<1>7. (Active \o Strand!Pending)' = Strand!Pending
  BY <1>4, <1>5, <1>6, ConcatEmptySeq
<1>8. Fits(r, taken, c2s) /\ AllFit(Strand!Pending, taken, c2s)
  BY <1>4, <1>6, FitConcat, FitOne DEF FitsInv
<1>9. AllFit(s2c', taken, c2s)
  <2>1. CASE WriteFails(r)
    BY <2>1 DEF WriteFails, FitsInv
  <2>2. CASE WriteSucceeds(r)
    <3>1. s2c' = s2c \o <<r>>
      BY <1>6, <2>2, AppendIsConcat DEF WriteSucceeds, Link
    <3>2. AllFit(s2c \o <<r>>, taken, c2s)
      BY <1>6, <1>8, FitConcat, FitOne DEF FitsInv
    <3> QED BY <3>1, <3>2
  <2> QED BY <2>1, <2>2
<1>10. AllFit(s2c', taken', c2s') /\ AllFit((Active \o Strand!Pending)', taken', c2s')
  BY <1>1, <1>7, <1>8, <1>9
<1> QED BY <1>10 DEF FitsInv

\* Each reply that is sent answers a request that asked for it.
LEMMA SessionKeepsFits ==
  ASSUME OnewayFound, "oneway_throws" \notin CallbackMay
  PROVE  Types /\ Types' /\ FitsInv /\ SessionNext => FitsInv'
<1> SUFFICES ASSUME Types, Types', FitsInv, SessionNext PROVE FitsInv'
  OBVIOUS
<1>1. ASSUME NEW i \in Calls, CallStep(i) PROVE FitsInv'
  BY <1>1, CallFits
<1>2. CASE ReadFails \/ SendFailed \/ \E k \in Calls : ReadCompletes(k)
  <2>1. UNCHANGED <<c2s, taken, s2c, strandVars>> /\ taken \in Nat
    BY <1>2, TakenIsCall DEF ReadFails, SendFailed, ReadCompletes, peerVars, sendVars, Types
  <2> QED BY <2>1, QuietFits
<1>3. CASE HandleRead
  <2> DEFINE i == taken + 1
  <2>1. arrived > fetched /\ taken' = i /\ Dispatch(i) /\ UNCHANGED <<c2s, s2c>>
    BY <1>3 DEF HandleRead, peerVars, sendVars
  <2>2. i \in Calls /\ i \in Nat /\ taken \in Nat
    BY <2>1, TakenIsCall DEF Types, ReadTypes
  <2>3. pc[i] = "waiting"
    BY <2>2 DEF Types, CallTypes
  <2>4. ~(i > taken') /\ taken <= taken'
    BY <2>1, <2>2
  <2> HIDE DEF i
  <2> QED BY <2>1, <2>2, <2>3, <2>4, DispatchFits
<1>4. CASE \E r \in running : WriteSucceeds(r) \/ WriteFails(r)
  BY <1>4, WriteFits
<1>5. CASE WriteStrandStep
  <2>1. UNCHANGED <<c2s, taken, s2c>>
    BY <1>5 DEF WriteStrandStep, peerVars, readVars, sendVars
  <2>2. (Active \o Strand!Pending)' = Active \o Strand!Pending
    BY <1>5, <2>1, LambdaKeepsRest DEF WriteStrandStep
  <2>3. AllFit(s2c', taken', c2s') /\ AllFit((Active \o Strand!Pending)', taken', c2s')
    BY <2>1, <2>2 DEF FitsInv
  <2> QED BY <2>3 DEF FitsInv
<1> QED BY <1>1, <1>2, <1>3, <1>4, <1>5 DEF SessionNext

LEMMA OutsideKeepsFits == Types /\ FitsInv /\ Outside => FitsInv'
<1> SUFFICES ASSUME Types, FitsInv, Outside PROVE FitsInv'
  OBVIOUS
<1>1. Types' /\ UNCHANGED <<readVars, s2c, strandVars>>
      /\ \A i \in 1 .. Len(c2s) : c2s'[i] = c2s[i]
  BY OutsideTypes, OutsideChanges DEF sendVars
<1>2. taken \in Nat /\ taken <= Len(c2s) /\ Len(c2s) \in Nat /\ taken' = taken
  BY <1>1, TakenIsCall DEF Types, ReadTypes, readVars
<1>3. \A i \in 1 .. taken : c2s'[i] = c2s[i]
  BY <1>1, <1>2
<1> QED BY <1>1, <1>2, <1>3, QuietFits

LEMMA InitFits == Init => FitsInv
<1> SUFFICES ASSUME Init PROVE FitsInv
  OBVIOUS
<1>1. s2c = <<>> /\ queue = <<>> /\ pushes = <<>> /\ running = {}
  BY DEF Init, WriteStrand!Init
<1>2. Active = <<>> /\ Strand!Pending = <<>> /\ <<>> \o <<>> = <<>>
  BY <1>1, EmptySeq, ConcatEmptySeq DEF Active, Strand!Pending
<1>3. Active \o Strand!Pending = <<>>
  BY <1>2
<1>4. \A t, c : AllFit(<<>>, t, c)
  BY EmptySeq DEF AllFit
<1> QED BY <1>1, <1>3, <1>4 DEF FitsInv
-----------------------------------------------------------------------------
(* What a client sees of the steps of the session.                         *)

\* Nothing happens in a session that is over, or in a process that has ended.
LEMMA GoneIsFinal == Types /\ (SessionOver \/ terminated) => ~SessionNext
<1>1. ASSUME Types, SessionOver, SessionNext PROVE FALSE
  <2>1. /\ reads = 0 /\ arrived = fetched /\ posted = {} /\ restarts = {} /\ failures = 0
        /\ pushes = <<>> /\ nexts = 0 /\ running = {} /\ arrived \in Nat
        /\ \A i \in Calls : pc[i] \notin {"body", "parked"}
    BY <1>1 DEF SessionOver, InTurn, Types, ReadTypes, WireTypes
  <2>2. ~ \E i \in Calls : CallStep(i)
    BY <2>1 DEF CallStep, Open, Start, HandlePosted, CallbackContinues, CallbackReplies,
       CallbackStops, CallbackThrows, CallbackParks, OnewayReplies
  <2>3. ~ \E k \in Calls : ReadCompletes(k)
    BY <2>1 DEF ReadCompletes
  <2>4. ~WriteStrandStep
    BY <2>1 DEF WriteStrandStep, WriteStrand!RunPush, WriteStrand!RunNext
  <2>5. ~ReadFails /\ ~HandleRead /\ ~SendFailed
    BY <2>1 DEF ReadFails, HandleRead, SendFailed
  <2> QED BY <1>1, <2>1, <2>2, <2>3, <2>4, <2>5 DEF SessionNext
<1>2. ASSUME terminated, SessionNext PROVE FALSE
  BY <1>2 DEF SessionNext, CallStep, Open, Start, HandlePosted, CallbackContinues,
     CallbackReplies, CallbackStops, CallbackThrows, CallbackParks, OnewayReplies,
     ReadCompletes, ReadFails, HandleRead, SendFailed, WriteStrandStep, WriteSucceeds,
     WriteFails
<1> QED BY <1>1, <1>2

\* A step writes one reply at most, and nothing else that the client sees.
LEMMA SessionWrites ==
  Types /\ SessionNext =>
    /\ UNCHANGED <<c2s, peerClosed>>
    /\ s2c' = s2c \/ \E r \in Reply : s2c' = Append(s2c, r)
<1> SUFFICES ASSUME Types, SessionNext
             PROVE  /\ UNCHANGED <<c2s, peerClosed>>
                    /\ s2c' = s2c \/ \E r \in Reply : s2c' = Append(s2c, r)
  OBVIOUS
<1>1. CASE \E i \in Calls : CallStep(i)
  BY <1>1 DEF CallStep, Start, HandlePosted, CallbackContinues, CallbackReplies,
     CallbackStops, CallbackThrows, CallbackParks, OnewayReplies, peerVars, sendVars
<1>2. CASE HandleRead \/ ReadFails \/ SendFailed \/ WriteStrandStep
           \/ \E k \in Calls : ReadCompletes(k)
  BY <1>2 DEF HandleRead, ReadFails, SendFailed, WriteStrandStep, ReadCompletes, peerVars,
     sendVars
<1>3. ASSUME NEW r \in running, WriteSucceeds(r) \/ WriteFails(r)
      PROVE  /\ UNCHANGED <<c2s, peerClosed>>
             /\ s2c' = s2c \/ (r \in Reply /\ s2c' = Append(s2c, r))
  BY <1>3, RunningIsReply DEF WriteSucceeds, WriteFails, peerVars, Types
<1> QED BY <1>1, <1>2, <1>3 DEF SessionNext
-----------------------------------------------------------------------------
(* The session never stalls.                                               *)

\* The final reply to request i has been sent, and no failed write has lost it.
Kept(i) == \E k \in 1 .. Len(Flow) : Flow[k].req = i /\ Flow[k].last

\* Someone has the turn, or will have it once a read is handled or completes.
GoesOn == InTurn # {} \/ arrived > fetched \/ (reads > 0 /\ taken = fetched)

\* As long as the peer is there no write fails, a request that was taken is due
\* until it is dispatched, a call that was replied to has its final reply, and
\* the session goes on unless it has given a call up.
AttendInv ==
    peerClosed \/
    /\ Intact
    /\ \A i \in 1 .. taken : pc[i] = "waiting" => i \in posted
    /\ \A i \in Calls : pc[i] = "replied" /\ c2s[i].mode # "oneway" => Kept(i)
    /\ GoesOn \/ \E j \in 1 .. taken : pc[j] = "dropped"

LEMMA AppendKeeps ==
  ASSUME Types, NEW b \in Link, Flow' = Append(Flow, b)
  PROVE  /\ \A j : Kept(j) => Kept(j)'
         /\ b.last => Kept(b.req)'
<1> DEFINE w == Append(Flow, b)
<1>1. /\ Len(Flow) \in Nat /\ Len(w) = Len(Flow) + 1 /\ w[Len(Flow) + 1] = b
      /\ \A k \in 1 .. Len(Flow) : w[k] = Flow[k]
  BY FlowTypes, AppendProperties
<1>2. Flow' = w
  OBVIOUS
<1> HIDE DEF w
<1>3. \A k \in 1 .. Len(Flow) : k \in 1 .. Len(w)
  BY <1>1
<1>4. Len(Flow) + 1 \in 1 .. Len(w)
  BY <1>1
<1> QED BY <1>1, <1>2, <1>3, <1>4 DEF Kept

LEMMA SameKeeps ==
  ASSUME Flow' = Flow
  PROVE  \A j : Kept(j) => Kept(j)'
BY DEF Kept

LEMMA SilentKeeps ==
  ASSUME UNCHANGED <<s2c, strandVars>>
  PROVE  \A j : Kept(j) => Kept(j)'
<1>1. Flow' = Flow
  BY DEF Flow, Written, Active, Strand!Pending, strandVars
<1> QED BY <1>1, SameKeeps

LEMMA SendKeeps ==
  ASSUME Types, NEW i \in Calls, replies[i] <= MaxReplies, NEW last \in BOOLEAN,
         SendReply(i, last), UNCHANGED s2c
  PROVE  /\ \A j : Kept(j) => Kept(j)'
         /\ last => Kept(i)'
<1> DEFINE b == [req |-> i, n |-> replies[i] + 1, last |-> last]
<1>1. WriteStrand!Push(b) /\ b \in Reply
  BY SendTypes DEF SendReply
<1>2. b.req = i /\ b.last = last
  OBVIOUS
<1> HIDE DEF b
<1>3. Flow' = Append(Flow, b) /\ b \in Link
  BY <1>1, SendKeepsFlow DEF Link
<1> QED BY <1>2, <1>3, AppendKeeps

LEMMA ErrorKeeps ==
  ASSUME Types, NEW i \in Calls, pc[i] # "replied", ReplyError(i), ~send_ec, UNCHANGED s2c
  PROVE  /\ \A j : Kept(j) => Kept(j)'
         /\ Kept(i)' /\ pc' = [pc EXCEPT ![i] = "replied"] /\ i \in restarts'
<1>1. SendReply(i, TRUE) /\ pc' = [pc EXCEPT ![i] = "replied"] /\ restarts' = restarts \cup {i}
  BY DEF ReplyError
<1>2. replies[i] <= MaxReplies
  BY DEF Types, CallTypes
<1> QED BY <1>1, <1>2, SendKeeps

\* A step that takes call i further, which has been taken, and no other call.
LEMMA CallAttends ==
  ASSUME Types, AttendInv, ~peerClosed, NEW i \in Calls, i \in 1 .. taken',
         taken \in Nat, taken' \in Nat,
         UNCHANGED <<c2s, failures, send_ec>>,
         \A j \in Calls : j # i => pc'[j] = pc[j],
         \A j : Kept(j) => Kept(j)',
         \A j \in 1 .. taken' : j # i => j \in 1 .. taken /\ (j \in posted => j \in posted'),
         pc'[i] # "waiting",
         pc'[i] = "replied" /\ c2s[i].mode # "oneway" => Kept(i)',
         pc'[i] = "dropped" \/ pc'[i] \in {"body", "parked"} \/ i \in restarts',
         taken' <= MaxRequests
  PROVE  AttendInv'
<1>1. Intact'
  BY DEF AttendInv, Intact
<1>2. \A j \in 1 .. taken' : j \in Calls
  BY BoundAssumption DEF Calls
<1>3. \A j \in 1 .. taken' : pc'[j] = "waiting" => j \in posted'
  BY <1>2 DEF AttendInv
<1>4. \A j \in Calls : pc'[j] = "replied" /\ c2s'[j].mode # "oneway" => Kept(j)'
  BY DEF AttendInv
<1>5. GoesOn' \/ \E j \in 1 .. taken' : pc'[j] = "dropped"
  BY DEF GoesOn, InTurn
<1> QED BY <1>1, <1>3, <1>4, <1>5, Zenon DEF AttendInv

LEMMA DispatchAttends ==
  ASSUME Types, AttendInv, ~peerClosed, NEW i \in Calls, i \in 1 .. taken',
         taken \in Nat, taken' \in Nat, taken' <= MaxRequests,
         pc[i] = "waiting", Dispatch(i), UNCHANGED <<c2s, failures, send_ec, s2c>>,
         \A j \in 1 .. taken' : j # i => j \in 1 .. taken /\ (j \in posted => j \in posted')
  PROVE  AttendInv'
<1>0. pc \in [Calls -> States] /\ ~send_ec
  BY DEF Types, CallTypes, AttendInv, Intact
<1>1. CASE \/ c2s[i].target = "malformed" /\ pc' = [pc EXCEPT ![i] = "dropped"]
           \/ c2s[i].target = "callback" /\ pc' = [pc EXCEPT ![i] = "body"]
  <2>1. UNCHANGED <<s2c, strandVars>>
    BY <1>1 DEF Dispatch
  <2>2. pc'[i] \in {"dropped", "body"} /\ \A j \in Calls : j # i => pc'[j] = pc[j]
    BY <1>0, <1>1
  <2> QED BY <2>1, <2>2, SilentKeeps, CallAttends
<1>2. CASE c2s[i].target = "error"
  <2>1. /\ \A j : Kept(j) => Kept(j)'
        /\ Kept(i)' /\ pc' = [pc EXCEPT ![i] = "replied"] /\ i \in restarts'
    BY <1>0, <1>2, ErrorKeeps DEF Dispatch
  <2>2. pc'[i] = "replied" /\ \A j \in Calls : j # i => pc'[j] = pc[j]
    BY <1>0, <2>1
  <2> QED BY <2>1, <2>2, CallAttends
<1> QED BY <1>1, <1>2 DEF Dispatch

LEMMA CallbackAttends ==
  ASSUME Types, AttendInv, ~peerClosed, NEW i \in Calls, Open(i),
         UNCHANGED <<peerVars, readVars, sendVars>>,
         \/ CallbackContinues(i) \/ CallbackReplies(i) \/ CallbackStops(i)
         \/ CallbackThrows(i) \/ CallbackParks(i)
         \/ \E continues \in BOOLEAN : OnewayReplies(i, continues)
  PROVE  AttendInv'
<1>0. /\ pc \in [Calls -> States] /\ ~send_ec /\ pc[i] \in {"body", "parked"}
      /\ replies[i] <= MaxReplies
      /\ UNCHANGED <<c2s, failures, send_ec, s2c, taken, posted>>
  BY DEF Types, CallTypes, AttendInv, Intact, Open, peerVars, readVars, sendVars
<1>1. taken \in Nat /\ taken <= MaxRequests /\ i \in 1 .. taken
  BY <1>0, TakenIsCall DEF Types, CallTypes, Calls
<1>2. \A j \in 1 .. taken' : j # i => j \in 1 .. taken /\ (j \in posted => j \in posted')
  BY <1>0
<1>3. CASE CallbackContinues(i)
  <2>1. SendReply(i, FALSE) /\ UNCHANGED pc
    BY <1>3 DEF CallbackContinues
  <2>2. \A j : Kept(j) => Kept(j)'
    BY <1>0, <2>1, SendKeeps
  <2> QED BY <1>0, <1>1, <1>2, <2>1, <2>2, CallAttends
<1>4. CASE CallbackReplies(i)
  <2>1. SendReply(i, TRUE) /\ pc' = [pc EXCEPT ![i] = "replied"] /\ i \in restarts'
    BY <1>4 DEF CallbackReplies
  <2>2. Kept(i)' /\ \A j : Kept(j) => Kept(j)'
    BY <1>0, <2>1, SendKeeps
  <2>3. pc'[i] = "replied" /\ \A j \in Calls : j # i => pc'[j] = pc[j]
    BY <1>0, <2>1
  <2> QED BY <1>0, <1>1, <1>2, <2>1, <2>2, <2>3, CallAttends
<1>5. ASSUME NEW continues \in BOOLEAN, OnewayReplies(i, continues) PROVE AttendInv'
  <2>1. /\ pc' = [pc EXCEPT ![i] = IF continues THEN pc[i] ELSE "replied"]
        /\ i \in restarts' /\ c2s[i].mode = "oneway" /\ UNCHANGED strandVars
    BY <1>5 DEF OnewayReplies
  <2>2. pc'[i] # "waiting" /\ \A j \in Calls : j # i => pc'[j] = pc[j]
    BY <1>0, <2>1
  <2> QED BY <1>0, <1>1, <1>2, <2>1, <2>2, SilentKeeps, CallAttends
<1>6. CASE CallbackStops(i) \/ CallbackParks(i)
  <2>1. /\ pc' = [pc EXCEPT ![i] = "dropped"] \/ pc' = [pc EXCEPT ![i] = "parked"]
        /\ UNCHANGED strandVars
    BY <1>6 DEF CallbackStops, CallbackParks
  <2>2. pc'[i] \in {"dropped", "parked"} /\ \A j \in Calls : j # i => pc'[j] = pc[j]
    BY <1>0, <2>1
  <2> QED BY <1>0, <1>1, <1>2, <2>1, <2>2, SilentKeeps, CallAttends
<1>7. CASE CallbackThrows(i)
  <2>1. /\ \A j : Kept(j) => Kept(j)'
        /\ Kept(i)' /\ pc' = [pc EXCEPT ![i] = "replied"] /\ i \in restarts'
    BY <1>0, <1>7, ErrorKeeps DEF CallbackThrows
  <2>2. pc'[i] = "replied" /\ \A j \in Calls : j # i => pc'[j] = pc[j]
    BY <1>0, <2>1
  <2> QED BY <1>0, <1>1, <1>2, <2>1, <2>2, CallAttends
<1> QED BY <1>3, <1>4, <1>5, <1>6, <1>7

\* A step of no call.
LEMMA NoCallAttends ==
  ASSUME Types, AttendInv, ~peerClosed, taken \in Nat,
         UNCHANGED <<taken, pc, posted, restarts>>, Intact',
         \A j \in 1 .. taken : c2s'[j] = c2s[j],
         \A j : Kept(j) => Kept(j)',
         GoesOn => GoesOn'
  PROVE  AttendInv'
<1>1. \A j \in Calls : pc[j] = "replied" => j \in 1 .. taken
  BY DEF Types, CallTypes, Calls
<1>2. \A j \in 1 .. taken' : pc'[j] = "waiting" => j \in posted'
  BY DEF AttendInv
<1>3. \A j \in Calls : pc'[j] = "replied" /\ c2s'[j].mode # "oneway" => Kept(j)'
  BY <1>1 DEF AttendInv
<1>4. GoesOn' \/ \E j \in 1 .. taken' : pc'[j] = "dropped"
  BY DEF AttendInv
<1> QED BY <1>2, <1>3, <1>4, Zenon DEF AttendInv

LEMMA StartAttends ==
  ASSUME Types, AttendInv, ~peerClosed, NEW i \in Calls, Start(i)
  PROVE  AttendInv'
<1>1. /\ UNCHANGED <<c2s, arrived, fetched, pc, failures, send_ec, s2c, strandVars>>
      /\ \/ /\ taken < fetched /\ taken' = taken + 1 /\ posted' = posted \cup {taken'}
         \/ /\ taken = fetched /\ reads' = reads + 1 /\ UNCHANGED <<taken, posted>>
  BY DEF Start, peerVars, sendVars
<1>2. taken \in Nat /\ reads \in Nat
  BY TakenIsCall DEF Types, ReadTypes
<1>3. \A j : Kept(j) => Kept(j)'
  BY <1>1, SilentKeeps
<1>4. Intact'
  BY <1>1 DEF AttendInv, Intact
<1>5. \A j \in 1 .. taken' : pc'[j] = "waiting" => j \in posted'
  BY <1>1, <1>2 DEF AttendInv
<1>6. \A j \in Calls : pc'[j] = "replied" /\ c2s'[j].mode # "oneway" => Kept(j)'
  BY <1>1, <1>3 DEF AttendInv
<1>7. GoesOn'
  BY <1>1, <1>2 DEF GoesOn, InTurn
<1> QED BY <1>4, <1>5, <1>6, <1>7, Zenon DEF AttendInv

LEMMA SessionAttends == Types /\ AttendInv /\ SessionNext => AttendInv'
<1> SUFFICES ASSUME Types, AttendInv, SessionNext, ~peerClosed PROVE AttendInv'
  BY SessionWrites DEF AttendInv
<1>0. taken \in Nat /\ taken <= MaxRequests
  BY TakenIsCall DEF Types
<1>1. ASSUME NEW i \in Calls, CallStep(i) PROVE AttendInv'
  <2>1. CASE Start(i)
    BY <2>1, StartAttends
  <2>2. CASE HandlePosted(i)
    <3>1. /\ i \in posted /\ posted' = posted \ {i} /\ Dispatch(i)
          /\ UNCHANGED <<c2s, taken, failures, send_ec, s2c>>
      BY <2>2 DEF HandlePosted, peerVars, sendVars
    <3>2. pc[i] = "waiting" /\ i \in 1 .. taken
      BY <3>1 DEF Types, CallTypes, ReadTypes
    <3>3. \A j \in 1 .. taken' : j # i => j \in 1 .. taken /\ (j \in posted => j \in posted')
      BY <3>1
    <3> QED BY <1>0, <3>1, <3>2, <3>3, DispatchAttends
  <2>3. CASE \/ CallbackContinues(i) \/ CallbackReplies(i) \/ CallbackStops(i)
             \/ CallbackThrows(i) \/ CallbackParks(i)
             \/ \E continues \in BOOLEAN : OnewayReplies(i, continues)
    <3>1. Open(i) /\ UNCHANGED <<peerVars, readVars, sendVars>>
      BY <2>3 DEF CallbackContinues, CallbackReplies, CallbackStops, CallbackThrows,
         CallbackParks, OnewayReplies
    <3> QED BY <2>3, <3>1, CallbackAttends
  <2> QED BY <1>1, <2>1, <2>2, <2>3 DEF CallStep
<1>2. ~ReadFails /\ ~SendFailed
  BY DEF ReadFails, SendFailed, AttendInv, Intact
<1>3. ASSUME NEW k \in Calls, ReadCompletes(k) PROVE AttendInv'
  <2>1. /\ UNCHANGED <<c2s, taken, pc, posted, restarts, failures, send_ec, s2c, strandVars>>
        /\ arrived' > fetched'
    BY <1>3 DEF ReadCompletes, peerVars, callVars, sendVars, Types, ReadTypes, WireTypes
  <2>2. GoesOn' /\ Intact'
    BY <2>1 DEF GoesOn, AttendInv, Intact
  <2> QED BY <1>0, <2>1, <2>2, SilentKeeps, NoCallAttends
<1>4. CASE HandleRead
  <2> DEFINE i == taken + 1
  <2>1. /\ arrived > fetched /\ taken' = i /\ Dispatch(i)
        /\ UNCHANGED <<c2s, posted, failures, send_ec, s2c>>
    BY <1>4 DEF HandleRead, peerVars, sendVars
  <2>2. i \in Calls /\ i \in Nat /\ i \in 1 .. i
    BY <1>0, <2>1, TakenIsCall DEF Types, ReadTypes
  <2>3. pc[i] = "waiting" /\ i <= MaxRequests
    BY <1>0, <2>2 DEF Types, CallTypes, Calls
  <2>4. \A j \in 1 .. taken' : j # i => j \in 1 .. taken /\ (j \in posted => j \in posted')
    BY <1>0, <2>1
  <2> HIDE DEF i
  <2> QED BY <1>0, <2>1, <2>2, <2>3, <2>4, DispatchAttends
<1>5. ASSUME NEW r \in running, WriteSucceeds(r) \/ WriteFails(r) PROVE AttendInv'
  <2>1. WriteSucceeds(r)
    BY <1>5 DEF WriteFails
  <2>2. UNCHANGED <<c2s, arrived, fetched, taken, reads, pc, posted, restarts, failures, send_ec>>
    BY <2>1 DEF WriteSucceeds, peerVars, readVars, callVars
  <2>3. \A j : Kept(j) => Kept(j)'
    BY <2>1, WriteKeepsFlow, SameKeeps
  <2>4. (GoesOn => GoesOn') /\ Intact'
    BY <2>2 DEF GoesOn, InTurn, AttendInv, Intact
  <2> QED BY <1>0, <2>2, <2>3, <2>4, NoCallAttends
<1>6. CASE WriteStrandStep
  <2>1. UNCHANGED <<c2s, arrived, fetched, taken, reads, pc, posted, restarts, failures, send_ec,
                    s2c>>
    BY <1>6 DEF WriteStrandStep, peerVars, readVars, callVars, sendVars
  <2>2. \A j : Kept(j) => Kept(j)'
    BY <1>6, <2>1, LambdaKeepsFlow, SameKeeps DEF WriteStrandStep
  <2>3. (GoesOn => GoesOn') /\ Intact'
    BY <2>1 DEF GoesOn, InTurn, AttendInv, Intact
  <2> QED BY <1>0, <2>1, <2>2, <2>3, NoCallAttends
<1> QED BY <1>1, <1>2, <1>3, <1>4, <1>5, <1>6 DEF SessionNext

LEMMA OutsideAttends == Types /\ AttendInv /\ Outside => AttendInv'
<1> SUFFICES ASSUME Types, AttendInv, Outside, ~peerClosed, ~peerClosed' PROVE AttendInv'
  <2>1. Outside /\ peerClosed => peerClosed'
    BY DEF Outside, PeerCloses, PeerSends, Still, peerVars
  <2> QED BY <2>1 DEF AttendInv
<1>1. /\ UNCHANGED <<readVars, pc, restarts, sendVars, strandVars>>
      /\ \A i \in 1 .. Len(c2s) : c2s'[i] = c2s[i]
  BY OutsideChanges
<1>2. taken \in Nat /\ taken <= Len(c2s) /\ Len(c2s) \in Nat
  BY TakenIsCall DEF Types, ReadTypes
<1>3. \A j \in 1 .. taken : c2s'[j] = c2s[j]
  BY <1>1, <1>2
<1>4. UNCHANGED <<arrived, fetched, taken, reads, posted, failures, send_ec, s2c>>
  BY <1>1 DEF readVars, sendVars
<1>5. (GoesOn => GoesOn') /\ Intact'
  BY <1>1, <1>4 DEF GoesOn, InTurn, AttendInv, Intact
<1> QED BY <1>1, <1>2, <1>3, <1>4, <1>5, SilentKeeps, NoCallAttends

LEMMA InitAttends == Init => AttendInv
BY DEF Init, AttendInv, Intact, GoesOn, InTurn

\* A reply that is kept has been written, or is on its way.
LEMMA KeptIsOnItsWay ==
  ASSUME Types, NEW i \in Calls, Kept(i)
  PROVE  Answered(i) \/ OnItsWay(i)
<1>1. /\ <<First>> \in Seq(Link) /\ s2c \in Seq(Link) /\ Written \in Seq(Link)
      /\ Active \in Seq(Link) /\ Strand!Pending \in Seq(Link)
      /\ Active \o Strand!Pending \in Seq(Link) /\ Flow \in Seq(Link)
  BY FlowTypes, ConcatProperties DEF Types, WireTypes, Link
<1>2. Range(Flow) = Range(Written) \cup (Range(Active) \cup Range(Strand!Pending))
  <2> DEFINE rest == Active \o Strand!Pending
  <2>1. Range(rest) = Range(Active) \cup Range(Strand!Pending) /\ rest \in Seq(Link)
    BY <1>1, RangeConcatenation
  <2>2. Flow = Written \o rest
    BY DEF Flow
  <2> HIDE DEF rest
  <2>3. Range(Written \o rest) = Range(Written) \cup Range(rest)
    BY <1>1, <2>1, RangeConcatenation
  <2> QED BY <2>1, <2>2, <2>3
<1>3. Range(Written) = Range(<<First>>) \cup Range(s2c)
  <2> DEFINE one == <<First>>
  <2>1. one \in Seq(Link) /\ Written = one \o s2c
    BY <1>1 DEF Written
  <2> HIDE DEF one
  <2>2. Range(one \o s2c) = Range(one) \cup Range(s2c)
    BY <1>1, <2>1, RangeConcatenation
  <2>3. Range(Written) = Range(one) \cup Range(s2c)
    BY <2>1, <2>2
  <2> QED BY <2>3 DEF one
<1>4. PICK r \in Range(Flow) : r.req = i /\ r.last
  BY <1>1, RangeEquality DEF Kept
<1>5. r \notin Range(<<First>>)
  BY <1>4 DEF Range, First, Calls
<1>6. CASE r \in Range(s2c)
  <2>1. PICK k \in DOMAIN s2c : s2c[k] = r
    BY <1>6 DEF Range
  <2> QED BY <1>4, <2>1 DEF Answered
<1>7. CASE r \in Range(Active) \cup Range(Strand!Pending)
  <2>1. Strand!TokenInv /\ queue \in Seq(Reply) /\ pushes \in Seq(Reply)
    BY DEF Types, Strand!IInv, Strand!TypeOK
  <2>2. Range(Active) \subseteq running
    <3>1. CASE running = {}
      BY <3>1, ActiveIs DEF Range
    <3>2. ASSUME NEW t \in running PROVE Range(Active) \subseteq running
      <4>1. running = {t}
        BY <2>1, <3>2 DEF Strand!TokenInv, Strand!OneToken
      <4>2. Active = <<t>>
        BY <4>1, ActiveIs
      <4> QED BY <4>1, <4>2 DEF Range
    <3> QED BY <3>1, <3>2
  <2>3. r \in Range(WriteStrand!Pending) \cup running
    BY <1>7, <2>2 DEF WriteStrand!Pending, Strand!Pending
  <2>4. pushes # <<>> \/ nexts > 0 \/ running # {}
    <3>1. SUFFICES ASSUME pushes = <<>>, running = {}, ~executing PROVE FALSE
      BY <2>1 DEF Strand!TokenInv, Strand!OneToken
    <3>2. queue = <<>>
      BY <2>1, <3>1 DEF Strand!TokenInv
    <3>3. WriteStrand!Pending = <<>>
      BY <3>1, <3>2, ConcatEmptySeq, EmptySeq DEF WriteStrand!Pending
    <3> QED BY <2>3, <3>1, <3>3 DEF Range
  <2> QED BY <1>4, <2>3, <2>4 DEF OnItsWay, Writing
<1> QED BY <1>2, <1>3, <1>4, <1>5, <1>6, <1>7

LEMMA AttendSuffices == Types /\ AttendInv => NoRequestForgotten
<1> SUFFICES ASSUME Types, AttendInv, ~peerClosed, NEW i \in DOMAIN c2s
             PROVE  Settled(i) \/ Attended(i)
  BY DEF NoRequestForgotten
<1>1. /\ Len(c2s) \in Nat /\ i \in 1 .. Len(c2s) /\ i \in Calls /\ taken \in Nat
  BY LenProperties, TakenIsCall, BoundAssumption DEF Types, WireTypes, Calls
<1>2. CASE i <= taken
  <2>1. i \in 1 .. taken /\ i \in 1 .. i /\ pc[i] \in States
    BY <1>1, <1>2 DEF Types, CallTypes
  <2>2. CASE pc[i] \in {"waiting", "body", "parked"}
    BY <1>1, <2>1, <2>2 DEF AttendInv, Attended, InTurn
  <2>3. CASE pc[i] = "dropped"
    BY <1>1, <2>1, <2>3 DEF Settled
  <2>4. CASE pc[i] = "replied"
    BY <1>1, <2>4, KeptIsOnItsWay DEF AttendInv, Attended, Settled
  <2> QED BY <2>1, <2>2, <2>3, <2>4 DEF States
<1>3. CASE i > taken
  <2>1. CASE GoesOn
    BY <1>3, <2>1 DEF GoesOn, Attended
  <2>2. ASSUME NEW j \in 1 .. taken, pc[j] = "dropped" PROVE Settled(i)
    BY <1>1, <1>3, <2>2 DEF Settled
  <2> QED BY <2>1, <2>2 DEF AttendInv
<1> QED BY <1>1, <1>2, <1>3

\* A session that has given a call up has nobody's turn to wait for: once its
\* write strand is idle, nothing refers to it any more.
LEMMA GivenUpIsOver ==
  ASSUME SessionInv, AttendInv, ~peerClosed, NEW j \in Calls, pc[j] = "dropped", ~Writing
  PROVE  SessionOver
<1>1. taken \in Nat /\ j <= taken /\ j = taken
  BY DEF SessionInv, IInv, Counts, Phases, Turn, Calls
<1>2. reads = 0 /\ arrived = fetched
  BY <1>1 DEF SessionInv, Turn
<1>3. InTurn = {}
  <2>1. taken \notin posted /\ taken \notin restarts
    BY <1>1 DEF SessionInv, IInv, Phases
  <2>2. taken \notin InTurn
    BY <1>1, <2>1 DEF InTurn
  <2> QED BY <2>2 DEF SessionInv, Turn
<1>4. pushes = <<>> /\ nexts = 0 /\ running = {} /\ queue = <<>>
  <2>1. Strand!TypeOK /\ Strand!TokenInv
    BY DEF SessionInv, Types, Strand!IInv
  <2>2. pushes = <<>> /\ nexts = 0 /\ running = {}
    BY <2>1 DEF Writing, Strand!TypeOK
  <2> QED BY <2>1, <2>2 DEF Strand!TokenInv, Strand!OneToken
<1>5. failures = 0
  BY DEF AttendInv, Intact
<1> QED BY <1>2, <1>3, <1>4, <1>5 DEF SessionOver

\* No request is forgotten, whatever callbacks do and in whatever order the
\* handlers run: no wake-up is lost between a read, the handlers that are due,
\* the callbacks and the write strand.
THEOREM NothingIsForgotten == Spec => []NoRequestForgotten
<1>1. Types /\ AttendInv /\ [Next]_vars => Types' /\ AttendInv'
  BY SessionKeepsTypes, OutsideTypes, SessionAttends, OutsideAttends DEF Next, Outside, Still, vars
<1>2. Init => Types /\ AttendInv
  BY InitTypes, InitAttends
<1>3. Types /\ AttendInv => NoRequestForgotten
  BY AttendSuffices
<1> QED BY <1>1, <1>2, <1>3, PTL DEF Spec
=============================================================================
