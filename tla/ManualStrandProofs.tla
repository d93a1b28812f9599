------------------------- MODULE ManualStrandProofs -------------------------
(***************************************************************************)
(* Proofs about ManualStrand for every set of functions: its type          *)
(* invariant, the token invariant that makes two operations never overlap, *)
(* and that every step is a step of Serializer or a stutter.               *)
(***************************************************************************)
EXTENDS ManualStrand, SequenceFacts

\* The inductive invariant: the types, and the single token.
IInv == TypeOK /\ TokenInv

-----------------------------------------------------------------------------
(* What execute() leaves behind.                                           *)

\* execute() on a queue of functions, with nobody holding the token, leaves
\* either an idle strand or one function in progress.
LEMMA ExecuteGivesToken ==
  ASSUME NEW q, q \in Seq(Fn), running = {}, Execute(q), nexts' = 0
  PROVE  /\ queue' \in Seq(Fn)
         /\ executing' \in BOOLEAN
         /\ running' \subseteq Fn
         /\ TokenInv'
<1>1. CASE q = <<>>
  <2>1. executing' = FALSE /\ queue' = <<>> /\ running' = {}
    BY <1>1 DEF Execute
  <2> QED BY <2>1, EmptySeq DEF TokenInv
<1>2. CASE q # <<>>
  <2>1. Head(q) \in Fn /\ Tail(q) \in Seq(Fn)
    BY <1>2, HeadBeforeTail
  <2>2. executing' = TRUE /\ queue' = Tail(q) /\ running' = {Head(q)}
    BY <1>2 DEF Execute
  <2> QED BY <2>1, <2>2 DEF TokenInv, OneToken
<1> QED BY <1>1, <1>2

LEMMA InitIInv == Init => IInv
<1> SUFFICES ASSUME Init PROVE IInv
  OBVIOUS
<1>1. <<>> \in Seq(Fn)
  BY EmptySeq
<1> QED BY <1>1 DEF Init, IInv, TypeOK, TokenInv

\* Each step keeps the token: push() adds to the queue without taking it,
\* the completion of an operation hands it to a call of next(), and the
\* lambdas run execute() only while holding it.
LEMMA StepIInv == IInv /\ [Next]_vars => IInv'
<1> SUFFICES ASSUME IInv, [Next]_vars PROVE IInv'
  OBVIOUS
<1> USE DEF IInv
<1>1. ASSUME NEW f \in Fn, Push(f) PROVE IInv'
  <2>1. pushes' \in Seq(Fn)
    BY <1>1, AppendProperties DEF Push, TypeOK
  <2>2. UNCHANGED <<nexts, queue, executing, running, finished>>
    BY <1>1 DEF Push
  <2> QED BY <2>1, <2>2 DEF TypeOK, TokenInv, OneToken
<1>2. ASSUME NEW f \in Fn, Complete(f) PROVE IInv'
  <2>1. executing /\ running = {f} /\ nexts = 0
    BY <1>2 DEF Complete, TokenInv, OneToken
  <2>2. running' = {} /\ nexts' = 1 /\ finished' \subseteq Fn
    BY <1>2, <2>1 DEF Complete, TypeOK
  <2>3. UNCHANGED <<pushes, queue, executing>>
    BY <1>2 DEF Complete
  <2> QED BY <2>1, <2>2, <2>3 DEF TypeOK, TokenInv, OneToken
<1>3. ASSUME RunPush PROVE IInv'
  <2>1. Head(pushes) \in Fn /\ pushes' \in Seq(Fn)
    BY <1>3, HeadBeforeTail DEF RunPush, TypeOK
  <2>2. Append(queue, Head(pushes)) \in Seq(Fn)
    BY <2>1, AppendProperties DEF TypeOK
  <2>3. UNCHANGED <<nexts, finished>>
    BY <1>3 DEF RunPush
  <2>4. CASE executing
    <3>1. queue' = Append(queue, Head(pushes)) /\ UNCHANGED <<executing, running>>
      BY <1>3, <2>4 DEF RunPush
    <3> QED BY <2>1, <2>2, <2>3, <2>4, <3>1 DEF TypeOK, TokenInv, OneToken
  <2>5. CASE ~executing
    <3>1. Execute(Append(queue, Head(pushes)))
      BY <1>3, <2>5 DEF RunPush
    <3>2. running = {} /\ nexts' = 0
      BY <2>3, <2>5 DEF TokenInv
    <3> QED BY <2>1, <2>2, <2>3, <3>1, <3>2, ExecuteGivesToken DEF TypeOK
  <2> QED BY <2>4, <2>5
<1>4. ASSUME RunNext PROVE IInv'
  <2>1. nexts = 1 /\ running = {}
    BY <1>4 DEF RunNext, TokenInv, OneToken, TypeOK
  <2>2. nexts' = 0 /\ Execute(queue) /\ UNCHANGED <<pushes, finished>>
    BY <1>4, <2>1 DEF RunNext
  <2> QED BY <2>1, <2>2, ExecuteGivesToken DEF TypeOK
<1>5. CASE UNCHANGED vars
  BY <1>5 DEF vars, TypeOK, TokenInv, OneToken
<1> QED BY <1>1, <1>2, <1>3, <1>4, <1>5 DEF Next
-----------------------------------------------------------------------------
(* The strand's variables keep their types in every behaviour.             *)
THEOREM TypeCorrect == Spec => []TypeOK
<1>1. IInv => TypeOK
  BY DEF IInv
<1> QED BY InitIInv, StepIInv, <1>1, PTL DEF Spec

\* executing_ is set exactly while one operation, or the one call of next()
\* its completion makes, holds the strand.
THEOREM TokenCorrect == Spec => []TokenInv
<1>1. IInv => TokenInv
  BY DEF IInv
<1> QED BY InitIInv, StepIInv, <1>1, PTL DEF Spec

\* Two functions of a manual_strand are never in progress together, for any
\* number of functions pushed from any number of threads.
THEOREM OneAtATime == Spec => []MutualExclusion
<1>1. IInv => MutualExclusion
  BY DEF IInv, TokenInv, OneToken, MutualExclusion
<1> QED BY InitIInv, StepIInv, <1>1, PTL DEF Spec
-----------------------------------------------------------------------------
(* The strand implements the serializer.                                   *)

\* execute() on what becomes the pending sequence starts its head, or finds
\* nothing queued and leaves the pending sequence as it was.
LEMMA ExecuteStarts ==
  ASSUME NEW q \in Seq(Fn), NEW p \in Seq(Fn), running = {}, Execute(q),
         pushes' = p, Pending = q \o p, UNCHANGED finished
  PROVE  [Abstract!Next]_(Abstract!vars)
<1>1. CASE q = <<>>
  <2>1. queue' = <<>> /\ running' = running
    BY <1>1 DEF Execute
  <2>2. Pending' = Pending
    BY <1>1, <2>1 DEF Pending
  <2> QED BY <2>1, <2>2 DEF Abstract!vars
<1>2. CASE q # <<>>
  <2>1. queue' = Tail(q) /\ running' = {Head(q)}
    BY <1>2 DEF Execute
  <2>2. Pending # <<>> /\ Head(Pending) = Head(q) /\ Tail(Pending) = Tail(q) \o p
    BY <1>2, HeadTailOfConcat
  <2>3. Pending' = Tail(Pending)
    BY <2>1, <2>2 DEF Pending
  <2>4. Abstract!Start
    BY <2>1, <2>2, <2>3 DEF Abstract!Start
  <2> QED BY <2>4 DEF Abstract!Next
<1> QED BY <1>1, <1>2

LEMMA InitImplements == Init => Abstract!Init
<1> SUFFICES ASSUME Init PROVE Abstract!Init
  OBVIOUS
<1>1. Pending = <<>>
  BY DEF Init, Pending
<1> QED BY <1>1 DEF Init, Abstract!Init

\* push() submits, the completion of an operation finishes it, and a lambda
\* on the strand starts the oldest pending function or changes nothing.
LEMMA StepImplements == IInv /\ [Next]_vars => [Abstract!Next]_(Abstract!vars)
<1> SUFFICES ASSUME IInv, [Next]_vars PROVE [Abstract!Next]_(Abstract!vars)
  OBVIOUS
<1> USE DEF IInv
<1>0. queue \in Seq(Fn) /\ pushes \in Seq(Fn)
  BY DEF TypeOK
<1>1. ASSUME NEW f \in Fn, Push(f) PROVE Abstract!Submit(f)
  <2>1. Pending' = Append(Pending, f)
    BY <1>0, <1>1, AppendToConcat DEF Push, Pending
  <2> QED BY <1>1, <2>1 DEF Push, Known, Abstract!Submit, Range, Abstract!Range
<1>2. ASSUME NEW f \in Fn, Complete(f) PROVE Abstract!Finish(f)
  <2>1. Pending' = Pending
    BY <1>2 DEF Complete, Pending
  <2> QED BY <1>2, <2>1 DEF Complete, Abstract!Finish
<1>3. ASSUME RunPush PROVE [Abstract!Next]_(Abstract!vars)
  <2> DEFINE q == Append(queue, Head(pushes))
  <2>1. Head(pushes) \in Fn /\ Tail(pushes) \in Seq(Fn)
    BY <1>0, <1>3, HeadBeforeTail DEF RunPush
  <2>2. q \in Seq(Fn)
    BY <1>0, <2>1, AppendProperties
  <2>3. Pending = q \o Tail(pushes)
    BY <1>0, <1>3, MoveHead DEF RunPush, Pending
  <2>4. pushes' = Tail(pushes) /\ UNCHANGED finished
    BY <1>3 DEF RunPush
  <2>5. CASE executing
    <3>1. queue' = q /\ running' = running
      BY <1>3, <2>5 DEF RunPush
    <3>2. Pending' = Pending
      BY <2>3, <2>4, <3>1 DEF Pending
    <3> QED BY <2>4, <3>1, <3>2 DEF Abstract!vars
  <2>6. CASE ~executing
    <3>1. running = {} /\ Execute(q)
      BY <1>3, <2>6 DEF RunPush, TokenInv
    <3> HIDE DEF q
    <3> QED BY <2>1, <2>2, <2>3, <2>4, <3>1, ExecuteStarts
  <2> QED BY <2>5, <2>6
<1>4. ASSUME RunNext PROVE [Abstract!Next]_(Abstract!vars)
  <2>1. running = {}
    BY <1>4 DEF RunNext, TokenInv, OneToken, TypeOK
  <2>2. Execute(queue) /\ pushes' = pushes /\ UNCHANGED finished
    BY <1>4 DEF RunNext
  <2> QED BY <1>0, <2>1, <2>2, ExecuteStarts DEF Pending
<1>5. CASE UNCHANGED vars
  <2>1. Pending' = Pending /\ UNCHANGED <<running, finished>>
    BY <1>5 DEF vars, Pending
  <2> QED BY <2>1 DEF Abstract!vars
<1> QED BY <1>1, <1>2, <1>3, <1>4, <1>5 DEF Next, Abstract!Next

\* Whatever threads push and complete, functions run one at a time in the
\* order of the calls of push(): the safety part of ImplementsSerializer.
THEOREM StrandIsSerializer == Spec => Abstract!SafeSpec
<1>1. Init /\ [][Next]_vars => Abstract!SafeSpec
  <2>1. Init /\ [][Next]_vars => []IInv
    BY InitIInv, StepIInv, PTL
  <2> QED BY <2>1, InitImplements, StepImplements, PTL DEF Abstract!SafeSpec
<1> QED BY <1>1 DEF Spec
=============================================================================
