---------------------------- MODULE ManualStrand ----------------------------
(***************************************************************************)
(* detail::manual_strand (detail/manual_strand.hpp), the queue that keeps  *)
(* two async_writes of a connection, and two calls of a client, from       *)
(* overlapping.  push() and next() may be called on any thread: each       *)
(* dispatches a lambda to a net::strand, which runs one lambda at a time.  *)
(* A dispatch that runs inline is a posting step followed at once by the   *)
(* step that runs the lambda.                                              *)
(*                                                                         *)
(* A function handed to push() starts an asynchronous operation whose      *)
(* completion handler calls next() exactly once.  push() is not called by  *)
(* such a function itself, so no lambda overtakes the posted ones.         *)
(***************************************************************************)
EXTENDS Integers, Sequences, Functions

CONSTANT Fn         \* the functions, each pushed at most once

VARIABLES
    pushes,         \* lambdas of push() dispatched and not yet run, FIFO
    nexts,          \* how many lambdas of next() are dispatched and not yet
                    \* run; the model lets them run before or after any push
    queue,          \* queue_
    executing,      \* executing_
    running,        \* functions whose asynchronous operation is in progress
    finished        \* functions whose asynchronous operation has completed

vars == <<pushes, nexts, queue, executing, running, finished>>

TypeOK == /\ pushes \in Seq(Fn)
          /\ nexts \in Nat
          /\ queue \in Seq(Fn)
          /\ executing \in BOOLEAN
          /\ running \subseteq Fn
          /\ finished \subseteq Fn

Init == /\ pushes = <<>>
        /\ nexts = 0
        /\ queue = <<>>
        /\ executing = FALSE
        /\ running = {}
        /\ finished = {}

\* Pushed and not yet started, oldest first.
Pending == queue \o pushes

Known == Range(Pending) \cup running \cup finished

\* Faulty: the early return leaves executing_ set.
ExecuteKeepsFlag(q) ==
    \/ /\ q = <<>>
       /\ executing' = TRUE
       /\ queue' = q
       /\ UNCHANGED running
    \/ /\ q # <<>>
       /\ executing' = TRUE
       /\ queue' = Tail(q)
       /\ running' = running \cup {Head(q)}

\* Faulty: takes the newest function, as a stack would.
ExecuteNewest(q) ==
    \/ /\ q = <<>>
       /\ executing' = FALSE
       /\ queue' = q
       /\ UNCHANGED running
    \/ /\ q # <<>>
       /\ executing' = TRUE
       /\ queue' = SubSeq(q, 1, Len(q) - 1)
       /\ running' = running \cup {q[Len(q)]}

\* execute(), called with q in queue_ and executing_ set: takes the oldest
\* function out of the queue and calls it, or clears executing_.
Execute(q) ==
    \/ /\ q = <<>>
       /\ executing' = FALSE
       /\ queue' = q
       /\ UNCHANGED running
    \/ /\ q # <<>>
       /\ executing' = TRUE
       /\ queue' = Tail(q)
       /\ running' = running \cup {Head(q)}

\* push(f): the lambda is dispatched.
Push(f) == /\ f \notin Known
           /\ pushes' = Append(pushes, f)
           /\ UNCHANGED <<nexts, queue, executing, running, finished>>

\* Faulty: does not look at executing_.
RunPushAlwaysExecutes ==
    /\ pushes # <<>>
    /\ pushes' = Tail(pushes)
    /\ Execute(Append(queue, Head(pushes)))
    /\ UNCHANGED <<nexts, finished>>

\* The lambda of push() runs on the strand.
RunPush ==
    /\ pushes # <<>>
    /\ pushes' = Tail(pushes)
    /\ \/ /\ executing
          /\ queue' = Append(queue, Head(pushes))
          /\ UNCHANGED <<executing, running>>
       \/ /\ ~executing
          /\ Execute(Append(queue, Head(pushes)))
    /\ UNCHANGED <<nexts, finished>>

\* The asynchronous operation of f completes and its handler calls next().
Complete(f) == /\ f \in running
               /\ running' = running \ {f}
               /\ finished' = finished \cup {f}
               /\ nexts' = nexts + 1
               /\ UNCHANGED <<pushes, queue, executing>>

\* Faulty: execute() without a completion that asked for it.
RunNextUnasked == /\ nexts' = nexts - 1
                  /\ Execute(queue)
                  /\ UNCHANGED <<pushes, finished>>

\* The lambda of next() runs on the strand.
RunNext == /\ nexts > 0
           /\ nexts' = nexts - 1
           /\ Execute(queue)
           /\ UNCHANGED <<pushes, finished>>

Next == \/ \E f \in Fn : Push(f) \/ Complete(f)
        \/ RunPush
        \/ RunNext

\* The executor runs what was dispatched to it, and asynchronous operations
\* complete.  Nothing obliges a user to push.
Fairness == /\ WF_vars(RunPush)
            /\ WF_vars(RunNext)
            /\ \A f \in Fn : WF_vars(Complete(f))

Spec == Init /\ [][Next]_vars /\ Fairness
-----------------------------------------------------------------------------
(* Exactly one party is entitled to touch the queue next: the operation in *)
(* progress, or the lambda of next() that its completion left behind.      *)
OneToken == \/ nexts = 0 /\ \E f \in Fn : running = {f}
            \/ nexts = 1 /\ running = {}

\* executing_ says whether that token exists: an idle strand has an empty
\* queue and nothing in progress, a busy one exactly one owner.  A lost token
\* strands the queue forever, a second one overlaps two asynchronous writes.
TokenInv == /\ executing => OneToken
            /\ ~executing => nexts = 0 /\ running = {} /\ queue = <<>>

\* Two asynchronous operations of one strand never overlap, the reason for
\* the class: manual_strand.hpp executes the next function only on next().
MutualExclusion == \A f, g \in running : f = g

\* Every function handed to push() gets to run to completion, whichever way
\* pushes and completions interleave: no wake-up is lost between a push that
\* sees executing_ set and the execute() that finds the queue empty.
EveryPushCompletes == \A f \in Fn : f \in Range(pushes) ~> f \in finished

\* The strand is the FIFO serializer its users rely on.
Abstract == INSTANCE Serializer
              WITH waiting <- Pending, active <- running

ImplementsSerializer == Abstract!Spec
=============================================================================
