----------------------------- MODULE Serializer -----------------------------
(***************************************************************************)
(* What detail::manual_strand promises to its two users, the write strand  *)
(* of json_connection and the call strand of async_client: asynchronous    *)
(* functions run one at a time, in the order in which they were submitted, *)
(* and the next one starts only after the asynchronous work of the         *)
(* previous one has completed.                                             *)
(***************************************************************************)
EXTENDS Sequences, Functions

CONSTANT Fn     \* the functions, each submitted at most once

VARIABLES
    waiting,    \* submitted and not started, in the order of submission
    active,     \* started, asynchronous work in progress
    finished    \* asynchronous work completed

vars == <<waiting, active, finished>>

Init == /\ waiting = <<>>
        /\ active = {}
        /\ finished = {}

Submit(f) == /\ f \notin Range(waiting) \cup active \cup finished
             /\ waiting' = Append(waiting, f)
             /\ UNCHANGED <<active, finished>>

\* Functions start in order and never beside another one.
Start == /\ waiting # <<>>
         /\ active = {}
         /\ active' = {Head(waiting)}
         /\ waiting' = Tail(waiting)
         /\ UNCHANGED finished

Finish(f) == /\ f \in active
             /\ active' = active \ {f}
             /\ finished' = finished \cup {f}
             /\ UNCHANGED waiting

Next == \/ \E f \in Fn : Submit(f) \/ Finish(f)
        \/ Start

\* A function that was submitted is started, whatever is submitted later.
Fairness == WF_vars(Start) /\ \A f \in Fn : WF_vars(Finish(f))

Spec == Init /\ [][Next]_vars /\ Fairness

SafeSpec == Init /\ [][Next]_vars
=============================================================================
