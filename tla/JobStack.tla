------------------------------ MODULE JobStack ------------------------------
(***************************************************************************)
(* What the two users of a stack of jobs, thread_pool and fiber_pool,      *)
(* promise those who queue: a job comes into the stack once, the last one  *)
(* in is the first one run, and from the stack a job goes to one runner    *)
(* and from there to its end.  Only clearing the stack or deleting the     *)
(* runners ends a job otherwise.  Who the runners are, how they sleep and  *)
(* wake and which locks they take is not said here.                        *)
(***************************************************************************)
EXTENDS Integers, Sequences

CONSTANT Job

VARIABLES
  stack,    \* the jobs that wait, the top one last
  running,  \* the jobs somebody has taken
  done,     \* those that came to their end
  dropped   \* those that never will

vars == <<stack, running, done, dropped>>

Waiting == {stack[i] : i \in DOMAIN stack}

Init == stack = << >> /\ running = {} /\ done = {} /\ dropped = {}

Push(j) ==
  /\ j \notin Waiting \cup running \cup done \cup dropped
  /\ stack' = Append(stack, j)
  /\ UNCHANGED <<running, done, dropped>>

Take ==
  /\ stack # << >>
  /\ stack' = SubSeq(stack, 1, Len(stack) - 1)
  /\ stack[Len(stack)] \notin running
  /\ running' = running \cup {stack[Len(stack)]}
  /\ UNCHANGED <<done, dropped>>

Finish(j) ==
  /\ j \in running
  /\ running' = running \ {j}
  /\ done' = done \cup {j}
  /\ UNCHANGED <<stack, dropped>>

Clear ==
  /\ stack' = << >>
  /\ dropped' = dropped \cup Waiting
  /\ UNCHANGED <<running, done>>

Abandon ==
  /\ running' = {}
  /\ dropped' = dropped \cup running
  /\ UNCHANGED <<stack, done>>

Next ==
  \/ \E j \in Job : Push(j) \/ Finish(j)
  \/ Take \/ Clear \/ Abandon

Spec == Init /\ [][Next]_vars
=============================================================================
