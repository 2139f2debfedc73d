------------------------------- MODULE Executor -------------------------------
(***************************************************************************)
(* What a caller of EventLoop::RunInLoop may rely on.  Every task belongs  *)
(* to one loop.  Its body is executed on the thread of that loop and on no *)
(* other, at most once, and the tasks that were queued on a loop are       *)
(* executed in the order in which they were queued.  A task that the       *)
(* loop's own thread asks for is executed on the spot.                     *)
(*                                                                         *)
(* Locks, the wake-up pipe and epoll do not appear here.                   *)
(***************************************************************************)
EXTENDS Sequences, SequencesExt

CONSTANTS
  Threads,  \* every thread of the process, the loops' own threads included
  Loops,    \* the loops, each named by the thread that runs it
  Tasks,    \* the functions handed to RunInLoop
  Home      \* the loop that each task is handed to

VARIABLES
  pending,  \* per loop: the tasks queued and not yet started
  log       \* per thread: the tasks whose bodies it has entered, in order

vars == <<pending, log>>

Fresh(k) == /\ \A l \in Loops : ~ Contains(pending[l], k)
            /\ \A t \in Threads : ~ Contains(log[t], k)

Init == /\ pending = [l \in Loops |-> <<>>]
        /\ log = [t \in Threads |-> <<>>]

Submit(k) ==
  /\ Fresh(k)
  /\ pending' = [pending EXCEPT ![Home[k]] = Append(@, k)]
  /\ UNCHANGED log

RunQueued(l) ==
  /\ pending[l] # <<>>
  /\ log' = [log EXCEPT ![l] = Append(@, Head(pending[l]))]
  /\ pending' = [pending EXCEPT ![l] = Tail(@)]

RunInline(k) ==
  /\ Fresh(k)
  /\ log' = [log EXCEPT ![Home[k]] = Append(@, k)]
  /\ UNCHANGED pending

Next == \/ \E k \in Tasks : Submit(k) \/ RunInline(k)
        \/ \E l \in Loops : RunQueued(l)

Spec == Init /\ [][Next]_vars
===============================================================================
