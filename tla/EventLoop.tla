------------------------------- MODULE EventLoop -------------------------------
(***************************************************************************)
(* EventLoop::RunInLoop and the loop that serves it, for several loops and *)
(* several other threads.  A thread that is not the loop's own locks lock_,*)
(* pushes the task on functions_ and, lock_ still held, writes one word to *)
(* the loop's pipe.  The loop sleeps in epoll_wait, reads one word when the*)
(* pipe is reported (the registration is edge-triggered), then takes lock_ *)
(* and runs the queued tasks WHILE HOLDING IT, and then turns its timing   *)
(* wheel.                                                                  *)
(*                                                                         *)
(* The body of a task is abstracted to what matters here: which task, if   *)
(* any, it hands to a loop in its turn (FollowUp).                         *)
(***************************************************************************)
EXTENDS Integers, Sequences, FiniteSets, SequencesExt

CONSTANTS
  Loops,      \* loops, each named by the thread that runs it
  Clients,    \* the other threads that call RunInLoop
  Tasks,      \* the functions handed to RunInLoop, each at most once (a bound)
  Home,       \* the loop that each task is handed to
  FollowUp,   \* the task that the body of a task hands on, or NoTask
  Reacts,     \* the loops whose fd handlers and timers hand out tasks
  MayQuit,    \* the loops on which Quit is called
  PageWords,  \* words that fit in one page of a pipe (512 on Linux)
  Pages,      \* pages of a pipe (16 on Linux)
  NoTask,
  NoThread

Threads == Loops \cup Clients

ASSUME ThreadsAssumption ==
  /\ Loops \cap Clients = {}
  /\ NoThread \notin Threads
  /\ MayQuit \subseteq Loops
  /\ Reacts \subseteq Loops
ASSUME TasksAssumption ==
  /\ NoTask \notin Tasks
  /\ Home \in [Tasks -> Loops]
  /\ FollowUp \in [Tasks -> Tasks \cup {NoTask}]
ASSUME PipeAssumption == PageWords \in Nat \ {0} /\ Pages \in Nat \ {0}

VARIABLES
  functions,  \* functions_ : per loop, the tasks queued
  lock,       \* lock_      : per loop, the thread that holds it or NoThread
  pipEvent,   \* pipEvent_  : per loop, "null", "created" or "added" to epoll
  looping,    \* looping_
  pipe,       \* kernel: words from the start of the oldest page that are read
              \* (r) and written (w)
  ready,      \* kernel: an edge of the pipe waits on the epoll ready list
  pc,         \* where the loop's thread is in Loop()
  batch,      \* what epoll_wait returned and is not yet dispatched
  post,       \* where each thread is in the queueing branch of RunInLoop
  arg,        \* the task it is queueing
  running,    \* the innermost task body a loop's thread is in
  posted,     \* history: the tasks handed to RunInLoop
  log         \* history: per thread, the tasks whose bodies it entered

loopVars == <<looping, pc, batch>>
pipeVars == <<pipEvent, pipe, ready>>
vars == <<functions, lock, loopVars, pipeVars, post, arg, running, posted, log>>

Init ==
  /\ functions = [l \in Loops |-> <<>>]
  /\ lock = [l \in Loops |-> NoThread]
  /\ pipEvent = [l \in Loops |-> "null"]
  /\ looping = [l \in Loops |-> FALSE]
  /\ pipe = [l \in Loops |-> [r |-> 0, w |-> 0]]
  /\ ready = [l \in Loops |-> FALSE]
  /\ pc = [l \in Loops |-> "start"]
  /\ batch = [l \in Loops |-> {}]
  /\ post = [t \in Threads |-> "none"]
  /\ arg = [t \in Threads |-> NoTask]
  /\ running = [l \in Loops |-> NoTask]
  /\ posted = {}
  /\ log = [t \in Threads |-> <<>>]

-----------------------------------------------------------------------------
(* The pipe, external: a write appends to the newest page and fails with   *)
(* EAGAIN when every page is taken; a read frees a page only when it has   *)
(* taken the page's last word.                                             *)

Unread(p) == p.w - p.r
Full(p) == p.w >= PageWords * Pages
PipeWrite(p) == [p EXCEPT !.w = @ + 1]
PipeRead(p) ==
  CASE p.r + 1 = p.w       -> [r |-> 0, w |-> 0]
    [] p.r + 1 # p.w /\ p.r + 1 = PageWords -> [r |-> 0, w |-> p.w - PageWords]
    [] OTHER               -> [p EXCEPT !.r = @ + 1]

-----------------------------------------------------------------------------
(* RunInLoop, called by thread t.                                          *)

\* Mutant: the loop's own thread is not recognised.
MutantNeverInLoop(t, l) == FALSE

IsInLoopThread(t, l) == t = l

RunInLoop(t, k) ==
  /\ k \notin posted
  /\ posted' = posted \cup {k}
  /\ \/ /\ IsInLoopThread(t, Home[k])
        /\ running' = [running EXCEPT ![t] = k]
        /\ log' = [log EXCEPT ![t] = Append(@, k)]
        /\ UNCHANGED <<post, arg>>
     \/ /\ ~ IsInLoopThread(t, Home[k])
        /\ post' = [post EXCEPT ![t] = "lock"]
        /\ arg' = [arg EXCEPT ![t] = k]
        /\ UNCHANGED <<running, log>>
  /\ UNCHANGED <<functions, lock, pipeVars>>

ClientPost(c) ==
  /\ post[c] = "none"
  /\ \E k \in Tasks : RunInLoop(c, k)
  /\ UNCHANGED loopVars

LockAndPush(t) ==
  LET l == Home[arg[t]] IN
  /\ post[t] = "lock"
  /\ lock[l] = NoThread
  /\ lock' = [lock EXCEPT ![l] = t]
  /\ functions' = [functions EXCEPT ![l] = Append(@, arg[t])]
  /\ post' = [post EXCEPT ![t] = "wake"]
  /\ UNCHANGED <<loopVars, pipeVars, arg, running, posted, log>>

WakeUp(t) ==
  LET l == Home[arg[t]] IN
  /\ post[t] = "wake"
  /\ IF pipEvent[l] = "null"
     THEN /\ pipEvent' = [pipEvent EXCEPT ![l] = "created"]
          /\ post' = [post EXCEPT ![t] = "add"]
     ELSE /\ post' = [post EXCEPT ![t] = "write"]
          /\ UNCHANGED pipEvent
  /\ UNCHANGED <<functions, lock, loopVars, pipe, ready, arg, running, posted, log>>

AddEvent(t) ==
  /\ post[t] = "add"
  /\ pipEvent' = [pipEvent EXCEPT ![Home[arg[t]]] = "added"]
  /\ post' = [post EXCEPT ![t] = "write"]
  /\ UNCHANGED <<functions, lock, loopVars, pipe, ready, arg, running, posted, log>>

\* PipEvent::Write ignores the result; then the lock_guard goes out of scope,
\* RunInLoop returns and, with it, the body or handler that called it.
PipWrite(t) ==
  LET l == Home[arg[t]] IN
  /\ post[t] = "write"
  /\ \/ /\ ~ Full(pipe[l])
        /\ pipe' = [pipe EXCEPT ![l] = PipeWrite(@)]
        /\ ready' = [ready EXCEPT ![l] = TRUE]
     \/ /\ Full(pipe[l])
        /\ UNCHANGED <<pipe, ready>>
  /\ lock' = [lock EXCEPT ![l] = NoThread]
  /\ post' = [post EXCEPT ![t] = "none"]
  /\ arg' = [arg EXCEPT ![t] = NoTask]
  /\ running' = [x \in Loops |-> IF x = t THEN NoTask ELSE running[x]]
  /\ UNCHANGED <<functions, loopVars, pipEvent, posted, log>>

\* The body of the innermost task on l hands its follow-up on, or returns.
RunBody(l) ==
  /\ running[l] # NoTask
  /\ post[l] = "none"
  /\ LET next == FollowUp[running[l]] IN
     IF next = NoTask \/ next \in posted
     THEN /\ running' = [running EXCEPT ![l] = NoTask]
          /\ UNCHANGED <<functions, lock, pipeVars, post, arg, posted, log>>
     ELSE RunInLoop(l, next)
  /\ UNCHANGED loopVars

-----------------------------------------------------------------------------
(* Loop(), on the thread of l.                                             *)

\* The thread is in Loop() itself, not inside a handler or a task.
At(l, where) == pc[l] = where /\ post[l] = "none" /\ running[l] = NoTask

\* The test of while(looping_).
NextIteration(l) == pc' = [pc EXCEPT ![l] = IF looping[l] THEN "wait" ELSE "done"]

Loop(l) ==
  /\ At(l, "start")
  /\ looping' = [looping EXCEPT ![l] = TRUE]
  /\ pc' = [pc EXCEPT ![l] = "wait"]
  /\ UNCHANGED <<functions, lock, batch, pipeVars, post, arg, running, posted, log>>

\* Mutant: a timeout of -1, epoll_wait sleeps until something is ready.
MutantWaitForEver(l) ==
  /\ At(l, "wait")
  /\ ready[l] /\ Unread(pipe[l]) > 0
  /\ batch' = [batch EXCEPT ![l] = {"pipe"}]
  /\ ready' = [ready EXCEPT ![l] = FALSE]
  /\ pc' = [pc EXCEPT ![l] = "events"]
  /\ UNCHANGED <<functions, lock, looping, pipEvent, pipe, post, arg, running, posted, log>>

\* epoll_wait returns the pipe when an edge is queued and there is something
\* to read, perhaps another descriptor, and after one second perhaps nothing.
EpollWait(l) ==
  /\ At(l, "wait")
  /\ \E other \in IF l \in Reacts THEN {{}, {"other"}} ELSE {{}} :
       batch' = [batch EXCEPT ![l] = other \cup
                   IF ready[l] /\ Unread(pipe[l]) > 0 THEN {"pipe"} ELSE {}]
  /\ ready' = [ready EXCEPT ![l] = FALSE]
  /\ pc' = [pc EXCEPT ![l] = "events"]
  /\ UNCHANGED <<functions, lock, looping, pipEvent, pipe, post, arg, running, posted, log>>

\* ret < 0, EINTR for instance: neither tasks nor timers run this time round.
EpollError(l) ==
  /\ At(l, "wait")
  /\ NextIteration(l)
  /\ UNCHANGED <<functions, lock, looping, batch, pipeVars, post, arg, running, posted, log>>

\* Mutant: the read is repeated without looking at its result.
MutantReadAgain(l) ==
  /\ At(l, "events")
  /\ "pipe" \in batch[l]
  /\ pipe' = [pipe EXCEPT ![l] = PipeRead(PipeRead(@))]
  /\ batch' = [batch EXCEPT ![l] = @ \ {"pipe"}]
  /\ UNCHANGED <<functions, lock, looping, pc, pipEvent, ready, post, arg, running, posted, log>>

OnRead(l) ==
  /\ At(l, "events")
  /\ "pipe" \in batch[l]
  /\ pipe' = [pipe EXCEPT ![l] = PipeRead(@)]
  /\ batch' = [batch EXCEPT ![l] = @ \ {"pipe"}]
  /\ UNCHANGED <<functions, lock, looping, pc, pipEvent, ready, post, arg, running, posted, log>>

\* The handler of another descriptor, which may hand out a task.
OnOther(l) ==
  /\ At(l, "events")
  /\ "other" \in batch[l]
  /\ batch' = [batch EXCEPT ![l] = @ \ {"other"}]
  /\ \/ \E k \in Tasks : RunInLoop(l, k)
     \/ UNCHANGED <<functions, lock, pipeVars, post, arg, running, posted, log>>
  /\ UNCHANGED <<looping, pc>>

\* RunFunctions: lock_guard, then front / call / pop until the queue is empty.
RunFunctions(l) ==
  /\ At(l, "events")
  /\ batch[l] = {}
  /\ lock[l] = NoThread
  /\ lock' = [lock EXCEPT ![l] = l]
  /\ pc' = [pc EXCEPT ![l] = "front"]
  /\ UNCHANGED <<functions, looping, batch, pipeVars, post, arg, running, posted, log>>

\* Mutant: the queue is served from the wrong end.
MutantCallLast(l) ==
  /\ At(l, "front")
  /\ functions[l] # <<>>
  /\ running' = [running EXCEPT ![l] = Last(functions[l])]
  /\ log' = [log EXCEPT ![l] = Append(@, Last(functions[l]))]
  /\ pc' = [pc EXCEPT ![l] = "call"]
  /\ UNCHANGED <<functions, lock, looping, batch, pipeVars, post, arg, posted>>

TaskCall(l) ==
  /\ At(l, "front")
  /\ functions[l] # <<>>
  /\ running' = [running EXCEPT ![l] = Head(functions[l])]
  /\ log' = [log EXCEPT ![l] = Append(@, Head(functions[l]))]
  /\ pc' = [pc EXCEPT ![l] = "call"]
  /\ UNCHANGED <<functions, lock, looping, batch, pipeVars, post, arg, posted>>

\* Mutant: one task per wake-up, an if in place of the while.
MutantOneTask(l) ==
  /\ At(l, "call")
  /\ functions' = [functions EXCEPT ![l] = Tail(@)]
  /\ lock' = [lock EXCEPT ![l] = NoThread]
  /\ pc' = [pc EXCEPT ![l] = "timer"]
  /\ UNCHANGED <<looping, batch, pipeVars, post, arg, running, posted, log>>

TaskDone(l) ==
  /\ At(l, "call")
  /\ functions' = [functions EXCEPT ![l] = Tail(@)]
  /\ pc' = [pc EXCEPT ![l] = "front"]
  /\ UNCHANGED <<lock, looping, batch, pipeVars, post, arg, running, posted, log>>

Unlock(l) ==
  /\ At(l, "front")
  /\ functions[l] = <<>>
  /\ lock' = [lock EXCEPT ![l] = NoThread]
  /\ pc' = [pc EXCEPT ![l] = "timer"]
  /\ UNCHANGED <<functions, looping, batch, pipeVars, post, arg, running, posted, log>>

\* wheel_.OnTimer: a timer callback may hand out a task; then the loop's test.
TimerCallback(l) ==
  /\ At(l, "timer")
  /\ l \in Reacts
  /\ \E k \in Tasks : RunInLoop(l, k)
  /\ UNCHANGED loopVars

OnTimer(l) ==
  /\ At(l, "timer")
  /\ NextIteration(l)
  /\ UNCHANGED <<functions, lock, looping, batch, pipeVars, post, arg, running, posted, log>>

\* Quit, from any thread: no lock and no wake-up.  A Quit that comes before
\* Loop() changes nothing.
Quit(l) ==
  /\ l \in MayQuit
  /\ looping[l]
  /\ looping' = [looping EXCEPT ![l] = FALSE]
  /\ UNCHANGED <<functions, lock, pc, batch, pipeVars, post, arg, running, posted, log>>

-----------------------------------------------------------------------------
Posting(t) == LockAndPush(t) \/ WakeUp(t) \/ AddEvent(t) \/ PipWrite(t)

Serving(l) == \/ OnRead(l) \/ OnOther(l)
              \/ RunFunctions(l) \/ TaskCall(l) \/ RunBody(l) \/ TaskDone(l)
              \/ Unlock(l) \/ OnTimer(l)

Next ==
  \/ \E c \in Clients : ClientPost(c)
  \/ \E t \in Threads : Posting(t)
  \/ \E l \in Loops : \/ Loop(l) \/ EpollWait(l) \/ EpollError(l)
                      \/ Serving(l) \/ TimerCallback(l) \/ Quit(l)

Spec == Init /\ [][Next]_vars

(* A thread that can step eventually does.  epoll_wait returns after one   *)
(* second at the latest, so EpollWait is fair even when nothing is ready.  *)
(* The mutex is strongly fair to a waiter: the loop lets go of lock_ before*)
(* every epoll_wait and sleeps there.  Nobody is obliged to post or quit.  *)
Fairness ==
  /\ \A t \in Threads : /\ SF_vars(LockAndPush(t))
                        /\ WF_vars(WakeUp(t) \/ AddEvent(t) \/ PipWrite(t))
  /\ \A l \in Loops : WF_vars(Loop(l)) /\ WF_vars(EpollWait(l)) /\ WF_vars(Serving(l))

FairSpec == Spec /\ Fairness
-----------------------------------------------------------------------------
(* Properties.                                                             *)

Locations == {"start", "wait", "events", "front", "call", "timer", "done"}
Pipes == {p \in [r : Nat, w : Nat] : p.r <= p.w}

\* Every variable holds a value of its type.
TypeOK ==
  /\ functions \in [Loops -> Seq(Tasks)]
  /\ lock \in [Loops -> Threads \cup {NoThread}]
  /\ pipEvent \in [Loops -> {"null", "created", "added"}]
  /\ looping \in [Loops -> BOOLEAN]
  /\ pipe \in [Loops -> Pipes]
  /\ ready \in [Loops -> BOOLEAN]
  /\ pc \in [Loops -> Locations]
  /\ batch \in [Loops -> SUBSET {"pipe", "other"}]
  /\ post \in [Threads -> {"none", "lock", "wake", "add", "write"}]
  /\ arg \in [Threads -> Tasks \cup {NoTask}]
  /\ running \in [Loops -> Tasks \cup {NoTask}]
  /\ posted \in SUBSET Tasks
  /\ log \in [Threads -> Seq(Tasks)]

\* A loop never falls asleep on work: when it is in epoll_wait, lock_ is free
\* and tasks are queued, then an edge of the pipe is on its way to it.  The one
\* exception is a pipe so full that the word of the wake-up did not fit.
NoLostWakeup ==
  \A l \in Loops :
    pc[l] = "wait" /\ lock[l] = NoThread /\ functions[l] # <<>> =>
      (ready[l] /\ Unread(pipe[l]) > 0) \/ Full(pipe[l])

\* t is blocked in the mutex of l, in RunInLoop or in RunFunctions.
Waits(t, l) ==
  \/ post[t] = "lock" /\ Home[arg[t]] = l
  \/ t = l /\ At(l, "events") /\ batch[l] = {}

\* No set of threads wait only for locks that members of the set hold, although
\* a loop's thread holds lock_ while it runs tasks that queue tasks elsewhere.
NoCircularWait ==
  \A S \in (SUBSET Threads) \ {{}} :
    \E t \in S : \A l \in Loops : Waits(t, l) => lock[l] \notin S

\* Loop b, then loop a, such that a queued task of a hands a task to b.  With a
\* cycle in this relation NoCircularWait does not hold.
HandOver ==
  {<<Home[FollowUp[k]], Home[k]>> :
     k \in {j \in Tasks : FollowUp[j] # NoTask /\ Home[FollowUp[j]] # Home[j]}}

Ran(k) == Contains(log[Home[k]], k)

\* Every task handed to a loop is executed in the end, unless the loop is quit.  As
\* posted only grows, and it is finite, one time will do for all.
EveryTaskRuns == <>[](\A k \in posted : Ran(k) \/ pc[Home[k]] = "done")

\* Quit, which wakes nobody, still ends a loop that is running: in the end no loop that
\* has begun and was quit is still on its way.
QuitStops == <>[](\A l \in Loops : pc[l] = "start" \/ looping[l] \/ pc[l] = "done")

\* RunInLoop keeps the promise of Executor.  A task leaves the abstract queue
\* when its body is entered, the queue itself when the body has returned.
Pending == [l \in Loops |-> IF pc[l] = "call" THEN Tail(functions[l]) ELSE functions[l]]
Abs == INSTANCE Executor WITH pending <- Pending
ImplementsExecutor == Abs!Spec
=============================================================================
