---------------------------- MODULE EventLoopProofs ----------------------------
(***************************************************************************)
(* Theorems about EventLoop for any number of loops, threads and tasks.    *)
(***************************************************************************)
EXTENDS EventLoop, WellFoundedInduction, TLAPS

-----------------------------------------------------------------------------
(* Type correctness.  It is not inductive by itself: a read needs a pipe   *)
(* with a word in it, a push a task to push, a pop a queue that is not     *)
(* empty.                                                                  *)

ReportedPipeHasWord == \A l \in Loops : "pipe" \in batch[l] => pipe[l].r < pipe[l].w
PostersHaveTask == \A t \in Threads : post[t] # "none" => arg[t] \in Tasks
CalledTaskQueued == \A l \in Loops : pc[l] = "call" => functions[l] # <<>>

TypeInv == TypeOK /\ ReportedPipeHasWord /\ PostersHaveTask /\ CalledTaskQueued

\* Reading a word, when there is one, leaves the counters of the pipe in order.
LEMMA PipeReadType ==
  ASSUME NEW p \in Pipes, p.r < p.w
  PROVE  PipeRead(p) \in Pipes
<1>1. PageWords \in Nat \ {0}
  BY PipeAssumption
<1> DEFINE a == p.r  b == p.w
<1>2. a \in Nat /\ b \in Nat /\ a < b /\ p = [r |-> a, w |-> b]
  BY DEF Pipes
<1>3. CASE a + 1 = b
  BY <1>2, <1>3 DEF PipeRead, Pipes
<1>4. CASE a + 1 # b /\ a + 1 = PageWords
  <2>1. b - PageWords \in Nat
    BY <1>1, <1>2, <1>4
  <2>2. PipeRead(p) = [r |-> 0, w |-> b - PageWords]
    BY <1>4 DEF PipeRead
  <2> QED
    BY <2>1, <2>2 DEF Pipes
<1>5. CASE a + 1 # b /\ a + 1 # PageWords
  <2>1. PipeRead(p) = [r |-> a + 1, w |-> b]
    BY <1>2, <1>5 DEF PipeRead
  <2> QED
    BY <1>2, <1>5, <2>1 DEF Pipes
<1> QED
  BY <1>3, <1>4, <1>5

\* Writing a word leaves the counters of the pipe in order, and a word to read.
LEMMA PipeWriteType ==
  ASSUME NEW p \in Pipes
  PROVE  PipeWrite(p) \in Pipes /\ PipeWrite(p).r < PipeWrite(p).w
BY DEF PipeWrite, Pipes

\* Appending an element of S to a sequence over S gives one that is not empty.
LEMMA AppendType ==
  ASSUME NEW S, NEW s \in Seq(S), NEW e \in S
  PROVE  Append(s, e) \in Seq(S) /\ Append(s, e) # <<>>
<1>1. Append(s, e) \in Seq(S) /\ Len(Append(s, e)) = Len(s) + 1 /\ Len(s) \in Nat
  OBVIOUS
<1>2. Len(<<>>) = 0
  OBVIOUS
<1> QED
  BY <1>1, <1>2

\* What is taken from the front of a sequence over S, and what remains.
LEMMA HeadTailType ==
  ASSUME NEW S, NEW s \in Seq(S), s # <<>>
  PROVE  Head(s) \in S /\ Tail(s) \in Seq(S)
OBVIOUS

\* RunInLoop, whoever calls it, leaves the variables it changes well typed.
LEMMA RunInLoopType ==
  ASSUME TypeInv, NEW t \in Threads, NEW k \in Tasks, RunInLoop(t, k)
  PROVE  /\ posted' \in SUBSET Tasks
         /\ running' \in [Loops -> Tasks \cup {NoTask}]
         /\ log' \in [Threads -> Seq(Tasks)]
         /\ post' \in [Threads -> {"none", "lock", "wake", "add", "write"}]
         /\ arg' \in [Threads -> Tasks \cup {NoTask}]
         /\ \A u \in Threads : post'[u] # "none" => arg'[u] \in Tasks
         /\ UNCHANGED <<functions, lock, pipEvent, pipe, ready>>
<1> USE DEF TypeInv, TypeOK, PostersHaveTask
<1>1. posted' \in SUBSET Tasks /\ UNCHANGED <<functions, lock, pipEvent, pipe, ready>>
  BY DEF RunInLoop, pipeVars
<1>2. CASE IsInLoopThread(t, Home[k])
  <2>1. /\ running' = [running EXCEPT ![t] = k]
        /\ log' = [log EXCEPT ![t] = Append(@, k)]
        /\ UNCHANGED <<post, arg>>
    BY <1>2 DEF RunInLoop
  <2>2. log[t] \in Seq(Tasks) /\ Append(log[t], k) \in Seq(Tasks)
    OBVIOUS
  <2> QED
    BY <1>1, <2>1, <2>2
<1>3. CASE ~ IsInLoopThread(t, Home[k])
  BY <1>1, <1>3 DEF RunInLoop
<1> QED
  BY <1>2, <1>3

LEMMA TypeInvInit == Init => TypeInv
BY DEF Init, TypeInv, TypeOK, ReportedPipeHasWord, PostersHaveTask,
       CalledTaskQueued, Locations, Pipes

LEMMA TypeInvNext == TypeInv /\ [Next]_vars => TypeInv'
<1> SUFFICES ASSUME TypeInv, [Next]_vars PROVE TypeInv'
  OBVIOUS
<1> USE TasksAssumption
    DEF TypeInv, TypeOK, ReportedPipeHasWord, PostersHaveTask, CalledTaskQueued
<1>T. Loops \subseteq Threads /\ Clients \subseteq Threads
  BY DEF Threads
<1>1. ASSUME NEW c \in Clients, ClientPost(c) PROVE TypeInv'
  <2>1. PICK k \in Tasks : RunInLoop(c, k)
    BY <1>1 DEF ClientPost
  <2> QED
    BY <1>T, <1>1, <2>1, RunInLoopType DEF ClientPost, loopVars
<1>2. ASSUME NEW t \in Threads, LockAndPush(t) PROVE TypeInv'
  <2> DEFINE l == Home[arg[t]]
  <2>1. arg[t] \in Tasks /\ l \in Loops
    BY <1>2 DEF LockAndPush
  <2>2. /\ Append(functions[l], arg[t]) \in Seq(Tasks)
        /\ Append(functions[l], arg[t]) # <<>>
    <3>1. functions[l] \in Seq(Tasks)
      BY <2>1
    <3> QED
      BY <2>1, <3>1, AppendType
  <2> QED
    BY <1>2, <2>1, <2>2 DEF LockAndPush, loopVars, pipeVars
<1>3. ASSUME NEW t \in Threads, WakeUp(t) PROVE TypeInv'
  BY <1>3 DEF WakeUp, loopVars
<1>4. ASSUME NEW t \in Threads, AddEvent(t) PROVE TypeInv'
  BY <1>4 DEF AddEvent, loopVars
<1>5. ASSUME NEW t \in Threads, PipWrite(t) PROVE TypeInv'
  <2> DEFINE l == Home[arg[t]]
  <2>1. l \in Loops /\ PipeWrite(pipe[l]) \in Pipes
         /\ PipeWrite(pipe[l]).r < PipeWrite(pipe[l]).w
    BY <1>5, PipeWriteType DEF PipWrite
  <2> HIDE DEF l
  <2>2. pipe' = pipe \/ pipe' = [pipe EXCEPT ![l] = PipeWrite(pipe[l])]
    BY <1>5 DEF PipWrite, l
  <2>3. pipe' \in [Loops -> Pipes]
    BY <2>1, <2>2
  <2>4. ASSUME NEW x \in Loops, "pipe" \in batch[x] PROVE pipe'[x].r < pipe'[x].w
    BY <2>1, <2>2, <2>4
  <2> QED
    BY <1>5, <2>3, <2>4 DEF PipWrite, loopVars
<1>6. ASSUME NEW l \in Loops, RunBody(l) PROVE TypeInv'
  <2>1. CASE FollowUp[running[l]] = NoTask \/ FollowUp[running[l]] \in posted
    BY <1>6, <2>1 DEF RunBody, loopVars, pipeVars
  <2>2. CASE ~ (FollowUp[running[l]] = NoTask \/ FollowUp[running[l]] \in posted)
    <3>1. RunInLoop(l, FollowUp[running[l]]) /\ FollowUp[running[l]] \in Tasks
      BY <1>6, <2>2 DEF RunBody
    <3> QED
      BY <1>T, <1>6, <3>1, RunInLoopType DEF RunBody, loopVars
  <2> QED
    BY <2>1, <2>2
<1>7. ASSUME NEW l \in Loops, Loop(l) \/ EpollError(l) \/ OnTimer(l) \/ Quit(l)
      PROVE  TypeInv'
  BY <1>7 DEF Loop, EpollError, OnTimer, Quit, NextIteration, At, Locations, pipeVars
<1>8. ASSUME NEW l \in Loops, EpollWait(l) PROVE TypeInv'
  BY <1>8 DEF EpollWait, Unread, Pipes, Locations
<1>9. ASSUME NEW l \in Loops, OnRead(l) PROVE TypeInv'
  <2>1. PipeRead(pipe[l]) \in Pipes
    BY <1>9, PipeReadType DEF OnRead
  <2> QED
    BY <1>9, <2>1 DEF OnRead
<1>10. ASSUME NEW l \in Loops, OnOther(l) PROVE TypeInv'
  <2>1. CASE \E k \in Tasks : RunInLoop(l, k)
    BY <1>T, <1>10, <2>1, RunInLoopType DEF OnOther
  <2>2. CASE UNCHANGED <<functions, lock, pipeVars, post, arg, running, posted, log>>
    BY <1>10, <2>2 DEF OnOther, pipeVars
  <2> QED
    BY <1>10, <2>1, <2>2 DEF OnOther
<1>11. ASSUME NEW l \in Loops, RunFunctions(l) \/ Unlock(l) PROVE TypeInv'
  <2>1. \E h \in {l, NoThread}, at \in {"front", "timer"} :
           /\ lock' = [lock EXCEPT ![l] = h]
           /\ pc' = [pc EXCEPT ![l] = at]
           /\ UNCHANGED <<functions, looping, batch, pipeVars, post, arg, running, posted, log>>
    BY <1>11 DEF RunFunctions, Unlock
  <2> QED
    BY <1>T, <2>1 DEF Locations, pipeVars
<1>12. ASSUME NEW l \in Loops, TaskCall(l) PROVE TypeInv'
  <2>1. Head(functions[l]) \in Tasks
    BY <1>12 DEF TaskCall
  <2>2. log[l] \in Seq(Tasks) /\ Append(log[l], Head(functions[l])) \in Seq(Tasks)
    BY <1>T, <2>1
  <2> QED
    BY <1>T, <1>12, <2>1, <2>2 DEF TaskCall, Locations, pipeVars
<1>13. ASSUME NEW l \in Loops, TaskDone(l) PROVE TypeInv'
  <2>1. Tail(functions[l]) \in Seq(Tasks)
    BY <1>13 DEF TaskDone, At
  <2> QED
    BY <1>13, <2>1 DEF TaskDone, Locations, pipeVars
<1>14. ASSUME NEW l \in Loops, TimerCallback(l) PROVE TypeInv'
  BY <1>T, <1>14, RunInLoopType DEF TimerCallback, loopVars
<1>15. CASE UNCHANGED vars
  BY <1>15 DEF vars, loopVars, pipeVars
<1> QED
  BY <1>1, <1>2, <1>3, <1>4, <1>5, <1>6, <1>7, <1>8, <1>9, <1>10, <1>11, <1>12,
     <1>13, <1>14, <1>15 DEF Next, Posting, Serving

\* Every variable keeps its type, in particular the counters of the pipe.
THEOREM TypeCorrect == Spec => []TypeOK
<1>1. Spec => []TypeInv
  BY TypeInvInit, TypeInvNext, PTL DEF Spec
<1>2. TypeInv => TypeOK
  BY DEF TypeInv
<1> QED
  BY <1>1, <1>2, PTL

-----------------------------------------------------------------------------
(* lock_ is what its uses assume.  A poster holds the lock of the loop it  *)
(* posts to from the push to the end of the wake-up, the loop's thread     *)
(* holds its own while it runs tasks, and nobody else holds anything.      *)

Holding == {"wake", "add", "write"}
InQueue == {"front", "call"}

PosterHolds == \A t \in Threads : post[t] \in Holding => lock[Home[arg[t]]] = t
RunnerHolds == \A l \in Loops : pc[l] \in InQueue => lock[l] = l
HoldersOnly ==
  \A l \in Loops : lock[l] # NoThread =>
    \/ lock[l] = l /\ pc[l] \in InQueue
    \/ post[lock[l]] \in Holding /\ Home[arg[lock[l]]] = l
QueuedElsewhere == \A t \in Threads : post[t] # "none" => Home[arg[t]] # t

LockInv == PosterHolds /\ RunnerHolds /\ HoldersOnly /\ QueuedElsewhere

\* RunInLoop takes no lock: a poster starts out waiting, for a loop not its own.
LEMMA RunInLoopLock ==
  ASSUME TypeInv, LockInv, NEW t \in Threads, NEW k \in Tasks, RunInLoop(t, k),
         post[t] = "none", pc' = pc
  PROVE  LockInv'
<1> USE DEF TypeInv, TypeOK, LockInv, PosterHolds, RunnerHolds, HoldersOnly,
            QueuedElsewhere, Holding
<1>1. UNCHANGED <<lock, pc>>
  BY DEF RunInLoop
<1>2. CASE IsInLoopThread(t, Home[k])
  <2>1. UNCHANGED <<post, arg>>
    BY <1>2 DEF RunInLoop
  <2> QED
    BY <1>1, <2>1
<1>3. CASE ~ IsInLoopThread(t, Home[k])
  <2>1. /\ post' = [post EXCEPT ![t] = "lock"]
        /\ arg' = [arg EXCEPT ![t] = k]
        /\ Home[k] # t
    BY <1>3 DEF RunInLoop, IsInLoopThread
  <2> QED
    BY <1>1, <2>1
<1> QED
  BY <1>2, <1>3

LEMMA LockInvInit == Init => LockInv
BY DEF Init, LockInv, PosterHolds, RunnerHolds, HoldersOnly, QueuedElsewhere,
       Holding, InQueue

LEMMA LockInvNext == TypeInv /\ LockInv /\ [Next]_vars => LockInv'
<1> SUFFICES ASSUME TypeInv, LockInv, [Next]_vars PROVE LockInv'
  OBVIOUS
<1> USE ThreadsAssumption, TasksAssumption
    DEF TypeInv, TypeOK, PostersHaveTask, LockInv, PosterHolds, RunnerHolds,
        HoldersOnly, QueuedElsewhere, Holding, InQueue
<1>T. Loops \subseteq Threads /\ Clients \subseteq Threads
  BY DEF Threads
<1>1. ASSUME NEW c \in Clients, ClientPost(c) PROVE LockInv'
  BY <1>T, <1>1, RunInLoopLock DEF ClientPost, loopVars
<1>2. ASSUME NEW t \in Threads, LockAndPush(t) PROVE LockInv'
  <2> DEFINE l == Home[arg[t]]
  <2>1. /\ l \in Loops /\ l # t /\ lock[l] = NoThread
        /\ lock' = [lock EXCEPT ![l] = t]
        /\ post' = [post EXCEPT ![t] = "wake"]
        /\ UNCHANGED <<pc, arg>>
    BY <1>2 DEF LockAndPush, loopVars
  <2>2. PosterHolds' /\ RunnerHolds' /\ QueuedElsewhere'
    BY <1>T, <2>1
  <2>3. HoldersOnly'
    BY <2>1
  <2> QED
    BY <2>2, <2>3
<1>3. ASSUME NEW t \in Threads, WakeUp(t) \/ AddEvent(t) PROVE LockInv'
  <2>1. /\ post[t] \in Holding
        /\ \E p \in Holding : post' = [post EXCEPT ![t] = p]
        /\ UNCHANGED <<lock, pc, arg>>
    BY <1>3 DEF WakeUp, AddEvent, loopVars
  <2> QED
    BY <2>1
<1>4. ASSUME NEW t \in Threads, PipWrite(t) PROVE LockInv'
  <2> DEFINE l == Home[arg[t]]
  <2>1. /\ l \in Loops /\ lock[l] = t /\ l # t
        /\ lock' = [lock EXCEPT ![l] = NoThread]
        /\ post' = [post EXCEPT ![t] = "none"]
        /\ arg' = [arg EXCEPT ![t] = NoTask]
        /\ UNCHANGED pc
    BY <1>4 DEF PipWrite, loopVars
  <2>2. PosterHolds' /\ RunnerHolds' /\ QueuedElsewhere'
    BY <2>1
  <2>3. HoldersOnly'
    BY <2>1
  <2> QED
    BY <2>2, <2>3
<1>5. ASSUME NEW l \in Loops, RunBody(l) PROVE LockInv'
  <2>1. CASE FollowUp[running[l]] = NoTask \/ FollowUp[running[l]] \in posted
    BY <1>5, <2>1 DEF RunBody, loopVars
  <2>2. CASE ~ (FollowUp[running[l]] = NoTask \/ FollowUp[running[l]] \in posted)
    <3>1. /\ RunInLoop(l, FollowUp[running[l]]) /\ FollowUp[running[l]] \in Tasks
          /\ post[l] = "none" /\ UNCHANGED pc
      BY <1>5, <2>2 DEF RunBody, loopVars
    <3> QED
      BY <1>T, <3>1, RunInLoopLock
  <2> QED
    BY <2>1, <2>2
<1>6. ASSUME NEW l \in Loops,
             Loop(l) \/ EpollWait(l) \/ EpollError(l) \/ OnTimer(l)
      PROVE  LockInv'
  <2>1. /\ pc[l] \notin InQueue
        /\ \E at \in Locations \ InQueue : pc' = [pc EXCEPT ![l] = at]
        /\ UNCHANGED <<lock, post, arg>>
    <3>1. CASE Loop(l)
      BY <3>1 DEF Loop, At, Locations
    <3>2. CASE EpollWait(l)
      BY <3>2 DEF EpollWait, At, Locations
    <3>3. CASE EpollError(l) \/ OnTimer(l)
      BY <3>3 DEF EpollError, OnTimer, NextIteration, At, Locations
    <3> QED
      BY <1>6, <3>1, <3>2, <3>3
  <2> QED
    BY <2>1
<1>7. ASSUME NEW l \in Loops, OnRead(l) \/ Quit(l) PROVE LockInv'
  BY <1>7 DEF OnRead, Quit
<1>8. ASSUME NEW l \in Loops, OnOther(l) \/ TimerCallback(l) PROVE LockInv'
  <2>1. CASE \E k \in Tasks : RunInLoop(l, k)
    BY <1>T, <1>8, <2>1, RunInLoopLock DEF OnOther, TimerCallback, At, loopVars
  <2>2. CASE UNCHANGED <<functions, lock, pipeVars, post, arg, running, posted, log>>
    BY <1>8, <2>2 DEF OnOther, TimerCallback, loopVars
  <2> QED
    BY <1>8, <2>1, <2>2 DEF OnOther, TimerCallback
<1>9. ASSUME NEW l \in Loops, RunFunctions(l) PROVE LockInv'
  <2>1. /\ lock[l] = NoThread
        /\ lock' = [lock EXCEPT ![l] = l]
        /\ pc' = [pc EXCEPT ![l] = "front"]
        /\ UNCHANGED <<post, arg>>
    BY <1>9 DEF RunFunctions
  <2> QED
    BY <1>T, <2>1
<1>10. ASSUME NEW l \in Loops, TaskCall(l) \/ TaskDone(l) PROVE LockInv'
  <2>1. /\ pc[l] \in InQueue
        /\ \E at \in InQueue : pc' = [pc EXCEPT ![l] = at]
        /\ UNCHANGED <<lock, post, arg>>
    BY <1>10 DEF TaskCall, TaskDone, At
  <2> QED
    BY <2>1
<1>11. ASSUME NEW l \in Loops, Unlock(l) PROVE LockInv'
  <2>1. /\ lock[l] = l
        /\ post[l] = "none"
        /\ lock' = [lock EXCEPT ![l] = NoThread]
        /\ pc' = [pc EXCEPT ![l] = "timer"]
        /\ UNCHANGED <<post, arg>>
    BY <1>11 DEF Unlock, At
  <2>2. \A t \in Threads : post[t] \in Holding => Home[arg[t]] # l
    BY <1>T, <2>1
  <2>3. PosterHolds' /\ QueuedElsewhere' /\ HoldersOnly'
    BY <2>1, <2>2
  <2>4. RunnerHolds'
    BY <2>1
  <2> QED
    BY <2>3, <2>4
<1>12. CASE UNCHANGED vars
  BY <1>12 DEF vars, loopVars
<1> QED
  BY <1>1, <1>2, <1>3, <1>4, <1>5, <1>6, <1>7, <1>8, <1>9, <1>10, <1>11, <1>12
     DEF Next, Posting, Serving

-----------------------------------------------------------------------------
(* No wake-up is lost.  The reason is established while the poster still   *)
(* holds lock_, and nothing takes it away until the loop is in epoll_wait: *)
(* from the moment the loop has unlocked an empty queue (or has not begun) *)
(* it reads nothing from the pipe.                                         *)

Signalled(l) == (ready[l] /\ Unread(pipe[l]) > 0) \/ Full(pipe[l])

WakeInv ==
  \A l \in Loops :
    pc[l] \in {"start", "timer", "wait"} /\ lock[l] = NoThread /\ functions[l] # <<>>
      => Signalled(l)

LEMMA WakeInvNext == TypeInv /\ LockInv /\ WakeInv /\ [Next]_vars => WakeInv'
<1> SUFFICES ASSUME TypeInv, LockInv, WakeInv, [Next]_vars,
                    NEW m \in Loops,
                    pc'[m] \in {"start", "timer", "wait"},
                    lock'[m] = NoThread, functions'[m] # <<>>
             PROVE  Signalled(m)'
  BY DEF WakeInv
<1> USE ThreadsAssumption, TasksAssumption
    DEF TypeInv, TypeOK, PostersHaveTask, Signalled, Unread, Full
<1>T. Loops \subseteq Threads /\ Clients \subseteq Threads
  BY DEF Threads
<1>S. ASSUME UNCHANGED <<pc, lock, functions, pipe, ready>> PROVE Signalled(m)'
  BY <1>S DEF WakeInv
<1>R. ASSUME NEW t \in Threads, NEW k \in Tasks, RunInLoop(t, k), pc' = pc
      PROVE  Signalled(m)'
  BY <1>R, <1>S DEF RunInLoop, pipeVars
<1>1. ASSUME NEW c \in Clients, ClientPost(c) PROVE Signalled(m)'
  BY <1>T, <1>R, <1>1 DEF ClientPost, loopVars
<1>2. ASSUME NEW t \in Threads, LockAndPush(t) PROVE Signalled(m)'
  <2> DEFINE l == Home[arg[t]]
  <2>1. /\ l \in Loops /\ lock' = [lock EXCEPT ![l] = t]
        /\ \A x \in Loops : x # l => functions'[x] = functions[x]
        /\ UNCHANGED <<pc, pipe, ready>>
    BY <1>2 DEF LockAndPush, loopVars, pipeVars
  <2>2. m # l
    BY <1>T, <2>1
  <2> QED
    BY <2>1, <2>2 DEF WakeInv
<1>3. ASSUME NEW t \in Threads, WakeUp(t) \/ AddEvent(t) PROVE Signalled(m)'
  BY <1>3, <1>S DEF WakeUp, AddEvent, loopVars
<1>4. ASSUME NEW t \in Threads, PipWrite(t) PROVE Signalled(m)'
  <2> DEFINE l == Home[arg[t]]
  <2>1. /\ l \in Loops /\ lock' = [lock EXCEPT ![l] = NoThread]
        /\ UNCHANGED <<pc, functions>>
    BY <1>4 DEF PipWrite, loopVars
  <2>2. CASE ~ Full(pipe[l])
    <3>1. /\ pipe' = [pipe EXCEPT ![l] = PipeWrite(pipe[l])]
          /\ ready' = [ready EXCEPT ![l] = TRUE]
      BY <1>4, <2>2 DEF PipWrite
    <3>2. PipeWrite(pipe[l]) \in Pipes /\ PipeWrite(pipe[l]).r < PipeWrite(pipe[l]).w
      BY <2>1, PipeWriteType
    <3>3. PipeWrite(pipe[l]).w - PipeWrite(pipe[l]).r > 0
      BY <3>2 DEF Pipes
    <3>4. CASE m = l
      BY <2>1, <3>1, <3>3, <3>4
    <3>5. CASE m # l
      BY <2>1, <3>1, <3>5 DEF WakeInv
    <3> QED
      BY <3>4, <3>5
  <2>3. CASE Full(pipe[l])
    <3>1. UNCHANGED <<pipe, ready>>
      BY <1>4, <2>3 DEF PipWrite
    <3> QED
      BY <2>1, <2>3, <3>1 DEF WakeInv
  <2> QED
    BY <2>2, <2>3
<1>5. ASSUME NEW l \in Loops, RunBody(l) PROVE Signalled(m)'
  <2>1. CASE FollowUp[running[l]] = NoTask \/ FollowUp[running[l]] \in posted
    BY <1>5, <2>1, <1>S DEF RunBody, loopVars, pipeVars
  <2>2. CASE ~ (FollowUp[running[l]] = NoTask \/ FollowUp[running[l]] \in posted)
    BY <1>T, <1>5, <2>2, <1>R DEF RunBody, loopVars
  <2> QED
    BY <2>1, <2>2
<1>6. ASSUME NEW l \in Loops, Loop(l) \/ EpollError(l) \/ OnTimer(l)
      PROVE  Signalled(m)'
  <2>1. /\ pc[l] \in {"start", "timer", "wait"}
        /\ \A x \in Loops : x # l => pc'[x] = pc[x]
        /\ UNCHANGED <<lock, functions, pipe, ready>>
    BY <1>6 DEF Loop, EpollError, OnTimer, NextIteration, At, pipeVars
  <2> QED
    BY <2>1 DEF WakeInv
<1>7. ASSUME NEW l \in Loops, EpollWait(l) PROVE Signalled(m)'
  <2>1. /\ pc' = [pc EXCEPT ![l] = "events"]
        /\ \A x \in Loops : x # l => ready'[x] = ready[x]
        /\ UNCHANGED <<lock, functions, pipe>>
    BY <1>7 DEF EpollWait
  <2> QED
    BY <2>1 DEF WakeInv
<1>8. ASSUME NEW l \in Loops, OnRead(l) PROVE Signalled(m)'
  <2>1. /\ pc[l] = "events"
        /\ \A x \in Loops : x # l => pipe'[x] = pipe[x]
        /\ UNCHANGED <<pc, lock, functions, ready>>
    BY <1>8 DEF OnRead, At
  <2> QED
    BY <2>1 DEF WakeInv
<1>9. ASSUME NEW l \in Loops, OnOther(l) \/ TimerCallback(l) PROVE Signalled(m)'
  <2>1. CASE \E k \in Tasks : RunInLoop(l, k)
    BY <1>T, <1>9, <2>1, <1>R DEF OnOther, TimerCallback, loopVars
  <2>2. CASE UNCHANGED <<functions, lock, pipeVars, post, arg, running, posted, log>>
    BY <1>9, <2>2, <1>S DEF OnOther, TimerCallback, loopVars, pipeVars
  <2> QED
    BY <1>9, <2>1, <2>2 DEF OnOther, TimerCallback
<1>10. ASSUME NEW l \in Loops, RunFunctions(l) \/ TaskCall(l) \/ TaskDone(l)
       PROVE  Signalled(m)'
  <2>1. /\ pc'[l] \in InQueue
        /\ \A x \in Loops : x # l => /\ pc'[x] = pc[x]
                                      /\ lock'[x] = lock[x]
                                      /\ functions'[x] = functions[x]
        /\ UNCHANGED <<pipe, ready>>
    BY <1>10 DEF RunFunctions, TaskCall, TaskDone, InQueue, pipeVars
  <2> QED
    BY <2>1 DEF WakeInv, InQueue
<1>11. ASSUME NEW l \in Loops, Unlock(l) PROVE Signalled(m)'
  <2>1. /\ functions[l] = <<>>
        /\ \A x \in Loops : x # l => pc'[x] = pc[x] /\ lock'[x] = lock[x]
        /\ UNCHANGED <<functions, pipe, ready>>
    BY <1>11 DEF Unlock, pipeVars
  <2> QED
    BY <2>1 DEF WakeInv
<1>12. ASSUME NEW l \in Loops, Quit(l) PROVE Signalled(m)'
  BY <1>12, <1>S DEF Quit, pipeVars
<1>13. CASE UNCHANGED vars
  BY <1>13, <1>S DEF vars, loopVars, pipeVars
<1> QED
  BY <1>1, <1>2, <1>3, <1>4, <1>5, <1>6, <1>7, <1>8, <1>9, <1>10, <1>11, <1>12,
     <1>13 DEF Next, Posting, Serving

\* A loop in epoll_wait with tasks queued and lock_ free has an edge of the pipe
\* on its way, or a full pipe, for any number of loops, threads and tasks.
THEOREM WakeupNeverLost == Spec => []NoLostWakeup
<1>1. Init => TypeInv /\ LockInv /\ WakeInv
  <2>1. Init => WakeInv
    BY DEF Init, WakeInv
  <2> QED
    BY <2>1, TypeInvInit, LockInvInit
<1>2. TypeInv /\ LockInv /\ WakeInv /\ [Next]_vars => (TypeInv /\ LockInv /\ WakeInv)'
  BY TypeInvNext, LockInvNext, WakeInvNext
<1>3. WakeInv => NoLostWakeup
  BY DEF WakeInv, NoLostWakeup, Signalled
<1> QED
  BY <1>1, <1>2, <1>3, PTL DEF Spec

-----------------------------------------------------------------------------
(* No circular wait.  A thread that waits for a lock while it holds one is *)
(* a loop's thread inside a queued task, about to hand a task to another   *)
(* loop: when it waits for a member of the set, that member holds its own  *)
(* lock and waits too, one hand-over further.  The chain must end.         *)

TasksOf(l) == {k \in Tasks : Home[k] = l}

BodyInv ==
  \A l \in Loops :
    /\ functions[l] \in Seq(TasksOf(l))
    /\ running[l] # NoTask => Home[running[l]] = l
    /\ pc[l] = "call" /\ post[l] # "none" => <<Home[arg[l]], l>> \in HandOver
    /\ pc[l] = "front" => post[l] = "none" /\ running[l] = NoTask

\* RunInLoop keeps BodyInv if what a queued task hands on is its follow-up.
LEMMA RunInLoopBody ==
  ASSUME TypeInv, BodyInv, NEW t \in Threads, NEW k \in Tasks, RunInLoop(t, k),
         pc' = pc,
         t \in Loops => pc[t] # "front",
         t \in Loops /\ pc[t] = "call" /\ Home[k] # t => <<Home[k], t>> \in HandOver
  PROVE  BodyInv'
<1> USE DEF TypeInv, TypeOK, BodyInv
<1>1. UNCHANGED functions
  BY DEF RunInLoop
<1>2. CASE IsInLoopThread(t, Home[k])
  <2>1. running' = [running EXCEPT ![t] = k] /\ Home[k] = t /\ UNCHANGED <<post, arg>>
    BY <1>2 DEF RunInLoop, IsInLoopThread
  <2> QED
    BY <1>1, <2>1
<1>3. CASE ~ IsInLoopThread(t, Home[k])
  <2>1. /\ post' = [post EXCEPT ![t] = "lock"]
        /\ arg' = [arg EXCEPT ![t] = k]
        /\ Home[k] # t
        /\ UNCHANGED running
    BY <1>3 DEF RunInLoop, IsInLoopThread
  <2> QED
    BY <1>1, <2>1 DEF Threads
<1> QED
  BY <1>2, <1>3

LEMMA BodyInvNext == TypeInv /\ LockInv /\ BodyInv /\ [Next]_vars => BodyInv'
<1> SUFFICES ASSUME TypeInv, LockInv, BodyInv, [Next]_vars PROVE BodyInv'
  OBVIOUS
<1> USE ThreadsAssumption, TasksAssumption
    DEF TypeInv, TypeOK, PostersHaveTask, BodyInv
<1>T. Loops \subseteq Threads /\ Clients \subseteq Threads
  BY DEF Threads
<1>1. ASSUME NEW c \in Clients, ClientPost(c) PROVE BodyInv'
  BY <1>T, <1>1, RunInLoopBody DEF ClientPost, loopVars
<1>2. ASSUME NEW t \in Threads, LockAndPush(t) PROVE BodyInv'
  <2> DEFINE l == Home[arg[t]]
  <2>1. /\ l \in Loops /\ arg[t] \in TasksOf(l)
        /\ functions' = [functions EXCEPT ![l] = Append(functions[l], arg[t])]
        /\ post[t] # "none"
        /\ post' = [post EXCEPT ![t] = "wake"]
        /\ UNCHANGED <<pc, arg, running>>
    BY <1>2 DEF LockAndPush, loopVars, TasksOf
  <2>2. Append(functions[l], arg[t]) \in Seq(TasksOf(l))
    BY <2>1, AppendType
  <2> QED
    BY <2>1, <2>2
<1>3. ASSUME NEW t \in Threads, WakeUp(t) \/ AddEvent(t) PROVE BodyInv'
  <2>1. /\ post[t] # "none"
        /\ \E p \in {"add", "write"} : post' = [post EXCEPT ![t] = p]
        /\ UNCHANGED <<functions, pc, arg, running>>
    BY <1>3 DEF WakeUp, AddEvent, loopVars
  <2> QED
    BY <2>1
<1>4. ASSUME NEW t \in Threads, PipWrite(t) PROVE BodyInv'
  <2>1. /\ post' = [post EXCEPT ![t] = "none"]
        /\ arg' = [arg EXCEPT ![t] = NoTask]
        /\ \A x \in Loops : running'[x] # NoTask => running'[x] = running[x]
        /\ UNCHANGED <<functions, pc>>
    BY <1>4 DEF PipWrite, loopVars
  <2> QED
    BY <1>T, <2>1
<1>5. ASSUME NEW l \in Loops, RunBody(l) PROVE BodyInv'
  <2> DEFINE k == FollowUp[running[l]]
  <2>1. CASE k = NoTask \/ k \in posted
    BY <1>5, <2>1 DEF RunBody, loopVars
  <2>2. CASE ~ (k = NoTask \/ k \in posted)
    <3>1. running[l] \in Tasks /\ Home[running[l]] = l /\ pc[l] # "front"
      BY <1>5 DEF RunBody
    <3>2. RunInLoop(l, k) /\ k \in Tasks /\ UNCHANGED pc
      BY <1>5, <2>2, <3>1 DEF RunBody, loopVars
    <3>3. Home[k] # l => <<Home[k], l>> \in HandOver
      BY <2>2, <3>1, <3>2 DEF HandOver
    <3> QED
      BY <1>T, <3>1, <3>2, <3>3, RunInLoopBody
  <2> QED
    BY <2>1, <2>2
<1>6. ASSUME NEW l \in Loops,
             Loop(l) \/ EpollWait(l) \/ EpollError(l) \/ OnTimer(l)
             \/ RunFunctions(l) \/ Unlock(l)
      PROVE  BodyInv'
  <2>1. /\ pc'[l] # "call"
        /\ pc'[l] = "front" => post[l] = "none" /\ running[l] = NoTask
        /\ \A x \in Loops : x # l => pc'[x] = pc[x]
        /\ UNCHANGED <<functions, post, arg, running>>
    <3>1. CASE Loop(l) \/ EpollWait(l)
      BY <3>1 DEF Loop, EpollWait
    <3>2. CASE EpollError(l) \/ OnTimer(l)
      BY <3>2 DEF EpollError, OnTimer, NextIteration
    <3>3. CASE RunFunctions(l) \/ Unlock(l)
      BY <3>3 DEF RunFunctions, Unlock, At
    <3> QED
      BY <1>6, <3>1, <3>2, <3>3
  <2> QED
    BY <2>1
<1>7. ASSUME NEW l \in Loops, OnRead(l) \/ Quit(l) PROVE BodyInv'
  BY <1>7 DEF OnRead, Quit
<1>8. ASSUME NEW l \in Loops, OnOther(l) \/ TimerCallback(l) PROVE BodyInv'
  <2>1. pc[l] \notin {"front", "call"} /\ UNCHANGED pc
    BY <1>8 DEF OnOther, TimerCallback, At, loopVars
  <2>2. CASE \E k \in Tasks : RunInLoop(l, k)
    BY <1>T, <2>1, <2>2, RunInLoopBody
  <2>3. CASE UNCHANGED <<functions, lock, pipeVars, post, arg, running, posted, log>>
    BY <2>1, <2>3
  <2> QED
    BY <1>8, <2>2, <2>3 DEF OnOther, TimerCallback
<1>9. ASSUME NEW l \in Loops, TaskCall(l) PROVE BodyInv'
  <2>1. Head(functions[l]) \in TasksOf(l)
    BY <1>9, HeadTailType DEF TaskCall
  <2>2. /\ running' = [running EXCEPT ![l] = Head(functions[l])]
        /\ pc' = [pc EXCEPT ![l] = "call"]
        /\ post[l] = "none"
        /\ UNCHANGED <<functions, post, arg>>
    BY <1>9 DEF TaskCall, At
  <2> QED
    BY <2>1, <2>2 DEF TasksOf
<1>10. ASSUME NEW l \in Loops, TaskDone(l) PROVE BodyInv'
  <2>1. Tail(functions[l]) \in Seq(TasksOf(l))
    BY <1>10, HeadTailType DEF TaskDone, At, CalledTaskQueued
  <2>2. /\ functions' = [functions EXCEPT ![l] = Tail(functions[l])]
        /\ pc' = [pc EXCEPT ![l] = "front"]
        /\ post[l] = "none" /\ running[l] = NoTask
        /\ UNCHANGED <<post, arg, running>>
    BY <1>10 DEF TaskDone, At
  <2> QED
    BY <2>1, <2>2
<1>11. CASE UNCHANGED vars
  BY <1>11 DEF vars, loopVars
<1> QED
  BY <1>1, <1>2, <1>3, <1>4, <1>5, <1>6, <1>7, <1>8, <1>9, <1>10, <1>11
     DEF Next, Posting, Serving

\* In a state of these invariants, hand-overs that come to an end leave no set of
\* threads waiting for one another.
LEMMA NoCircle ==
  ASSUME TypeInv, LockInv, BodyInv, IsWellFoundedOn(HandOver, Loops)
  PROVE  NoCircularWait
<1> SUFFICES ASSUME NEW S \in SUBSET Threads, S # {},
                    \A t \in S : \E l \in Loops : Waits(t, l) /\ lock[l] \in S
             PROVE  FALSE
  BY DEF NoCircularWait
<1> DEFINE T == {l \in Loops \cap S : lock[l] = l /\ pc[l] = "call" /\ post[l] = "lock"}
<1>1. ASSUME NEW l \in Loops, lock[l] \in S PROVE l \in T /\ lock[l] = l
  <2> DEFINE u == lock[l]
  <2>1. u \in Threads /\ u # NoThread
    BY <1>1, ThreadsAssumption
  <2>2. PICK x \in Loops : Waits(u, x)
    BY <1>1
  <2>3. post[u] \notin Holding
    BY <2>2 DEF Waits, At, Holding
  <2>4. u = l /\ pc[l] \in InQueue
    BY <2>1, <2>3 DEF LockInv, HoldersOnly
  <2>5. post[u] = "lock"
    BY <2>2, <2>4 DEF Waits, At, InQueue
  <2>6. pc[l] = "call"
    BY <2>4, <2>5 DEF InQueue, BodyInv
  <2> QED
    BY <1>1, <2>4, <2>5, <2>6
<1>2. T # {}
  BY <1>1
<1>3. PICK x \in T : \A y \in T : <<y, x>> \notin HandOver
  BY <1>2, WFMin
<1>4. PICK l \in Loops : Waits(x, l) /\ lock[l] \in S
  OBVIOUS
<1>5. l = Home[arg[x]]
  BY <1>4 DEF Waits, At
<1>6. <<l, x>> \in HandOver
  BY <1>5 DEF BodyInv
<1> QED
  BY <1>1, <1>3, <1>4, <1>6

\* If hand-overs between loops come to an end, no set of threads is ever waiting
\* for locks that its own members hold.
THEOREM NoDeadlock ==
  ASSUME IsWellFoundedOn(HandOver, Loops)
  PROVE  Spec => []NoCircularWait
<1> DEFINE Inv == TypeInv /\ LockInv /\ BodyInv
<1>1. Init => Inv
  <2>1. Init => BodyInv
    BY DEF Init, BodyInv
  <2> QED
    BY <2>1, TypeInvInit, LockInvInit
<1>2. Inv /\ [Next]_vars => Inv'
  BY TypeInvNext, LockInvNext, BodyInvNext
<1>3. Inv => NoCircularWait
  BY NoCircle
<1> HIDE DEF Inv
<1> QED
  BY <1>1, <1>2, <1>3, PTL DEF Spec

-----------------------------------------------------------------------------
(* RunInLoop implements Executor.  The refinement needs that a task being  *)
(* queued is nowhere yet, and that two threads never queue the same task.  *)

Used(k) == \/ \E l \in Loops : Contains(functions[l], k)
           \/ \E t \in Threads : Contains(log[t], k)

FreshInv ==
  /\ \A k \in Tasks : Used(k) => k \in posted
  /\ \A t \in Threads : post[t] = "lock" => arg[t] \in posted /\ ~ Used(arg[t])
  /\ \A t, u \in Threads :
       t # u /\ post[t] = "lock" /\ post[u] = "lock" => arg[t] # arg[u]

\* A sequence extended by e contains what it did, and e.
LEMMA ContainsAppend ==
  ASSUME NEW S, NEW s \in Seq(S), NEW e \in S, NEW k
  PROVE  Contains(Append(s, e), k) <=> Contains(s, k) \/ k = e
<1>1. /\ Len(s) \in Nat /\ Len(Append(s, e)) = Len(s) + 1
      /\ \A i \in 1 .. Len(s) : Append(s, e)[i] = s[i]
      /\ Append(s, e)[Len(s) + 1] = e
  OBVIOUS
<1>2. \A i : i \in 1 .. Len(s) + 1 <=> i \in 1 .. Len(s) \/ i = Len(s) + 1
  BY <1>1
<1> HIDE <1>1
<1>3. ASSUME Contains(Append(s, e), k) PROVE Contains(s, k) \/ k = e
  <2>1. PICK i \in 1 .. Len(s) + 1 : Append(s, e)[i] = k
    BY <1>1, <1>3 DEF Contains
  <2> QED
    BY <1>1, <1>2, <2>1 DEF Contains
<1>4. ASSUME Contains(s, k) PROVE Contains(Append(s, e), k)
  BY <1>1, <1>2, <1>4 DEF Contains
<1>5. ASSUME k = e PROVE Contains(Append(s, e), k)
  BY <1>1, <1>2, <1>5 DEF Contains
<1> QED
  BY <1>3, <1>4, <1>5

\* The tail of a sequence contains nothing new, and the head belongs to it.
LEMMA ContainsTail ==
  ASSUME NEW S, NEW s \in Seq(S), s # <<>>, NEW k
  PROVE  Contains(s, Head(s)) /\ (Contains(Tail(s), k) => Contains(s, k))
<1>1. /\ Len(s) \in Nat \ {0} /\ Head(s) = s[1]
      /\ Len(Tail(s)) = Len(s) - 1
      /\ \A i \in 1 .. Len(s) - 1 : Tail(s)[i] = s[i + 1]
  OBVIOUS
<1>2. \A i \in 1 .. Len(s) - 1 : i + 1 \in 1 .. Len(s)
  BY <1>1
<1>3. 1 \in 1 .. Len(s)
  BY <1>1
<1> QED
  BY <1>1, <1>2, <1>3 DEF Contains

\* Taking the head of a sequence and extending it commute.
LEMMA TailAppend ==
  ASSUME NEW S, NEW s \in Seq(S), s # <<>>, NEW e \in S
  PROVE  Tail(Append(s, e)) = Append(Tail(s), e)
OBVIOUS

\* RunInLoop starts out with a task that is nowhere and marks it as handed out.
LEMMA RunInLoopFresh ==
  ASSUME TypeInv, FreshInv, NEW t \in Threads, NEW k \in Tasks, RunInLoop(t, k),
         post[t] = "none"
  PROVE  FreshInv'
<1> USE DEF TypeInv, TypeOK, FreshInv
<1>1. k \notin posted /\ posted' = posted \cup {k} /\ UNCHANGED functions /\ ~ Used(k)
  BY DEF RunInLoop
<1>2. CASE IsInLoopThread(t, Home[k])
  <2>1. log' = [log EXCEPT ![t] = Append(log[t], k)] /\ UNCHANGED <<post, arg>>
    BY <1>2 DEF RunInLoop
  <2>2. \A u \in Threads, j \in Tasks : Contains(log'[u], j) => Contains(log[u], j) \/ j = k
    BY <2>1, ContainsAppend
  <2>3. \A j \in Tasks : Used(j)' => Used(j) \/ j = k
    BY <1>1, <2>2 DEF Used
  <2>4. \A u \in Threads : post[u] = "lock" => arg[u] \in Tasks /\ arg[u] # k
    BY <1>1
  <2> QED
    BY <1>1, <2>1, <2>3, <2>4
<1>3. CASE ~ IsInLoopThread(t, Home[k])
  <2>1. /\ post' = [post EXCEPT ![t] = "lock"]
        /\ arg' = [arg EXCEPT ![t] = k]
        /\ UNCHANGED log
    BY <1>3 DEF RunInLoop
  <2>2. \A j : Used(j)' <=> Used(j)
    BY <1>1, <2>1 DEF Used
  <2> QED
    BY <1>1, <2>1, <2>2
<1> QED
  BY <1>2, <1>3

LEMMA FreshInvNext == TypeInv /\ FreshInv /\ [Next]_vars => FreshInv'
<1> SUFFICES ASSUME TypeInv, FreshInv, [Next]_vars PROVE FreshInv'
  OBVIOUS
<1> USE TasksAssumption DEF TypeInv, TypeOK, PostersHaveTask, FreshInv
<1>T. Loops \subseteq Threads /\ Clients \subseteq Threads
  BY DEF Threads
<1>S. ASSUME UNCHANGED <<functions, log, posted>>,
             \A t \in Threads : post'[t] = "lock" => post[t] = "lock" /\ arg'[t] = arg[t]
      PROVE  FreshInv'
  <2>1. \A j : Used(j)' <=> Used(j)
    BY <1>S DEF Used
  <2> QED
    BY <1>S, <2>1
<1>1. ASSUME NEW c \in Clients, ClientPost(c) PROVE FreshInv'
  BY <1>T, <1>1, RunInLoopFresh DEF ClientPost
<1>2. ASSUME NEW t \in Threads, LockAndPush(t) PROVE FreshInv'
  <2> DEFINE l == Home[arg[t]]  k == arg[t]
  <2>1. /\ k \in Tasks /\ l \in Loops /\ post[t] = "lock"
        /\ functions' = [functions EXCEPT ![l] = Append(functions[l], k)]
        /\ post' = [post EXCEPT ![t] = "wake"]
        /\ UNCHANGED <<arg, log, posted>>
    BY <1>2 DEF LockAndPush
  <2>2. \A x \in Loops, j \in Tasks :
          Contains(functions'[x], j) => Contains(functions[x], j) \/ j = k
    BY <2>1, ContainsAppend
  <2>3. \A j \in Tasks : Used(j)' => Used(j) \/ j = k
    BY <2>1, <2>2 DEF Used
  <2>4. \A u \in Threads :
          post'[u] = "lock" => post[u] = "lock" /\ arg[u] \in Tasks /\ arg[u] # k
    BY <2>1
  <2> QED
    BY <2>1, <2>3, <2>4
<1>3. ASSUME NEW t \in Threads, WakeUp(t) \/ AddEvent(t) \/ PipWrite(t)
      PROVE  FreshInv'
  <2>1. /\ UNCHANGED <<functions, log, posted>>
        /\ \E p \in {"none", "add", "write"} : post' = [post EXCEPT ![t] = p]
        /\ \A u \in Threads : u # t => arg'[u] = arg[u]
    BY <1>3 DEF WakeUp, AddEvent, PipWrite
  <2> QED
    BY <1>S, <2>1
<1>4. ASSUME NEW l \in Loops, RunBody(l) PROVE FreshInv'
  <2> DEFINE k == FollowUp[running[l]]
  <2>1. CASE k = NoTask \/ k \in posted
    BY <1>4, <1>S, <2>1 DEF RunBody
  <2>2. CASE ~ (k = NoTask \/ k \in posted)
    <3>1. RunInLoop(l, k) /\ k \in Tasks /\ post[l] = "none"
      BY <1>4, <2>2 DEF RunBody
    <3> QED
      BY <1>T, <3>1, RunInLoopFresh
  <2> QED
    BY <2>1, <2>2
<1>5. ASSUME NEW l \in Loops,
             Loop(l) \/ EpollWait(l) \/ EpollError(l) \/ OnRead(l)
             \/ RunFunctions(l) \/ Unlock(l) \/ OnTimer(l) \/ Quit(l)
      PROVE  FreshInv'
  <2>1. UNCHANGED <<functions, log, posted, post, arg>>
    BY <1>5 DEF Loop, EpollWait, EpollError, OnRead, RunFunctions, Unlock, OnTimer, Quit
  <2> QED
    BY <1>S, <2>1
<1>6. ASSUME NEW l \in Loops, OnOther(l) \/ TimerCallback(l) PROVE FreshInv'
  <2>1. CASE \E k \in Tasks : RunInLoop(l, k)
    BY <1>T, <1>6, <2>1, RunInLoopFresh DEF OnOther, TimerCallback, At
  <2>2. CASE UNCHANGED <<functions, lock, pipeVars, post, arg, running, posted, log>>
    BY <1>S, <2>2
  <2> QED
    BY <1>6, <2>1, <2>2 DEF OnOther, TimerCallback
<1>7. ASSUME NEW l \in Loops, TaskCall(l) PROVE FreshInv'
  <2> DEFINE k == Head(functions[l])
  <2>1. k \in Tasks /\ Contains(functions[l], k)
    BY <1>7, HeadTailType, ContainsTail DEF TaskCall
  <2>2. /\ log' = [log EXCEPT ![l] = Append(log[l], k)]
        /\ UNCHANGED <<functions, post, arg, posted>>
    BY <1>7 DEF TaskCall
  <2> HIDE DEF k
  <2>3. \A t \in Threads, j \in Tasks : Contains(log'[t], j) => Contains(log[t], j) \/ j = k
    BY <1>T, <2>1, <2>2, ContainsAppend
  <2>4. \A j \in Tasks : Used(j)' => Used(j)
    BY <2>1, <2>2, <2>3 DEF Used
  <2> QED
    BY <2>2, <2>4
<1>8. ASSUME NEW l \in Loops, TaskDone(l) PROVE FreshInv'
  <2>1. /\ functions[l] # <<>>
        /\ functions' = [functions EXCEPT ![l] = Tail(functions[l])]
        /\ UNCHANGED <<log, post, arg, posted>>
    BY <1>8 DEF TaskDone, At, CalledTaskQueued
  <2>2. \A x \in Loops, j \in Tasks : Contains(functions'[x], j) => Contains(functions[x], j)
    BY <2>1, ContainsTail
  <2>3. \A j \in Tasks : Used(j)' => Used(j)
    BY <2>1, <2>2 DEF Used
  <2> QED
    BY <2>1, <2>3
<1>9. CASE UNCHANGED vars
  BY <1>9, <1>S DEF vars
<1> QED
  BY <1>1, <1>2, <1>3, <1>4, <1>5, <1>6, <1>7, <1>8, <1>9 DEF Next, Posting, Serving

\* RunInLoop on the loop's own thread is RunInline, elsewhere it is a stutter.
LEMMA RunInLoopAbs ==
  ASSUME TypeInv, FreshInv, NEW t \in Threads, NEW k \in Tasks, RunInLoop(t, k), pc' = pc
  PROVE  [Abs!Next]_(Abs!vars)
<1> USE DEF TypeInv, TypeOK
<1>1. UNCHANGED Pending
  BY DEF RunInLoop, Pending
<1>2. CASE IsInLoopThread(t, Home[k])
  <2>1. log' = [log EXCEPT ![Home[k]] = Append(@, k)]
    BY <1>2 DEF RunInLoop, IsInLoopThread
  <2>2. ~ Used(k)
    BY DEF RunInLoop, FreshInv
  <2>3. ASSUME NEW l \in Loops PROVE ~ Contains(Pending[l], k)
    <3>1. functions[l] \in Seq(Tasks) /\ ~ Contains(functions[l], k)
      BY <2>2 DEF Used
    <3>2. pc[l] = "call" => functions[l] # <<>>
      BY DEF CalledTaskQueued
    <3> QED
      BY <3>1, <3>2, ContainsTail DEF Pending
  <2>4. Abs!Fresh(k)
    BY <2>2, <2>3 DEF Abs!Fresh, Abs!Contains, Contains, Used
  <2>5. Abs!RunInline(k)
    BY <1>1, <2>1, <2>4 DEF Abs!RunInline
  <2> QED
    BY <2>5 DEF Abs!Next
<1>3. CASE ~ IsInLoopThread(t, Home[k])
  BY <1>1, <1>3 DEF RunInLoop, Abs!vars
<1> QED
  BY <1>2, <1>3

LEMMA NextAbs == TypeInv /\ FreshInv /\ [Next]_vars => [Abs!Next]_(Abs!vars)
<1> SUFFICES ASSUME TypeInv, FreshInv, [Next]_vars PROVE [Abs!Next]_(Abs!vars)
  OBVIOUS
<1> USE TasksAssumption DEF TypeInv, TypeOK, PostersHaveTask
<1>T. Loops \subseteq Threads /\ Clients \subseteq Threads
  BY DEF Threads
<1>S. ASSUME UNCHANGED <<functions, log>>,
             \A l \in Loops : pc'[l] = "call" <=> pc[l] = "call"
      PROVE  UNCHANGED Abs!vars
  BY <1>S DEF Abs!vars, Pending
<1>1. ASSUME NEW c \in Clients, ClientPost(c) PROVE [Abs!Next]_(Abs!vars)
  BY <1>T, <1>1, RunInLoopAbs DEF ClientPost, loopVars
<1>2. ASSUME NEW t \in Threads, LockAndPush(t) PROVE Abs!Next
  <2> DEFINE l == Home[arg[t]]  k == arg[t]
  <2>1. /\ k \in Tasks /\ l \in Loops /\ ~ Used(k)
        /\ functions' = [functions EXCEPT ![l] = Append(functions[l], k)]
        /\ UNCHANGED <<pc, log>>
    BY <1>2 DEF LockAndPush, loopVars, FreshInv
  <2>2. ASSUME NEW x \in Loops PROVE ~ Contains(Pending[x], k)
    <3>1. functions[x] \in Seq(Tasks) /\ ~ Contains(functions[x], k)
      BY <2>1 DEF Used
    <3>2. pc[x] = "call" => functions[x] # <<>>
      BY DEF CalledTaskQueued
    <3> QED
      BY <3>1, <3>2, ContainsTail DEF Pending
  <2>3. Abs!Fresh(k)
    BY <2>1, <2>2 DEF Abs!Fresh, Abs!Contains, Contains, Used
  <2>4. pc[l] = "call" =>
          Tail(Append(functions[l], k)) = Append(Tail(functions[l]), k)
    <3>1. functions[l] \in Seq(Tasks) /\ (pc[l] = "call" => functions[l] # <<>>)
      BY <2>1 DEF CalledTaskQueued
    <3> QED
      BY <2>1, <3>1, TailAppend
  <2>5. Pending' = [Pending EXCEPT ![l] = Append(Pending[l], k)]
    <3>1. ASSUME NEW x \in Loops
          PROVE  Pending'[x] = IF x = l THEN Append(Pending[l], k) ELSE Pending[x]
      BY <2>1, <2>4 DEF Pending
    <3> QED
      BY <3>1 DEF Pending
  <2>6. Abs!Submit(k)
    BY <2>1, <2>3, <2>5 DEF Abs!Submit
  <2> QED
    BY <2>1, <2>6 DEF Abs!Next
<1>3. ASSUME NEW t \in Threads, WakeUp(t) \/ AddEvent(t) \/ PipWrite(t)
      PROVE  UNCHANGED Abs!vars
  BY <1>3, <1>S DEF WakeUp, AddEvent, PipWrite, loopVars
<1>4. ASSUME NEW l \in Loops, RunBody(l) PROVE [Abs!Next]_(Abs!vars)
  <2> DEFINE k == FollowUp[running[l]]
  <2>1. CASE k = NoTask \/ k \in posted
    BY <1>4, <1>S, <2>1 DEF RunBody, loopVars
  <2>2. CASE ~ (k = NoTask \/ k \in posted)
    <3>1. RunInLoop(l, k) /\ k \in Tasks /\ UNCHANGED pc
      BY <1>4, <2>2 DEF RunBody, loopVars
    <3> QED
      BY <1>T, <3>1, RunInLoopAbs
  <2> QED
    BY <2>1, <2>2
<1>5. ASSUME NEW l \in Loops,
             Loop(l) \/ EpollWait(l) \/ EpollError(l) \/ OnRead(l)
             \/ RunFunctions(l) \/ Unlock(l) \/ OnTimer(l) \/ Quit(l)
      PROVE  UNCHANGED Abs!vars
  <2>1. CASE Loop(l) \/ EpollWait(l) \/ OnRead(l) \/ Quit(l)
    BY <1>S, <2>1 DEF Loop, EpollWait, OnRead, Quit, At
  <2>2. CASE EpollError(l) \/ RunFunctions(l) \/ Unlock(l) \/ OnTimer(l)
    BY <1>S, <2>2 DEF EpollError, RunFunctions, Unlock, OnTimer, NextIteration, At
  <2> QED
    BY <1>5, <2>1, <2>2
<1>6. ASSUME NEW l \in Loops, OnOther(l) \/ TimerCallback(l)
      PROVE  [Abs!Next]_(Abs!vars)
  <2>1. UNCHANGED pc
    BY <1>6 DEF OnOther, TimerCallback, loopVars
  <2>2. CASE \E k \in Tasks : RunInLoop(l, k)
    BY <1>T, <2>1, <2>2, RunInLoopAbs
  <2>3. CASE UNCHANGED <<functions, lock, pipeVars, post, arg, running, posted, log>>
    BY <1>S, <2>1, <2>3
  <2> QED
    BY <1>6, <2>2, <2>3 DEF OnOther, TimerCallback
<1>7. ASSUME NEW l \in Loops, TaskCall(l) PROVE Abs!Next
  <2>1. /\ pc[l] = "front" /\ functions[l] # <<>>
        /\ log' = [log EXCEPT ![l] = Append(@, Head(functions[l]))]
        /\ pc' = [pc EXCEPT ![l] = "call"]
        /\ UNCHANGED functions
    BY <1>7 DEF TaskCall, At
  <2>2. Pending[l] = functions[l]
    BY <2>1 DEF Pending
  <2>3. Pending' = [Pending EXCEPT ![l] = Tail(Pending[l])]
    BY <2>1, <2>2 DEF Pending
  <2>4. Abs!RunQueued(l)
    BY <2>1, <2>2, <2>3 DEF Abs!RunQueued
  <2> QED
    BY <2>4 DEF Abs!Next
<1>8. ASSUME NEW l \in Loops, TaskDone(l) PROVE UNCHANGED Abs!vars
  <2>1. /\ pc[l] = "call"
        /\ functions' = [functions EXCEPT ![l] = Tail(functions[l])]
        /\ pc' = [pc EXCEPT ![l] = "front"]
        /\ UNCHANGED log
    BY <1>8 DEF TaskDone, At
  <2> QED
    BY <2>1 DEF Abs!vars, Pending
<1>9. CASE UNCHANGED vars
  BY <1>9, <1>S DEF vars, loopVars
<1> QED
  BY <1>1, <1>2, <1>3, <1>4, <1>5, <1>6, <1>7, <1>8, <1>9 DEF Next, Posting, Serving

\* Every behaviour of the loops, their locks, pipes and epoll instances is one of
\* Executor: on the right thread, at most once, in the order of queueing.
THEOREM Refinement == Spec => ImplementsExecutor
<1>1. Init => TypeInv /\ FreshInv /\ Abs!Init
  <2>1. Init => FreshInv
    BY DEF Init, FreshInv, Used, Contains
  <2>2. Init => Abs!Init
    BY DEF Init, Abs!Init, Pending
  <2> QED
    BY <2>1, <2>2, TypeInvInit
<1>2. TypeInv /\ FreshInv /\ [Next]_vars => (TypeInv /\ FreshInv)'
  BY TypeInvNext, FreshInvNext
<1> QED
  BY <1>1, <1>2, NextAbs, PTL DEF Spec, ImplementsExecutor, Abs!Spec
=============================================================================
