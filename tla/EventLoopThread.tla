---------------------------- MODULE EventLoopThread ----------------------------
(***************************************************************************)
(* The life of one EventLoopThread.  Its constructor starts the thread     *)
(* before it has initialised the members that the thread uses; the thread  *)
(* waits on a condition variable for Run, publishes the address of a local *)
(* EventLoop in loop_, and loops with lock_ held; the destructor quits the *)
(* loop and joins the thread.                                              *)
(*                                                                         *)
(* The owner constructs and destroys the object.  The other callers may    *)
(* call Run, take the pointer that Loop() returns, and quit the loop.      *)
(* EventLoopThreadPool says when they do.                                  *)
(***************************************************************************)
EXTENDS Naturals, FiniteSets

CONSTANTS
  Owner,
  Others,
  Worker,      \* the thread of thread_
  NoThread,
  Stale        \* what running_ may hold before it is initialised: {FALSE} in
               \* static storage, BOOLEAN on the heap

Callers == {Owner} \cup Others

ASSUME ThreadsAssumption ==
  /\ Owner \notin Others /\ Worker \notin Callers /\ NoThread \notin Callers \cup {Worker}
  /\ Stale \subseteq BOOLEAN /\ FALSE \in Stale

VARIABLES
  running,   \* running_
  lock,      \* lock_      : its holder, or NoThread
  asleep,    \* condition_ : the threads it knows to be waiting
  promise,   \* promise_   : "raw", "unset" or "set"
  once,      \* once_      : "none", "running" or "done"
  loop,      \* loop_      : whether it holds the address of the local loop
  local,     \* the EventLoop of StartEventLoop: "none", "live" or "dead"
  looping,   \* its looping_
  quits,     \* history: Quit has been called
  owner,     \* where the owner is
  worker,    \* where the worker is
  run,       \* where each caller is in Run
  ptr,       \* whether each caller has the address of the local loop
  late,      \* whether the worker's first step is after the constructor's last
  patient    \* whether the owner destroys the object only once the loop is running

members == <<running, lock, asleep, promise, once, loop>>
luck == <<late, patient>>
vars == <<members, local, looping, quits, owner, worker, run, ptr, luck>>

Init ==
  /\ running \in Stale
  /\ lock = NoThread /\ asleep = {} /\ promise = "raw" /\ once = "none"
  /\ loop = FALSE /\ local = "none" /\ looping = FALSE /\ quits = FALSE
  /\ owner = "thread_" /\ worker = "unborn"
  /\ run = [c \in Callers |-> "out"]
  /\ ptr = [c \in Callers |-> FALSE]
  /\ late \in BOOLEAN /\ patient \in BOOLEAN

-----------------------------------------------------------------------------
(* The constructor: the members in the order of their declaration.         *)

InitThread ==
  /\ owner = "thread_" /\ owner' = "running_"
  /\ worker' = "boot"
  /\ UNCHANGED <<members, local, looping, quits, run, ptr, luck>>

InitRunning ==
  /\ owner = "running_" /\ owner' = "lock_"
  /\ running' = FALSE
  /\ UNCHANGED <<lock, asleep, promise, once, loop, local, looping, quits, worker, run, ptr, luck>>

\* A mutex that the worker has locked already is made free again.
InitLock ==
  /\ owner = "lock_" /\ owner' = "condition_"
  /\ lock' = NoThread
  /\ UNCHANGED <<running, asleep, promise, once, loop, local, looping, quits, worker, run, ptr, luck>>

\* A condition variable on which the worker sleeps already forgets it.
InitCondition ==
  /\ owner = "condition_" /\ owner' = "promise_"
  /\ asleep' = {}
  /\ UNCHANGED <<running, lock, promise, once, loop, local, looping, quits, worker, run, ptr, luck>>

InitPromise ==
  /\ owner = "promise_" /\ owner' = "built"
  /\ promise' = "unset"
  /\ UNCHANGED <<running, lock, asleep, once, loop, local, looping, quits, worker, run, ptr, luck>>

Constructor == InitThread \/ InitRunning \/ InitLock \/ InitCondition \/ InitPromise

-----------------------------------------------------------------------------
(* StartEventLoop, on the worker.                                          *)

Boot ==
  /\ worker = "boot" /\ worker' = "lock"
  /\ late => owner \in {"built", "dtor", "quit", "join"}
  /\ local' = "live"
  /\ UNCHANGED <<members, looping, quits, owner, run, ptr, luck>>

Lock ==
  /\ worker = "lock" /\ worker' = "check"
  /\ lock = NoThread /\ lock' = Worker
  /\ UNCHANGED <<running, asleep, promise, once, loop, local, looping, quits, owner, run, ptr, luck>>

\* Mutant: wait without a predicate comes back by itself.
MutantNoPredicate ==
  /\ worker = "check" /\ worker' = "publish"
  /\ UNCHANGED <<members, local, looping, quits, owner, run, ptr, luck>>

\* The predicate of condition_.wait.
Check ==
  /\ worker = "check"
  /\ worker' = IF running THEN "publish" ELSE "sleep"
  /\ UNCHANGED <<members, local, looping, quits, owner, run, ptr, luck>>

Sleep ==
  /\ worker = "sleep" /\ worker' = "asleep"
  /\ asleep' = asleep \cup {Worker}
  /\ lock' = NoThread
  /\ UNCHANGED <<running, promise, once, loop, local, looping, quits, owner, run, ptr, luck>>

Publish ==
  /\ worker = "publish" /\ worker' = "set_value"
  /\ loop' = TRUE
  /\ UNCHANGED <<running, lock, asleep, promise, once, local, looping, quits, owner, run, ptr, luck>>

SetValue ==
  /\ worker = "set_value" /\ worker' = "loop"
  /\ promise = "unset" /\ promise' = "set"
  /\ UNCHANGED <<running, lock, asleep, once, loop, local, looping, quits, owner, run, ptr, luck>>

\* A promise without its shared state throws, nobody catches, the process ends.
SetValueRaw ==
  /\ worker = "set_value" /\ worker' = "terminated"
  /\ promise = "raw"
  /\ owner' = "terminated"
  /\ run' = [c \in Callers |-> "terminated"]
  /\ UNCHANGED <<members, local, looping, quits, ptr, luck>>

\* EventLoop::Loop begins ...
Loop ==
  /\ worker = "loop" /\ worker' = "looping"
  /\ looping' = TRUE
  /\ UNCHANGED <<members, local, quits, owner, run, ptr, luck>>

\* ... and ends when it sees looping_ false; loop_ = nullptr.
LoopEnds ==
  /\ worker = "looping" /\ worker' = "unlock"
  /\ ~ looping
  /\ loop' = FALSE
  /\ UNCHANGED <<running, lock, asleep, promise, once, local, looping, quits, owner, run, ptr, luck>>

Unlock ==
  /\ worker = "unlock" /\ worker' = "destroy"
  /\ lock' = NoThread
  /\ UNCHANGED <<running, asleep, promise, once, loop, local, looping, quits, owner, run, ptr, luck>>

Destroy ==
  /\ worker = "destroy" /\ worker' = "ended"
  /\ local' = "dead"
  /\ UNCHANGED <<members, looping, quits, owner, run, ptr, luck>>

StartEventLoop == \/ Boot \/ Lock \/ Check \/ Sleep \/ Publish \/ SetValue
                  \/ SetValueRaw \/ Loop \/ LoopEnds \/ Unlock \/ Destroy

-----------------------------------------------------------------------------
(* Run, by any caller and by the destructor; Loop and Quit.                *)

RunCalled(c) ==
  /\ run[c] = "out"
  /\ owner = "built" \/ (c = Owner /\ owner = "dtor")
  /\ run' = [run EXCEPT ![c] = "call_once"]
  /\ UNCHANGED <<members, local, looping, quits, owner, worker, ptr, luck>>

\* The first one calls the function; until that has returned the others wait.
RunCallOnce(c) ==
  /\ run[c] = "call_once"
  /\ \/ once = "none" /\ once' = "running" /\ run' = [run EXCEPT ![c] = "notify"]
     \/ once = "done" /\ run' = [run EXCEPT ![c] = "returned"] /\ UNCHANGED once
  /\ UNCHANGED <<running, lock, asleep, promise, loop, local, looping, quits, owner, worker, ptr, luck>>

\* Mutant: the thread that is woken stays on the list of the sleeping.
MutantKeepsWaiter(c) ==
  /\ run[c] = "notify"
  /\ lock = NoThread
  /\ running' = TRUE
  /\ worker' = IF Worker \in asleep THEN "lock" ELSE worker
  /\ run' = [run EXCEPT ![c] = "get"]
  /\ UNCHANGED <<lock, asleep, promise, once, loop, local, looping, quits, owner, ptr, luck>>

\* Under lock_: running_ = true, notify_all.
RunNotify(c) ==
  /\ run[c] = "notify"
  /\ lock = NoThread
  /\ running' = TRUE
  /\ asleep' = {}
  /\ worker' = IF Worker \in asleep THEN "lock" ELSE worker
  /\ run' = [run EXCEPT ![c] = "get"]
  /\ UNCHANGED <<lock, promise, once, loop, local, looping, quits, owner, ptr, luck>>

\* Mutant: Run does not wait for the promise.
MutantNoFuture(c) ==
  /\ run[c] = "get"
  /\ once' = "done"
  /\ run' = [run EXCEPT ![c] = "returned"]
  /\ UNCHANGED <<running, lock, asleep, promise, loop, local, looping, quits, owner, worker, ptr, luck>>

RunGet(c) ==
  /\ run[c] = "get"
  /\ promise = "set"
  /\ once' = "done"
  /\ run' = [run EXCEPT ![c] = "returned"]
  /\ UNCHANGED <<running, lock, asleep, promise, loop, local, looping, quits, owner, worker, ptr, luck>>

\* if(loop) on what Loop() returned.
GetLoop(c) ==
  /\ run[c] = "returned" /\ owner = "built" /\ ~ ptr[c]
  /\ loop
  /\ ptr' = [ptr EXCEPT ![c] = TRUE]
  /\ UNCHANGED <<members, local, looping, quits, owner, worker, run, luck>>

\* The pointer may be older than the end of the loop: the store then goes to memory
\* that is no loop's, and looping is not read again.
Quit(c) ==
  /\ c \in Others /\ run[c] # "terminated"
  /\ ptr[c]
  /\ looping' = FALSE /\ quits' = TRUE
  /\ UNCHANGED <<members, local, owner, worker, run, ptr, luck>>

-----------------------------------------------------------------------------
(* The destructor, when nobody is inside a member function.                *)

Destructor ==
  /\ owner = "built" /\ owner' = "dtor"
  /\ \A c \in Callers : run[c] \in {"out", "returned"}
  /\ patient => looping
  /\ UNCHANGED <<members, local, looping, quits, worker, run, ptr, luck>>

\* if(loop_) ...
DestructorTest ==
  /\ owner = "dtor" /\ owner' = IF loop THEN "quit" ELSE "join"
  /\ run[Owner] = "returned"
  /\ UNCHANGED <<members, local, looping, quits, worker, run, ptr, luck>>

\* Mutant: the destructor joins without quitting the loop.
MutantNoQuit ==
  /\ owner = "quit" /\ owner' = "join"
  /\ loop
  /\ UNCHANGED <<members, local, looping, quits, worker, run, ptr, luck>>

\* ... loop_->Quit(), where loop_ is read once more ...
DestructorQuit ==
  /\ owner = "quit" /\ owner' = "join"
  /\ loop
  /\ looping' = FALSE /\ quits' = TRUE
  /\ UNCHANGED <<members, local, worker, run, ptr, luck>>

\* ... or not, as nothing tells the compiler that another thread writes it: it has been
\* set to nullptr meanwhile, and the process ends or the store goes where the loop was.
DestructorQuitStale ==
  /\ owner = "quit" /\ ~ loop
  /\ \/ owner' = "join" /\ UNCHANGED <<worker, run>>
     \/ /\ owner' = "terminated" /\ worker' = "terminated"
        /\ run' = [c \in Callers |-> "terminated"]
  /\ UNCHANGED <<members, local, looping, quits, ptr, luck>>

Join ==
  /\ owner = "join" /\ owner' = "gone"
  /\ worker = "ended"
  /\ UNCHANGED <<members, local, looping, quits, worker, run, ptr, luck>>

RestOfDestructor == DestructorTest \/ DestructorQuit \/ DestructorQuitStale \/ Join

(* Every thread runs on; nobody is obliged to call anything, but a call    *)
(* that has begun goes on, and call_once lets in who waits.  lock_ needs   *)
(* no strong fairness: it is free for good, or for as long as the worker   *)
(* loops.                                                                  *)
Fairness ==
  /\ WF_vars(Constructor) /\ WF_vars(StartEventLoop) /\ WF_vars(RestOfDestructor)
  /\ \A c \in Callers : WF_vars(RunCallOnce(c)) /\ WF_vars(RunNotify(c)) /\ WF_vars(RunGet(c))
  /\ WF_vars(owner = "dtor" /\ RunCalled(Owner))
-----------------------------------------------------------------------------
(* Properties.                                                             *)

\* Every variable holds a value of its type, and the condition variable knows only
\* of a worker that does sleep on it.
TypeOK ==
  /\ running \in BOOLEAN /\ loop \in BOOLEAN /\ looping \in BOOLEAN /\ quits \in BOOLEAN
  /\ lock \in {Worker, NoThread}
  /\ asleep \in SUBSET {Worker} /\ (asleep # {} => worker = "asleep")
  /\ promise \in {"raw", "unset", "set"}
  /\ once \in {"none", "running", "done"}
  /\ local \in {"none", "live", "dead"}
  /\ owner \in {"thread_", "running_", "lock_", "condition_", "promise_",
                "built", "dtor", "quit", "join", "gone", "terminated"}
  /\ worker \in {"unborn", "boot", "lock", "check", "sleep", "asleep", "publish",
                 "set_value", "loop", "looping", "unlock", "destroy", "ended", "terminated"}
  /\ run \in [Callers -> {"out", "call_once", "notify", "get", "returned", "terminated"}]
  /\ ptr \in [Callers -> BOOLEAN] /\ late \in BOOLEAN /\ patient \in BOOLEAN

\* When Run has returned, to whichever of several callers, Loop() is the address
\* of a loop that lives, until somebody quits it.
RunPublishesLoop ==
  \A c \in Callers : run[c] = "returned" /\ ~ quits => loop /\ local = "live"

\* The worker fulfils a promise that has its shared state, and only once Run has been
\* called, if it starts after the constructor's last step.
WaitsForRun == late /\ worker = "set_value" => promise = "unset" /\ once = "running"

\* Every call of Run returns, also one that waits in call_once for another, when the
\* worker starts after the constructor's last step (a worker that sleeps on condition_
\* before its construction is never woken).  The destructor ends, with the thread joined,
\* when besides the loop has begun before it is called (a Quit between set_value and
\* Loop() is undone, and join waits for ever), or another caller quits the loop and it
\* ends between the test of loop_ and its use: then the process may end instead.
CallsReturn ==
  /\ \A c \in Callers :
       (late /\ run[c] \in {"call_once", "notify", "get"}) ~> (run[c] = "returned")
  /\ (late /\ patient /\ owner = "dtor") ~>
       (owner = "gone" \/ (quits /\ owner = "terminated"))
=============================================================================
