----------------------- MODULE EventLoopThreadPoolProofs -----------------------
(***************************************************************************)
(* Theorems about a thread of the pool, for any number of callers and any  *)
(* size: what Run has published when it returns, and what the worker has   *)
(* waited for, however the steps of the constructor, the worker, the       *)
(* callers and the destructor interleave; and which loop GetNextLoop deals.*)
(***************************************************************************)
EXTENDS EventLoopThreadPool, TLAPS

poolvars == <<vars, pool>>

Building == {"thread_", "running_", "lock_", "condition_", "promise_"}

\* The steps of a caller that take or hand out a pointer, and those of the rest of the pool.
Elsewhere ==
  /\ UNCHANGED <<members, local, looping, quits, owner, worker, run, luck>>
  /\ ptr \in [Callers -> BOOLEAN] => ptr' \in [Callers -> BOOLEAN]

LEMMA Steps ==
  ASSUME [PoolNext]_poolvars
  PROVE  \/ Constructor \/ StartEventLoop \/ Destructor \/ RestOfDestructor \/ Elsewhere
         \/ \E c \in Callers : RunCalled(c) \/ RunCallOnce(c) \/ RunNotify(c) \/ RunGet(c) \/ Quit(c)
<1>1. CASE UNCHANGED poolvars BY <1>1 DEF poolvars, vars, Elsewhere
<1>2. CASE Constructor \/ StartEventLoop \/ RestOfDestructor BY <1>2
<1>3. CASE Destroyed BY <1>3 DEF Destroyed
<1>4. ASSUME NEW c \in Callers,
             \/ StartOther(c) \/ StartReturned(c) \/ GetLoop(c)
             \/ GetNextLoop(c) \/ GetNextLoopReturns(c)
      PROVE  Elsewhere
  <2>1. UNCHANGED <<members, local, looping, quits, owner, worker, run, luck>>
    BY <1>4 DEF StartOther, StartReturned, GetLoop, GetNextLoop, GetNextLoopReturns, vars
  <2>2. ptr' = ptr \/ \E b \in BOOLEAN : ptr' = [ptr EXCEPT ![c] = b]
    <3>1. CASE GetLoop(c) BY <3>1 DEF GetLoop
    <3>2. CASE GetNextLoopReturns(c)
      <4>1. (ptr[c] \/ (ThreadOf(index[c]) = place /\ loop)) \in BOOLEAN OBVIOUS
      <4> QED BY <3>2, <4>1, Zenon DEF GetNextLoopReturns
    <3> QED BY <1>4, <3>1, <3>2 DEF StartOther, StartReturned, GetNextLoop, vars
  <2>3. ptr \in [Callers -> BOOLEAN] => ptr' \in [Callers -> BOOLEAN]
    BY <2>2
  <2> QED BY <2>1, <2>3 DEF Elsewhere
<1>5. ASSUME NEW c \in Callers, StartRun(c) PROVE RunCalled(c)
  BY <1>5 DEF StartRun
<1> QED BY <1>1, <1>2, <1>3, <1>4, <1>5 DEF PoolNext

-----------------------------------------------------------------------------
(* Types.  Before thread_ is initialised there is no worker.               *)

TypeInv == TypeOK /\ (owner = "thread_" => worker = "unborn")

LEMMA InitType == PoolInit => TypeInv
BY ThreadsAssumption DEF PoolInit, Init, TypeInv, TypeOK

LEMMA ConstructorType == TypeInv /\ Constructor => TypeInv'
<1> SUFFICES ASSUME TypeInv, Constructor PROVE TypeInv'
  OBVIOUS
<1> USE DEF TypeInv, TypeOK, members, luck
<1>1. CASE InitThread BY <1>1 DEF InitThread
<1>2. CASE InitRunning
  <2>1. running' \in BOOLEAN BY <1>2 DEF InitRunning
  <2> QED BY <1>2, <2>1 DEF InitRunning
<1>3. CASE InitLock BY <1>3 DEF InitLock
<1>4. CASE InitCondition BY <1>4 DEF InitCondition
<1>5. CASE InitPromise BY <1>5 DEF InitPromise
<1> QED BY <1>1, <1>2, <1>3, <1>4, <1>5 DEF Constructor

LEMMA WorkerType == TypeInv /\ StartEventLoop => TypeInv'
<1> SUFFICES ASSUME TypeInv, StartEventLoop PROVE TypeInv'
  OBVIOUS
<1> USE DEF TypeInv, TypeOK, members, luck
<1>1. CASE Boot BY <1>1 DEF Boot
<1>2. CASE Lock BY <1>2 DEF Lock
<1>3. CASE Check BY <1>3 DEF Check
<1>4. CASE Sleep BY <1>4 DEF Sleep
<1>5. CASE Publish BY <1>5 DEF Publish
<1>6. CASE SetValue BY <1>6 DEF SetValue
<1>7. CASE SetValueRaw BY <1>7 DEF SetValueRaw
<1>8. CASE Loop BY <1>8 DEF Loop
<1>9. CASE LoopEnds
  <2>1. loop' \in BOOLEAN BY <1>9 DEF LoopEnds
  <2> QED BY <1>9, <2>1 DEF LoopEnds
<1>10. CASE Unlock BY <1>10 DEF Unlock
<1>11. CASE Destroy BY <1>11 DEF Destroy
<1> QED BY <1>1, <1>2, <1>3, <1>4, <1>5, <1>6, <1>7, <1>8, <1>9, <1>10, <1>11
        DEF StartEventLoop

LEMMA CallerType ==
  ASSUME TypeInv, NEW c \in Callers,
         RunCalled(c) \/ RunCallOnce(c) \/ RunNotify(c) \/ RunGet(c) \/ Quit(c)
  PROVE  TypeInv'
<1> USE DEF TypeInv, TypeOK, members, luck
<1>0. CASE RunCalled(c) BY <1>0 DEF RunCalled
<1>1. CASE RunCallOnce(c) BY <1>1 DEF RunCallOnce
<1>2. CASE RunNotify(c)
  <2>1. /\ worker' \in {worker, "lock"} /\ (worker' = worker \/ worker = "asleep")
        /\ asleep' = {}
    BY <1>2 DEF RunNotify
  <2>2. owner = "thread_" => worker' = "unborn"
    BY <1>2, <2>1 DEF RunNotify
  <2> QED BY <1>2, <2>1, <2>2 DEF RunNotify
<1>3. CASE RunGet(c) BY <1>3 DEF RunGet
<1>4. CASE Quit(c)
  <2>1. looping' = FALSE /\ quits' = TRUE BY <1>4 DEF Quit
  <2>2. looping' \in BOOLEAN /\ quits' \in BOOLEAN BY <2>1
  <2> QED BY <1>4, <2>2 DEF Quit
<1> QED BY <1>0, <1>1, <1>2, <1>3, <1>4

-----------------------------------------------------------------------------
(* What Run has published.                                                 *)

\* The promise is fulfilled by a worker that is about to loop, and nobody comes back from
\* Run, nor does once_ close, nor does the destructor look at loop_, before that.  A
\* process that has ended has neither worker nor callers.
PromiseInv ==
  /\ promise = "set" =>
       worker \in {"loop", "looping", "unlock", "destroy", "ended", "terminated"}
  /\ worker = "terminated" => \A c \in Callers : run[c] = "terminated"
  /\ promise # "raw" => owner \notin Building
  /\ owner \in {"quit", "join"} => promise = "set"
  /\ promise = "raw" => owner \in Building \cup {"terminated"}
  /\ owner = "terminated" => worker = "terminated"
  /\ once = "done" => promise = "set"
  /\ \A c \in Callers : run[c] = "returned" => promise = "set"

\* The worker has a loop whose address is in loop_ while it is in Loop(), which it leaves
\* only when somebody has quit it.
LoopInv ==
  /\ worker \notin {"unborn", "boot", "ended", "terminated"} => local = "live"
  /\ worker \in {"set_value", "loop", "looping"} => loop
  /\ worker = "looping" /\ ~ looping => quits
  /\ worker \in {"unlock", "destroy", "ended"} => quits

\* One caller at a time is in the function of call_once, and a worker that started late
\* finds running_ true only when that one has set it.
LateInv ==
  /\ late /\ worker \notin {"unborn", "boot", "terminated"} => owner \notin Building
  /\ late /\ owner \notin {"thread_", "running_"} /\ running => once # "none"
  /\ late /\ worker \in {"publish", "set_value"} => running
  /\ \A c \in Callers : run[c] \in {"notify", "get"} => once = "running"
  /\ \A c, d \in Callers :
       run[c] \in {"notify", "get"} /\ run[d] \in {"notify", "get"} => c = d

ThreadInv == PromiseInv /\ LoopInv /\ LateInv

\* A worker that the end of the process stops is not asleep.
LEMMA DestructorType ==
  TypeInv /\ ThreadInv /\ (Destructor \/ RestOfDestructor) => TypeInv'
<1> SUFFICES ASSUME TypeInv, ThreadInv, Destructor \/ RestOfDestructor PROVE TypeInv'
  OBVIOUS
<1> USE DEF TypeInv, TypeOK, members, luck
<1>1. CASE Destructor BY <1>1 DEF Destructor
<1>2. CASE DestructorQuit
  <2>1. looping' \in BOOLEAN /\ quits' \in BOOLEAN BY <1>2 DEF DestructorQuit
  <2> QED BY <1>2, <2>1 DEF DestructorQuit
<1>3. CASE Join BY <1>3 DEF Join
<1>4. CASE DestructorTest BY <1>4 DEF DestructorTest
<1>5. CASE DestructorQuitStale
  <2>1. asleep = {}
    BY <1>5 DEF DestructorQuitStale, ThreadInv, PromiseInv
  <2> QED BY <1>5, <2>1 DEF DestructorQuitStale
<1> QED BY <1>1, <1>2, <1>3, <1>4, <1>5 DEF RestOfDestructor

LEMMA NextType == TypeInv /\ ThreadInv /\ [PoolNext]_poolvars => TypeInv'
<1> SUFFICES ASSUME TypeInv, ThreadInv, [PoolNext]_poolvars PROVE TypeInv'
  OBVIOUS
<1>1. CASE Elsewhere
  <2> QED BY <1>1 DEF Elsewhere, TypeInv, TypeOK, members, luck
<1> QED BY <1>1, Steps, ConstructorType, WorkerType, CallerType, DestructorType

LEMMA InitThreadInv == PoolInit => ThreadInv
BY ThreadsAssumption
   DEF PoolInit, Init, Building, ThreadInv, PromiseInv, LoopInv, LateInv

LEMMA ConstructorInv == TypeInv /\ ThreadInv /\ Constructor => ThreadInv'
<1> SUFFICES ASSUME TypeInv, ThreadInv, Constructor PROVE ThreadInv'
  OBVIOUS
<1> USE DEF ThreadInv, PromiseInv, LoopInv, LateInv, members, luck, Building
<1>1. CASE InitThread BY <1>1 DEF InitThread, TypeInv
<1>2. CASE InitRunning BY <1>2 DEF InitRunning
<1>3. CASE InitLock BY <1>3 DEF InitLock
<1>4. CASE InitCondition BY <1>4 DEF InitCondition
<1>5. CASE InitPromise BY <1>5 DEF InitPromise
<1> QED BY <1>1, <1>2, <1>3, <1>4, <1>5 DEF Constructor

LEMMA WorkerInv == TypeInv /\ ThreadInv /\ StartEventLoop => ThreadInv'
<1> SUFFICES ASSUME TypeInv, ThreadInv, StartEventLoop PROVE ThreadInv'
  OBVIOUS
<1> USE DEF ThreadInv, PromiseInv, LoopInv, LateInv, members, luck, Building
<1>1. CASE Boot BY <1>1 DEF Boot
<1>2. CASE Lock BY <1>2 DEF Lock
<1>3. CASE Check BY <1>3 DEF Check
<1>4. CASE Sleep BY <1>4 DEF Sleep
<1>5. CASE Publish BY <1>5 DEF Publish
<1>6. CASE SetValue BY <1>6 DEF SetValue
<1>7. CASE SetValueRaw BY <1>7 DEF SetValueRaw
<1>8. CASE Loop BY <1>8 DEF Loop
<1>9. CASE LoopEnds BY <1>9 DEF LoopEnds
<1>10. CASE Unlock BY <1>10 DEF Unlock
<1>11. CASE Destroy BY <1>11 DEF Destroy
<1> QED BY <1>1, <1>2, <1>3, <1>4, <1>5, <1>6, <1>7, <1>8, <1>9, <1>10, <1>11
        DEF StartEventLoop

LEMMA CallerInv ==
  ASSUME TypeInv, ThreadInv, NEW c \in Callers,
         RunCalled(c) \/ RunCallOnce(c) \/ RunNotify(c) \/ RunGet(c) \/ Quit(c)
  PROVE  ThreadInv'
<1> USE DEF ThreadInv, PromiseInv, LoopInv, LateInv, members, luck, Building
<1>0. CASE RunCalled(c) BY <1>0 DEF RunCalled, TypeInv, TypeOK
<1>1. CASE RunCallOnce(c) BY <1>1 DEF RunCallOnce, TypeInv, TypeOK
<1>2. CASE RunNotify(c) BY <1>2 DEF RunNotify, TypeInv, TypeOK
<1>3. CASE RunGet(c) BY <1>3 DEF RunGet, TypeInv, TypeOK
<1>4. CASE Quit(c) BY <1>4 DEF Quit
<1> QED BY <1>0, <1>1, <1>2, <1>3, <1>4

LEMMA DestructorInv ==
  TypeInv /\ ThreadInv /\ (Destructor \/ RestOfDestructor) => ThreadInv'
<1> SUFFICES ASSUME TypeInv, ThreadInv, Destructor \/ RestOfDestructor
             PROVE  ThreadInv'
  OBVIOUS
<1> USE DEF ThreadInv, PromiseInv, LoopInv, LateInv, members, luck, Building
<1>1. CASE Destructor BY <1>1 DEF Destructor
<1>2. CASE DestructorQuit BY <1>2 DEF DestructorQuit
<1>3. CASE Join BY <1>3 DEF Join
<1>4. CASE DestructorTest BY <1>4 DEF DestructorTest, Callers
<1>5. CASE DestructorQuitStale BY <1>5 DEF DestructorQuitStale
<1> QED BY <1>1, <1>2, <1>3, <1>4, <1>5 DEF RestOfDestructor

LEMMA NextThreadInv == TypeInv /\ ThreadInv /\ [PoolNext]_poolvars => ThreadInv'
<1> SUFFICES ASSUME TypeInv, ThreadInv, [PoolNext]_poolvars PROVE ThreadInv'
  OBVIOUS
<1>1. CASE Elsewhere
  BY <1>1 DEF Elsewhere, ThreadInv, PromiseInv, LoopInv, LateInv, members, luck, Building
<1> QED BY <1>1, Steps, ConstructorInv, WorkerInv, CallerInv, DestructorInv

LEMMA Invariance == PoolSpec => [](TypeInv /\ ThreadInv)
<1>1. PoolInit => TypeInv /\ ThreadInv
  BY InitType, InitThreadInv
<1>2. TypeInv /\ ThreadInv /\ [PoolNext]_poolvars => (TypeInv /\ ThreadInv)'
  BY NextType, NextThreadInv
<1> QED BY <1>1, <1>2, PTL DEF PoolSpec, poolvars

\* Whenever Run has returned, to whichever of any number of callers and however the
\* worker races with the constructor, loop_ holds the address of a loop that lives, until
\* somebody quits it.
THEOREM RunPublishes == PoolSpec => []RunPublishesLoop
<1>1. TypeInv /\ ThreadInv => RunPublishesLoop
  BY DEF ThreadInv, PromiseInv, LoopInv, RunPublishesLoop
<1> QED BY <1>1, Invariance, PTL

\* A worker that starts after the constructor's last step fulfils a promise that has its
\* shared state, and not before Run has been called.
THEOREM WorkerWaits == PoolSpec => []WaitsForRun
<1>1. ASSUME TypeInv, ThreadInv PROVE WaitsForRun
  <2> SUFFICES ASSUME late, worker = "set_value"
               PROVE  promise = "unset" /\ once = "running"
    BY DEF WaitsForRun
  <2>1. owner \notin Building /\ owner # "terminated"
    BY <1>1 DEF ThreadInv, LateInv, PromiseInv
  <2>2. promise = "unset"
    BY <1>1, <2>1 DEF ThreadInv, PromiseInv, TypeInv, TypeOK
  <2>3. once # "none"
    BY <1>1, <2>1 DEF ThreadInv, LateInv, Building
  <2>4. once # "done"
    BY <1>1, <2>2 DEF ThreadInv, PromiseInv
  <2> QED BY <1>1, <2>2, <2>3, <2>4 DEF TypeInv, TypeOK
<1> QED BY <1>1, Invariance, PTL

-----------------------------------------------------------------------------
(* The types of the pool's own variables.                                  *)

LEMMA ThreadOfRange ==
  ASSUME NEW i \in -HalfRange .. HalfRange
  PROVE  ThreadOf(i) \in 0 .. Size - 1
<1>1. Size \in Nat /\ Size > 0 /\ HalfRange \in Nat BY PoolAssumption, SMT
<1>2. \A x \in Int : x % Size \in 0 .. Size - 1 BY <1>1, SMT
<1>3. 4 * HalfRange * HalfRange \in Nat BY <1>1, SMT
<1>4. i \in Int /\ i + 4 * HalfRange * HalfRange \in Int BY <1>1, <1>3, SMT
<1> QED BY <1>2, <1>4 DEF ThreadOf

PoolInv ==
  /\ place \in 0 .. Size - 1
  /\ start \in [Callers -> 0 .. Size]
  /\ loop_index_ \in -HalfRange .. HalfRange - 1
  /\ index \in [Callers -> -HalfRange .. HalfRange]
  /\ last \in 0 .. Size /\ overlapping \in BOOLEAN
  /\ owner \in Building => \A c \in Callers : start[c] = 0 /\ index[c] = Idle

LEMMA InitPool == PoolInit => PoolInv
<1> SUFFICES ASSUME PoolInit PROVE PoolInv
  OBVIOUS
<1>1. Size \in Nat /\ Size > 0 /\ HalfRange \in Nat /\ HalfRange > 0 BY PoolAssumption, SMT
<1>2. overlapping \in BOOLEAN BY DEF PoolInit
<1>3. place \in 0 .. Size - 1 BY DEF PoolInit
<1>4. /\ start = [c \in Callers |-> 0] /\ index = [c \in Callers |-> Idle]
      /\ loop_index_ = 0 /\ last = None
  BY DEF PoolInit
<1>5. /\ loop_index_ \in -HalfRange .. HalfRange - 1 /\ last \in 0 .. Size
      /\ 0 \in 0 .. Size /\ Idle \in -HalfRange .. HalfRange
  BY <1>1, <1>4, SMT DEF None, Idle
<1> QED BY <1>2, <1>3, <1>4, <1>5 DEF PoolInv

LEMMA NextPool == TypeInv /\ ThreadInv /\ PoolInv /\ [PoolNext]_poolvars => PoolInv'
<1> SUFFICES ASSUME TypeInv, ThreadInv, PoolInv, [PoolNext]_poolvars PROVE PoolInv'
  OBVIOUS
<1>0. Size \in Nat /\ Size > 0 /\ HalfRange \in Nat /\ HalfRange > 0 BY PoolAssumption, SMT
<1>1. CASE UNCHANGED pool /\ (owner' \in Building => owner \in Building)
  BY <1>1 DEF PoolInv, pool, indices
<1>2. ASSUME NEW c \in Callers, StartOther(c) \/ StartReturned(c) PROVE PoolInv'
  <2>1. start[c] < Size
    BY <1>0, <1>2, SMT DEF PoolInv, StartOther, StartReturned
  <2>2. start[c] + 1 \in 0 .. Size
    BY <1>0, <2>1, SMT DEF PoolInv
  <2>3. start' = [start EXCEPT ![c] = start[c] + 1] /\ UNCHANGED <<vars, place, indices>>
    BY <1>2 DEF StartOther, StartReturned
  <2>4. owner \notin Building
    BY <1>2 DEF StartOther, StartReturned, Building, ThreadInv, PromiseInv
  <2> HIDE <1>2
  <2> QED BY <2>2, <2>3, <2>4 DEF PoolInv, vars, indices
<1>3. ASSUME NEW c \in Callers, GetNextLoop(c) PROVE PoolInv'
  <2>1. loop_index_ \in -HalfRange .. HalfRange
    BY <1>0, SMT DEF PoolInv
  <2>2. /\ index' = [index EXCEPT ![c] = loop_index_] /\ owner' = owner /\ owner = "built"
        /\ UNCHANGED <<place, start, loop_index_, last>>
    BY <1>3 DEF GetNextLoop, vars
  <2>3. overlapping' \in BOOLEAN
    BY <1>3, Zenon DEF GetNextLoop
  <2> HIDE <1>3
  <2> QED BY <2>1, <2>2, <2>3 DEF PoolInv, Building
<1>4. ASSUME NEW c \in Callers, GetNextLoopReturns(c) PROVE PoolInv'
  <2>1. /\ loop_index_' = Advance(loop_index_) /\ index' = [index EXCEPT ![c] = Idle]
        /\ last' = IF overlapping THEN None ELSE ThreadOf(index[c])
        /\ UNCHANGED <<place, start, owner, overlapping>>
    BY <1>4 DEF GetNextLoopReturns
  <2>2. loop_index_' \in -HalfRange .. HalfRange - 1
    BY <1>0, <2>1, SMT DEF PoolInv, Advance
  <2>3. index[c] \in -HalfRange .. HalfRange BY DEF PoolInv
  <2>4. ThreadOf(index[c]) \in 0 .. Size - 1 BY <2>3, ThreadOfRange
  <2> HIDE <1>4
  <2>5. last' \in 0 .. Size
    <3> HIDE DEF ThreadOf
    <3> QED BY <1>0, <2>1, <2>4, SMT DEF None
  <2>6. Idle \in -HalfRange .. HalfRange BY <1>0, SMT DEF Idle
  <2>7. overlapping' \in BOOLEAN BY <2>1 DEF PoolInv
  <2>8. index' \in [Callers -> -HalfRange .. HalfRange] BY <2>1, <2>6 DEF PoolInv
  <2>9. owner' \in Building => \A d \in Callers : start'[d] = 0 /\ index'[d] = Idle
    BY <2>1 DEF PoolInv
  <2>10. place' \in 0 .. Size - 1 /\ start' \in [Callers -> 0 .. Size] BY <2>1 DEF PoolInv
  <2> QED BY <2>2, <2>5, <2>7, <2>8, <2>9, <2>10 DEF PoolInv
<1>5. CASE Constructor /\ UNCHANGED pool
  BY <1>1, <1>5 DEF Constructor, InitThread, InitRunning, InitLock, InitCondition, InitPromise,
                    Building
<1>6. CASE StartEventLoop /\ UNCHANGED pool
  BY <1>1, <1>6 DEF StartEventLoop, Boot, Lock, Check, Sleep, Publish, SetValue, SetValueRaw,
                    Loop, LoopEnds, Unlock, Destroy, Building
<1>7. CASE Destroyed \/ (RestOfDestructor /\ UNCHANGED pool)
  BY <1>1, <1>7 DEF Destroyed, Destructor, RestOfDestructor, DestructorTest, DestructorQuit,
                    DestructorQuitStale, Join, Building
<1>8. ASSUME NEW c \in Callers,
             \/ StartRun(c)
             \/ (RunCallOnce(c) \/ RunNotify(c) \/ RunGet(c) \/ GetLoop(c) \/ Quit(c)) /\ UNCHANGED pool
      PROVE  PoolInv'
  BY <1>1, <1>8 DEF StartRun, RunCalled, RunCallOnce, RunNotify, RunGet, GetLoop, Quit
<1>9. CASE UNCHANGED poolvars
  BY <1>1, <1>9 DEF poolvars, vars
<1>10. CASE PoolNext
  <2>1. ASSUME NEW c \in Callers,
               \/ StartOther(c) \/ StartRun(c) \/ StartReturned(c)
               \/ RunCallOnce(c) /\ UNCHANGED pool
               \/ RunNotify(c) /\ UNCHANGED pool
               \/ RunGet(c) /\ UNCHANGED pool
               \/ GetLoop(c) /\ UNCHANGED pool
               \/ Quit(c) /\ UNCHANGED pool
               \/ GetNextLoop(c) \/ GetNextLoopReturns(c)
        PROVE  PoolInv'
    <3>1. CASE StartOther(c) \/ StartReturned(c) BY <1>2, <3>1
    <3>2. CASE GetNextLoop(c) BY <1>3, <3>2
    <3>3. CASE GetNextLoopReturns(c) BY <1>4, <3>3
    <3>4. CASE StartRun(c) BY <1>8, <3>4
    <3>5. CASE (RunCallOnce(c) \/ RunNotify(c) \/ RunGet(c) \/ GetLoop(c) \/ Quit(c)) /\ UNCHANGED pool
      BY <1>8, <3>5
    <3> QED BY <2>1, <3>1, <3>2, <3>3, <3>4, <3>5
  <2> QED BY <1>5, <1>6, <1>7, <1>10, <2>1 DEF PoolNext
<1> QED BY <1>9, <1>10

\* Every variable of the pool and of a thread of it keeps its type, for any size of the
\* pool and any width of the index: the number of the thread that is dealt is in range.
THEOREM PoolTypeCorrect == PoolSpec => []PoolTypeOK
<1>1. TypeInv /\ PoolInv => PoolTypeOK
  BY DEF TypeInv, TypeOK, PoolInv, PoolTypeOK, Building
<1>2. PoolInit => PoolInv
  BY InitPool
<1>3. TypeInv /\ ThreadInv /\ PoolInv /\ [PoolNext]_poolvars => PoolInv'
  BY NextPool
<1> QED BY <1>1, <1>2, <1>3, Invariance, PTL DEF PoolSpec, poolvars
-----------------------------------------------------------------------------
(* Remainders.                                                             *)

\* The remainder is what a multiple of n leaves of a.
LEMMA Remainder ==
  ASSUME NEW n \in Nat \ {0}, NEW a \in Int
  PROVE  /\ a % n \in 0 .. n - 1
         /\ a = (n * (a \div n)) + (a % n)
OBVIOUS

LEMMA QuotientType ==
  ASSUME NEW n \in Nat \ {0}, NEW a \in Int
  PROVE  a \div n \in Int
OBVIOUS

\* It is the only number below n that does.
LEMMA RemainderUnique ==
  ASSUME NEW n \in Nat \ {0}, NEW a \in Int, NEW q \in Int, NEW r \in 0 .. n - 1,
         a = (n * q) + r
  PROVE  a % n = r
OBVIOUS

\* The remainder of the next number is the next remainder.
LEMMA RemainderOfNext ==
  ASSUME NEW n \in Nat \ {0}, NEW a \in Int
  PROVE  (a + 1) % n = ((a % n) + 1) % n
<1> DEFINE r == a % n
           q == a \div n
<1>1. r \in 0 .. n - 1 /\ a = (n * q) + r
  BY Remainder
<1>2. q \in Int
  BY QuotientType
<1> HIDE DEF r, q
<1>3. CASE r + 1 < n
  <2> DEFINE s == r + 1
             b == a + 1
  <2>1. s \in 0 .. n - 1 /\ s \in Int /\ b \in Int /\ 0 \in Int
    BY <1>1, <1>3
  <2>2. b = (n * q) + s
    BY <1>1, <1>2
  <2>3. s = (n * 0) + s
    BY <2>1
  <2> HIDE DEF s, b
  <2>4. b % n = s
    BY <1>2, <2>1, <2>2, RemainderUnique
  <2>5. s % n = s
    BY <2>1, <2>3, RemainderUnique
  <2> QED
    BY <2>4, <2>5 DEF r, s, b
<1>4. CASE ~ (r + 1 < n)
  <2> DEFINE b == a + 1
             p == q + 1
  <2>1. r + 1 = n /\ b \in Int /\ p \in Int /\ 0 \in 0 .. n - 1 /\ n \in Int /\ 1 \in Int
    BY <1>1, <1>2, <1>4
  <2>2. b = (n * q) + n
    BY <1>1, <1>2, <2>1
  <2>3. n * p = (n * q) + n
    BY <1>2
  <2>4. b = (n * p) + 0
    BY <1>2, <2>1, <2>2, <2>3
  <2>5. n = (n * 1) + 0
    OBVIOUS
  <2> HIDE DEF b, p
  <2>6. b % n = 0
    BY <2>1, <2>4, RemainderUnique
  <2>7. n % n = 0
    BY <2>1, <2>5, RemainderUnique
  <2> QED
    BY <2>1, <2>6, <2>7 DEF r, b
<1> QED
  BY <1>3, <1>4

\* Multiples of n make no difference.
LEMMA RemainderOfSum ==
  ASSUME NEW n \in Nat \ {0}, NEW a \in Int, NEW k \in Int
  PROVE  (a + (k * n)) % n = a % n
<1> DEFINE r == a % n
           q == a \div n
           b == a + (k * n)
           p == q + k
<1>1. r \in 0 .. n - 1 /\ a = (n * q) + r
  BY Remainder
<1>2. q \in Int
  BY QuotientType
<1> HIDE DEF r, q
<1>3. b \in Int /\ p \in Int
  BY <1>2
<1>4. n * p = (n * q) + (k * n)
  BY <1>2
<1>5. b = (n * p) + r
  BY <1>1, <1>2, <1>4
<1> HIDE DEF b, p
<1>6. b % n = r
  BY <1>1, <1>3, <1>5, RemainderUnique
<1> QED
  BY <1>6 DEF b, r

-----------------------------------------------------------------------------
(* Whose turn it is.                                                       *)

\* The loop that is dealt next is the one after that dealt last, unless the index has
\* come back to zero; at the overflow this needs a size that divides 2^64 - 2^32.
LEMMA TurnOfNext ==
  ASSUME NEW i \in -HalfRange .. HalfRange - 1, Advance(i) # 0,
         NEW k \in Nat, (4 * HalfRange * HalfRange) - (2 * HalfRange) = k * Size
  PROVE  ThreadOf(Advance(i)) = (ThreadOf(i) + 1) % Size
<1> DEFINE all == 4 * HalfRange * HalfRange
<1>1. Size \in Nat \ {0} /\ HalfRange \in Nat /\ HalfRange > 0
  BY PoolAssumption, SMT
<1>2. all \in Int
  BY <1>1
<1>3. ThreadOf(i) = (IF i < 0 THEN i + all ELSE i) % Size
  BY DEF ThreadOf
<1>4. ThreadOf(Advance(i)) = (IF Advance(i) < 0 THEN Advance(i) + all ELSE Advance(i)) % Size
  BY DEF ThreadOf
<1>5. all - (2 * HalfRange) = k * Size
  OBVIOUS
<1> HIDE DEF all
<1>6. CASE i = HalfRange - 1
  <2>1. Advance(i) = -HalfRange
    BY <1>6 DEF Advance
  <2>2. -HalfRange < 0 /\ ~ (i < 0) /\ i \in Int /\ i + 1 = HalfRange /\ HalfRange \in Int /\ k \in Int
    BY <1>1, <1>6
  <2>3. (-HalfRange) + all = HalfRange + (k * Size)
    <3> DEFINE m == k * Size
    <3>1. all - (2 * HalfRange) = m
      BY <1>5
    <3> HIDE DEF m
    <3>2. (-HalfRange) + all = HalfRange + m
      BY <1>1, <1>2, <3>1
    <3> QED BY <3>2 DEF m
  <2>4. (HalfRange + (k * Size)) % Size = HalfRange % Size
    BY <1>1, <2>2, RemainderOfSum
  <2>5. (i + 1) % Size = ((i % Size) + 1) % Size
    BY <1>1, <2>2, RemainderOfNext
  <2>6. ThreadOf(i) = i % Size
    BY <1>3, <2>2
  <2>7. ThreadOf(Advance(i)) = ((-HalfRange) + all) % Size
    BY <1>4, <2>1, <2>2
  <2> HIDE DEF ThreadOf, Advance
  <2> QED
    BY <2>2, <2>3, <2>4, <2>5, <2>6, <2>7
<1>7. CASE i # HalfRange - 1 /\ i < 0
  <2> DEFINE a == i + all
             b == (i + 1) + all
  <2>1. Advance(i) = i + 1 /\ i + 1 < 0
    BY <1>1, <1>7 DEF Advance
  <2>2. a \in Int /\ b = a + 1
    BY <1>1, <1>2
  <2>3. ThreadOf(i) = a % Size
    BY <1>3, <1>7
  <2>4. ThreadOf(Advance(i)) = b % Size
    BY <1>4, <2>1
  <2> HIDE DEF a, b, ThreadOf, Advance
  <2>5. (a + 1) % Size = ((a % Size) + 1) % Size
    BY <1>1, <2>2, RemainderOfNext
  <2> QED
    BY <2>2, <2>3, <2>4, <2>5
<1>8. CASE i # HalfRange - 1 /\ ~ (i < 0)
  <2>1. Advance(i) = i + 1 /\ ~ (i + 1 < 0) /\ i \in Int
    BY <1>1, <1>8 DEF Advance
  <2>2. ThreadOf(i) = i % Size
    BY <1>3, <1>8
  <2>3. ThreadOf(Advance(i)) = (i + 1) % Size
    BY <1>4, <2>1
  <2> HIDE DEF ThreadOf, Advance
  <2>4. (i + 1) % Size = ((i % Size) + 1) % Size
    BY <1>1, <2>1, RemainderOfNext
  <2> QED
    BY <2>2, <2>3, <2>4
<1> QED
  BY <1>6, <1>7, <1>8

\* A call that has met no other holds the index as it still is, and the loop that was dealt
\* last is that of the index before.
TurnInv ==
  /\ ~ overlapping => \A c, d \in Callers :
       index[c] # Idle => index[c] = loop_index_ /\ (index[d] # Idle => c = d)
  /\ last # None => \E i \in -HalfRange .. HalfRange - 1 :
       Advance(i) = loop_index_ /\ last = ThreadOf(i)

\* Only GetNextLoop, in its two steps, changes what the turn depends on.
LEMMA IndexSteps ==
  ASSUME [PoolNext]_poolvars
  PROVE  UNCHANGED indices \/ \E c \in Callers : GetNextLoop(c) \/ GetNextLoopReturns(c)
<1>1. CASE UNCHANGED poolvars
  BY <1>1 DEF poolvars, pool
<1>2. CASE Constructor /\ UNCHANGED pool
  BY <1>2 DEF pool
<1>3. CASE (StartEventLoop \/ RestOfDestructor) /\ UNCHANGED pool
  BY <1>3 DEF pool
<1>4. CASE Destroyed
  BY <1>4 DEF Destroyed, pool
<1>5. ASSUME NEW c \in Callers, StartOther(c) \/ StartReturned(c)
      PROVE  UNCHANGED indices
  BY <1>5 DEF StartOther, StartReturned
<1>6. ASSUME NEW c \in Callers,
             \/ StartRun(c)
             \/ (RunCallOnce(c) \/ RunNotify(c) \/ RunGet(c) \/ GetLoop(c) \/ Quit(c)) /\ UNCHANGED pool
      PROVE  UNCHANGED indices
  BY <1>6 DEF StartRun, pool
<1> QED
  BY <1>1, <1>2, <1>3, <1>4, <1>5, <1>6 DEF PoolNext

LEMMA NextTurn == PoolInv /\ TurnInv /\ [PoolNext]_poolvars => TurnInv'
<1> SUFFICES ASSUME PoolInv, TurnInv, [PoolNext]_poolvars PROVE TurnInv'
  OBVIOUS
<1>1. CASE UNCHANGED indices
  BY <1>1 DEF TurnInv, indices
<1>2. ASSUME NEW c \in Callers, GetNextLoop(c) PROVE TurnInv'
  <2>1. /\ index' = [index EXCEPT ![c] = loop_index_]
        /\ overlapping' = \E d \in Callers : index[d] # Idle
        /\ UNCHANGED <<loop_index_, last>>
    BY <1>2 DEF GetNextLoop
  <2>2. index \in [Callers -> -HalfRange .. HalfRange]
    BY DEF PoolInv
  <2>3. ASSUME ~ overlapping', NEW d \in Callers, index'[d] # Idle
        PROVE  d = c /\ index'[d] = loop_index_'
    BY <2>1, <2>2, <2>3
  <2>4. ~ overlapping' => \A d, e \in Callers :
          index'[d] # Idle => index'[d] = loop_index_' /\ (index'[e] # Idle => d = e)
    BY <2>3
  <2>5. last' # None => \E i \in -HalfRange .. HalfRange - 1 :
          Advance(i) = loop_index_' /\ last' = ThreadOf(i)
    BY <2>1 DEF TurnInv
  <2> QED
    BY <2>4, <2>5 DEF TurnInv
<1>3. ASSUME NEW c \in Callers, GetNextLoopReturns(c) PROVE TurnInv'
  <2>1. /\ index[c] # Idle
        /\ loop_index_' = Advance(loop_index_)
        /\ index' = [index EXCEPT ![c] = Idle]
        /\ last' = IF overlapping THEN None ELSE ThreadOf(index[c])
        /\ overlapping' = overlapping
    BY <1>3 DEF GetNextLoopReturns
  <2>2. index \in [Callers -> -HalfRange .. HalfRange] /\ loop_index_ \in -HalfRange .. HalfRange - 1
    BY DEF PoolInv
  <2>3. ~ overlapping => index[c] = loop_index_ /\ \A d \in Callers : index[d] # Idle => c = d
    BY <2>1 DEF TurnInv
  <2> HIDE DEF Idle, None, Advance, ThreadOf
  <2>4. ~ overlapping' => \A d \in Callers : index'[d] = Idle
    BY <2>1, <2>2, <2>3
  <2>5. last' # None => last' = ThreadOf(loop_index_)
    BY <2>1, <2>3
  <2>6. last' # None => \E i \in -HalfRange .. HalfRange - 1 :
          Advance(i) = loop_index_' /\ last' = ThreadOf(i)
    BY <2>1, <2>2, <2>5
  <2> QED
    BY <2>4, <2>6 DEF TurnInv
<1> QED
  BY <1>1, <1>2, <1>3, IndexSteps

LEMMA InitTurn == PoolInit => TurnInv
  BY DEF PoolInit, TurnInv

\* Calls of GetNextLoop that do not overlap are given the loops in turn, also where the
\* 32-bit index overflows and the conversion to size_t makes 2^64 - 2^31 of -2^31, for every
\* size of the pool that divides 2^64 - 2^32.
THEOREM LoopsInTurn ==
  ASSUME \E k \in Nat : (4 * HalfRange * HalfRange) - (2 * HalfRange) = k * Size
  PROVE  PoolSpec => DealtInTurn
<1> DEFINE Turn ==
      last # None /\ last' # None /\ loop_index_' # loop_index_ /\ loop_index_ # 0
        => last' = (last + 1) % Size
<1>1. PoolInv /\ TurnInv /\ [PoolNext]_poolvars => [Turn]_poolvars
  <2> SUFFICES ASSUME PoolInv, TurnInv, [PoolNext]_poolvars,
                      last # None, last' # None, loop_index_' # loop_index_, loop_index_ # 0
               PROVE  last' = (last + 1) % Size
    OBVIOUS
  <2>1. PICK c \in Callers : GetNextLoopReturns(c)
    BY IndexSteps DEF indices, GetNextLoop
  <2>2. /\ index[c] # Idle
        /\ last' = IF overlapping THEN None ELSE ThreadOf(index[c])
    BY <2>1 DEF GetNextLoopReturns
  <2>3. ~ overlapping /\ last' = ThreadOf(index[c])
    BY <2>2
  <2>4. index[c] = loop_index_
    BY <2>2, <2>3 DEF TurnInv
  <2>5. PICK i \in -HalfRange .. HalfRange - 1 : Advance(i) = loop_index_ /\ last = ThreadOf(i)
    BY DEF TurnInv
  <2>6. ThreadOf(Advance(i)) = (ThreadOf(i) + 1) % Size
    BY <2>5, TurnOfNext
  <2> QED
    BY <2>3, <2>4, <2>5, <2>6
<1>2. TypeInv /\ ThreadInv /\ PoolInv /\ [PoolNext]_poolvars => PoolInv'
  BY NextPool
<1>3. PoolInv /\ TurnInv /\ [PoolNext]_poolvars => TurnInv'
  BY NextTurn
<1>4. PoolSpec => [](PoolInv /\ TurnInv)
  BY <1>2, <1>3, InitPool, InitTurn, Invariance, PTL DEF PoolSpec, poolvars
<1>5. PoolSpec => [][Turn]_poolvars
  BY <1>1, <1>4, PTL DEF PoolSpec, poolvars
<1> QED
  BY <1>5 DEF DealtInTurn, poolvars
=============================================================================
