-------------------------- MODULE EventLoopThreadPool --------------------------
(***************************************************************************)
(* A pool of Size threads.  They have nothing in common, so the one at     *)
(* place, any place, is modelled in full (EventLoopThread) and stands for  *)
(* every one.  Callers start the pool, which runs thread after thread, and *)
(* ask for loops: GetLoops for all, GetNextLoop for the next, whose index  *)
(* is read in one step and advanced in another, and overflows.             *)
(***************************************************************************)
EXTENDS EventLoopThread, Integers

CONSTANTS
  Size,        \* threads_.size()
  HalfRange    \* loop_index_ is in -HalfRange .. HalfRange - 1 (2^31 in the code)

ASSUME PoolAssumption == {Size, HalfRange} \subseteq Nat \ {0}

None == Size
Idle == HalfRange

VARIABLES
  place,        \* the index in threads_ of the thread that is modelled
  start,        \* how many threads each caller's Start has run
  loop_index_,
  index,        \* what each caller's GetNextLoop has read, or Idle
  last,         \* history: the index in threads_ of the loop that was dealt last
  overlapping   \* history: the GetNextLoop under way met another

indices == <<loop_index_, index, last, overlapping>>
pool == <<place, start, indices>>

PoolInit ==
  /\ Init
  /\ place \in 0 .. Size - 1
  /\ start = [c \in Callers |-> 0]
  /\ loop_index_ = 0 /\ index = [c \in Callers |-> Idle]
  /\ last = None /\ overlapping = FALSE

-----------------------------------------------------------------------------
\* Start runs a thread other than that at place.
StartOther(c) ==
  /\ owner = "built"
  /\ start[c] < Size /\ start[c] # place
  /\ start' = [start EXCEPT ![c] = @ + 1]
  /\ UNCHANGED <<vars, place, indices>>

\* It calls Run of the one at place ...
StartRun(c) ==
  /\ start[c] = place \/ owner = "dtor"
  /\ RunCalled(c)
  /\ UNCHANGED pool

\* ... which returns.
StartReturned(c) ==
  /\ start[c] = place
  /\ run[c] = "returned"
  /\ start' = [start EXCEPT ![c] = @ + 1]
  /\ UNCHANGED <<vars, place, indices>>

\* std::atomic_int32_t wraps around.
Advance(i) == IF i = HalfRange - 1 THEN -HalfRange ELSE i + 1

\* Mutant: the absolute value of the index is taken.
MutantThreadOf(i) == (IF i < 0 THEN -i ELSE i) % Size

\* index % threads_.size(): the index is converted to size_t, of twice the bits.
ThreadOf(i) == (IF i < 0 THEN i + 4 * HalfRange * HalfRange ELSE i) % Size

GetNextLoop(c) ==
  /\ c \in Others /\ owner = "built" /\ start[c] = Size
  /\ index[c] = Idle
  /\ index' = [index EXCEPT ![c] = loop_index_]
  /\ overlapping' = \E d \in Callers : index[d] # Idle
  /\ UNCHANGED <<vars, place, start, loop_index_, last>>

\* The index is advanced, and Loop() of the thread is returned.
GetNextLoopReturns(c) ==
  /\ index[c] # Idle
  /\ loop_index_' = Advance(loop_index_)
  /\ index' = [index EXCEPT ![c] = Idle]
  /\ last' = IF overlapping THEN None ELSE ThreadOf(index[c])
  /\ ptr' = [ptr EXCEPT ![c] = @ \/ (ThreadOf(index[c]) = place /\ loop)]
  /\ UNCHANGED <<members, local, looping, quits, owner, worker, run, luck, place, start,
                 overlapping>>

\* The pool is destroyed when nobody is inside a member function of it.
Destroyed ==
  /\ \A c \in Callers : start[c] \in {0, Size} /\ index[c] = Idle
  /\ Destructor
  /\ UNCHANGED pool

PoolNext ==
  \/ Constructor /\ UNCHANGED pool
  \/ StartEventLoop /\ UNCHANGED pool
  \/ Destroyed
  \/ RestOfDestructor /\ UNCHANGED pool
  \/ \E c \in Callers :
       \/ StartOther(c) \/ StartRun(c) \/ StartReturned(c)
       \/ RunCallOnce(c) /\ UNCHANGED pool
       \/ RunNotify(c) /\ UNCHANGED pool
       \/ RunGet(c) /\ UNCHANGED pool
       \/ GetLoop(c) /\ UNCHANGED pool
       \/ Quit(c) /\ UNCHANGED pool
       \/ GetNextLoop(c) \/ GetNextLoopReturns(c)

PoolSpec == PoolInit /\ [][PoolNext]_<<vars, pool>> /\ Fairness
-----------------------------------------------------------------------------
(* Properties.                                                             *)

\* Every variable holds a value of its type, and nobody starts the pool, or has an index
\* in hand, before it is built.
PoolTypeOK ==
  /\ TypeOK
  /\ place \in 0 .. Size - 1
  /\ start \in [Callers -> 0 .. Size]
  /\ loop_index_ \in -HalfRange .. HalfRange - 1
  /\ index \in [Callers -> -HalfRange .. HalfRange]
  /\ last \in 0 .. Size /\ overlapping \in BOOLEAN
  /\ owner \notin {"built", "dtor", "quit", "join", "gone"} =>
       \A c \in Callers : owner # "terminated" => start[c] = 0 /\ index[c] = Idle

\* Calls of GetNextLoop that do not overlap are given the loops in turn, through the
\* overflow of the index, except where it comes back to zero.
DealtInTurn ==
  [][last # None /\ last' # None /\ loop_index_' # loop_index_ /\ loop_index_ # 0
       => last' = (last + 1) % Size]_<<vars, pool>>
=============================================================================
