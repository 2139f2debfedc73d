---------------------------- MODULE TaskMgrProofs -----------------------------
(***************************************************************************)
(* TaskMgr, for any tasks, intervals and bound on the clock.               *)
(***************************************************************************)
EXTENDS TaskMgr, TLAPS

(***************************************************************************)
(* A task that is in the set and not in hand has its next run to come.     *)
(* While the callback runs, the task in hand has one exactly if its time   *)
(* is no longer past, which is what OnWork looks at afterwards; once it is *)
(* to be erased it has none, or one that comes too late.                   *)
(***************************************************************************)
ArmedInv ==
  /\ armed \subseteq tasks \cup unseen
  /\ unseen \cap tasks \subseteq {current}
  /\ pc # "erase" => unseen \cap tasks = {}
  /\ tasks \ {current} \subseteq armed
  /\ pc = "out" => todo = {}
  /\ pc = "run" => current \in armed
  /\ pc \in {"calling", "again"} => (current \in armed <=> when[current] >= at)
  /\ pc = "erase" /\ current \in armed => current \in unseen

IInv == TypeOK /\ ArmedInv

\* The invariant holds to begin with.
LEMMA InitIInv == Init => IInv
BY TaskAssumption, NoneAssumption, SMT DEF Init, IInv, TypeOK, ArmedInv

\* A step of any thread, but for OnWork, leaves the invariant true.
LEMMA OthersIInv ==
  ASSUME IInv, NEW t \in Tasks, Tick \/ Add(t) \/ Del(t) \/ Restart(t)
  PROVE  IInv'
<1>1. CASE Tick
  BY <1>1, TaskAssumption, SMT DEF Tick, onWork, IInv, TypeOK, ArmedInv
<1>2. CASE Add(t)
  BY <1>2, NoneAssumption, SMT DEF Add, Unlocked, onWork, IInv, TypeOK, ArmedInv
<1>3. CASE Del(t)
  BY <1>3, NoneAssumption, SMT DEF Del, Unlocked, onWork, IInv, TypeOK, ArmedInv
<1>4. CASE Restart(t)
  <2>a. when \in [Tasks -> Nat] /\ when' = [when EXCEPT ![t] = Interval[t] + now]
    BY <1>4 DEF Restart, IInv, TypeOK
  <2>b. now \in Nat /\ at \in Nat /\ at <= now
    BY TaskAssumption, SMT DEF IInv, TypeOK
  <2>c. Interval[t] \in Nat
    BY TaskAssumption
  <2>1. when' \in [Tasks -> Nat] /\ when'[t] >= at
    BY <2>a, <2>b, <2>c, SMT
  <2>2. TypeOK'
    BY <1>4, <2>1, SMT DEF Restart, onWork, IInv, TypeOK
  <2>3. \A u \in Tasks : u # t => when'[u] = when[u]
    BY <1>4, SMT DEF Restart, IInv, TypeOK
  <2>4. ArmedInv'
    BY <1>4, <2>1, <2>3, SMT DEF Restart, onWork, IInv, TypeOK, ArmedInv
  <2> QED BY <2>2, <2>4 DEF IInv
<1> QED BY <1>1, <1>2, <1>3, <1>4

\* So does a step of OnWork.
LEMMA OnWorkIInv == IInv /\ (OnWork \/ Iteration) => IInv'
<1> SUFFICES ASSUME IInv, OnWork \/ Iteration PROVE IInv'
  OBVIOUS
<1> USE NoneAssumption DEF IInv, TypeOK, ArmedInv
<1>1. CASE OnWork BY <1>1, SMT DEF OnWork
<1>2. CASE Look BY <1>2, SMT DEF Look
<1>3. CASE Run BY <1>3, SMT DEF Run
<1>4. CASE Return BY <1>4, SMT DEF Return
<1>5. CASE Again BY <1>5, SMT DEF Again
<1>6. CASE Erase BY <1>6, SMT DEF Erase
<1>7. CASE Unlock BY <1>7, SMT DEF Unlock
<1> QED BY <1>1, <1>2, <1>3, <1>4, <1>5, <1>6, <1>7 DEF Iteration

LEMMA NextIInv == IInv /\ [Next]_vars => IInv'
<1> SUFFICES ASSUME IInv, [Next]_vars PROVE IInv'
  OBVIOUS
<1>1. CASE Tick
  BY <1>1, TaskAssumption, SMT DEF Tick, onWork, IInv, TypeOK, ArmedInv
<1>2. CASE \E t \in Tasks : Add(t) \/ Del(t) \/ Restart(t)
  BY <1>2, OthersIInv
<1>3. CASE OnWork \/ Iteration
  BY <1>3, OnWorkIInv
<1>4. CASE UNCHANGED vars
  BY <1>4, SMT DEF vars, IInv, TypeOK, ArmedInv
<1> QED BY <1>1, <1>2, <1>3, <1>4 DEF Next

\* The invariant holds in every state that can be reached.
LEMMA Invariance == Spec => []IInv
<1>1. Init => IInv BY InitIInv
<1>2. IInv /\ [Next]_vars => IInv' BY NextIInv
<1> QED BY <1>1, <1>2, PTL DEF Spec

\* Every variable of TaskMgr keeps its type; OnWork has a task in hand exactly while it
\* runs or drops one.
THEOREM TasksTypeCorrect == Spec => []TypeOK
BY Invariance, PTL DEF IInv

\* OnWork drops a task that was added or restarted, and has not run since, only if the
\* restart came after its second look at the time; then it does.  Restarts of other
\* threads and of the callback come at any time.
THEOREM ArmedTasksKept == Spec => []KeptWhileArmed
<1>1. IInv => KeptWhileArmed
  BY DEF IInv, ArmedInv, KeptWhileArmed
<1> QED BY <1>1, Invariance, PTL

\* A callback is called only for a task that was added or restarted since its last call.
THEOREM RunsOncePerArming == Spec => OncePerArming
<1>1. IInv => (pc = "run" /\ pc' = "calling" => current \in armed)
  BY DEF IInv, ArmedInv
<1>2. IInv /\ [Next]_vars => [pc = "run" /\ pc' = "calling" => current \in armed]_vars
  BY <1>1
<1> QED BY <1>2, Invariance, PTL DEF Spec, OncePerArming
=============================================================================
