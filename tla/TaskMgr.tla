------------------------------- MODULE TaskMgr --------------------------------
(***************************************************************************)
(* The periodic tasks.  OnWork runs those whose time is past, with lock_   *)
(* held, and drops each that has no new time afterwards.  A callback gets  *)
(* its task, which it may restart; any thread that has a task may restart  *)
(* it, without the lock.                                                   *)
(***************************************************************************)
EXTENDS Naturals

CONSTANTS
  Tasks,
  Interval,   \* interval_ of each task
  MaxNow      \* bound on the clock

ASSUME TaskAssumption == MaxNow \in Nat /\ Interval \in [Tasks -> Nat]

None == "none"
ASSUME NoneAssumption == None \notin Tasks

VARIABLES
  tasks,     \* tasks_
  when,      \* when_ of each task
  now,       \* TTime::NowMS
  pc,        \* OnWork: "out", "look", "run", "calling", "again",
             \* "erase", or "stuck"
  at,        \* OnWork's now
  todo,      \* OnWork: what the iterator has not reached
  current,   \* OnWork: *iter, while it is being run
  armed,     \* history: tasks whose next run has been asked for
  unseen     \* history: tasks restarted after OnWork's last look at their time,
             \* and not added again since

vars == <<tasks, when, now, pc, at, todo, current, armed, unseen>>

\* The tasks are made when the clock starts.
Init ==
  /\ tasks = {} /\ when = Interval /\ now = 0
  /\ pc = "out" /\ at = 0 /\ todo = {} /\ current = None
  /\ armed = {} /\ unseen = {}

onWork == <<pc, at, todo, current>>

\* lock_ is held for as long as OnWork is under way.
Unlocked == pc = "out"

-----------------------------------------------------------------------------
(* Any thread.                                                             *)

Tick ==
  /\ now < MaxNow /\ now' = now + 1
  /\ UNCHANGED <<tasks, when, onWork, armed, unseen>>

Add(t) ==
  /\ Unlocked
  /\ t \notin tasks
  /\ tasks' = tasks \cup {t} /\ armed' = armed \cup {t} /\ unseen' = unseen \ {t}
  /\ UNCHANGED <<when, now, onWork>>

Del(t) ==
  /\ Unlocked
  /\ t \in tasks
  /\ tasks' = tasks \ {t} /\ armed' = armed \ {t}
  /\ UNCHANGED <<when, now, onWork, unseen>>

\* By the callback, or by another thread, at any time.
Restart(t) ==
  /\ when' = [when EXCEPT ![t] = Interval[t] + now]
  /\ armed' = IF t \in tasks THEN armed \cup {t} ELSE armed
  /\ unseen' = IF pc = "erase" /\ current = t THEN unseen \cup {t} ELSE unseen
  /\ UNCHANGED <<tasks, now, onWork>>

-----------------------------------------------------------------------------
(* OnWork, on one thread at a time.                                        *)

OnWork ==
  /\ pc = "out" /\ pc' = "look"
  /\ at' = now
  /\ todo' = tasks
  /\ UNCHANGED <<tasks, when, now, current, armed, unseen>>

\* Mutant: the time must be met exactly.
MutantLook ==
  /\ pc = "look"
  /\ \E t \in todo :
       /\ todo' = todo \ {t}
       /\ IF when[t] = at THEN pc' = "run" /\ current' = t ELSE UNCHANGED <<pc, current>>
  /\ UNCHANGED <<tasks, when, now, at, armed, unseen>>

\* Mutant: the iterator stays where it is.
MutantIterator ==
  /\ pc = "look"
  /\ \E t \in todo :
       IF when[t] < at THEN pc' = "run" /\ current' = t /\ UNCHANGED todo
                       ELSE todo' = todo \ {t} /\ UNCHANGED <<pc, current>>
  /\ UNCHANGED <<tasks, when, now, at, armed, unseen>>

\* The next task of the iteration.
Look ==
  /\ pc = "look"
  /\ \E t \in todo :
       /\ todo' = todo \ {t}
       /\ IF when[t] < at THEN pc' = "run" /\ current' = t ELSE UNCHANGED <<pc, current>>
  /\ UNCHANGED <<tasks, when, now, at, armed, unseen>>

\* The callback is called, even for a task that has been given a later time since.
Run ==
  /\ pc = "run" /\ pc' = "calling"
  /\ armed' = IF when[current] < at THEN armed \ {current} ELSE armed
  /\ UNCHANGED <<tasks, when, now, at, todo, current, unseen>>

\* It returns, or has called Add or Del and waits for the lock of its own thread.
Return ==
  /\ pc = "calling" /\ pc' \in {"again", "stuck"}
  /\ UNCHANGED <<tasks, when, now, at, todo, current, armed, unseen>>

\* Mutant: the second look is forgotten, a task that has run is dropped.
MutantAgain ==
  /\ pc = "again" /\ pc' = "erase"
  /\ UNCHANGED <<tasks, when, now, at, todo, current, armed, unseen>>

\* Whether the task has a new time.
Again ==
  /\ pc = "again"
  /\ IF when[current] < at THEN pc' = "erase" /\ UNCHANGED current
                           ELSE pc' = "look" /\ current' = None
  /\ UNCHANGED <<tasks, when, now, at, todo, armed, unseen>>

\* Mutant: the task is left in the set.
MutantErase ==
  /\ pc = "erase" /\ pc' = "look"
  /\ current' = None
  /\ UNCHANGED <<tasks, when, now, at, todo, armed, unseen>>

Erase ==
  /\ pc = "erase" /\ pc' = "look"
  /\ tasks' = tasks \ {current}
  /\ current' = None
  /\ UNCHANGED <<when, now, at, todo, armed, unseen>>

Unlock ==
  /\ pc = "look" /\ todo = {} /\ pc' = "out"
  /\ UNCHANGED <<tasks, when, now, at, todo, current, armed, unseen>>

Iteration == Look \/ Run \/ Return \/ Again \/ Erase \/ Unlock

Next ==
  \/ Tick
  \/ \E t \in Tasks : Add(t) \/ Del(t) \/ Restart(t)
  \/ OnWork \/ Iteration

Spec == Init /\ [][Next]_vars

(* Some thread calls OnWork again and again, and the clock goes on.        *)
FairSpec == Spec /\ WF_vars(Tick) /\ WF_vars(OnWork) /\ WF_vars(Iteration)
-----------------------------------------------------------------------------
(* Properties.                                                             *)

\* Every variable holds a value of its type; only OnWork has a task in hand.
TypeOK ==
  /\ tasks \subseteq Tasks /\ todo \subseteq tasks /\ armed \subseteq Tasks /\ unseen \subseteq Tasks
  /\ when \in [Tasks -> Nat] /\ now \in 0 .. MaxNow /\ at \in 0 .. now
  /\ pc \in {"out", "look", "run", "calling", "again", "erase", "stuck"}
  /\ IF pc \in {"out", "look"} THEN current = None ELSE current \in tasks \ todo

\* A task that was added or restarted, and has not run since, stays in the set, through
\* the erasures of OnWork and restarts by other threads while it runs.  The exception is
\* a restart that comes between OnWork's second look at the time and the erasure: that
\* task is dropped.
KeptWhileArmed ==
  /\ armed \subseteq tasks \cup unseen
  /\ \A t \in unseen \cap tasks : pc = "erase" /\ current = t

\* A task runs once each time it is added or restarted: one that has run and has no new
\* time is gone, and one that was deleted does not run.
OncePerArming == [][pc = "run" /\ pc' = "calling" => current \in armed]_vars

\* A task whose time is past is run, unless it is deleted or given another time first,
\* or a callback has locked up.
DueIsRun ==
  \A t \in Tasks :
    (t \in tasks /\ when[t] < now) ~>
      (current = t \/ t \notin tasks \/ when[t] >= now \/ pc = "stuck")
=============================================================================
