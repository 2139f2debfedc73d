------------------------------ MODULE TimingWheel ------------------------------
(***************************************************************************)
(* The timing wheel of an event loop: four wheels of slots, a tick of one  *)
(* second, and callbacks that run when the last reference to their entry   *)
(* goes away.  Everything runs on the loop's thread.  The callbacks run in *)
(* the middle of OnTimer, while a popped slot is being destroyed, and may  *)
(* insert entries themselves.                                              *)
(*                                                                         *)
(* An entry with a remainder, in the minute, hour and day wheels, is the   *)
(* CallbackEntry that inserts the wrapped entry again when it is destroyed.*)
(***************************************************************************)
EXTENDS Integers, FiniteSets, Functions

CONSTANTS
  Entries,    \* identities for CallbackEntry objects, used again when free
  Delays,     \* the delays asked for, in seconds
  Second,     \* clock units in a second (1000)
  Minute,     \* KTimingMinute
  Hour,       \* KTimingHour
  Day,        \* KTimingDay
  MaxDays,    \* slots of the day wheel (30)
  MaxClock,   \* bound: the clock stops here
  Idle        \* no entry

ASSUME UnitsAssumption ==
  /\ Second \in Nat \ {0}
  /\ Minute \in Nat \ {0, 1}
  /\ Hour \in Nat /\ Hour % Minute = 0 /\ Hour > Minute
  /\ Day \in Nat /\ Day % Hour = 0 /\ Day > Hour
  /\ MaxDays \in Nat \ {0}
  /\ MaxClock \in Nat
ASSUME EntriesAssumption == Idle \notin Entries /\ Delays \subseteq Nat

VARIABLES
  wheels,    \* wheels_  : per wheel, a function from slots to sets of items
  tick,      \* tick_
  last_ts,   \* last_ts_
  now,       \* the wall clock, in its units, never 0
  pc,        \* the wheel whose popped slot is being destroyed, or "idle"
  dying,     \* what is left of that slot (tmp in PopUp)
  calling,   \* the entry whose callback is running, or Idle
  timer      \* per entry: its delay and interval, and as history when it was
             \* inserted (at) and the tick it is for (due), or Free

vars == <<wheels, tick, last_ts, now, pc, dying, calling, timer>>

Slots == [second |-> Minute, minute |-> Hour \div Minute,
          hour |-> Day \div Hour, day |-> MaxDays]

Item(e, rest) == [entry |-> e, rest |-> rest]

Free == [delay |-> 0, due |-> 0, at |-> 0, every |-> 0]
Live(e) == timer[e] # Free

\* An entry inserted now.
Timer(delay, every) == [delay |-> delay, due |-> tick + delay, at |-> now, every |-> every]

Init ==
  /\ wheels = [w \in DOMAIN Slots |-> [i \in 0 .. Slots[w] - 1 |-> {}]]
  /\ tick = 0 /\ last_ts = 0 /\ now = 1
  /\ pc = "idle" /\ dying = {} /\ calling = Idle
  /\ timer = [e \in Entries |-> Free]

-----------------------------------------------------------------------------
Put(ws, w, slot, item) == [ws EXCEPT ![w] = [ws[w] EXCEPT ![slot] = @ \cup {item}]]

\* Mutant: the slots are counted from 1.
MutantSlot(ws, delay, e) ==
  CASE delay = 0 -> ws
    [] delay \in 1 .. Minute - 1 ->
         Put(ws, "second", delay % Minute, Item(e, 0))
    [] delay \in Minute .. Hour - 1 ->
         Put(ws, "minute", (delay \div Minute) % (Hour \div Minute), Item(e, delay % Minute))
    [] OTHER -> ws

\* Mutant: the seconds beyond the minute are dropped.
MutantRest(ws, delay, e) ==
  CASE delay = 0 -> ws
    [] delay \in 1 .. Minute - 1 ->
         Put(ws, "second", delay - 1, Item(e, 0))
    [] delay \in Minute .. Hour - 1 ->
         Put(ws, "minute", (delay \div Minute) - 1, Item(e, 0))
    [] OTHER -> ws

\* InstertEntry: where a reference to e goes, if anywhere.
InstertEntry(ws, delay, e) ==
  CASE delay = 0 -> ws
    [] delay \in 1 .. Minute - 1 ->
         Put(ws, "second", delay - 1, Item(e, 0))
    [] delay \in Minute .. Hour - 1 ->
         Put(ws, "minute", (delay \div Minute) - 1, Item(e, delay % Minute))
    [] delay \in Hour .. Day - 1 ->
         Put(ws, "hour", (delay \div Hour) - 1, Item(e, delay % Hour))
    [] delay >= Day /\ delay \div Day <= MaxDays ->
         Put(ws, "day", (delay \div Day) - 1, Item(e, delay % Day))
    [] delay >= Day /\ delay \div Day > MaxDays -> ws

\* Mutant: push_back is forgotten.
MutantNoPushBack(wheel) == [i \in DOMAIN wheel \ {Cardinality(DOMAIN wheel) - 1} |-> wheel[i + 1]]

Rotate(wheel) == [i \in DOMAIN wheel |-> IF i + 1 \in DOMAIN wheel THEN wheel[i + 1] ELSE {}]

\* e is referred to from a slot or from the part of a slot not yet destroyed.
Held(ws, rest, e) ==
  \/ \E w \in DOMAIN ws : \E i \in DOMAIN ws[w] : \E x \in ws[w][i] : x.entry = e
  \/ \E x \in rest : x.entry = e

\* RunAfter (every = 0) and RunEvery, called between two OnTimer or from a
\* callback.  What is not inserted is destroyed, hence called, at once; with
\* RunEvery that would recurse for ever, so such an interval is not asked for.
Run(e, delay, every) ==
  LET ws == InstertEntry(wheels, delay, e) IN
  /\ ~ Live(e)
  /\ pc = "idle" \/ calling # Idle
  /\ wheels' = ws
  /\ timer' = [timer EXCEPT ![e] = Timer(delay, every)]
  /\ IF Held(ws, {}, e)
     THEN UNCHANGED calling
     ELSE every = 0 /\ calling = Idle /\ calling' = e
  /\ UNCHANGED <<tick, last_ts, now, pc, dying>>

RunAfter(e) == \E d \in Delays : Run(e, d, 0)
RunEvery(e) == \E d \in Delays \ {0} : Run(e, d, d)

\* InsertEntry of an entry that is in the wheel already, with the same delay as
\* TcpConnect::ExtendLife does: the entry lives until its last reference goes.
ExtendLife(e) ==
  /\ Live(e) /\ timer[e].every = 0 /\ calling # e
  /\ pc = "idle"
  /\ wheels' = InstertEntry(wheels, timer[e].delay, e)
  /\ timer' = [timer EXCEPT ![e] = Timer(@.delay, 0)]
  /\ UNCHANGED <<tick, last_ts, now, pc, dying, calling>>

-----------------------------------------------------------------------------
(* OnTimer.                                                                *)

PopUp(w) ==
  /\ dying' = wheels[w][0]
  /\ wheels' = [wheels EXCEPT ![w] = Rotate(@)]
  /\ pc' = w

\* At most one tick per call, and the rest of the elapsed time is forgotten.
OnTimer ==
  /\ pc = "idle" /\ calling = Idle
  /\ IF last_ts = 0 \/ now - last_ts < Second
     THEN /\ last_ts' = IF last_ts = 0 THEN now ELSE last_ts
          /\ UNCHANGED <<wheels, tick, pc, dying>>
     ELSE /\ last_ts' = now
          /\ tick' = tick + 1
          /\ PopUp("second")
  /\ UNCHANGED <<now, calling, timer>>

\* One item of the popped slot is destroyed.  An item with a remainder inserts
\* its entry again; an entry whose last reference is gone is called.
Destroy(x) ==
  LET ws == InstertEntry(wheels, x.rest, x.entry) IN
  /\ calling = Idle
  /\ dying' = dying \ {x}
  /\ wheels' = ws
  /\ IF Held(ws, dying', x.entry)
     THEN UNCHANGED calling
     ELSE calling' = x.entry
  /\ UNCHANGED <<tick, last_ts, now, pc, timer>>

\* The callback is over; that of RunEvery ends by inserting a new entry.
Return(e) ==
  /\ calling = e
  /\ calling' = Idle
  /\ IF timer[e].every = 0
     THEN /\ timer' = [timer EXCEPT ![e] = Free]
          /\ UNCHANGED wheels
     ELSE /\ timer' = [timer EXCEPT ![e] = Timer(@.every, @.every)]
          /\ wheels' = InstertEntry(wheels, timer[e].every, e)
  /\ UNCHANGED <<tick, last_ts, now, pc, dying>>

\* The slot is destroyed: on to the next wheel, by the if / else if of OnTimer.
NextWheel ==
  /\ pc # "idle" /\ dying = {} /\ calling = Idle
  /\ IF pc = "second" /\ tick % Minute = 0 THEN PopUp("minute")
     ELSE IF pc = "second" /\ tick % Hour = 0 THEN PopUp("hour")
     ELSE IF pc = "second" /\ tick % Day = 0 THEN PopUp("day")
     ELSE pc' = "idle" /\ UNCHANGED <<wheels, dying>>
  /\ UNCHANGED <<tick, last_ts, now, calling, timer>>

\* Time passes between two calls of the wheel.
Advance ==
  /\ pc = "idle" /\ calling = Idle
  /\ now < MaxClock
  /\ now' = now + 1
  /\ UNCHANGED <<wheels, tick, last_ts, pc, dying, calling, timer>>

Next ==
  \/ \E e \in Entries : RunAfter(e) \/ RunEvery(e) \/ ExtendLife(e) \/ Return(e)
  \/ \E x \in dying : Destroy(x)
  \/ OnTimer \/ NextWheel \/ Advance

Spec == Init /\ [][Next]_vars
-----------------------------------------------------------------------------
(* Properties.                                                             *)

Items == [entry : Entries, rest : Nat]

\* Every variable holds a value of its type.
TypeOK ==
  /\ DOMAIN wheels = DOMAIN Slots
  /\ \A w \in DOMAIN Slots : wheels[w] \in [0 .. Slots[w] - 1 -> SUBSET Items]
  /\ tick \in Nat /\ last_ts \in Nat /\ now \in Nat
  /\ pc \in DOMAIN Slots \cup {"idle"}
  /\ dying \in SUBSET Items
  /\ calling \in Entries \cup {Idle}
  /\ timer \in [Entries -> [delay : Nat, due : Nat, at : Nat, every : Nat]]

\* An entry that is not being called waits for a tick to come, or for its turn
\* in the OnTimer of this tick.
InTime(e) == Live(e) /\ calling # e =>
               tick < timer[e].due \/ (pc # "idle" /\ tick = timer[e].due)

\* With a delay below an hour no entry is called too late, not even one inserted
\* from a callback half-way through OnTimer.
NeverLate == \A e \in Entries : timer[e].delay < Hour => InTime(e)

\* Nor is one early by more than a minute, and with a delay below a minute it is called
\* at the very tick.  On the clock that may be a second early: a tick takes a second or
\* more, of which the first may have begun before the insertion.
EarlyAtMost ==
  calling # Idle /\ timer[calling].delay < Hour =>
    /\ timer[calling].due - tick \in 0 .. Minute
    /\ timer[calling].delay < Minute => timer[calling].due = tick
    /\ timer[calling].delay \in 1 .. Minute - 1 =>
         now - timer[calling].at >= (timer[calling].delay - 1) * Second

\* What the comment on OnTimer says of minutes, hours and days: the wheels of
\* all of them are turned, so nothing stays beyond its time.
EveryWheelTurns == \A e \in Entries : InTime(e)
=============================================================================
