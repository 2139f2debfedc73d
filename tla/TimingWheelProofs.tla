--------------------------- MODULE TimingWheelProofs ---------------------------
(***************************************************************************)
(* Proofs about the timing wheel.  WheelInv says what the slots may hold;  *)
(* Pending(e, t) that a reference to e goes at the tick t.  The turns of   *)
(* the wheels leave Pending as it is, an insertion adds to it the tick it  *)
(* lands at, and a destroyed item takes away the tick of now: so DueInv    *)
(* holds, which bounds the time of every callback from both sides.         *)
(***************************************************************************)
EXTENDS TimingWheel, TLAPS

LEMMA Units ==
  /\ Second \in Nat /\ Second > 0 /\ Minute \in Nat /\ Minute > 1
  /\ Hour \in Nat /\ Hour > Minute /\ Day \in Nat /\ Day > Hour /\ MaxDays \in Nat /\ MaxDays > 0
BY UnitsAssumption, SMT

LEMMA Division ==
  ASSUME NEW n \in Nat, NEW m \in Nat, m > 0
  PROVE  /\ n \div m \in Nat /\ n % m \in 0 .. m - 1
         /\ n = (n \div m) * m + (n % m)
BY SMT

LEMMA Multiple ==
  ASSUME NEW k \in Int, NEW m \in Nat, m > 0, k * m > -m, k * m <= m
  PROVE  k \in {0, 1}
<1>1. CASE k <= -1
  <2>1. k * m <= (-1) * m BY <1>1, SMT
  <2> QED BY <2>1, SMT
<1>2. CASE k >= 2
  <2>1. k * m >= 2 * m BY <1>2, SMT
  <2> QED BY <2>1, SMT
<1> QED BY <1>1, <1>2, SMT

LEMMA NextMod ==
  ASSUME NEW n \in Nat, NEW m \in Nat, m > 1
  PROVE  \/ (n + 1) % m = (n % m) + 1
         \/ (n + 1) % m = 0 /\ n % m = m - 1
<1> DEFINE q == n \div m
           r == n % m
           p == (n + 1) \div m
           s == (n + 1) % m
<1>1. q \in Nat /\ r \in 0 .. m - 1 /\ n = q * m + r
  BY Division, SMT
<1>2. p \in Nat /\ s \in 0 .. m - 1 /\ n + 1 = p * m + s
  BY Division, n + 1 \in Nat, SMT
<1> HIDE DEF q, r, p, s
<1>3. (p - q) * m = p * m - q * m
  BY <1>1, <1>2, SMT
<1>4. (p - q) * m = r + 1 - s
  BY <1>1, <1>2, <1>3, SMT
<1>5. p - q \in Int /\ (p - q) * m > -m /\ (p - q) * m <= m
  BY <1>1, <1>2, <1>4, SMT
<1>6. p - q \in {0, 1}
  BY <1>5, Multiple, m > 0
<1>7. CASE p - q = 0
  <2>1. (p - q) * m = 0 BY <1>7, SMT
  <2>2. s = r + 1 BY <1>1, <1>2, <1>4, <2>1, SMT
  <2> QED BY <2>2 DEF s, r
<1>8. CASE p - q = 1
  <2>1. (p - q) * m = m BY <1>8, SMT
  <2>2. s = 0 /\ r = m - 1 BY <1>1, <1>2, <1>4, <2>1, SMT
  <2> QED BY <2>2 DEF s, r
<1> QED BY <1>6, <1>7, <1>8

LEMMA DivMonotone ==
  ASSUME NEW a \in Nat, NEW b \in Nat, NEW m \in Nat, m > 0, a <= b
  PROVE  a \div m <= b \div m
BY SMT

LEMMA DivPos ==
  ASSUME NEW a \in Nat, NEW m \in Nat, m > 0, m <= a
  PROVE  a \div m >= 1
BY SMT

-----------------------------------------------------------------------------
(* Where InstertEntry puts an item.                                        *)

Wheels == {"second", "minute", "hour", "day"}

LEMMA SlotsOf ==
  /\ DOMAIN Slots = Wheels
  /\ Slots["second"] = Minute /\ Slots["minute"] = Hour \div Minute
  /\ Slots["hour"] = Day \div Hour /\ Slots["day"] = MaxDays
BY DEF Slots, Wheels

LEMMA SlotsNat == \A w \in Wheels : Slots[w] \in Nat /\ Slots[w] >= 1
<1>1. Hour \div Minute \in Nat /\ Hour \div Minute >= 1
  BY Units, DivPos, Division, SMT
<1>2. Day \div Hour \in Nat /\ Day \div Hour >= 1
  BY Units, DivPos, Division, SMT
<1> QED BY <1>1, <1>2, Units, SlotsOf, SMT DEF Wheels

\* The wheels, each with all its slots.
Whole(ws) ==
  /\ DOMAIN ws = Wheels
  /\ \A w \in Wheels : ws[w] \in [0 .. Slots[w] - 1 -> SUBSET Items]

\* new is ws with x in one more slot.
With(new, ws, w, s, x) ==
  /\ Whole(new)
  /\ \A v \in Wheels : \A i \in 0 .. Slots[v] - 1 :
       new[v][i] = IF v = w /\ i = s THEN ws[v][i] \cup {x} ELSE ws[v][i]

LEMMA PutIn ==
  ASSUME NEW ws, Whole(ws), NEW w \in Wheels, NEW s \in 0 .. Slots[w] - 1, NEW x \in Items
  PROVE  With(Put(ws, w, s, x), ws, w, s, x)
<1> DEFINE new == [ws[w] EXCEPT ![s] = @ \cup {x}]
<1>1. Put(ws, w, s, x) = [ws EXCEPT ![w] = new] BY DEF Put
<1>2. new \in [0 .. Slots[w] - 1 -> SUBSET Items]
  <2>1. ws[w] \in [0 .. Slots[w] - 1 -> SUBSET Items] BY DEF Whole
  <2>2. ws[w][s] \subseteq Items BY <2>1
  <2>3. ws[w][s] \cup {x} \in SUBSET Items BY <2>2
  <2> QED BY <2>1, <2>3
<1>3. \A i \in 0 .. Slots[w] - 1 : new[i] = IF i = s THEN ws[w][i] \cup {x} ELSE ws[w][i]
  BY DEF Whole
<1> HIDE DEF new
<1>4. /\ DOMAIN [ws EXCEPT ![w] = new] = Wheels
      /\ \A v \in Wheels : [ws EXCEPT ![w] = new][v] = IF v = w THEN new ELSE ws[v]
  BY DEF Whole
<1>5. Whole([ws EXCEPT ![w] = new]) BY <1>2, <1>4 DEF Whole
<1> QED BY <1>1, <1>3, <1>4, <1>5 DEF With

\* The wheel, the slot and the remainder for a delay of d.
Place(d, w, s, r) ==
  \/ d \in 1 .. Minute - 1 /\ w = "second" /\ s = d - 1 /\ r = 0
  \/ d \in Minute .. Hour - 1 /\ w = "minute" /\ s = (d \div Minute) - 1 /\ r = d % Minute
  \/ d \in Nat /\ d >= Hour /\ w \in {"hour", "day"}

LEMMA Inserts ==
  ASSUME NEW ws, NEW d \in Nat, NEW e
  PROVE  \/ InstertEntry(ws, d, e) = ws /\ (d = 0 \/ d >= Hour)
         \/ \E w \in Wheels : \E s \in 0 .. Slots[w] - 1 : \E r \in Nat :
              Place(d, w, s, r) /\ InstertEntry(ws, d, e) = Put(ws, w, s, Item(e, r))
<1>1. CASE d = 0
  BY <1>1, Units, SMT DEF InstertEntry
<1>2. CASE d \in 1 .. Minute - 1
  <2>1. InstertEntry(ws, d, e) = Put(ws, "second", d - 1, Item(e, 0))
    BY <1>2, Units, SMT DEF InstertEntry
  <2>2. d - 1 \in 0 .. Slots["second"] - 1 BY <1>2, Units, SlotsOf, SMT
  <2>3. Place(d, "second", d - 1, 0) BY <1>2 DEF Place
  <2> QED BY <2>1, <2>2, <2>3 DEF Wheels
<1>3. CASE d \in Minute .. Hour - 1
  <2>1. InstertEntry(ws, d, e) = Put(ws, "minute", (d \div Minute) - 1, Item(e, d % Minute))
    BY <1>3, Units, SMT DEF InstertEntry
  <2>2. (d \div Minute) - 1 \in 0 .. Slots["minute"] - 1 /\ d % Minute \in Nat
    <3>1. d \div Minute >= 1 /\ d \div Minute \in Nat /\ d % Minute \in Nat
      BY <1>3, Units, DivPos, Division, SMT
    <3>2. d \div Minute <= Hour \div Minute /\ Hour \div Minute \in Nat
      BY <1>3, Units, DivMonotone, Division, SMT
    <3> QED BY <3>1, <3>2, SlotsOf, SMT
  <2>3. Place(d, "minute", (d \div Minute) - 1, d % Minute) BY <1>3 DEF Place
  <2> QED BY <2>1, <2>2, <2>3 DEF Wheels
<1>4. CASE d \in Hour .. Day - 1
  <2>1. InstertEntry(ws, d, e) = Put(ws, "hour", (d \div Hour) - 1, Item(e, d % Hour))
    BY <1>4, Units, SMT DEF InstertEntry
  <2>2. (d \div Hour) - 1 \in 0 .. Slots["hour"] - 1 /\ d % Hour \in Nat
    <3>1. d \div Hour >= 1 /\ d \div Hour \in Nat /\ d % Hour \in Nat
      BY <1>4, Units, DivPos, Division, SMT
    <3>2. d \div Hour <= Day \div Hour /\ Day \div Hour \in Nat
      BY <1>4, Units, DivMonotone, Division, SMT
    <3> QED BY <3>1, <3>2, SlotsOf, SMT
  <2>3. Place(d, "hour", (d \div Hour) - 1, d % Hour) BY <1>4, Units, SMT DEF Place
  <2> QED BY <2>1, <2>2, <2>3 DEF Wheels
<1>5. CASE d >= Day /\ d \div Day <= MaxDays
  <2>1. InstertEntry(ws, d, e) = Put(ws, "day", (d \div Day) - 1, Item(e, d % Day))
    BY <1>5, Units, SMT DEF InstertEntry
  <2>2. (d \div Day) - 1 \in 0 .. Slots["day"] - 1 /\ d % Day \in Nat
    <3>1. d \div Day >= 1 /\ d \div Day \in Nat /\ d % Day \in Nat
      BY <1>5, Units, DivPos, Division, SMT
    <3> QED BY <1>5, <3>1, Units, SlotsOf, SMT
  <2>3. Place(d, "day", (d \div Day) - 1, d % Day) BY <1>5, Units, SMT DEF Place
  <2> QED BY <2>1, <2>2, <2>3 DEF Wheels
<1>6. CASE d >= Day /\ d \div Day > MaxDays
  BY <1>6, Units, SMT DEF InstertEntry
<1>7. d \div Day \in Nat BY Units, Division, SMT
<1> QED BY <1>1, <1>2, <1>3, <1>4, <1>5, <1>6, <1>7, Units, SMT

\* What InstertEntry leaves in the slots: what was there, and at most a reference to e.
LEMMA InsertKeeps ==
  ASSUME NEW ws, Whole(ws), NEW d \in Nat, NEW e \in Entries
  PROVE  /\ Whole(InstertEntry(ws, d, e))
         /\ \A w \in Wheels : \A i \in 0 .. Slots[w] - 1 :
              /\ ws[w][i] \subseteq InstertEntry(ws, d, e)[w][i]
              /\ \A x \in InstertEntry(ws, d, e)[w][i] :
                   \/ x \in ws[w][i]
                   \/ x \in Items /\ x.entry = e /\ Place(d, w, i, x.rest)
         /\ d \in 1 .. Hour - 1 =>
              \E w \in Wheels : \E i \in 0 .. Slots[w] - 1 : \E r \in Nat :
                Place(d, w, i, r) /\ Item(e, r) \in InstertEntry(ws, d, e)[w][i]
<1> DEFINE new == InstertEntry(ws, d, e)
<1>1. CASE new = ws /\ (d = 0 \/ d >= Hour)
  <2>1. d \notin 1 .. Hour - 1 BY <1>1, Units, SMT
  <2> QED BY <1>1, <2>1
<1>2. CASE \E w \in Wheels : \E s \in 0 .. Slots[w] - 1 : \E r \in Nat :
              Place(d, w, s, r) /\ new = Put(ws, w, s, Item(e, r))
  <2>0. PICK w \in Wheels : \E s \in 0 .. Slots[w] - 1 : \E r \in Nat :
              Place(d, w, s, r) /\ new = Put(ws, w, s, Item(e, r))
    BY <1>2
  <2>1. PICK s \in 0 .. Slots[w] - 1, r \in Nat :
              Place(d, w, s, r) /\ new = Put(ws, w, s, Item(e, r))
    BY <2>0
  <2>2. Item(e, r) \in Items /\ Item(e, r).entry = e /\ Item(e, r).rest = r
    BY DEF Item, Items
  <2> DEFINE x == Item(e, r)
  <2> HIDE DEF x, new
  <2>3. /\ Whole(new)
        /\ \A v \in Wheels : \A i \in 0 .. Slots[v] - 1 :
             new[v][i] = IF v = w /\ i = s THEN ws[v][i] \cup {x} ELSE ws[v][i]
    <3>1. new = Put(ws, w, s, x) /\ x \in Items BY <2>1, <2>2 DEF x
    <3>2. With(Put(ws, w, s, x), ws, w, s, x)
      BY <3>1, PutIn
    <3> QED BY <3>1, <3>2 DEF With
  <2>4. ASSUME NEW v \in Wheels, NEW i \in 0 .. Slots[v] - 1
        PROVE  /\ ws[v][i] \subseteq new[v][i]
               /\ \A y \in new[v][i] :
                    y \in ws[v][i] \/ (y \in Items /\ y.entry = e /\ Place(d, v, i, y.rest))
    <3>1. CASE v = w /\ i = s
      <4>1. new[v][i] = ws[v][i] \cup {x} BY <2>3, <3>1
      <4>2. x \in Items /\ x.entry = e /\ Place(d, v, i, x.rest)
        BY <2>1, <2>2, <3>1 DEF x
      <4> QED BY <4>1, <4>2
    <3>2. CASE ~ (v = w /\ i = s)
      <4>1. new[v][i] = ws[v][i] BY <2>3, <3>2
      <4> QED BY <4>1
    <3> QED BY <3>1, <3>2
  <2>5. x \in new[w][s] BY <2>3
  <2> QED BY <2>1, <2>3, <2>4, <2>5 DEF x, new
<1> QED BY <1>1, <1>2, Inserts

\* A popped wheel moves up by a slot.
LEMMA RotateIn ==
  ASSUME NEW w \in Wheels, NEW wheel \in [0 .. Slots[w] - 1 -> SUBSET Items]
  PROVE  /\ Rotate(wheel) \in [0 .. Slots[w] - 1 -> SUBSET Items]
         /\ \A i \in 0 .. Slots[w] - 1 :
              Rotate(wheel)[i] = IF i + 1 <= Slots[w] - 1 THEN wheel[i + 1] ELSE {}
<1>1. Slots[w] \in Nat BY SlotsNat
<1> DEFINE n == Slots[w]
<1> HIDE DEF n
<1>2. DOMAIN wheel = 0 .. n - 1 BY DEF n
<1>3. \A i \in 0 .. n - 1 : (i + 1 \in 0 .. n - 1 <=> i + 1 <= n - 1)
  BY <1>1, SMT DEF n
<1>4. \A i \in 0 .. n - 1 : Rotate(wheel)[i] = IF i + 1 <= n - 1 THEN wheel[i + 1] ELSE {}
  BY <1>2, <1>3 DEF Rotate
<1>5. \A i \in 0 .. n - 1 : Rotate(wheel)[i] \in SUBSET Items
  BY <1>3, <1>4 DEF n
<1>6. Rotate(wheel) = [i \in 0 .. n - 1 |-> Rotate(wheel)[i]]
  BY <1>2 DEF Rotate
<1> HIDE DEF Rotate
<1>7. [i \in 0 .. n - 1 |-> Rotate(wheel)[i]] \in [0 .. n - 1 -> SUBSET Items]
  BY <1>5
<1> QED BY <1>4, <1>6, <1>7 DEF n

LEMMA PopUpIn ==
  ASSUME Whole(wheels), NEW w \in Wheels, PopUp(w)
  PROVE  /\ Whole(wheels)' /\ dying' = wheels[w][0] /\ dying' \in SUBSET Items /\ pc' = w
         /\ \A v \in Wheels : v # w => wheels'[v] = wheels[v]
         /\ \A i \in 0 .. Slots[w] - 1 :
              wheels'[w][i] = IF i + 1 <= Slots[w] - 1 THEN wheels[w][i + 1] ELSE {}
<1>1. wheels[w] \in [0 .. Slots[w] - 1 -> SUBSET Items] /\ DOMAIN wheels = Wheels
  BY DEF Whole
<1>2. 0 \in 0 .. Slots[w] - 1 BY SlotsNat, SMT
<1>3. wheels' = [wheels EXCEPT ![w] = Rotate(wheels[w])] BY DEF PopUp
<1>4. /\ Rotate(wheels[w]) \in [0 .. Slots[w] - 1 -> SUBSET Items]
      /\ \A i \in 0 .. Slots[w] - 1 :
           Rotate(wheels[w])[i] = IF i + 1 <= Slots[w] - 1 THEN wheels[w][i + 1] ELSE {}
  BY <1>1, RotateIn
<1>5. wheels'[w] = Rotate(wheels[w]) /\ \A v \in Wheels : v # w => wheels'[v] = wheels[v]
  BY <1>1, <1>3
<1>6. Whole(wheels)'
  BY <1>1, <1>3, <1>4, <1>5 DEF Whole
<1> QED BY <1>1, <1>2, <1>4, <1>5, <1>6 DEF PopUp

-----------------------------------------------------------------------------
(* The wheels and the entries in them.                                     *)

LEMMA Types == TypeOK => Whole(wheels)
BY SlotsOf DEF TypeOK, Whole

LEMMA ItemIn ==
  ASSUME NEW ws, Whole(ws), NEW w \in Wheels, NEW i \in 0 .. Slots[w] - 1, NEW x \in ws[w][i]
  PROVE  x \in Items /\ x.entry \in Entries /\ x.rest \in Nat
<1>1. ws[w] \in [0 .. Slots[w] - 1 -> SUBSET Items] BY DEF Whole
<1>2. x \in Items BY <1>1
<1> QED BY <1>2 DEF Items

InSlots(ws, e) == \E w \in Wheels : \E i \in 0 .. Slots[w] - 1 : \E x \in ws[w][i] : x.entry = e

LEMMA HeldIn ==
  ASSUME NEW ws, Whole(ws), NEW rest, NEW e
  PROVE  Held(ws, rest, e) <=> InSlots(ws, e) \/ \E x \in rest : x.entry = e
<1>1. DOMAIN ws = Wheels /\ \A w \in Wheels : DOMAIN ws[w] = 0 .. Slots[w] - 1
  BY DEF Whole
<1> QED BY <1>1 DEF Held, InSlots

\* Each wheel has the remainders that belong there, and hours and days only what was
\* asked for with such a delay.
Sorted(ws, tm) ==
  /\ \A i \in 0 .. Slots["second"] - 1 : \A x \in ws["second"][i] : x.rest = 0
  /\ \A i \in 0 .. Slots["minute"] - 1 : \A x \in ws["minute"][i] : x.rest \in 0 .. Minute - 1
  /\ \A w \in {"hour", "day"} : \A i \in 0 .. Slots[w] - 1 : \A x \in ws[w][i] :
       tm[x.entry].delay >= Hour

SortedDying(xs, w, tm) ==
  \A x \in xs : /\ w = "second" => x.rest = 0
                /\ w = "minute" => x.rest \in 0 .. Minute - 1
                /\ w \in {"hour", "day"} => tm[x.entry].delay >= Hour

WheelInv ==
  /\ now >= 1 /\ last_ts <= now
  /\ pc = "idle" => dying = {}
  /\ Sorted(wheels, timer)
  /\ SortedDying(dying, pc, timer)
  /\ \A e \in Entries : ~ Live(e) \/ calling = e => ~ Held(wheels, dying, e)
  /\ \A e \in Entries : Live(e) /\ calling # e => timer[e].delay >= 1
  /\ calling # Idle => Live(calling)

\* e is inserted with a delay of d, for the first time, again, or by its own callback.
Starts(e, d, ev) ==
  /\ d \in Nat /\ ev \in Nat
  /\ timer' = [timer EXCEPT ![e] = Timer(d, ev)]
  /\ wheels' = InstertEntry(wheels, d, e)
  /\ UNCHANGED <<tick, last_ts, now, pc, dying>>
  /\ \/ ~ Live(e) \/ calling = e
     \/ timer[e].delay = d
  /\ \/ calling' = calling /\ calling # e /\ d >= 1
     \/ calling = e /\ calling' = Idle /\ d >= 1
     \/ calling = Idle /\ calling' = e /\ ~ Live(e) /\ ~ Held(wheels', {}, e)

\* The callback of e, which was asked for once, is over.
Ends(e) ==
  /\ calling = e /\ calling' = Idle
  /\ timer' = [timer EXCEPT ![e] = Free]
  /\ UNCHANGED <<wheels, tick, last_ts, now, pc, dying>>

\* A wheel turns.
Turns(w) ==
  /\ calling = Idle /\ dying = {}
  /\ PopUp(w)
  /\ UNCHANGED <<now, calling, timer>>

LEMMA EntrySteps ==
  ASSUME TypeOK, WheelInv, NEW e \in Entries, RunAfter(e) \/ RunEvery(e) \/ ExtendLife(e) \/ Return(e)
  PROVE  (\E d \in Nat, ev \in Nat : Starts(e, d, ev)) \/ Ends(e)
<1>0. Whole(wheels) /\ e # Idle BY Types, EntriesAssumption
<1>1. ASSUME NEW d \in Delays, NEW ev \in Nat, Run(e, d, ev)
      PROVE  Starts(e, d, ev)
  <2>1. d \in Nat BY EntriesAssumption
  <2>2. ~ Live(e) /\ calling # e
    BY <1>0, <1>1 DEF Run, WheelInv
  <2>3. CASE Held(wheels', {}, e)
    <3>1. calling' = calling BY <1>1, <2>3 DEF Run
    <3>2. d # 0
      <4> SUFFICES ASSUME d = 0 PROVE FALSE
        OBVIOUS
      <4>1. wheels' = wheels BY <1>1, Units, SMT DEF Run, InstertEntry
      <4>2. ~ Held(wheels, dying, e) BY <2>2 DEF WheelInv
      <4> QED BY <1>0, <2>3, <4>1, <4>2, HeldIn
    <3>3. d >= 1 BY <2>1, <3>2, SMT
    <3> QED BY <1>1, <2>1, <2>2, <3>1, <3>3 DEF Run, Starts
  <2>4. CASE ~ Held(wheels', {}, e)
    <3>1. calling = Idle /\ calling' = e BY <1>1, <2>4 DEF Run
    <3> QED BY <1>1, <2>1, <2>2, <2>4, <3>1 DEF Run, Starts
  <2> QED BY <2>3, <2>4
<1>2. CASE RunAfter(e)
  <2>1. PICK d \in Delays : Run(e, d, 0) BY <1>2 DEF RunAfter
  <2>2. d \in Nat BY <2>1, EntriesAssumption
  <2> QED BY <1>1, <2>1, <2>2, 0 \in Nat
<1>3. CASE RunEvery(e)
  <2>1. PICK d \in Delays : Run(e, d, d) BY <1>3 DEF RunEvery
  <2>2. d \in Nat BY <2>1, EntriesAssumption
  <2> QED BY <1>1, <2>1, <2>2
<1>4. CASE ExtendLife(e)
  <2>1. timer[e] \in [delay : Nat, due : Nat, at : Nat, every : Nat] BY DEF TypeOK
  <2>2. Live(e) /\ timer[e].every = 0 /\ calling # e
    BY <1>4 DEF ExtendLife
  <2> DEFINE d == timer[e].delay
  <2>3. d \in Nat /\ d >= 1 BY <2>1, <2>2 DEF WheelInv
  <2>5. timer' = [timer EXCEPT ![e] = Timer(d, 0)]
    BY <1>4 DEF ExtendLife
  <2>6. Starts(e, d, 0)
    BY <1>4, <2>2, <2>3, <2>5 DEF ExtendLife, Starts
  <2> QED BY <2>3, <2>6, 0 \in Nat
<1>5. CASE Return(e) /\ timer[e].every = 0
  BY <1>5 DEF Return, Ends
<1>6. CASE Return(e) /\ timer[e].every # 0
  <2>1. timer[e] \in [delay : Nat, due : Nat, at : Nat, every : Nat] BY DEF TypeOK
  <2> DEFINE d == timer[e].every
  <2>2. d \in Nat /\ d >= 1 BY <1>6, <2>1
  <2>4. timer' = [timer EXCEPT ![e] = Timer(d, d)]
    BY <1>6 DEF Return
  <2>5. Starts(e, d, d)
    BY <1>6, <2>2, <2>4 DEF Return, Starts
  <2> QED BY <2>2, <2>5
<1> QED BY <1>2, <1>3, <1>4, <1>5, <1>6

\* Turning a wheel neither adds nor drops a reference.
LEMMA TurnHeld ==
  ASSUME Whole(wheels), NEW w \in Wheels, Turns(w), NEW e, Held(wheels, dying, e)'
  PROVE  Held(wheels, dying, e)
<1>1. /\ Whole(wheels)' /\ dying' = wheels[w][0]
      /\ \A v \in Wheels : v # w => wheels'[v] = wheels[v]
      /\ \A i \in 0 .. Slots[w] - 1 :
           wheels'[w][i] = IF i + 1 <= Slots[w] - 1 THEN wheels[w][i + 1] ELSE {}
  BY PopUpIn DEF Turns
<1>2. Slots[w] \in Nat /\ Slots[w] >= 1 /\ 0 \in 0 .. Slots[w] - 1 BY SlotsNat, SMT
<1>3. CASE \E x \in dying' : x.entry = e
  <2>1. InSlots(wheels, e) BY <1>1, <1>2, <1>3 DEF InSlots
  <2> QED BY <2>1, HeldIn
<1>4. CASE InSlots(wheels', e)
  <2>1. PICK v \in Wheels : \E i \in 0 .. Slots[v] - 1 : \E x \in wheels'[v][i] : x.entry = e
    BY <1>4 DEF InSlots
  <2>2. PICK i \in 0 .. Slots[v] - 1 : \E x \in wheels'[v][i] : x.entry = e
    BY <2>1
  <2>3. CASE v # w
    <3>1. InSlots(wheels, e) BY <1>1, <2>2, <2>3 DEF InSlots
    <3> QED BY <3>1, HeldIn
  <2>4. CASE v = w
    <3>1. i + 1 <= Slots[w] - 1 /\ \E x \in wheels[w][i + 1] : x.entry = e
      BY <1>1, <2>2, <2>4
    <3>2. i + 1 \in 0 .. Slots[w] - 1 BY <1>2, <2>2, <2>4, <3>1, SMT
    <3>3. InSlots(wheels, e) BY <3>1, <3>2 DEF InSlots
    <3> QED BY <3>3, HeldIn
  <2> QED BY <2>3, <2>4
<1>5. (\E x \in dying' : x.entry = e) \/ InSlots(wheels', e)
  <2>1. Whole(wheels') BY <1>1
  <2>2. Held(wheels', dying', e) OBVIOUS
  <2> QED BY <2>1, <2>2, HeldIn
<1> QED BY <1>3, <1>4, <1>5

LEMMA StartsType ==
  ASSUME TypeOK, NEW e \in Entries, NEW d \in Nat, NEW ev \in Nat, Starts(e, d, ev)
  PROVE  TypeOK'
<1>1. Whole(wheels)'
  <2>1. Whole(InstertEntry(wheels, d, e)) BY Types, InsertKeeps
  <2> QED BY <2>1 DEF Starts
<1>2. timer' \in [Entries -> [delay : Nat, due : Nat, at : Nat, every : Nat]]
  <2>1. Timer(d, ev) \in [delay : Nat, due : Nat, at : Nat, every : Nat]
    BY SMT DEF Timer, TypeOK
  <2> QED BY <2>1 DEF Starts, TypeOK
<1>3. calling' \in Entries \cup {Idle} BY DEF Starts, TypeOK
<1>4. /\ tick' \in Nat /\ last_ts' \in Nat /\ now' \in Nat
      /\ pc' \in Wheels \cup {"idle"} /\ dying' \in SUBSET Items
  BY SlotsOf DEF Starts, TypeOK
<1> QED BY <1>1, <1>2, <1>3, <1>4, SlotsOf DEF TypeOK, Whole

LEMMA TurnsType ==
  ASSUME TypeOK, NEW w \in Wheels, Turns(w), tick' \in Nat, last_ts' \in Nat
  PROVE  TypeOK'
<1>1. Whole(wheels)' /\ dying' \in SUBSET Items /\ pc' = w
  BY Types, PopUpIn DEF Turns
<1>2. /\ now' \in Nat /\ calling' \in Entries \cup {Idle}
      /\ timer' \in [Entries -> [delay : Nat, due : Nat, at : Nat, every : Nat]]
  BY DEF Turns, TypeOK
<1> QED BY <1>1, <1>2, SlotsOf DEF TypeOK, Whole

LEMMA DestroyType ==
  ASSUME TypeOK, NEW x \in dying, Destroy(x)
  PROVE  TypeOK'
<1>1. x \in Items /\ x.rest \in Nat /\ x.entry \in Entries BY DEF TypeOK, Items
<1>2. Whole(wheels)'
  <2>1. Whole(InstertEntry(wheels, x.rest, x.entry)) BY <1>1, Types, InsertKeeps
  <2> QED BY <2>1 DEF Destroy
<1>3. dying' \in SUBSET Items BY DEF Destroy, TypeOK
<1>4. calling' \in Entries \cup {Idle} BY <1>1 DEF Destroy, TypeOK
<1>5. /\ tick' \in Nat /\ last_ts' \in Nat /\ now' \in Nat /\ pc' \in Wheels \cup {"idle"}
      /\ timer' \in [Entries -> [delay : Nat, due : Nat, at : Nat, every : Nat]]
  BY SlotsOf DEF Destroy, TypeOK
<1> QED BY <1>2, <1>3, <1>4, <1>5, SlotsOf DEF TypeOK, Whole

LEMMA EndsType ==
  ASSUME TypeOK, NEW e \in Entries, Ends(e)
  PROVE  TypeOK'
<1>1. timer' \in [Entries -> [delay : Nat, due : Nat, at : Nat, every : Nat]]
  <2>1. Free \in [delay : Nat, due : Nat, at : Nat, every : Nat] BY DEF Free
  <2> QED BY <2>1 DEF Ends, TypeOK
<1> QED BY <1>1 DEF Ends, TypeOK

\* What OnTimer and NextWheel come to.
LEMMA TimerSteps ==
  ASSUME TypeOK, WheelInv, OnTimer \/ NextWheel
  PROVE  \/ /\ pc = "idle" /\ calling = Idle /\ last_ts' \in {last_ts, now}
            /\ UNCHANGED <<wheels, tick, pc, dying, now, calling, timer>>
         \/ /\ pc = "idle" /\ Turns("second") /\ now - last_ts >= Second
            /\ last_ts' = now /\ tick' = tick + 1
         \/ /\ pc = "second" /\ tick % Minute = 0 /\ Turns("minute")
            /\ UNCHANGED <<tick, last_ts>>
         \/ /\ pc = "second" /\ tick % Minute # 0
            /\ \E w \in {"hour", "day"} : Turns(w)
            /\ UNCHANGED <<tick, last_ts>>
         \/ /\ pc # "idle" /\ ~ (pc = "second" /\ tick % Minute = 0)
            /\ dying = {} /\ calling = Idle /\ pc' = "idle"
            /\ UNCHANGED <<wheels, dying, tick, last_ts, now, calling, timer>>
<1>1. CASE OnTimer /\ (last_ts = 0 \/ now - last_ts < Second)
  BY <1>1 DEF OnTimer
<1>2. CASE OnTimer /\ ~ (last_ts = 0 \/ now - last_ts < Second)
  <2>1. dying = {} BY <1>2 DEF OnTimer, WheelInv
  <2>2. now - last_ts >= Second BY <1>2, Units, SMT DEF TypeOK
  <2> QED BY <1>2, <2>1, <2>2 DEF OnTimer, Turns
<1>3. CASE NextWheel
  BY <1>3 DEF NextWheel, Turns
<1> QED BY <1>1, <1>2, <1>3

-----------------------------------------------------------------------------
LEMMA InsertSorted ==
  ASSUME NEW ws, Whole(ws), NEW tm, Sorted(ws, tm), NEW d \in Nat, NEW e \in Entries,
         d >= Hour => tm[e].delay >= Hour
  PROVE  Sorted(InstertEntry(ws, d, e), tm)
<1> DEFINE new == InstertEntry(ws, d, e)
<1>0. \A w \in Wheels : \A i \in 0 .. Slots[w] - 1 : \A x \in new[w][i] :
        x \in ws[w][i] \/ (x \in Items /\ x.entry = e /\ Place(d, w, i, x.rest))
  BY InsertKeeps
<1> HIDE DEF new
<1>1. \A i \in 0 .. Slots["second"] - 1 : \A x \in new["second"][i] : x.rest = 0
  BY <1>0 DEF Sorted, Place, Wheels
<1>2. \A i \in 0 .. Slots["minute"] - 1 : \A x \in new["minute"][i] : x.rest \in 0 .. Minute - 1
  <2>1. d % Minute \in 0 .. Minute - 1 BY Units, Division, SMT
  <2>2. \A i, r : Place(d, "minute", i, r) => r = d % Minute BY DEF Place
  <2>3. "minute" \in Wheels BY DEF Wheels
  <2> QED BY <1>0, <2>1, <2>2, <2>3 DEF Sorted
<1>3. ASSUME NEW w \in {"hour", "day"}, NEW i \in 0 .. Slots[w] - 1, NEW x \in new[w][i]
      PROVE  tm[x.entry].delay >= Hour
  <2>1. w \in Wheels BY DEF Wheels
  <2>2. CASE x \in ws[w][i] BY <2>2 DEF Sorted
  <2>3. CASE x.entry = e /\ Place(d, w, i, x.rest)
    <3>1. d >= Hour BY <2>3 DEF Place
    <3> QED BY <2>3, <3>1
  <2> QED BY <1>0, <2>1, <2>2, <2>3
<1> QED BY <1>1, <1>2, <1>3 DEF Sorted, new

LEMMA StartsWheels ==
  ASSUME TypeOK, WheelInv, NEW e \in Entries, NEW d \in Nat, NEW ev \in Nat, Starts(e, d, ev)
  PROVE  WheelInv'
<1>0. Whole(wheels) /\ Whole(wheels') /\ e # Idle
  <2>1. Whole(InstertEntry(wheels, d, e)) BY Types, InsertKeeps
  <2> QED BY <2>1, Types, EntriesAssumption DEF Starts
<1>1. /\ timer'[e] = Timer(d, ev) /\ timer'[e].delay = d
      /\ \A f \in Entries : f # e => timer'[f] = timer[f]
  BY DEF Starts, TypeOK, Timer
<1>2. Live(e)'
  <2>1. now \in Nat /\ now >= 1 BY DEF TypeOK, WheelInv
  <2>2. Timer(d, ev).at = now /\ Free.at = 0 BY DEF Timer, Free
  <2>3. Timer(d, ev) # Free BY <2>1, <2>2, SMT
  <2> QED BY <1>1, <2>3 DEF Live
<1>3. \A f \in Entries : f # e => (Live(f)' <=> Live(f))
  BY <1>1 DEF Live
<1>4. Held(wheels, dying, e) => timer'[e].delay = timer[e].delay
  BY <1>1 DEF Starts, WheelInv
<1>5. \A w \in Wheels : \A i \in 0 .. Slots[w] - 1 : \A x \in wheels[w][i] :
        x.entry \in Entries /\ timer'[x.entry].delay = timer[x.entry].delay
  <2> SUFFICES ASSUME NEW w \in Wheels, NEW i \in 0 .. Slots[w] - 1, NEW x \in wheels[w][i]
               PROVE  x.entry \in Entries /\ timer'[x.entry].delay = timer[x.entry].delay
    OBVIOUS
  <2>1. x.entry \in Entries BY <1>0, ItemIn
  <2>2. InSlots(wheels, x.entry) BY DEF InSlots
  <2>3. Held(wheels, dying, x.entry) BY <1>0, <2>2, HeldIn
  <2> QED BY <1>1, <1>4, <2>1, <2>3
<1>6. \A x \in dying : x.entry \in Entries /\ timer'[x.entry].delay = timer[x.entry].delay
  <2> SUFFICES ASSUME NEW x \in dying
               PROVE  x.entry \in Entries /\ timer'[x.entry].delay = timer[x.entry].delay
    OBVIOUS
  <2>1. x.entry \in Entries BY DEF TypeOK, Items
  <2>2. Held(wheels, dying, x.entry) BY <1>0, HeldIn
  <2> QED BY <1>1, <1>4, <2>1, <2>2
<1>7. now' >= 1 /\ last_ts' <= now' /\ (pc' = "idle" => dying' = {})
  BY DEF Starts, WheelInv
<1>8. Sorted(wheels, timer)'
  <2>1. {"hour", "day"} \subseteq Wheels BY DEF Wheels
  <2>2. Sorted(wheels, timer') BY <1>5, <2>1 DEF WheelInv, Sorted
  <2>3. d >= Hour => timer'[e].delay >= Hour BY <1>1
  <2>4. Sorted(InstertEntry(wheels, d, e), timer')
    BY <1>0, <2>2, <2>3, InsertSorted
  <2> QED BY <2>4 DEF Starts
<1>9. SortedDying(dying, pc, timer)'
  BY <1>6 DEF Starts, WheelInv, SortedDying
<1>10. \A f \in Entries : ~ Live(f)' \/ calling' = f => ~ Held(wheels, dying, f)'
  <2> SUFFICES ASSUME NEW f \in Entries, ~ Live(f)' \/ calling' = f
               PROVE  ~ Held(wheels', dying', f)
    OBVIOUS
  <2>1. dying' = dying BY DEF Starts
  <2>2. CASE f # e
    <3>1. ~ Held(wheels, dying, f)
      BY <1>3, <2>2, EntriesAssumption DEF Starts, WheelInv
    <3>2. InSlots(wheels', f) => InSlots(wheels, f)
      <4>1. \A w \in Wheels : \A i \in 0 .. Slots[w] - 1 : \A x \in wheels'[w][i] :
              x \in wheels[w][i] \/ x.entry = e
        BY <1>0, InsertKeeps DEF Starts
      <4> QED BY <2>2, <4>1 DEF InSlots
    <3> QED BY <1>0, <2>1, <3>1, <3>2, HeldIn
  <2>3. CASE f = e
    <3>1. calling = Idle /\ ~ Live(e) /\ ~ Held(wheels', {}, e)
      BY <1>0, <1>2, <2>3 DEF Starts
    <3>2. ~ Held(wheels, dying, e) BY <3>1 DEF WheelInv
    <3> QED BY <1>0, <2>1, <2>3, <3>1, <3>2, HeldIn
  <2> QED BY <2>2, <2>3
<1>11. \A f \in Entries : Live(f)' /\ calling' # f => timer'[f].delay >= 1
  BY <1>1, <1>3, EntriesAssumption DEF Starts, WheelInv
<1>12. calling' # Idle => Live(calling)'
  BY <1>0, <1>1, <1>2, <1>3, EntriesAssumption DEF Starts, WheelInv, TypeOK, Live
<1> QED BY <1>7, <1>8, <1>9, <1>10, <1>11, <1>12 DEF WheelInv

LEMMA EndsWheels ==
  ASSUME TypeOK, WheelInv, NEW e \in Entries, Ends(e)
  PROVE  WheelInv'
<1>0. Whole(wheels) /\ ~ Held(wheels, dying, e) /\ e # Idle
  BY Types, EntriesAssumption DEF Ends, WheelInv
<1>1. \A f \in Entries : f # e => timer'[f] = timer[f] /\ (Live(f)' <=> Live(f))
  BY DEF Ends, TypeOK, Live
<1>2. ~ Live(e)' BY DEF Ends, TypeOK, Live
<1>3. \A w \in Wheels : \A i \in 0 .. Slots[w] - 1 : \A x \in wheels[w][i] :
        x.entry \in Entries /\ x.entry # e
  <2>1. \A w \in Wheels : \A i \in 0 .. Slots[w] - 1 : \A x \in wheels[w][i] : x.entry # e
    BY <1>0, HeldIn DEF InSlots
  <2> QED BY <1>0, <2>1, ItemIn
<1>4. \A x \in dying : x.entry \in Entries /\ x.entry # e
  <2>1. \A x \in dying : x.entry # e BY <1>0, HeldIn
  <2> QED BY <2>1 DEF TypeOK, Items
<1>5. Sorted(wheels, timer)'
  <2>1. {"hour", "day"} \subseteq Wheels BY DEF Wheels
  <2> QED BY <1>1, <1>3, <2>1 DEF Ends, WheelInv, Sorted
<1>6. SortedDying(dying, pc, timer)'
  BY <1>1, <1>4 DEF Ends, WheelInv, SortedDying
<1>7. \A f \in Entries : ~ Live(f)' \/ calling' = f => ~ Held(wheels, dying, f)'
  <2>1. \A f \in Entries : ~ Live(f)' \/ calling' = f => ~ Held(wheels, dying, f)
    BY <1>0, <1>1, EntriesAssumption DEF Ends, WheelInv
  <2> QED BY <2>1 DEF Ends, Held
<1>8. \A f \in Entries : Live(f)' /\ calling' # f => timer'[f].delay >= 1
  BY <1>1, <1>2 DEF Ends, WheelInv
<1> QED BY <1>5, <1>6, <1>7, <1>8 DEF Ends, WheelInv

LEMMA DestroyWheels ==
  ASSUME TypeOK, WheelInv, NEW x \in dying, Destroy(x)
  PROVE  WheelInv'
<1>0. /\ x \in Items /\ x.rest \in Nat /\ x.entry \in Entries /\ Whole(wheels)
      /\ pc # "idle" /\ x.entry # Idle /\ calling = Idle
  BY Types, EntriesAssumption DEF TypeOK, Items, WheelInv, Destroy
<1>1. Live(x.entry)
  <2>1. Held(wheels, dying, x.entry) BY <1>0, HeldIn
  <2> QED BY <1>0, <2>1 DEF WheelInv
<1>2. UNCHANGED <<timer, now, last_ts, pc, tick>> /\ dying' = dying \ {x}
      /\ wheels' = InstertEntry(wheels, x.rest, x.entry)
  BY DEF Destroy
<1>3. Whole(wheels')
  <2>1. Whole(InstertEntry(wheels, x.rest, x.entry)) BY <1>0, InsertKeeps
  <2> QED BY <1>2, <2>1
<1>4. Sorted(wheels, timer)'
  <2>1. x.rest >= Hour => timer[x.entry].delay >= Hour
    <3>1. pc \in {"second", "minute"} => x.rest < Hour
      <4>1. SortedDying(dying, pc, timer) BY DEF WheelInv
      <4>2. pc \in {"second", "minute"} => x.rest \in 0 .. Minute - 1
        BY <4>1, Units, SMT DEF SortedDying
      <4> QED BY <1>0, <4>2, Units, SMT
    <3>2. pc \in {"hour", "day"} => timer[x.entry].delay >= Hour
      BY DEF WheelInv, SortedDying
    <3>3. pc \in {"second", "minute", "hour", "day"} BY <1>0, SlotsOf DEF TypeOK, Wheels
    <3> QED BY <1>0, <3>1, <3>2, <3>3, Units, SMT
  <2>2. Sorted(InstertEntry(wheels, x.rest, x.entry), timer)
    BY <1>0, <2>1, InsertSorted DEF WheelInv
  <2> QED BY <1>2, <2>2
<1>5. SortedDying(dying, pc, timer)'
  BY <1>2 DEF WheelInv, SortedDying
<1>6. \A f \in Entries : ~ Live(f)' \/ calling' = f => ~ Held(wheels, dying, f)'
  <2> SUFFICES ASSUME NEW f \in Entries, ~ Live(f)' \/ calling' = f
               PROVE  ~ Held(wheels', dying', f)
    OBVIOUS
  <2>1. CASE calling' = f
    <3>1. f = x.entry /\ ~ Held(wheels', dying', x.entry)
      BY <1>0, <1>2, <2>1, EntriesAssumption DEF Destroy
    <3> QED BY <3>1
  <2>2. CASE ~ Live(f)'
    <3>1. ~ Live(f) BY <1>2, <2>2 DEF Live
    <3>2. f # x.entry /\ ~ Held(wheels, dying, f) BY <1>1, <3>1 DEF WheelInv
    <3>3. InSlots(wheels', f) => InSlots(wheels, f)
      <4>1. \A w \in Wheels : \A i \in 0 .. Slots[w] - 1 : \A y \in wheels'[w][i] :
              y \in wheels[w][i] \/ y.entry = x.entry
        BY <1>0, <1>2, InsertKeeps
      <4> QED BY <3>2, <4>1 DEF InSlots
    <3> QED BY <1>0, <1>2, <1>3, <3>2, <3>3, HeldIn
  <2> QED BY <2>1, <2>2
<1>7. \A f \in Entries : Live(f)' /\ calling' # f => timer'[f].delay >= 1
  BY <1>0, <1>2, EntriesAssumption DEF WheelInv, Live
<1>8. calling' # Idle => Live(calling)'
  BY <1>0, <1>1, <1>2 DEF Destroy, Live
<1> QED BY <1>0, <1>2, <1>4, <1>5, <1>6, <1>7, <1>8 DEF WheelInv

LEMMA TurnsWheels ==
  ASSUME TypeOK, WheelInv, NEW w \in Wheels, Turns(w), last_ts' <= now'
  PROVE  WheelInv'
<1>1. /\ Whole(wheels) /\ Whole(wheels') /\ dying' = wheels[w][0] /\ pc' = w
      /\ \A v \in Wheels : v # w => wheels'[v] = wheels[v]
      /\ \A i \in 0 .. Slots[w] - 1 :
           wheels'[w][i] = IF i + 1 <= Slots[w] - 1 THEN wheels[w][i + 1] ELSE {}
      /\ UNCHANGED <<now, calling, timer>>
  BY Types, PopUpIn DEF Turns
<1>2. Slots[w] \in Nat /\ Slots[w] >= 1 /\ 0 \in 0 .. Slots[w] - 1 BY SlotsNat, SMT
<1>3. \A v \in Wheels : \A i \in 0 .. Slots[v] - 1 : \A x \in wheels'[v][i] :
        \E j \in 0 .. Slots[v] - 1 : x \in wheels[v][j]
  <2> SUFFICES ASSUME NEW v \in Wheels, NEW i \in 0 .. Slots[v] - 1, NEW x \in wheels'[v][i]
               PROVE  \E j \in 0 .. Slots[v] - 1 : x \in wheels[v][j]
    OBVIOUS
  <2>1. CASE v # w BY <1>1, <2>1
  <2>2. CASE v = w
    <3>1. i + 1 <= Slots[w] - 1 /\ x \in wheels[w][i + 1] BY <1>1, <2>2
    <3>2. i + 1 \in 0 .. Slots[w] - 1 BY <1>2, <2>2, <3>1, SMT
    <3> QED BY <2>2, <3>1, <3>2
  <2> QED BY <2>1, <2>2
<1>4. Sorted(wheels, timer)'
  <2>1. Sorted(wheels, timer) BY DEF WheelInv
  <2>2. \A i \in 0 .. Slots["second"] - 1 : \A x \in wheels'["second"][i] : x.rest = 0
    BY <1>3, <2>1 DEF Sorted, Wheels
  <2>3. \A i \in 0 .. Slots["minute"] - 1 : \A x \in wheels'["minute"][i] :
          x.rest \in 0 .. Minute - 1
    BY <1>3, <2>1 DEF Sorted, Wheels
  <2>4. \A v \in {"hour", "day"} : \A i \in 0 .. Slots[v] - 1 : \A x \in wheels'[v][i] :
          timer[x.entry].delay >= Hour
    BY <1>3, <2>1 DEF Sorted, Wheels
  <2> QED BY <1>1, <2>2, <2>3, <2>4 DEF Sorted
<1>5. SortedDying(dying, pc, timer)'
  <2>1. SortedDying(wheels[w][0], w, timer)
    BY <1>2 DEF WheelInv, Sorted, SortedDying
  <2> QED BY <1>1, <2>1
<1>6. \A f \in Entries : ~ Live(f)' \/ calling' = f => ~ Held(wheels, dying, f)'
  <2>1. \A f \in Entries : ~ Live(f)' \/ calling' = f => ~ Held(wheels, dying, f)
    BY <1>1 DEF WheelInv, Live
  <2> QED BY <1>1, <2>1, TurnHeld
<1>7. /\ \A f \in Entries : Live(f)' /\ calling' # f => timer'[f].delay >= 1
      /\ calling' # Idle => Live(calling)'
      /\ now' >= 1 /\ pc' # "idle"
  BY <1>1 DEF WheelInv, Live, Wheels
<1> QED BY <1>4, <1>5, <1>6, <1>7 DEF WheelInv

-----------------------------------------------------------------------------
(* TypeOK and WheelInv.                                                    *)

LEMMA InitType == Init => TypeOK /\ WheelInv
<1> SUFFICES ASSUME Init PROVE TypeOK /\ WheelInv
  OBVIOUS
<1>1. \A w \in Wheels : wheels[w] = [i \in 0 .. Slots[w] - 1 |-> {}]
  BY SlotsOf DEF Init
<1>2. \A w \in Wheels : \A i \in 0 .. Slots[w] - 1 : wheels[w][i] = {}
  BY <1>1
<1>3. Whole(wheels)
  BY <1>1, SlotsOf DEF Init, Whole
<1>4. \A e \in Entries : ~ Live(e) /\ e # Idle
  BY EntriesAssumption DEF Init, Live
<1>5. \A e \in Entries : ~ Held(wheels, dying, e)
  <2>1. \A e \in Entries : ~ InSlots(wheels, e) BY <1>2 DEF InSlots
  <2>2. dying = {} BY DEF Init
  <2> QED BY <1>3, <2>1, <2>2, HeldIn
<1>6. Sorted(wheels, timer) BY <1>2 DEF Sorted, Wheels
<1>7. WheelInv BY <1>4, <1>5, <1>6 DEF Init, WheelInv, SortedDying
<1>8. Free \in [delay : Nat, due : Nat, at : Nat, every : Nat] BY DEF Free
<1>9. timer \in [Entries -> [delay : Nat, due : Nat, at : Nat, every : Nat]]
  BY <1>8 DEF Init
<1> QED BY <1>3, <1>7, <1>9, SlotsOf DEF TypeOK, Whole, Init

\* The steps that touch no entry: the clock, and an OnTimer that finds no second over
\* or no wheel left to turn.
Passes ==
  /\ UNCHANGED <<wheels, tick, dying, calling, timer>>
  /\ last_ts' \in Nat /\ last_ts' >= last_ts /\ last_ts' <= now'
  /\ now' \in Nat /\ now' >= now
  /\ \/ pc' = pc
     \/ /\ pc # "idle" /\ ~ (pc = "second" /\ tick % Minute = 0)
        /\ dying = {} /\ pc' = "idle"

LEMMA PassesType ==
  ASSUME TypeOK, WheelInv, Passes
  PROVE  TypeOK' /\ WheelInv'
<1>1. TypeOK' BY DEF Passes, TypeOK
<1>2. now' >= 1 /\ last_ts' <= now' BY SMT DEF Passes, TypeOK, WheelInv
<1>3. (pc' = "idle" => dying' = {}) /\ SortedDying(dying, pc, timer)'
  BY DEF Passes, WheelInv, SortedDying
<1>4. Sorted(wheels, timer)' BY DEF Passes, WheelInv, Sorted
<1>5. /\ \A e \in Entries : ~ Live(e)' \/ calling' = e => ~ Held(wheels, dying, e)'
      /\ \A e \in Entries : Live(e)' /\ calling' # e => timer'[e].delay >= 1
      /\ calling' # Idle => Live(calling)'
  BY DEF Passes, WheelInv, Live, Held
<1> QED BY <1>1, <1>2, <1>3, <1>4, <1>5 DEF WheelInv

\* The turns: of the seconds at the start of an OnTimer, of the others later in it.
TurnsSecond ==
  /\ pc = "idle" /\ Turns("second") /\ now - last_ts >= Second
  /\ last_ts' = now /\ tick' = tick + 1

TurnsMinute ==
  /\ pc = "second" /\ tick % Minute = 0 /\ Turns("minute")
  /\ UNCHANGED <<tick, last_ts>>

TurnsLonger(w) ==
  /\ pc = "second" /\ tick % Minute # 0 /\ Turns(w)
  /\ UNCHANGED <<tick, last_ts>>

\* Next, by what the steps do to the entries.
LEMMA Steps ==
  ASSUME TypeOK, WheelInv, [Next]_vars
  PROVE  \/ \E e \in Entries, d \in Nat, ev \in Nat : Starts(e, d, ev)
         \/ \E e \in Entries : Ends(e)
         \/ \E x \in dying : Destroy(x)
         \/ TurnsSecond \/ TurnsMinute \/ \E w \in {"hour", "day"} : TurnsLonger(w)
         \/ Passes
<1>1. CASE \E e \in Entries : RunAfter(e) \/ RunEvery(e) \/ ExtendLife(e) \/ Return(e)
  BY <1>1, EntrySteps
<1>2. CASE \E x \in dying : Destroy(x)
  BY <1>2
<1>3. CASE OnTimer \/ NextWheel
  <2>0. last_ts \in Nat /\ now \in Nat /\ last_ts <= now BY DEF TypeOK, WheelInv
  <2>1. CASE /\ pc = "idle" /\ calling = Idle /\ last_ts' \in {last_ts, now}
             /\ UNCHANGED <<wheels, tick, pc, dying, now, calling, timer>>
    BY <2>0, <2>1, SMT DEF Passes
  <2>2. CASE /\ pc = "idle" /\ Turns("second") /\ now - last_ts >= Second
             /\ last_ts' = now /\ tick' = tick + 1
    BY <2>2 DEF TurnsSecond
  <2>3. CASE /\ pc = "second" /\ tick % Minute = 0 /\ Turns("minute")
             /\ UNCHANGED <<tick, last_ts>>
    BY <2>3 DEF TurnsMinute
  <2>4. CASE /\ pc = "second" /\ tick % Minute # 0
             /\ \E w \in {"hour", "day"} : Turns(w)
             /\ UNCHANGED <<tick, last_ts>>
    BY <2>4 DEF TurnsLonger
  <2>5. CASE /\ pc # "idle" /\ ~ (pc = "second" /\ tick % Minute = 0)
             /\ dying = {} /\ calling = Idle /\ pc' = "idle"
             /\ UNCHANGED <<wheels, dying, tick, last_ts, now, calling, timer>>
    BY <2>0, <2>5, SMT DEF Passes
  <2> QED BY <1>3, <2>1, <2>2, <2>3, <2>4, <2>5, TimerSteps
<1>4. CASE Advance
  <2>1. last_ts \in Nat /\ now \in Nat /\ last_ts <= now BY DEF TypeOK, WheelInv
  <2>2. UNCHANGED <<wheels, tick, last_ts, pc, dying, calling, timer>> /\ now' = now + 1
    BY <1>4 DEF Advance
  <2> QED BY <2>1, <2>2, SMT DEF Passes
<1>5. CASE UNCHANGED vars
  <2>1. last_ts \in Nat /\ now \in Nat /\ last_ts <= now BY DEF TypeOK, WheelInv
  <2>2. UNCHANGED <<wheels, tick, last_ts, pc, dying, calling, timer, now>>
    BY <1>5 DEF vars
  <2> QED BY <2>1, <2>2, SMT DEF Passes
<1> QED BY <1>1, <1>2, <1>3, <1>4, <1>5 DEF Next

LEMMA NextType == TypeOK /\ WheelInv /\ [Next]_vars => TypeOK' /\ WheelInv'
<1> SUFFICES ASSUME TypeOK, WheelInv, [Next]_vars PROVE TypeOK' /\ WheelInv'
  OBVIOUS
<1>0. tick \in Nat /\ last_ts \in Nat /\ now \in Nat /\ last_ts <= now
  BY DEF TypeOK, WheelInv
<1>1. ASSUME NEW e \in Entries, NEW d \in Nat, NEW ev \in Nat, Starts(e, d, ev)
      PROVE  TypeOK' /\ WheelInv'
  BY <1>1, StartsType, StartsWheels
<1>2. ASSUME NEW e \in Entries, Ends(e)
      PROVE  TypeOK' /\ WheelInv'
  BY <1>2, EndsType, EndsWheels
<1>3. ASSUME NEW x \in dying, Destroy(x)
      PROVE  TypeOK' /\ WheelInv'
  BY <1>3, DestroyType, DestroyWheels
<1>4. CASE TurnsSecond
  <2>1. tick' \in Nat /\ last_ts' \in Nat /\ last_ts' <= now'
    BY <1>0, <1>4, SMT DEF TurnsSecond, Turns
  <2> QED BY <1>4, <2>1, TurnsType, TurnsWheels DEF TurnsSecond, Wheels
<1>5. ASSUME NEW w \in Wheels, Turns(w), UNCHANGED <<tick, last_ts>>
      PROVE  TypeOK' /\ WheelInv'
  <2>1. tick' \in Nat /\ last_ts' \in Nat /\ last_ts' <= now'
    BY <1>0, <1>5, SMT DEF Turns
  <2> QED BY <1>5, <2>1, TurnsType, TurnsWheels
<1>6. CASE Passes
  BY <1>6, PassesType
<1> QED BY <1>1, <1>2, <1>3, <1>4, <1>5, <1>6, Steps DEF TurnsMinute, TurnsLonger, Wheels

\* TypeOK: slots hold references to entries, timers hold numbers.
THEOREM WheelTypeCorrect == Spec => []TypeOK
<1>1. Spec => [](TypeOK /\ WheelInv)
  BY InitType, NextType, PTL DEF Spec
<1> QED BY <1>1, PTL

-----------------------------------------------------------------------------
(* The ticks at which the references to an entry go.                       *)

\* The tick at which the minute wheel turns next, this one included while it is to come.
Turn == IF pc = "second" /\ tick % Minute = 0 THEN tick ELSE tick + Minute - (tick % Minute)

InSecond(e, t) ==
  \E i \in 0 .. Slots["second"] - 1 : Item(e, 0) \in wheels["second"][i] /\ t = tick + 1 + i

InMinute(e, t) ==
  \E i \in 0 .. Slots["minute"] - 1 : \E r \in 0 .. Minute - 1 :
    Item(e, r) \in wheels["minute"][i] /\ t = Turn + i * Minute + r

InDying(e, t) ==
  \E r \in 0 .. Minute - 1 : Item(e, r) \in dying /\ t = tick + r

\* A reference to e goes at the tick t.
Pending(e, t) == InSecond(e, t) \/ InMinute(e, t) \/ InDying(e, t)

Short(e) == Live(e) /\ timer[e].delay < Hour

\* A reference that goes at t is in time for e.
Close(e, t) ==
  /\ t \in Nat /\ t >= timer[e].due - Minute
  /\ timer[e].delay < Minute => t = timer[e].due

Covered(e) == \E t \in Nat : Pending(e, t) /\ Close(e, t)

DueInv ==
  /\ \A e \in Entries : Short(e) => \A t \in Nat : Pending(e, t) => t <= timer[e].due
  /\ \A e \in Entries : Short(e) /\ calling # e => Covered(e)
  /\ calling # Idle /\ Short(calling) => tick <= timer[calling].due /\ Close(calling, tick)

\* The ticks since e was inserted took a second each, but for the first.
OnClock(e) ==
  /\ timer[e].at <= now /\ timer[e].due - timer[e].delay <= tick
  /\ tick > timer[e].due - timer[e].delay =>
       last_ts - timer[e].at >= (tick - (timer[e].due - timer[e].delay) - 1) * Second

ClockInv == \A e \in Entries : Live(e) => OnClock(e)

LEMMA TurnIn ==
  ASSUME TypeOK
  PROVE  /\ Turn \in Nat /\ Turn >= tick /\ Turn <= tick + Minute
         /\ ~ (pc = "second" /\ tick % Minute = 0) => Turn > tick
<1>1. tick \in Nat BY DEF TypeOK
<1>2. tick % Minute \in 0 .. Minute - 1 BY <1>1, Units, Division, SMT
<1>3. CASE pc = "second" /\ tick % Minute = 0
  <2>1. Turn = tick BY <1>3 DEF Turn
  <2> QED BY <1>1, <1>3, <2>1, Units, SMT
<1>4. CASE ~ (pc = "second" /\ tick % Minute = 0)
  <2>1. Turn = tick + Minute - (tick % Minute) BY <1>4 DEF Turn
  <2> QED BY <1>1, <1>2, <2>1, Units, SMT
<1> QED BY <1>3, <1>4

LEMMA Fields ==
  ASSUME NEW x \in Items
  PROVE  x = Item(x.entry, x.rest)
BY DEF Items, Item

LEMMA ItemFields ==
  ASSUME NEW e, NEW r
  PROVE  Item(e, r).entry = e /\ Item(e, r).rest = r
BY DEF Item

LEMMA SlotTime ==
  ASSUME NEW i \in Nat
  PROVE  i * Minute \in Nat /\ (i + 1) * Minute = i * Minute + Minute
BY Units, SMT

\* Nothing that is pending is late.
LEMMA PendingLater ==
  ASSUME TypeOK, WheelInv, NEW e, NEW t, Pending(e, t)
  PROVE  t \in Nat /\ t >= tick /\ (pc = "idle" => t > tick)
<1>1. tick \in Nat BY DEF TypeOK
<1>2. CASE InSecond(e, t)
  <2>1. PICK i \in 0 .. Slots["second"] - 1 : t = tick + 1 + i BY <1>2 DEF InSecond
  <2>2. i \in Nat BY <2>1, SlotsNat, SMT DEF Wheels
  <2> QED BY <1>1, <2>1, <2>2, SMT
<1>3. CASE InMinute(e, t)
  <2>1. PICK i \in 0 .. Slots["minute"] - 1 : \E r \in 0 .. Minute - 1 :
               t = Turn + i * Minute + r
    BY <1>3 DEF InMinute
  <2>2. PICK r \in 0 .. Minute - 1 : t = Turn + i * Minute + r BY <2>1
  <2>3. i \in Nat /\ r \in Nat BY <2>1, <2>2, SlotsNat, Units, SMT DEF Wheels
  <2>4. i * Minute \in Nat BY <2>3, SlotTime
  <2>5. Turn \in Nat /\ Turn >= tick /\ (pc = "idle" => Turn > tick) BY TurnIn
  <2> QED BY <1>1, <2>2, <2>3, <2>4, <2>5, SMT
<1>4. CASE InDying(e, t)
  <2>1. PICK r \in 0 .. Minute - 1 : Item(e, r) \in dying /\ t = tick + r BY <1>4 DEF InDying
  <2>2. pc # "idle" BY <2>1 DEF WheelInv
  <2> QED BY <1>1, <2>1, <2>2, Units, SMT
<1> QED BY <1>2, <1>3, <1>4 DEF Pending

\* What is pending is held.
LEMMA PendingHeld ==
  ASSUME TypeOK, NEW e, NEW t, Pending(e, t)
  PROVE  Held(wheels, dying, e)
<1>1. Whole(wheels) BY Types
<1>2. CASE InSecond(e, t) \/ InMinute(e, t)
  <2>1. InSlots(wheels, e) BY <1>2, ItemFields DEF InSecond, InMinute, InSlots, Wheels
  <2> QED BY <1>1, <2>1, HeldIn
<1>3. CASE InDying(e, t)
  <2>1. \E x \in dying : x.entry = e BY <1>3, ItemFields DEF InDying
  <2> QED BY <1>1, <2>1, HeldIn
<1> QED BY <1>2, <1>3 DEF Pending

\* A held entry with a short delay is pending.
LEMMA HeldPending ==
  ASSUME TypeOK, WheelInv, NEW e \in Entries, Short(e), Held(wheels, dying, e)
  PROVE  \E t \in Nat : Pending(e, t)
<1>0. Whole(wheels) /\ tick \in Nat /\ Turn \in Nat BY Types, TurnIn DEF TypeOK
<1>1. timer[e].delay \in Nat /\ ~ (timer[e].delay >= Hour) BY Units, SMT DEF Short, TypeOK
<1>2. CASE \E x \in dying : x.entry = e
  <2>1. PICK x \in dying : x.entry = e BY <1>2
  <2>2. x \in Items /\ x = Item(e, x.rest) BY <2>1, Fields DEF TypeOK
  <2>3. pc \in Wheels BY SlotsOf DEF TypeOK, WheelInv
  <2>4. pc \in {"second", "minute"}
    BY <1>1, <2>1, <2>3 DEF Wheels, WheelInv, SortedDying
  <2>5. x.rest \in 0 .. Minute - 1
    <3>1. 0 \in 0 .. Minute - 1 BY Units, SMT
    <3> QED BY <2>4, <3>1 DEF WheelInv, SortedDying
  <2>6. InDying(e, tick + x.rest) BY <2>1, <2>2, <2>5 DEF InDying
  <2>7. tick + x.rest \in Nat BY <1>0, <2>5, SMT
  <2> QED BY <2>6, <2>7 DEF Pending
<1>3. CASE InSlots(wheels, e)
  <2>0. PICK w \in Wheels : \E i \in 0 .. Slots[w] - 1 : \E x \in wheels[w][i] : x.entry = e
    BY <1>3 DEF InSlots
  <2>1. PICK i \in 0 .. Slots[w] - 1 : \E x \in wheels[w][i] : x.entry = e BY <2>0
  <2>2. PICK x \in wheels[w][i] : x.entry = e BY <2>1
  <2>3. x \in Items /\ x = Item(e, x.rest) BY <1>0, <2>2, ItemIn, Fields
  <2>4. w \in {"second", "minute"}
    <3>1. w \in {"hour", "day"} => timer[x.entry].delay >= Hour
      BY DEF WheelInv, Sorted
    <3> QED BY <1>1, <2>2, <3>1 DEF Wheels
  <2>5. i \in Nat BY SlotsNat, SMT
  <2>6. CASE w = "second"
    <3>1. x.rest = 0 BY <2>6 DEF WheelInv, Sorted
    <3>2. InSecond(e, tick + 1 + i) BY <2>3, <2>6, <3>1 DEF InSecond
    <3>3. tick + 1 + i \in Nat BY <1>0, <2>5, SMT
    <3> QED BY <3>2, <3>3 DEF Pending
  <2>7. CASE w = "minute"
    <3>1. x.rest \in 0 .. Minute - 1 BY <2>7 DEF WheelInv, Sorted
    <3>2. InMinute(e, Turn + i * Minute + x.rest) BY <2>3, <2>7, <3>1 DEF InMinute
    <3>3. i * Minute \in Nat BY <2>5, SlotTime
    <3>4. Turn + i * Minute + x.rest \in Nat BY <1>0, <3>1, <3>3, SMT
    <3> QED BY <3>2, <3>4 DEF Pending
  <2> QED BY <2>4, <2>6, <2>7
<1> QED BY <1>0, <1>2, <1>3, HeldIn

-----------------------------------------------------------------------------
(* What the steps do to the pending references.                            *)

LEMMA SecondTurn ==
  ASSUME TypeOK, TurnsSecond
  PROVE  Turn' = Turn
<1>1. tick \in Nat /\ tick' = tick + 1 /\ pc = "idle" /\ pc' = "second"
  BY DEF TypeOK, TurnsSecond, Turns, PopUp
<1>2. tick % Minute \in 0 .. Minute - 1 BY <1>1, Units, Division, SMT
<1>3. Turn = tick + Minute - (tick % Minute) BY <1>1 DEF Turn
<1>4. CASE tick' % Minute = (tick % Minute) + 1
  <2>1. tick' % Minute # 0 BY <1>2, <1>4, SMT
  <2>2. Turn' = tick' + Minute - (tick' % Minute) BY <2>1 DEF Turn
  <2> QED BY <1>1, <1>2, <1>3, <1>4, <2>2, Units, SMT
<1>5. CASE tick' % Minute = 0 /\ tick % Minute = Minute - 1
  <2>1. Turn' = tick' BY <1>1, <1>5 DEF Turn
  <2> QED BY <1>1, <1>3, <1>5, <2>1, Units, SMT
<1> QED BY <1>1, <1>4, <1>5, NextMod, Units

\* The seconds turn: a tick further, a slot nearer.
LEMMA SecondPending ==
  ASSUME TypeOK, WheelInv, TurnsSecond, NEW e, NEW t
  PROVE  Pending(e, t)' <=> Pending(e, t)
<1> DEFINE n == Slots["second"]
<1>1. /\ Whole(wheels)' /\ dying' = wheels["second"][0]
      /\ wheels'["minute"] = wheels["minute"]
      /\ \A i \in 0 .. n - 1 :
           wheels'["second"][i] = IF i + 1 <= n - 1 THEN wheels["second"][i + 1] ELSE {}
      /\ tick \in Nat /\ tick' = tick + 1 /\ dying = {}
  BY Types, PopUpIn DEF TurnsSecond, Turns, Wheels, TypeOK
<1>2. n \in Nat /\ n >= 1 BY SlotsNat DEF Wheels
<1>3. \A x \in wheels["second"][0] : x.rest = 0
  BY <1>2, SMT DEF WheelInv, Sorted
<1> HIDE DEF n
<1>4. InMinute(e, t)' <=> InMinute(e, t)
  BY <1>1, SecondTurn DEF InMinute
<1>5. ASSUME InSecond(e, t)' PROVE InSecond(e, t)
  <2>1. PICK i \in 0 .. n - 1 : Item(e, 0) \in wheels'["second"][i] /\ t = tick' + 1 + i
    BY <1>5 DEF InSecond, n
  <2>2. i + 1 <= n - 1 /\ Item(e, 0) \in wheels["second"][i + 1] BY <1>1, <2>1
  <2>3. i + 1 \in 0 .. n - 1 /\ t = tick + 1 + (i + 1) BY <1>1, <1>2, <2>1, <2>2, SMT
  <2> QED BY <2>2, <2>3 DEF InSecond, n
<1>6. ASSUME InDying(e, t)' PROVE InSecond(e, t)
  <2>1. PICK r \in 0 .. Minute - 1 : Item(e, r) \in dying' /\ t = tick' + r
    BY <1>6 DEF InDying
  <2>2. r = 0 BY <1>1, <1>3, <2>1, ItemFields
  <2>3. 0 \in 0 .. n - 1 /\ t = tick + 1 + 0 BY <1>1, <1>2, <2>1, <2>2, SMT
  <2> QED BY <1>1, <2>1, <2>2, <2>3 DEF InSecond, n
<1>7. ASSUME InSecond(e, t) PROVE InSecond(e, t)' \/ InDying(e, t)'
  <2>1. PICK i \in 0 .. n - 1 : Item(e, 0) \in wheels["second"][i] /\ t = tick + 1 + i
    BY <1>7 DEF InSecond, n
  <2>2. CASE i = 0
    <3>1. 0 \in 0 .. Minute - 1 /\ t = tick' + 0 BY <1>1, <2>1, <2>2, Units, SMT
    <3> QED BY <1>1, <2>1, <2>2, <3>1 DEF InDying
  <2>3. CASE i # 0
    <3>1. i - 1 \in 0 .. n - 1 /\ (i - 1) + 1 <= n - 1 /\ t = tick' + 1 + (i - 1) /\ (i - 1) + 1 = i
      BY <1>1, <1>2, <2>1, <2>3, SMT
    <3>2. Item(e, 0) \in wheels'["second"][i - 1] BY <1>1, <2>1, <3>1
    <3> QED BY <3>1, <3>2 DEF InSecond, n
  <2> QED BY <2>2, <2>3
<1>8. ~ InDying(e, t) BY <1>1 DEF InDying
<1> QED BY <1>4, <1>5, <1>6, <1>7, <1>8 DEF Pending

\* The minutes turn: the slot of this minute goes on to its seconds.
LEMMA MinutePending ==
  ASSUME TypeOK, WheelInv, TurnsMinute, NEW e, NEW t
  PROVE  Pending(e, t)' <=> Pending(e, t)
<1> DEFINE n == Slots["minute"]
<1>1. /\ dying' = wheels["minute"][0]
      /\ wheels'["second"] = wheels["second"]
      /\ \A i \in 0 .. n - 1 :
           wheels'["minute"][i] = IF i + 1 <= n - 1 THEN wheels["minute"][i + 1] ELSE {}
      /\ tick \in Nat /\ tick' = tick /\ dying = {} /\ pc' = "minute"
  BY Types, PopUpIn DEF TurnsMinute, Turns, Wheels, TypeOK
<1>2. n \in Nat /\ n >= 1 BY SlotsNat DEF Wheels
<1>3. Turn = tick BY DEF Turn, TurnsMinute
<1>4. Turn' = tick + Minute
  <2>1. Turn' = tick' + Minute - (tick' % Minute) BY <1>1 DEF Turn
  <2>2. tick' % Minute = 0 BY <1>1 DEF TurnsMinute
  <2> QED BY <1>1, <2>1, <2>2, Units, SMT
<1> HIDE DEF n
<1>5. InSecond(e, t)' <=> InSecond(e, t)
  BY <1>1 DEF InSecond
<1>6. ASSUME InMinute(e, t)' PROVE InMinute(e, t)
  <2>1. PICK i \in 0 .. n - 1 : \E r \in 0 .. Minute - 1 :
               Item(e, r) \in wheels'["minute"][i] /\ t = Turn' + i * Minute + r
    BY <1>6 DEF InMinute, n
  <2>2. PICK r \in 0 .. Minute - 1 :
               Item(e, r) \in wheels'["minute"][i] /\ t = Turn' + i * Minute + r
    BY <2>1
  <2>3. i + 1 <= n - 1 /\ Item(e, r) \in wheels["minute"][i + 1] BY <1>1, <2>1, <2>2
  <2>4. i + 1 \in 0 .. n - 1 /\ i \in Nat BY <1>2, <2>1, <2>3, SMT
  <2>5. i * Minute \in Nat /\ (i + 1) * Minute = i * Minute + Minute BY <2>4, SlotTime
  <2>6. t = Turn + (i + 1) * Minute + r BY <1>1, <1>3, <1>4, <2>2, <2>5, Units, SMT
  <2> QED BY <2>3, <2>4, <2>6 DEF InMinute, n
<1>7. ASSUME InDying(e, t)' PROVE InMinute(e, t)
  <2>1. PICK r \in 0 .. Minute - 1 : Item(e, r) \in dying' /\ t = tick' + r
    BY <1>7 DEF InDying
  <2>2. 0 \in 0 .. n - 1 /\ t = Turn + 0 * Minute + r BY <1>1, <1>2, <1>3, <2>1, Units, SMT
  <2> QED BY <1>1, <2>1, <2>2 DEF InMinute, n
<1>8. ASSUME InMinute(e, t) PROVE InMinute(e, t)' \/ InDying(e, t)'
  <2>1. PICK i \in 0 .. n - 1 : \E r \in 0 .. Minute - 1 :
               Item(e, r) \in wheels["minute"][i] /\ t = Turn + i * Minute + r
    BY <1>8 DEF InMinute, n
  <2>2. PICK r \in 0 .. Minute - 1 :
               Item(e, r) \in wheels["minute"][i] /\ t = Turn + i * Minute + r
    BY <2>1
  <2>3. CASE i = 0
    <3>1. t = tick' + r BY <1>1, <1>3, <2>2, <2>3, Units, SMT
    <3> QED BY <1>1, <2>2, <2>3, <3>1 DEF InDying
  <2>4. CASE i # 0
    <3>1. i - 1 \in 0 .. n - 1 /\ i - 1 \in Nat /\ (i - 1) + 1 <= n - 1 /\ (i - 1) + 1 = i
      BY <1>2, <2>1, <2>4, SMT
    <3>2. Item(e, r) \in wheels'["minute"][i - 1] BY <1>1, <2>2, <3>1
    <3>3. (i - 1) * Minute \in Nat /\ i * Minute = (i - 1) * Minute + Minute
      BY <3>1, SlotTime
    <3>4. t = Turn' + (i - 1) * Minute + r BY <1>1, <1>3, <1>4, <2>2, <3>3, Units, SMT
    <3> QED BY <3>1, <3>2, <3>4 DEF InMinute, n
  <2> QED BY <2>3, <2>4
<1>9. ~ InDying(e, t) BY <1>1 DEF InDying
<1> QED BY <1>5, <1>6, <1>7, <1>8, <1>9 DEF Pending

\* The hours or the days turn: nothing with a short delay is in them.
LEMMA LongerPending ==
  ASSUME TypeOK, WheelInv, NEW w \in {"hour", "day"}, TurnsLonger(w), NEW e \in Entries, NEW t, Short(e)
  PROVE  Pending(e, t)' <=> Pending(e, t)
<1>1. /\ dying' = wheels[w][0] /\ pc' = w /\ tick' = tick /\ dying = {}
      /\ wheels'["second"] = wheels["second"] /\ wheels'["minute"] = wheels["minute"]
  BY Types, PopUpIn DEF TurnsLonger, Turns, Wheels
<1>2. Turn' = Turn BY <1>1 DEF Turn, TurnsLonger
<1>3. ~ InDying(e, t) BY <1>1 DEF InDying
<1>4. ~ InDying(e, t)'
  <2>1. 0 \in 0 .. Slots[w] - 1 BY SlotsNat, SMT DEF Wheels
  <2>2. \A x \in dying' : timer[x.entry].delay >= Hour BY <1>1, <2>1 DEF WheelInv, Sorted
  <2>3. Short(e) => ~ (timer[e].delay >= Hour)
    BY Units, SMT DEF Short, TypeOK
  <2> QED BY <2>2, <2>3, ItemFields DEF InDying
<1> QED BY <1>1, <1>2, <1>3, <1>4 DEF Pending, InSecond, InMinute

\* Time passes, or OnTimer ends.
LEMMA PassesPending ==
  ASSUME Passes, NEW e, NEW t
  PROVE  Pending(e, t)' <=> Pending(e, t)
<1>1. Turn' = Turn BY DEF Turn, Passes
<1> QED BY <1>1 DEF Pending, InSecond, InMinute, InDying, Passes

\* A reference in a slot goes at t.
InSlot(e, t) == InSecond(e, t) \/ InMinute(e, t)

\* The tick at which a reference inserted now with a short delay of d goes.
Lands(d, t) ==
  \/ d \in 1 .. Minute - 1 /\ t = tick + d
  \/ d \in Minute .. Hour - 1 /\ t = Turn - Minute + d

\* The references in the slots after e is inserted with a delay of d.
LEMMA InsertPending ==
  ASSUME TypeOK, NEW e \in Entries, NEW d \in Nat, wheels' = InstertEntry(wheels, d, e),
         tick' = tick, pc' = pc
  PROVE  /\ \A f, t : InSlot(f, t) => InSlot(f, t)'
         /\ \A f, t : InSlot(f, t)' => InSlot(f, t) \/ (f = e /\ Lands(d, t))
         /\ d \in 1 .. Hour - 1 => \E t \in Nat : InSlot(e, t)' /\ Lands(d, t)
<1>0. Whole(wheels) /\ Turn' = Turn /\ tick \in Nat /\ Turn \in Nat
  BY Types, TurnIn DEF Turn, TypeOK
<1>1. \A w \in Wheels : \A i \in 0 .. Slots[w] - 1 :
        /\ wheels[w][i] \subseteq wheels'[w][i]
        /\ \A x \in wheels'[w][i] :
             x \in wheels[w][i] \/ (x \in Items /\ x.entry = e /\ Place(d, w, i, x.rest))
  BY <1>0, InsertKeeps
<1>2. d \in 1 .. Hour - 1 =>
        \E w \in Wheels : \E i \in 0 .. Slots[w] - 1 : \E r \in Nat :
          Place(d, w, i, r) /\ Item(e, r) \in wheels'[w][i]
  <2>1. d \in 1 .. Hour - 1 =>
          \E w \in Wheels : \E i \in 0 .. Slots[w] - 1 : \E r \in Nat :
            Place(d, w, i, r) /\ Item(e, r) \in InstertEntry(wheels, d, e)[w][i]
    BY <1>0, InsertKeeps
  <2> QED BY <2>1, Zenon
<1>3. ASSUME NEW i, Place(d, "minute", i, d % Minute)
      PROVE  /\ d % Minute \in 0 .. Minute - 1 /\ d \in Minute .. Hour - 1
             /\ Turn + i * Minute + (d % Minute) = Turn - Minute + d
  <2>1. d \in Minute .. Hour - 1 /\ i = (d \div Minute) - 1 BY <1>3 DEF Place
  <2>2. /\ d \div Minute \in Nat /\ d % Minute \in 0 .. Minute - 1
        /\ d = (d \div Minute) * Minute + (d % Minute)
    BY Division, Units, SMT
  <2>3. i \in Nat BY <2>1, <2>2, DivPos, Units, SMT
  <2>4. i * Minute \in Nat /\ (i + 1) * Minute = i * Minute + Minute BY <2>3, SlotTime
  <2>5. i + 1 = d \div Minute BY <2>1, <2>2, SMT
  <2>6. d = i * Minute + Minute + (d % Minute) BY <2>2, <2>4, <2>5
  <2> QED BY <1>0, <2>1, <2>2, <2>4, <2>6, Units, SMT
<1>4. \A i, r : Place(d, "minute", i, r) => r = d % Minute BY DEF Place
<1>5. ASSUME NEW f, NEW t, InSlot(f, t) PROVE InSlot(f, t)'
  BY <1>0, <1>1, <1>5 DEF InSlot, InSecond, InMinute, Wheels
<1>6. ASSUME NEW f, NEW t, InSlot(f, t)' PROVE InSlot(f, t) \/ (f = e /\ Lands(d, t))
  <2>1. CASE InSecond(f, t)'
    <3>1. PICK i \in 0 .. Slots["second"] - 1 :
            Item(f, 0) \in wheels'["second"][i] /\ t = tick + 1 + i
      BY <1>0, <2>1 DEF InSecond
    <3>2. CASE Item(f, 0) \in wheels["second"][i]
      BY <3>1, <3>2 DEF InSlot, InSecond
    <3>3. CASE Item(f, 0).entry = e /\ Place(d, "second", i, Item(f, 0).rest)
      <4>1. f = e /\ d \in 1 .. Minute - 1 /\ i = d - 1 BY <3>3, ItemFields DEF Place
      <4>2. t = tick + d BY <1>0, <3>1, <4>1, SMT
      <4> QED BY <4>1, <4>2 DEF Lands
    <3> QED BY <1>1, <3>1, <3>2, <3>3 DEF Wheels
  <2>2. CASE InMinute(f, t)'
    <3>1. PICK i \in 0 .. Slots["minute"] - 1 : \E r \in 0 .. Minute - 1 :
            Item(f, r) \in wheels'["minute"][i] /\ t = Turn + i * Minute + r
      BY <1>0, <2>2 DEF InMinute
    <3>2. PICK r \in 0 .. Minute - 1 :
            Item(f, r) \in wheels'["minute"][i] /\ t = Turn + i * Minute + r
      BY <3>1
    <3>3. CASE Item(f, r) \in wheels["minute"][i]
      BY <3>1, <3>2, <3>3 DEF InSlot, InMinute
    <3>4. CASE Item(f, r).entry = e /\ Place(d, "minute", i, Item(f, r).rest)
      <4>1. f = e /\ Place(d, "minute", i, r) BY <3>4, ItemFields
      <4>2. r = d % Minute BY <1>4, <4>1
      <4>3. d \in Minute .. Hour - 1 /\ t = Turn - Minute + d BY <1>3, <3>2, <4>1, <4>2
      <4> QED BY <4>1, <4>3 DEF Lands
    <3> QED BY <1>1, <3>1, <3>2, <3>3, <3>4 DEF Wheels
  <2> QED BY <1>6, <2>1, <2>2 DEF InSlot
<1>7. ASSUME d \in 1 .. Hour - 1 PROVE \E t \in Nat : InSlot(e, t)' /\ Lands(d, t)
  <2>0. PICK w \in Wheels : \E i \in 0 .. Slots[w] - 1 : \E r \in Nat :
          Place(d, w, i, r) /\ Item(e, r) \in wheels'[w][i]
    BY <1>2, <1>7
  <2>1. PICK i \in 0 .. Slots[w] - 1 : \E r \in Nat :
          Place(d, w, i, r) /\ Item(e, r) \in wheels'[w][i]
    BY <2>0
  <2>2. PICK r \in Nat : Place(d, w, i, r) /\ Item(e, r) \in wheels'[w][i] BY <2>1
  <2>3. CASE w = "second"
    <3>1. d \in 1 .. Minute - 1 /\ i = d - 1 /\ r = 0 BY <2>2, <2>3 DEF Place
    <3>2. tick + d \in Nat /\ tick + d = tick + 1 + i BY <1>0, <3>1, SMT
    <3>3. InSecond(e, tick + d)' BY <1>0, <2>1, <2>2, <2>3, <3>1, <3>2 DEF InSecond
    <3>4. Lands(d, tick + d) BY <3>1 DEF Lands
    <3> QED BY <3>2, <3>3, <3>4 DEF InSlot
  <2>4. CASE w = "minute"
    <3>1. r = d % Minute BY <1>4, <2>2, <2>4
    <3>2. /\ r \in 0 .. Minute - 1 /\ d \in Minute .. Hour - 1
          /\ Turn + i * Minute + r = Turn - Minute + d
      BY <1>3, <2>2, <2>4, <3>1
    <3>3. InMinute(e, Turn - Minute + d)' BY <1>0, <2>1, <2>2, <2>4, <3>2 DEF InMinute
    <3>4. Turn - Minute + d \in Nat BY <1>0, <3>2, Units, SMT
    <3>5. Lands(d, Turn - Minute + d) BY <3>2 DEF Lands
    <3>6. InSlot(e, Turn - Minute + d)' BY <3>3 DEF InSlot
    <3> HIDE DEF Lands, InSlot
    <3> QED BY <3>4, <3>5, <3>6, <1>0
  <2>5. CASE w \in {"hour", "day"}
    BY <1>7, <2>2, <2>5, Units, SMT DEF Place
  <2> QED BY <2>3, <2>4, <2>5 DEF Wheels
<1> QED BY <1>5, <1>6, <1>7

\* An insertion with a delay of d lands at most a minute early, and exactly if it is
\* below a minute.
LEMMA LandsClose ==
  ASSUME TypeOK, NEW d \in Nat, NEW t \in Nat, Lands(d, t)
  PROVE  /\ t <= tick + d /\ t >= tick + d - Minute
         /\ d < Minute => t = tick + d
<1>1. tick \in Nat /\ Turn \in Nat /\ Turn >= tick /\ Turn <= tick + Minute
  BY TurnIn DEF TypeOK
<1> QED BY <1>1, Units, SMT DEF Lands

\* Of what is pending only what goes at this tick is lost with the item.
LEMMA DestroyPending ==
  ASSUME TypeOK, WheelInv, NEW x \in dying, Destroy(x), NEW e \in Entries, Short(e), NEW t
  PROVE  /\ Pending(e, t)' => Pending(e, t)
         /\ Pending(e, t) => Pending(e, t)' \/ t = tick
<1>0. /\ x \in Items /\ x = Item(x.entry, x.rest) /\ x.entry \in Entries /\ x.rest \in Nat
      /\ tick \in Nat
  BY Fields DEF TypeOK, Items
<1>1. /\ wheels' = InstertEntry(wheels, x.rest, x.entry) /\ tick' = tick /\ pc' = pc
      /\ dying' = dying \ {x}
  BY DEF Destroy
<1>2. /\ \A f, u : InSlot(f, u) => InSlot(f, u)'
      /\ \A f, u : InSlot(f, u)' => InSlot(f, u) \/ (f = x.entry /\ Lands(x.rest, u))
      /\ x.rest \in 1 .. Hour - 1 => \E u \in Nat : InSlot(x.entry, u)' /\ Lands(x.rest, u)
  BY <1>0, <1>1, InsertPending
<1>3. \A u : Pending(e, u) <=> InSlot(e, u) \/ InDying(e, u)
  BY DEF Pending, InSlot
<1>4. Pending(e, t)' <=> InSlot(e, t)' \/ InDying(e, t)'
  BY DEF Pending, InSlot
<1>5. e = x.entry => x.rest \in 0 .. Minute - 1
  <2>1. timer[e].delay \in Nat /\ ~ (timer[e].delay >= Hour) BY Units, SMT DEF Short, TypeOK
  <2>2. pc \in Wheels BY SlotsOf DEF TypeOK, WheelInv
  <2>3. e = x.entry => pc \in {"second", "minute"}
    BY <2>1, <2>2 DEF Wheels, WheelInv, SortedDying
  <2>4. 0 \in 0 .. Minute - 1 BY Units, SMT
  <2> QED BY <2>3, <2>4 DEF WheelInv, SortedDying
<1>6. \A u : e = x.entry /\ Lands(x.rest, u) => u = tick + x.rest
  BY <1>0, <1>5, Units, SMT DEF Lands
<1>7. ASSUME Pending(e, t)' PROVE Pending(e, t)
  <2>1. CASE InDying(e, t)'
    <3>1. InDying(e, t) BY <1>1, <2>1 DEF InDying
    <3> QED BY <1>3, <3>1
  <2>2. CASE InSlot(e, t)'
    <3>1. CASE InSlot(e, t) BY <1>3, <3>1
    <3>2. CASE e = x.entry /\ Lands(x.rest, t)
      <4>1. InDying(e, t) BY <1>0, <1>5, <1>6, <3>2 DEF InDying
      <4> QED BY <1>3, <4>1
    <3> QED BY <1>2, <2>2, <3>1, <3>2
  <2> QED BY <1>4, <1>7, <2>1, <2>2
<1>8. ASSUME Pending(e, t) PROVE Pending(e, t)' \/ t = tick
  <2>1. CASE InSlot(e, t) BY <1>2, <1>4, <2>1
  <2>2. CASE InDying(e, t)
    <3>1. PICK r \in 0 .. Minute - 1 : Item(e, r) \in dying /\ t = tick + r
      BY <2>2 DEF InDying
    <3>2. CASE Item(e, r) # x
      <4>1. InDying(e, t)' BY <1>1, <3>1, <3>2 DEF InDying
      <4> QED BY <1>4, <4>1
    <3>3. CASE Item(e, r) = x /\ r = 0 BY <1>0, <3>1, <3>3, SMT
    <3>4. CASE Item(e, r) = x /\ r # 0
      <4>1. x.entry = e /\ x.rest = r BY <3>4, ItemFields
      <4>2. x.rest \in 1 .. Hour - 1 BY <3>1, <3>4, <4>1, Units, SMT
      <4>3. PICK u \in Nat : InSlot(e, u)' /\ Lands(x.rest, u) BY <1>2, <4>1, <4>2
      <4>4. u = t BY <1>6, <3>1, <4>1, <4>3
      <4> QED BY <1>4, <4>3, <4>4
    <3> QED BY <3>2, <3>3, <3>4
  <2> QED BY <1>3, <1>8, <2>1, <2>2
<1> QED BY <1>7, <1>8

\* A step that leaves the entries and what is pending alone.
LEMMA KeepsDue ==
  ASSUME DueInv, UNCHANGED <<timer, calling>>, calling = Idle \/ tick' = tick,
         \A e \in Entries, t \in Nat : Short(e) => (Pending(e, t)' <=> Pending(e, t)),
         calling \in Entries \cup {Idle}
  PROVE  DueInv'
<1>1. \A e \in Entries : Short(e)' <=> Short(e) BY DEF Short, Live
<1>2. \A e \in Entries, t \in Nat : Close(e, t)' <=> Close(e, t) BY DEF Close
<1>3. \A e \in Entries : Short(e)' => \A t \in Nat : Pending(e, t)' => t <= timer'[e].due
  BY <1>1 DEF DueInv
<1>4. ASSUME NEW e \in Entries, Short(e)', calling' # e PROVE Covered(e)'
  <2>1. Covered(e) /\ Short(e) BY <1>1, <1>4 DEF DueInv
  <2>2. PICK t \in Nat : Pending(e, t) /\ Close(e, t) BY <2>1 DEF Covered
  <2>3. Pending(e, t)' /\ Close(e, t)' BY <1>2, <2>1, <2>2
  <2> QED BY <2>3 DEF Covered
<1>5. calling' # Idle /\ Short(calling)' => tick' <= timer'[calling'].due /\ Close(calling, tick)'
  BY DEF DueInv, Short, Live, Close
<1> QED BY <1>3, <1>4, <1>5 DEF DueInv

LEMMA StartsDue ==
  ASSUME TypeOK, WheelInv, ClockInv, DueInv, NEW e \in Entries, NEW d \in Nat, NEW ev \in Nat,
         Starts(e, d, ev)
  PROVE  DueInv'
<1>0. tick \in Nat /\ e # Idle /\ Whole(wheels) BY Types, EntriesAssumption DEF TypeOK
<1>1. /\ wheels' = InstertEntry(wheels, d, e) /\ tick' = tick /\ pc' = pc /\ dying' = dying
      /\ timer'[e] = Timer(d, ev) /\ timer'[e].delay = d /\ timer'[e].due = tick + d
      /\ \A f \in Entries : f # e => timer'[f] = timer[f]
  BY DEF Starts, TypeOK, Timer
<1>2. /\ \A f, u : InSlot(f, u) => InSlot(f, u)'
      /\ \A f, u : InSlot(f, u)' => InSlot(f, u) \/ (f = e /\ Lands(d, u))
      /\ d \in 1 .. Hour - 1 => \E u \in Nat : InSlot(e, u)' /\ Lands(d, u)
  BY <1>1, InsertPending
<1>3. /\ \A f, u : Pending(f, u) => Pending(f, u)'
      /\ \A f, u : Pending(f, u)' => Pending(f, u) \/ (f = e /\ Lands(d, u))
  <2>1. \A f, u : Pending(f, u) <=> InSlot(f, u) \/ InDying(f, u) BY DEF Pending, InSlot
  <2>2. \A f, u : Pending(f, u)' <=> InSlot(f, u)' \/ InDying(f, u)' BY DEF Pending, InSlot
  <2>3. \A f, u : InDying(f, u)' <=> InDying(f, u) BY <1>1 DEF InDying
  <2> QED BY <1>2, <2>1, <2>2, <2>3, Zenon
<1>4. \A f \in Entries : f # e => (Short(f)' <=> Short(f)) BY <1>1 DEF Short, Live
<1>5. ASSUME NEW f \in Entries, Short(f)', NEW t \in Nat, Pending(f, t)'
      PROVE  t <= timer'[f].due
  <2>1. CASE f # e
    BY <1>1, <1>3, <1>4, <1>5, <2>1 DEF DueInv
  <2>2. CASE f = e /\ Lands(d, t)
    BY <1>1, <2>2, LandsClose
  <2>3. CASE f = e /\ Pending(e, t)
    <3>1. Live(e) /\ calling # e BY <2>3, PendingHeld DEF WheelInv
    <3>2. timer[e].delay = d BY <3>1 DEF Starts
    <3>3. Short(e) BY <1>1, <1>5, <2>3, <3>1, <3>2 DEF Short
    <3>4. t <= timer[e].due BY <2>3, <3>3 DEF DueInv
    <3>5. timer[e].due - d <= tick BY <3>1, <3>2 DEF ClockInv, OnClock
    <3>6. timer[e].due \in Nat BY DEF TypeOK
    <3>7. t <= tick + d BY <1>0, <3>4, <3>5, <3>6, SMT
    <3> QED BY <1>1, <2>3, <3>7
  <2> QED BY <1>3, <1>5, <2>1, <2>2, <2>3
<1>6. ASSUME NEW f \in Entries, Short(f)', calling' # f
      PROVE  Covered(f)'
  <2>1. CASE f # e
    <3>1. Short(f) BY <1>4, <1>6, <2>1
    <3>2. calling # f BY <1>6, <2>1, EntriesAssumption DEF Starts
    <3>3. Covered(f) BY <3>1, <3>2 DEF DueInv
    <3>4. PICK t \in Nat : Pending(f, t) /\ Close(f, t) BY <3>3 DEF Covered
    <3>5. Pending(f, t)' BY <1>3, <3>4
    <3>6. Close(f, t)' BY <1>1, <2>1, <3>4 DEF Close
    <3> QED BY <3>5, <3>6 DEF Covered
  <2>2. CASE f = e
    <3>1. d >= 1 BY <1>6, <2>2 DEF Starts
    <3>2. d < Hour BY <1>1, <1>6, <2>2 DEF Short
    <3>3. d \in 1 .. Hour - 1 BY <3>1, <3>2, Units, SMT
    <3>4. PICK t \in Nat : InSlot(e, t)' /\ Lands(d, t) BY <1>2, <3>3
    <3>5. Pending(e, t)' BY <3>4 DEF Pending, InSlot
    <3>6. t >= tick + d - Minute /\ (d < Minute => t = tick + d) BY <3>4, LandsClose
    <3>7. Close(e, t)' BY <1>0, <1>1, <3>4, <3>6, Units, SMT DEF Close
    <3> QED BY <2>2, <3>5, <3>7 DEF Covered
  <2> QED BY <2>1, <2>2
<1>7. ASSUME calling' # Idle, Short(calling)'
      PROVE  tick' <= timer'[calling'].due /\ Close(calling, tick)'
  <2>1. CASE calling' = calling /\ calling # e
    <3>1. calling \in Entries BY <1>7, <2>1 DEF TypeOK
    <3>2. Short(calling) BY <1>1, <1>7, <2>1, <3>1 DEF Short, Live
    <3>3. tick <= timer[calling].due /\ Close(calling, tick) BY <1>7, <2>1, <3>2 DEF DueInv
    <3> QED BY <1>1, <2>1, <3>1, <3>3 DEF Close
  <2>2. CASE calling' = e /\ ~ Held(wheels', {}, e)
    <3>1. d < Hour BY <1>1, <1>7, <2>2 DEF Short
    <3>2. d \notin 1 .. Hour - 1
      <4> SUFFICES ASSUME d \in 1 .. Hour - 1 PROVE FALSE
        OBVIOUS
      <4>1. PICK u \in Nat : InSlot(e, u)' BY <1>2
      <4>2. InSlots(wheels', e)
        BY <4>1, ItemFields DEF InSlot, InSecond, InMinute, InSlots, Wheels
      <4>3. Whole(wheels') BY <1>0, <1>1, InsertKeeps
      <4> QED BY <2>2, <4>2, <4>3, HeldIn
    <3>3. d = 0 BY <3>1, <3>2, Units, SMT
    <3>4. timer'[e].due = tick BY <1>0, <1>1, <3>3, SMT
    <3>5. tick' <= timer'[e].due /\ tick >= timer'[e].due - Minute
      BY <1>0, <1>1, <3>4, Units, SMT
    <3> QED BY <1>0, <1>1, <2>2, <3>4, <3>5 DEF Close
  <2> QED BY <1>7, <2>1, <2>2 DEF Starts
<1> QED BY <1>5, <1>6, <1>7 DEF DueInv

LEMMA EndsDue ==
  ASSUME TypeOK, DueInv, NEW e \in Entries, Ends(e)
  PROVE  DueInv'
<1>1. \A f \in Entries : f # e => timer'[f] = timer[f] BY DEF Ends, TypeOK
<1>2. ~ Live(e)' BY DEF Ends, TypeOK, Live
<1>3. \A f, t : Pending(f, t)' <=> Pending(f, t)
  <2>1. Turn' = Turn BY DEF Turn, Ends
  <2> QED BY <2>1 DEF Pending, InSecond, InMinute, InDying, Ends
<1>4. ASSUME NEW f \in Entries, Short(f)'
      PROVE  f # e /\ Short(f) /\ calling # f
  BY <1>1, <1>2, <1>4 DEF Short, Live, Ends
<1>5. \A f \in Entries : Short(f)' => \A t \in Nat : Pending(f, t)' => t <= timer'[f].due
  BY <1>1, <1>3, <1>4 DEF DueInv
<1>6. ASSUME NEW f \in Entries, Short(f)' PROVE Covered(f)'
  <2>1. Covered(f) BY <1>4, <1>6 DEF DueInv
  <2>2. PICK t \in Nat : Pending(f, t) /\ Close(f, t) BY <2>1 DEF Covered
  <2>3. Pending(f, t)' /\ Close(f, t)' BY <1>1, <1>3, <1>4, <1>6, <2>2 DEF Close
  <2> QED BY <2>3 DEF Covered
<1>7. calling' = Idle BY DEF Ends
<1> QED BY <1>5, <1>6, <1>7 DEF DueInv

\* An entry with a short delay is held exactly while something of it is pending.
PendingIsHeld ==
  \A e \in Entries : Short(e) => (Held(wheels, dying, e) <=> \E t \in Nat : Pending(e, t))

LEMMA PendingHolds == TypeOK /\ WheelInv => PendingIsHeld
BY PendingHeld, HeldPending DEF PendingIsHeld

LEMMA PendingIsHeldNext == TypeOK' /\ WheelInv' => PendingIsHeld'
BY PendingHolds, PTL

LEMMA DestroyDue ==
  ASSUME TypeOK, WheelInv, TypeOK', WheelInv', DueInv, NEW x \in dying, Destroy(x)
  PROVE  DueInv'
<1>0. /\ x.entry \in Entries /\ tick \in Nat /\ calling = Idle /\ x.entry # Idle
      /\ tick' = tick /\ timer' = timer
      /\ (calling' = calling /\ Held(wheels', dying', x.entry))
         \/ (calling' = x.entry /\ ~ Held(wheels', dying', x.entry))
  BY EntriesAssumption DEF TypeOK, Items, Destroy
<1>1. \A f \in Entries : \A t : Short(f) =>
        /\ Pending(f, t)' => Pending(f, t)
        /\ Pending(f, t) => Pending(f, t)' \/ t = tick
  BY DestroyPending
<1>2. \A f \in Entries : Short(f)' <=> Short(f) BY <1>0 DEF Short, Live
<1>3. \A f \in Entries : \A t : Close(f, t)' <=> Close(f, t) BY <1>0 DEF Close
<1>4. \A f \in Entries : Short(f)' => \A t \in Nat : Pending(f, t)' => t <= timer'[f].due
  BY <1>0, <1>1, <1>2 DEF DueInv
<1>5. \A f \in Entries : Short(f) => Covered(f) BY <1>0, EntriesAssumption DEF DueInv
<1>6. ASSUME NEW f \in Entries, Short(f), ~ Covered(f)'
      PROVE  Close(f, tick) /\ tick <= timer[f].due
  <2>1. PICK t \in Nat : Pending(f, t) /\ Close(f, t) BY <1>5, <1>6 DEF Covered
  <2>2. t = tick
    <3> SUFFICES ASSUME t # tick PROVE FALSE
      OBVIOUS
    <3>1. Pending(f, t)' /\ Close(f, t)' BY <1>1, <1>3, <1>6, <2>1
    <3> QED BY <1>6, <3>1 DEF Covered
  <2>3. t <= timer[f].due BY <1>6, <2>1 DEF DueInv
  <2> QED BY <2>1, <2>2, <2>3
<1>7. PendingIsHeld' BY PendingIsHeldNext
<1>8. ASSUME NEW f \in Entries, Short(f), ~ Covered(f)'
      PROVE  ~ Held(wheels', dying', f)
  <2> SUFFICES ASSUME Held(wheels', dying', f) PROVE FALSE
    OBVIOUS
  <2>1. PICK t \in Nat : Pending(f, t)' BY <1>2, <1>7, <1>8 DEF PendingIsHeld
  <2>2. Pending(f, t) BY <1>1, <1>8, <2>1
  <2>3. t >= tick /\ t <= timer[f].due
    BY <1>8, <2>2, PendingLater DEF DueInv
  <2>4. Close(f, tick) BY <1>6, <1>8
  <2>5. timer[f].due \in Nat /\ timer[f].delay \in Nat BY DEF TypeOK
  <2>6. t >= timer[f].due - Minute BY <1>0, <2>3, <2>4, <2>5, Units, SMT DEF Close
  <2>7. timer[f].delay < Minute => t = timer[f].due
    BY <1>0, <2>3, <2>4, <2>5, SMT DEF Close
  <2>8. Close(f, t)' BY <1>3, <2>6, <2>7 DEF Close
  <2> QED BY <1>8, <2>1, <2>8 DEF Covered
<1>9. ASSUME NEW f \in Entries, f # x.entry, Held(wheels, dying, f)
      PROVE  Held(wheels', dying', f)
  <2>0. /\ Whole(wheels) /\ wheels' = InstertEntry(wheels, x.rest, x.entry)
        /\ dying' = dying \ {x} /\ x.rest \in Nat
    BY Types DEF Destroy, TypeOK, Items
  <2>1. /\ Whole(wheels')
        /\ \A w \in Wheels : \A i \in 0 .. Slots[w] - 1 : wheels[w][i] \subseteq wheels'[w][i]
    BY <1>0, <2>0, InsertKeeps
  <2>2. InSlots(wheels, f) => InSlots(wheels', f) BY <2>1 DEF InSlots
  <2>3. (\E y \in dying : y.entry = f) => \E y \in dying' : y.entry = f BY <1>9, <2>0
  <2> QED BY <1>9, <2>0, <2>1, <2>2, <2>3, HeldIn
<1>10. ASSUME NEW f \in Entries, Short(f), calling' # f
       PROVE  Covered(f)'
  <2> SUFFICES ASSUME ~ Covered(f)' PROVE FALSE
    OBVIOUS
  <2>1. ~ Held(wheels', dying', f) BY <1>8, <1>10
  <2>2. Held(wheels, dying, f)
    <3>1. PICK t \in Nat : Pending(f, t) BY <1>5, <1>10 DEF Covered
    <3> QED BY <3>1, PendingHeld
  <2> QED BY <1>0, <1>9, <1>10, <2>1, <2>2
<1>11. ASSUME calling' # Idle, Short(calling)'
       PROVE  tick' <= timer'[calling'].due /\ Close(calling, tick)'
  <2>1. calling' = x.entry /\ ~ Held(wheels', dying', x.entry) BY <1>0, <1>11
  <2>2. Short(x.entry) BY <1>0, <1>11, <2>1 DEF Short, Live
  <2>3. ~ Covered(x.entry)' BY <1>0, <1>2, <1>7, <2>1, <2>2 DEF PendingIsHeld, Covered
  <2>4. Close(x.entry, tick) /\ tick <= timer[x.entry].due BY <1>0, <1>6, <2>2, <2>3
  <2> QED BY <1>0, <2>1, <2>4 DEF Close
<1>12. \A f \in Entries : Short(f)' /\ calling' # f => Covered(f)' BY <1>2, <1>10
<1> QED BY <1>4, <1>11, <1>12 DEF DueInv

-----------------------------------------------------------------------------
(* The clock, and the theorems.                                            *)

LEMMA StartsClock ==
  ASSUME TypeOK, ClockInv, NEW e \in Entries, NEW d \in Nat, NEW ev \in Nat, Starts(e, d, ev)
  PROVE  ClockInv'
<1>1. /\ timer'[e].due = tick + d /\ timer'[e].delay = d /\ timer'[e].at = now
      /\ \A f \in Entries : f # e => timer'[f] = timer[f]
      /\ tick' = tick /\ now' = now /\ last_ts' = last_ts /\ tick \in Nat /\ now \in Nat
  BY DEF Starts, TypeOK, Timer
<1>2. timer'[e].due - timer'[e].delay = tick' BY <1>1, SMT
<1>3. \A f \in Entries : f # e => (Live(f)' <=> Live(f)) BY <1>1 DEF Live
<1>4. timer'[e].at <= now' /\ timer'[e].due - timer'[e].delay <= tick'
      /\ ~ (tick' > timer'[e].due - timer'[e].delay)
  BY <1>1, <1>2, SMT
<1> QED BY <1>1, <1>3, <1>4 DEF ClockInv, OnClock

LEMMA SecondClock ==
  ASSUME TypeOK, WheelInv, ClockInv, TurnsSecond
  PROVE  ClockInv'
<1>1. /\ timer' = timer /\ tick' = tick + 1 /\ now' = now /\ last_ts' = now
      /\ now - last_ts >= Second /\ last_ts <= now
      /\ tick \in Nat /\ now \in Nat /\ last_ts \in Nat
  BY DEF TurnsSecond, Turns, TypeOK, WheelInv
<1> SUFFICES ASSUME NEW e \in Entries, Live(e)
             PROVE  OnClock(e)'
  BY <1>1 DEF ClockInv, OnClock, Live
<1> DEFINE start == timer[e].due - timer[e].delay
<1>2. timer[e].at \in Nat /\ start \in Int BY SMT DEF TypeOK
<1>3. /\ timer[e].at <= now /\ start <= tick
      /\ tick > start => last_ts - timer[e].at >= (tick - start - 1) * Second
  BY DEF ClockInv, OnClock
<1> HIDE DEF start
<1>4. now - timer[e].at >= (tick' - start - 1) * Second
  <2>1. CASE tick = start
    <3>1. tick' - start - 1 = 0 BY <1>1, <1>2, <2>1, SMT
    <3>2. (tick' - start - 1) * Second = 0 BY <3>1, Units, SMT
    <3> QED BY <1>1, <1>2, <1>3, <3>2, SMT
  <2>2. CASE tick > start
    <3>1. tick' - start - 1 = (tick - start - 1) + 1 /\ tick - start - 1 \in Int
      BY <1>1, <1>2, SMT
    <3> DEFINE k == tick - start - 1
    <3> HIDE DEF k
    <3>2. (k + 1) * Second = k * Second + Second /\ k * Second \in Int
      BY <3>1, Units, SMT DEF k
    <3>3. last_ts - timer[e].at >= k * Second BY <1>3, <2>2 DEF k
    <3>4. now - timer[e].at >= (k + 1) * Second
      BY <1>1, <1>2, <3>2, <3>3, Units, SMT
    <3> QED BY <3>1, <3>4 DEF k
  <2> QED BY <1>1, <1>2, <1>3, <2>1, <2>2, SMT
<1>5. timer[e].at <= now' /\ start <= tick' BY <1>1, <1>2, <1>3, SMT
<1>6. last_ts' - timer[e].at >= (tick' - start - 1) * Second BY <1>1, <1>4
<1> QED BY <1>1, <1>5, <1>6 DEF OnClock, start

\* The steps that leave the entries and the ticks alone, or forget an entry.
LEMMA KeepsClock ==
  ASSUME TypeOK, ClockInv, tick' = tick, now' \in Nat, last_ts' \in Nat, now' >= now, last_ts' >= last_ts,
         \A e \in Entries : Live(e)' => Live(e) /\ timer'[e] = timer[e]
  PROVE  ClockInv'
<1> SUFFICES ASSUME NEW e \in Entries, Live(e)'
             PROVE  OnClock(e)'
  BY DEF ClockInv, OnClock
<1>1. OnClock(e) /\ timer'[e] = timer[e] BY DEF ClockInv, OnClock
<1> DEFINE start == timer[e].due - timer[e].delay
<1>2. timer[e].at \in Nat /\ start \in Int BY SMT DEF TypeOK
<1>3. now \in Nat /\ last_ts \in Nat /\ tick \in Nat BY DEF TypeOK
<1>4. /\ timer[e].at <= now /\ start <= tick
      /\ tick > start => last_ts - timer[e].at >= (tick - start - 1) * Second
  BY <1>1 DEF OnClock
<1> HIDE DEF start
<1>5. (tick - start - 1) * Second \in Int BY <1>2, <1>3, Units, SMT
<1>6. /\ timer[e].at <= now'
      /\ tick > start => last_ts' - timer[e].at >= (tick - start - 1) * Second
  BY <1>2, <1>3, <1>4, <1>5, SMT
<1> QED BY <1>1, <1>4, <1>6 DEF OnClock, start

WheelIInv == TypeOK /\ WheelInv /\ DueInv /\ ClockInv

LEMMA InitIInv == Init => WheelIInv
<1> SUFFICES ASSUME Init PROVE WheelIInv
  OBVIOUS
<1>1. TypeOK /\ WheelInv BY InitType
<1>2. \A e \in Entries : ~ Live(e) BY DEF Init, Live
<1>3. DueInv /\ ClockInv BY <1>2 DEF Init, DueInv, ClockInv, Short
<1> QED BY <1>1, <1>3 DEF WheelIInv

LEMMA NextIInv == WheelIInv /\ [Next]_vars => WheelIInv'
<1> SUFFICES ASSUME TypeOK, WheelInv, DueInv, ClockInv, [Next]_vars
             PROVE  DueInv' /\ ClockInv'
  BY NextType DEF WheelIInv
<1>0. TypeOK' /\ WheelInv' BY NextType
<1>1. tick \in Nat /\ now \in Nat /\ last_ts \in Nat /\ calling \in Entries \cup {Idle}
  BY DEF TypeOK
<1>2. ASSUME NEW e \in Entries, NEW d \in Nat, NEW ev \in Nat, Starts(e, d, ev)
      PROVE  DueInv' /\ ClockInv'
  BY <1>2, StartsDue, StartsClock
<1>3. ASSUME NEW e \in Entries, Ends(e)
      PROVE  DueInv' /\ ClockInv'
  <2>1. \A f \in Entries : Live(f)' => Live(f) /\ timer'[f] = timer[f]
    BY <1>3 DEF Ends, Live, TypeOK
  <2>2. tick' = tick /\ now' \in Nat /\ last_ts' \in Nat /\ now' >= now /\ last_ts' >= last_ts
    BY <1>1, <1>3, SMT DEF Ends
  <2> QED BY <1>3, <2>1, <2>2, EndsDue, KeepsClock
<1>4. ASSUME NEW x \in dying, Destroy(x)
      PROVE  DueInv' /\ ClockInv'
  <2>1. \A f \in Entries : Live(f)' => Live(f) /\ timer'[f] = timer[f]
    BY <1>4 DEF Destroy, Live
  <2>2. tick' = tick /\ now' \in Nat /\ last_ts' \in Nat /\ now' >= now /\ last_ts' >= last_ts
    BY <1>1, <1>4, SMT DEF Destroy
  <2> QED BY <1>0, <1>4, <2>1, <2>2, DestroyDue, KeepsClock
<1>5. CASE TurnsSecond
  <2>1. UNCHANGED <<timer, calling>> /\ calling = Idle BY <1>5 DEF TurnsSecond, Turns
  <2>2. \A e \in Entries, t \in Nat : Short(e) => (Pending(e, t)' <=> Pending(e, t))
    BY <1>5, SecondPending
  <2> QED BY <1>1, <1>5, <2>1, <2>2, KeepsDue, SecondClock
<1>6. CASE TurnsMinute \/ \E w \in {"hour", "day"} : TurnsLonger(w)
  <2>1. /\ UNCHANGED <<timer, calling, now, last_ts>> /\ calling = Idle /\ tick' = tick
    BY <1>6 DEF TurnsMinute, TurnsLonger, Turns
  <2>2. \A e \in Entries, t \in Nat : Short(e) => (Pending(e, t)' <=> Pending(e, t))
    BY <1>6, MinutePending, LongerPending
  <2>3. \A f \in Entries : Live(f)' => Live(f) /\ timer'[f] = timer[f] BY <2>1 DEF Live
  <2>4. now' \in Nat /\ last_ts' \in Nat /\ now' >= now /\ last_ts' >= last_ts
    BY <1>1, <2>1, SMT
  <2> QED BY <1>1, <2>1, <2>2, <2>3, <2>4, KeepsDue, KeepsClock
<1>7. CASE Passes
  <2>1. UNCHANGED <<timer, calling>> /\ tick' = tick BY <1>7 DEF Passes
  <2>2. \A e \in Entries, t \in Nat : Short(e) => (Pending(e, t)' <=> Pending(e, t))
    BY <1>7, PassesPending
  <2>3. \A f \in Entries : Live(f)' => Live(f) /\ timer'[f] = timer[f] BY <2>1 DEF Live
  <2> QED BY <1>1, <1>7, <2>1, <2>2, <2>3, KeepsDue, KeepsClock DEF Passes
<1> QED BY <1>2, <1>3, <1>4, <1>5, <1>6, <1>7, Steps

LEMMA Invariant == Spec => []WheelIInv
BY InitIInv, NextIInv, PTL DEF Spec

\* NeverLate: a reference that is pending at a tick of its time keeps the entry from
\* being late, whatever callbacks inserted in the middle of OnTimer.
THEOREM NothingLate == Spec => []NeverLate
<1>1. WheelIInv => NeverLate
  <2> SUFFICES ASSUME WheelIInv, NEW e \in Entries, timer[e].delay < Hour, Live(e), calling # e
               PROVE  tick < timer[e].due \/ (pc # "idle" /\ tick = timer[e].due)
    BY DEF NeverLate, InTime
  <2>1. TypeOK /\ WheelInv /\ DueInv /\ Short(e) BY DEF WheelIInv, Short
  <2>2. PICK t \in Nat : Pending(e, t) BY <2>1 DEF DueInv, Covered
  <2>3. t <= timer[e].due BY <2>1, <2>2 DEF DueInv
  <2>4. t >= tick /\ (pc = "idle" => t > tick) BY <2>1, <2>2, PendingLater
  <2>5. timer[e].due \in Nat /\ tick \in Nat BY <2>1 DEF TypeOK
  <2> QED BY <2>3, <2>4, <2>5, SMT
<1> QED BY <1>1, Invariant, PTL

\* EarlyAtMost: a callback with a delay below an hour runs at most a minute early, one
\* below a minute at its tick, and at most a second early on the clock.
THEOREM EarlyBounded == Spec => []EarlyAtMost
<1>1. WheelIInv => EarlyAtMost
  <2> SUFFICES ASSUME WheelIInv, calling # Idle, timer[calling].delay < Hour
               PROVE  /\ timer[calling].due - tick \in 0 .. Minute
                      /\ timer[calling].delay < Minute => timer[calling].due = tick
                      /\ timer[calling].delay \in 1 .. Minute - 1 =>
                           now - timer[calling].at >= (timer[calling].delay - 1) * Second
    BY DEF EarlyAtMost
  <2>1. TypeOK /\ WheelInv /\ DueInv /\ ClockInv BY DEF WheelIInv
  <2>2. calling \in Entries /\ Live(calling) /\ Short(calling)
    BY <2>1 DEF TypeOK, WheelInv, Short
  <2>3. tick <= timer[calling].due /\ Close(calling, tick) BY <2>1, <2>2 DEF DueInv
  <2> DEFINE due == timer[calling].due
             delay == timer[calling].delay
             at == timer[calling].at
  <2>4. /\ due \in Nat /\ delay \in Nat /\ at \in Nat /\ tick \in Nat
        /\ now \in Nat /\ last_ts \in Nat /\ last_ts <= now
    BY <2>1, <2>2 DEF TypeOK, WheelInv
  <2>5. due - delay < tick => last_ts - at >= (tick - (due - delay) - 1) * Second
    BY <2>1, <2>2, <2>4, SMT DEF ClockInv, OnClock
  <2>6. tick <= due /\ tick >= due - Minute /\ (delay < Minute => tick = due)
    BY <2>3 DEF Close
  <2> HIDE DEF due, delay, at
  <2>7. due - tick \in 0 .. Minute /\ (delay < Minute => due = tick)
    BY <2>4, <2>6, Units, SMT
  <2>8. ASSUME delay \in 1 .. Minute - 1 PROVE now - at >= (delay - 1) * Second
    <3>1. tick = due BY <2>4, <2>6, <2>8, Units, SMT
    <3>2. tick - (due - delay) - 1 = delay - 1 /\ due - delay < tick
      BY <2>4, <2>8, <3>1, SMT
    <3>3. last_ts - at >= (delay - 1) * Second BY <2>5, <3>2
    <3>4. (delay - 1) * Second \in Int BY <2>4, Units, SMT
    <3> QED BY <2>4, <3>3, <3>4, SMT
  <2> QED BY <2>7, <2>8 DEF due, delay, at
<1> QED BY <1>1, Invariant, PTL
=============================================================================
