-------------------------- MODULE FlowCounterProofs --------------------------
(***************************************************************************)
(* FlowCounter for every calendar, bound and set of faults.                *)
(***************************************************************************)
EXTENDS FlowCounter, TLAPS

(* What a counter satisfies in memory and in the file alike: what it has    *)
(* booked lies before its last accepted reading, and that reading is past.  *)
Booked(c) ==
    /\ c.today <= c.this_month
    /\ c.this_month <= c.mark
    /\ c.mark <= Flowed
    /\ c.high = Missing => c.mark = 0

Sound(c) ==
    /\ c \in Counters
    /\ Restorable(c)
    /\ Booked(c)

(* On the meter it was read from, the high-water mark never lags behind the  *)
(* energy already accounted for.  A counter of another source has no such    *)
(* guarantee, which is why the scope must match before it is restored.       *)
OnMeter(c) == c.high # Missing => c.mark <= meterBase + c.high

IInv ==
    /\ TypeOK
    /\ reported # Missing => reported <= register
    /\ Sound(counter) /\ Sound(file)
    /\ running => OnMeter(counter)
    /\ fileBinding <= binding
    /\ fileBinding = binding => OnMeter(file)

-----------------------------------------------------------------------------
LEMMA OpenPeriodsSound ==
    ASSUME meterBase \in Nat, register \in Nat, NEW c, Sound(c), NEW d \in Days
    PROVE  /\ Sound(OpenPeriods(c, d))
           /\ OpenPeriods(c, d).high = c.high
           /\ OpenPeriods(c, d).mark = c.mark
           /\ OpenPeriods(c, d).generation = c.generation
           /\ OpenPeriods(c, d).day = d
           /\ OpenPeriods(c, d).today \in {0, c.today}
<1> DEFINE o == OpenPeriods(c, d)
<1>1. d \in Nat /\ MonthOf[d] \in Nat
  BY FlowAssumption DEF Days
<1>2. /\ c.today \in Nat /\ c.this_month \in Nat /\ c.mark \in Nat /\ c.generation \in Nat
      /\ c.day \in Days \union {NoDay} /\ c.pending \in BOOLEAN
      /\ c.high \in Nat \union {Missing}
  BY DEF Sound, Counters
<1>3. /\ o.day = d /\ o.month = MonthOf[d]
      /\ o.high = c.high /\ o.mark = c.mark /\ o.generation = c.generation
      /\ o.today = IF c.day = d THEN c.today ELSE 0
      /\ o.this_month = IF c.month = MonthOf[d] THEN c.this_month ELSE 0
      /\ o.pending = (c.pending \/ c.day # d)
  BY DEF Sound, Counters, OpenPeriods
<1>4. o \in Counters
  BY <1>1, <1>2 DEF Sound, Counters, OpenPeriods
<1>5. Restorable(o)
  BY <1>1, <1>2, <1>3 DEF Restorable, NoDay
<1>6. Booked(o)
  <2>1. c.day = d => c.month = MonthOf[d]
    BY <1>1 DEF Sound, Restorable, NoDay
  <2>2. o.today <= o.this_month /\ o.this_month <= o.mark
    BY <1>2, <1>3, <2>1 DEF Sound, Booked
  <2>3. QED  BY <1>3, <2>2 DEF Sound, Booked
<1>7. QED  BY <1>3, <1>4, <1>5, <1>6 DEF Sound

LEMMA AcceptSound ==
    ASSUME meterBase \in Nat, register \in Nat, NEW c, Sound(c), OnMeter(c),
           NEW m \in Nat \union {Missing}, m # Missing => m <= register
    PROVE  /\ Sound(Accept(c, m))
           /\ OnMeter(Accept(c, m))
           /\ Accept(c, m).high >= c.high
           /\ Accept(c, m).day = c.day
           /\ Accept(c, m).generation = c.generation
<1>1. /\ c.today \in Nat /\ c.this_month \in Nat /\ c.mark \in Nat /\ c.generation \in Nat
      /\ c.high \in Nat \union {Missing}
  BY DEF Sound, Counters
<1>2. CASE m = Missing \/ m < c.high
  BY <1>1, <1>2 DEF Accept, Missing
<1>3. CASE ~(m = Missing \/ m < c.high)
  <2> DEFINE delta == IF c.high # Missing /\ ~c.pending THEN m - c.high ELSE 0
             a == Accept(c, m)
  <2>1. m \in Nat /\ m <= register /\ m >= c.high /\ delta \in Nat
    BY <1>1, <1>3 DEF Missing
  <2>2. a = [c EXCEPT !.today = @ + delta, !.this_month = @ + delta,
                      !.high = m, !.pending = FALSE, !.mark = meterBase + m]
    BY <1>3 DEF Accept
  <2>3. c.mark + delta <= meterBase + m
    BY <1>1, <2>1 DEF Sound, Booked, OnMeter, Missing
  <2> HIDE DEF delta, a
  <2>4. /\ a.today = c.today + delta /\ a.this_month = c.this_month + delta
        /\ a.high = m /\ a.mark = meterBase + m /\ a.day = c.day /\ a.month = c.month
        /\ a.generation = c.generation
    BY <2>2 DEF Sound, Counters
  <2>5. a \in Counters
    <3> DEFINE t == c.today + delta
               s == c.this_month + delta
               u == meterBase + m
    <3>1. t \in Nat /\ s \in Nat /\ u \in Nat
      BY <1>1, <2>1
    <3>2. a = [c EXCEPT !.today = t, !.this_month = s, !.high = m, !.pending = FALSE, !.mark = u]
      BY <2>2
    <3> HIDE DEF t, s, u
    <3>3. QED  BY <2>1, <3>1, <3>2 DEF Sound, Counters
  <2>6. Restorable(a)
    BY <1>1, <2>1, <2>4 DEF Sound, Restorable
  <2>7. Booked(a)
    BY <1>1, <2>1, <2>3, <2>4 DEF Sound, Booked, Flowed, Missing
  <2>8. OnMeter(a)
    BY <2>1, <2>4 DEF OnMeter
  <2>9. QED  BY <2>1, <2>4, <2>5, <2>6, <2>7, <2>8 DEF Sound, a
<1>4. QED  BY <1>2, <1>3

\* An update keeps a counter sound and never lowers its high-water mark.
LEMMA UpdateSound ==
    ASSUME meterBase \in Nat, register \in Nat, NEW c, Sound(c), OnMeter(c),
           NEW m \in Nat \union {Missing}, m # Missing => m <= register, NEW d \in Days
    PROVE  /\ Sound(Update(c, m, d))
           /\ OnMeter(Update(c, m, d))
           /\ Update(c, m, d).high >= c.high
           /\ Update(c, m, d).generation = c.generation
<1>1. CASE OutOfOrder(c, d)
  BY <1>1 DEF Update, Sound, Counters, Missing
<1>2. CASE ~OutOfOrder(c, d)
  <2> DEFINE o == OpenPeriods(c, d)
  <2>1. Sound(o) /\ o.high = c.high /\ o.mark = c.mark /\ o.generation = c.generation
    BY OpenPeriodsSound
  <2>2. OnMeter(o)
    BY <2>1 DEF OnMeter
  <2>3. Update(c, m, d) = Accept(o, m)
    BY <1>2 DEF Update
  <2> HIDE DEF o
  <2>4. QED  BY <2>1, <2>2, <2>3, AcceptSound
<1>3. QED  BY <1>1, <1>2

LEMMA ConfirmSound ==
    ASSUME meterBase \in Nat, register \in Nat, NEW c, Sound(c),
           NEW m \in Nat, m <= register, NEW d \in Days, c.mark <= meterBase
    PROVE  /\ Sound(Confirm(c, m, d))
           /\ OnMeter(Confirm(c, m, d))
           /\ Confirm(c, m, d).generation = c.generation + 1
<1> DEFINE o == OpenPeriods(c, d)
           a == Confirm(c, m, d)
<1>1. Sound(o) /\ o.mark = c.mark /\ o.generation = c.generation
  BY OpenPeriodsSound
<1>2. /\ o.today \in Nat /\ o.this_month \in Nat /\ o.mark \in Nat /\ o.generation \in Nat
  BY <1>1 DEF Sound, Counters
<1>3. a = [o EXCEPT !.high = m, !.pending = FALSE, !.generation = @ + 1,
                    !.mark = meterBase + m]
  BY DEF Confirm
<1> HIDE DEF o, a
<1>4. /\ a.today = o.today /\ a.this_month = o.this_month /\ a.high = m
      /\ a.mark = meterBase + m /\ a.day = o.day /\ a.month = o.month
      /\ a.generation = o.generation + 1
  BY <1>1, <1>3 DEF Sound, Counters
<1>5. a \in Counters
  <2> DEFINE g == o.generation + 1
             u == meterBase + m
  <2>1. g \in Nat /\ u \in Nat
    BY <1>2
  <2>2. a = [o EXCEPT !.high = m, !.pending = FALSE, !.generation = g, !.mark = u]
    BY <1>3
  <2> HIDE DEF g, u
  <2>3. QED  BY <1>1, <2>1, <2>2 DEF Sound, Counters
<1>6. Restorable(a)
  BY <1>1, <1>2, <1>4 DEF Sound, Restorable
<1>7. Booked(a)
  BY <1>1, <1>2, <1>4 DEF Sound, Booked, Flowed, Missing
<1>8. OnMeter(a)
  BY <1>4 DEF OnMeter
<1>9. QED  BY <1>1, <1>4, <1>5, <1>6, <1>7, <1>8 DEF Sound, a

-----------------------------------------------------------------------------
LEMMA InitInv == Init => IInv
BY FlowAssumption DEF Init, IInv, TypeOK, Days, Sound, Booked, OnMeter, Restorable, NewCounter,
   Counters, Missing, NoDay, Flowed

LEMMA NewCounterSound ==
    ASSUME meterBase \in Nat, register \in Nat
    PROVE  Sound(NewCounter) /\ OnMeter(NewCounter)
BY DEF Sound, Booked, OnMeter, Restorable, NewCounter, Counters, Missing, NoDay, Flowed

\* Every step of the world leaves the counters sound.
LEMMA WorldStep ==
    ASSUME IInv, Consume \/ AdvanceDay \/ ClockSetBack \/ ReplaceMeter \/ Rebind
    PROVE  IInv'
<1>0. register \in Nat /\ meterBase \in Nat
  BY DEF IInv, TypeOK
<1>1. /\ UNCHANGED <<counter, file, fileBinding, running>>
      /\ reportedDay' \in {0, reportedDay}
      /\ (reported' = reported \/ reported' = Missing)
      /\ register' \in Nat /\ meterBase' \in Nat
      /\ reported' # Missing => reported' <= register'
      /\ honest' \in BOOLEAN
  BY DEF IInv, TypeOK, Consume, AdvanceDay, ClockSetBack, ReplaceMeter, Rebind, Missing, Flowed
<1>2. Flowed <= Flowed'
  BY DEF IInv, TypeOK, Consume, AdvanceDay, ClockSetBack, ReplaceMeter, Rebind, Flowed
<1>3. TypeOK'
  <2>1. date' \in Days /\ latest' \in Days
    <3>1. date \in Days /\ latest \in Days /\ MaxDay \in Nat
      BY FlowAssumption DEF IInv, TypeOK
    <3>2. CASE AdvanceDay
      BY <3>1, <3>2 DEF AdvanceDay, Days
    <3>3. CASE ClockSetBack
      BY <3>1, <3>3 DEF ClockSetBack, Days
    <3>4. CASE Consume \/ ReplaceMeter \/ Rebind
      BY <3>1, <3>4 DEF Consume, ReplaceMeter, Rebind
    <3>5. QED  BY <3>2, <3>3, <3>4
  <2>2. dayStart' \in [Days -> Nat]
    BY DEF IInv, TypeOK, Consume, AdvanceDay, ClockSetBack, ReplaceMeter, Rebind, Flowed
  <2>3. binding' \in {1, 2}
    BY DEF IInv, TypeOK, Consume, AdvanceDay, ClockSetBack, ReplaceMeter, Rebind
  <2>4. reportedDay' \in Days
    BY <1>1, FlowAssumption DEF IInv, TypeOK, Days
  <2>5. QED  BY <1>1, <2>1, <2>2, <2>3, <2>4 DEF IInv, TypeOK
<1>4. Sound(counter)' /\ Sound(file)'
  <2>1. /\ counter.mark \in Nat /\ counter.mark <= meterBase + register
        /\ file.mark \in Nat /\ file.mark <= meterBase + register
    BY DEF IInv, Sound, Booked, Counters, Flowed
  <2>2. counter.mark <= meterBase' + register' /\ file.mark <= meterBase' + register'
    <3>1. meterBase + register <= meterBase' + register'
      BY <1>2 DEF Flowed
    <3>2. /\ register \in Int /\ meterBase \in Int /\ register' \in Int /\ meterBase' \in Int
          /\ counter.mark \in Int /\ file.mark \in Int
      BY <1>0, <1>1, <2>1
    <3>3. \A x, a, b, c, d \in Int : x <= a + b /\ a + b <= c + d => x <= c + d
      OBVIOUS
    <3>4. counter.mark <= meterBase + register /\ file.mark <= meterBase + register
      BY <2>1
    <3> HIDE <1>0, <1>1, <1>2
    <3>5. QED  BY <3>1, <3>2, <3>3, <3>4
  <2>3. QED  BY <1>1, <2>2 DEF IInv, Sound, Booked, Restorable, Flowed
<1>5. \/ binding' = binding /\ meterBase' >= meterBase
      \/ ~running /\ binding = 1 /\ binding' = 2
  <2>1. CASE Consume \/ AdvanceDay \/ ClockSetBack
    BY <2>1 DEF IInv, TypeOK, Consume, AdvanceDay, ClockSetBack
  <2>2. CASE ReplaceMeter
    BY <2>2 DEF IInv, TypeOK, ReplaceMeter, Flowed
  <2>3. CASE Rebind
    BY <2>3 DEF Rebind
  <2>4. QED  BY <2>1, <2>2, <2>3
<1>. /\ counter.mark \in Nat /\ counter.high \in Nat \union {Missing}
     /\ file.mark \in Nat /\ file.high \in Nat \union {Missing}
     /\ meterBase \in Nat /\ binding \in {1, 2} /\ fileBinding \in {1, 2}
  BY DEF IInv, TypeOK, Counters
<1>6. running' => OnMeter(counter)'
  BY <1>1, <1>5 DEF IInv, OnMeter
<1>7. fileBinding' = binding' => OnMeter(file)'
  BY <1>1, <1>5 DEF IInv, OnMeter
<1>8. QED  BY <1>1, <1>3, <1>4, <1>5, <1>6, <1>7 DEF IInv

(* Every handler leaves the counters sound, and while loaded lowers the      *)
(* high-water mark only with a new generation.                               *)
LEMMA HandlerStep ==
    ASSUME IInv, SourceChanged \/ Tick \/ ConfirmReset \/ WriteStore \/ Stop \/ Start
    PROVE  /\ IInv'
           /\ running /\ running' /\ counter'.high < counter.high
                => counter'.generation = counter.generation + 1
<1>0. /\ register \in Nat /\ meterBase \in Nat /\ date \in Days
      /\ reported \in Nat \union {Missing} /\ reportedDay \in Days
      /\ binding \in {1, 2} /\ fileBinding \in {1, 2}
      /\ dayStart \in [Days -> Nat] /\ latest \in Days /\ running \in BOOLEAN
      /\ honest \in BOOLEAN
      /\ Sound(counter) /\ counter.high \in Nat \union {Missing} /\ Sound(file)
  BY DEF IInv, TypeOK, Counters
<1>1. ASSUME NEW m \in Nat \union {Missing}, m # Missing => m <= register, NEW d \in Days,
             running
      PROVE  ReadFlows(m, d) => /\ Sound(counter') /\ OnMeter(counter')
                                /\ counter'.high >= counter.high
  <2>1. OnMeter(counter)
    BY <1>1 DEF IInv
  <2>2. PICK k \in Nat \union {Missing} :
          /\ k # Missing => k <= register
          /\ ReadFlows(m, d) => counter' = Update(counter, k, date)
    BY <1>1 DEF ReadFlows
  <2>3. QED  BY <1>0, <2>1, <2>2, UpdateSound
<1>2. CASE SourceChanged
  <2>1. PICK m \in Nat \union {Missing} :
          /\ m # Missing => m <= register
          /\ reported' = m /\ reportedDay' \in Days
          /\ IF running THEN ReadFlows(m, date) ELSE UNCHANGED counter
    <3>1. 0 \in Days
      BY FlowAssumption DEF Days
    <3>2. QED  BY <1>0, <1>2, <3>1 DEF SourceChanged
  <2>2. /\ UNCHANGED <<date, latest, dayStart, register, meterBase, binding,
                    running, file, fileBinding>>
       /\ honest' \in BOOLEAN
    BY <1>2 DEF SourceChanged
  <2>3. /\ Sound(counter') /\ (running => OnMeter(counter'))
        /\ ~(counter'.high < counter.high)
    <3>1. CASE running
      <4>1. Sound(counter') /\ OnMeter(counter') /\ counter'.high >= counter.high
        BY <1>0, <1>1, <2>1, <3>1
      <4>2. counter'.high \in Nat \union {Missing}
        BY <4>1 DEF Sound, Counters
      <4>3. QED  BY <1>0, <4>1, <4>2 DEF Missing
    <3>2. CASE ~running
      BY <1>0, <2>1, <3>2 DEF Missing
    <3>3. QED  BY <3>1, <3>2
  <2>4. QED  BY <1>0, <2>1, <2>2, <2>3 DEF IInv, TypeOK, Sound, Booked, OnMeter, Flowed
<1>3. CASE Tick
  <2>1. PICK m \in Nat \union {Missing} : (m # Missing => m <= register) /\ ReadFlows(m, reportedDay)
    BY <1>0, <1>3 DEF Tick, IInv
  <2>2. running /\ UNCHANGED <<world, running, file, fileBinding>>
    BY <1>3 DEF Tick
  <2>3. Sound(counter') /\ OnMeter(counter') /\ counter'.high >= counter.high
    BY <1>0, <1>1, <2>1, <2>2
  <2>4. counter'.high \in Nat \union {Missing}
    BY <2>3 DEF Sound, Counters
  <2>5. ~(counter'.high < counter.high)
    BY <1>0, <2>3, <2>4 DEF Missing
  <2>6. QED  BY <1>0, <2>2, <2>3, <2>5 DEF IInv, TypeOK, Sound, Booked, OnMeter, Flowed, world
<1>4. CASE ConfirmReset
  <2> DEFINE c == Confirm(counter, reported, date)
  <2>1. /\ reported \in Nat /\ reported <= register /\ counter.mark <= meterBase
        /\ counter' = Update(c, reported, date)
        /\ running /\ UNCHANGED <<world, running, file, fileBinding>>
    BY <1>0, <1>4 DEF ConfirmReset, GenuineReplacement, IInv
  <2>2. Sound(c) /\ OnMeter(c) /\ c.generation = counter.generation + 1
    BY <1>0, <2>1, ConfirmSound
  <2> HIDE DEF c
  <2>3. Sound(counter') /\ OnMeter(counter') /\ counter'.generation = counter.generation + 1
    BY <1>0, <2>1, <2>2, UpdateSound
  <2>4. QED  BY <1>0, <2>1, <2>3 DEF IInv, TypeOK, Sound, Booked, OnMeter, Flowed, world
<1>5. CASE WriteStore
  <2>1. /\ running /\ counter' = counter /\ file' = counter /\ fileBinding' = binding
        /\ UNCHANGED <<world, running>>
    BY <1>5 DEF WriteStore
  <2>2. OnMeter(counter)
    BY <2>1 DEF IInv
  <2>3. Sound(counter)' /\ Sound(file)' /\ OnMeter(counter)' /\ OnMeter(file)'
    BY <1>0, <2>1, <2>2 DEF Sound, Booked, OnMeter, Flowed, world
  <2>4. TypeOK'
    BY <1>0, <2>1 DEF TypeOK, Sound, world
  <2>5. ~(counter'.high < counter.high)
    BY <1>0, <2>1 DEF Missing
  <2>6. QED  BY <1>0, <2>1, <2>3, <2>4, <2>5 DEF IInv, world
<1>6. CASE Stop
  <2>1. running' = FALSE /\ counter' = NewCounter /\ UNCHANGED <<world, file, fileBinding>>
    BY <1>6 DEF Stop
  <2>0. Sound(counter')
    BY <1>0, <2>1, NewCounterSound
  <2>2. Sound(counter)' /\ Sound(file)' /\ (fileBinding = binding => OnMeter(file)')
    BY <1>0, <2>0, <2>1 DEF IInv, Sound, Booked, OnMeter, Flowed, world
  <2>3. TypeOK'
    BY <1>0, <2>0, <2>1 DEF TypeOK, Sound, world
  <2>5. QED  BY <1>0, <2>1, <2>2, <2>3 DEF IInv, world
<1>7. CASE Start
  <2>1. UNCHANGED <<world, file, fileBinding>>
    BY <1>7 DEF Start
  <2>2. Sound(counter') /\ OnMeter(counter')
    BY <1>0, <1>7, NewCounterSound DEF Start, IInv
  <2>3. running' \in BOOLEAN
    BY <1>7 DEF Start
  <2>4. ~running
    BY <1>7 DEF Start
  <2>5. TypeOK'
    BY <1>0, <2>1, <2>2, <2>3 DEF TypeOK, Sound, world
  <2>6. Sound(counter)' /\ Sound(file)' /\ OnMeter(counter)' /\ (fileBinding = binding => OnMeter(file)')
    BY <1>0, <2>1, <2>2 DEF IInv, Sound, Booked, OnMeter, Flowed, world
  <2>7. QED  BY <1>0, <2>1, <2>4, <2>5, <2>6 DEF IInv, world
<1>8. QED  BY <1>2, <1>3, <1>4, <1>5, <1>6, <1>7

LEMMA StutterInv == IInv /\ UNCHANGED vars => IInv'
BY DEF IInv, TypeOK, Sound, Booked, OnMeter, Flowed, Restorable, vars

LEMMA NextInv == IInv /\ [Next]_vars => IInv'
BY WorldStep, HandlerStep, StutterInv DEF Next

LEMMA SpecInv == Spec => []IInv
BY InitInv, NextInv, PTL DEF Spec

-----------------------------------------------------------------------------
\* Every variable keeps its type, for all bounds, calendars and faults.
THEOREM TypesCorrect == Spec => []TypeOK
<1>1. IInv => TypeOK
  BY DEF IInv
<1>2. QED  BY <1>1, SpecInv, PTL

(* Dips, recoveries, exchanged meters, changed sources and restarts from an  *)
(* older file never book the same energy twice.                              *)
THEOREM MonthSafe == Spec => []NothingBookedTwice
<1>1. IInv => NothingBookedTwice
  <2> SUFFICES ASSUME IInv PROVE NothingBookedTwice
    OBVIOUS
  <2>1. /\ counter.this_month \in Nat /\ counter.mark \in Nat
        /\ counter.this_month <= counter.mark /\ counter.mark <= Flowed
    BY DEF IInv, Sound, Booked, Counters
  <2>2. Flowed \in Nat
    BY DEF IInv, TypeOK, Flowed
  <2>3. QED  BY <2>1, <2>2 DEF NothingBookedTwice
<1>2. QED  BY <1>1, SpecInv, PTL

\* The day's total is always part of the month's.
THEOREM DayInMonth == Spec => []DayWithinMonth
<1>1. IInv => DayWithinMonth
  BY DEF IInv, Sound, Booked, DayWithinMonth
<1>2. QED  BY <1>1, SpecInv, PTL

\* The file never holds a counter that the next start would drop as malformed.
THEOREM RestartSafe == Spec => []RestartKeepsCounter
<1>1. IInv => RestartKeepsCounter
  BY DEF IInv, Sound, RestartKeepsCounter
<1>2. QED  BY <1>1, SpecInv, PTL

\* While the entry is loaded, the high-water mark falls only on a confirmed replacement.
THEOREM HighWaterSafe == Spec => HighWaterOnlyLoweredByUser
<1>1. IInv /\ [Next]_vars
        => [running /\ running' /\ counter'.high < counter.high
              => counter'.generation = counter.generation + 1]_vars
  <2>1. ASSUME IInv, Consume \/ AdvanceDay \/ ClockSetBack \/ ReplaceMeter \/ Rebind
        PROVE  ~(counter'.high < counter.high)
    <3>1. counter' = counter
      BY <2>1 DEF Consume, AdvanceDay, ClockSetBack, ReplaceMeter, Rebind
    <3>2. counter.high \in Nat \union {Missing}
      BY <2>1 DEF IInv, TypeOK, Counters
    <3>3. QED  BY <3>1, <3>2 DEF Missing
  <2>2. QED  BY <2>1, HandlerStep DEF Next
<1>2. QED  BY <1>1, SpecInv, PTL DEF Spec, HighWaterOnlyLoweredByUser

-----------------------------------------------------------------------------
(* What a day may contain, for a source that never falls back.  While the    *)
(* day's baseline is pending nothing is counted; from then on the total lies *)
(* between the beginning of the day and the last accepted reading.           *)
Recent(c) ==
    c.day # NoDay =>
        /\ c.day <= latest
        /\ c.pending => c.today = 0
        /\ ~c.pending => c.today + dayStart[c.day] <= c.mark

DayInv ==
    /\ IInv
    /\ date <= latest /\ reportedDay <= latest
    /\ \A d \in Days : dayStart[d] <= meterBase + register
    /\ reported # Missing => dayStart[reportedDay] <= meterBase + reported
    /\ Recent(counter) /\ Recent(file)

LEMMA OpenPeriodsRecent ==
    ASSUME NEW c, c \in Counters, Recent(c), date \in Days, latest \in Days, date <= latest
    PROVE  Recent(OpenPeriods(c, date)) /\ OpenPeriods(c, date).day = date
           /\ OpenPeriods(c, date).pending \in BOOLEAN
<1> DEFINE o == OpenPeriods(c, date)
<1>1. /\ o.day = date /\ o.mark = c.mark
      /\ o.today = IF c.day = date THEN c.today ELSE 0
      /\ o.pending = (c.pending \/ c.day # date)
  BY DEF Counters, OpenPeriods
<1>2. date \in Nat /\ c.pending \in BOOLEAN /\ c.today \in Nat
  BY DEF Counters, Days
<1> HIDE DEF o
<1>3. CASE c.day = date
  BY <1>1, <1>2, <1>3 DEF Recent, NoDay, o
<1>4. CASE c.day # date
  BY <1>1, <1>2, <1>4 DEF Recent, NoDay, o
<1>5. QED  BY <1>3, <1>4

\* A reading received on the day it is booked on keeps the day honest.
LEMMA UpdateRecent ==
    ASSUME NEW c, meterBase \in Nat, register \in Nat, Sound(c), OnMeter(c), Recent(c),
           date \in Days, latest \in Days, date <= latest, dayStart \in [Days -> Nat],
           NEW m \in Nat \union {Missing}, m # Missing => m <= register,
           m # Missing => dayStart[date] <= meterBase + m
    PROVE  Recent(Update(c, m, date))
<1>1. CASE OutOfOrder(c, date)
  BY <1>1 DEF Update
<1>2. CASE ~OutOfOrder(c, date)
  <2> DEFINE o == OpenPeriods(c, date)
             a == Accept(o, m)
  <2>1. Sound(o) /\ o.high = c.high /\ o.mark = c.mark
    BY OpenPeriodsSound
  <2>2. Recent(o) /\ o.day = date /\ OnMeter(o)
    BY <2>1, OpenPeriodsRecent DEF Sound, OnMeter
  <2>3. Update(c, m, date) = a
    BY <1>2 DEF Update
  <2>4. /\ o.today \in Nat /\ o.mark \in Nat /\ o.high \in Nat \union {Missing}
        /\ o.pending \in BOOLEAN /\ dayStart[date] \in Nat /\ date \in Nat
    BY <2>1 DEF Sound, Counters, Days
  <2>5. CASE m = Missing \/ m < o.high
    BY <2>2, <2>3, <2>5 DEF Accept
  <2>6. CASE ~(m = Missing \/ m < o.high)
    <3>1. m \in Nat /\ m >= o.high
      BY <2>4, <2>6 DEF Missing
    <3>2. /\ a.day = date /\ a.mark = meterBase + m /\ a.pending = FALSE
          /\ a.today = IF o.high # Missing /\ ~o.pending THEN o.today + (m - o.high)
                                                          ELSE o.today + 0
      BY <2>1, <2>2, <2>6 DEF Accept, Sound, Counters
    <3>3. a.today + dayStart[date] <= a.mark
      <4>1. dayStart[date] <= meterBase + m
        BY <3>1 DEF Missing
      <4>2. CASE o.pending
        BY <2>2, <2>4, <3>1, <3>2, <4>1, <4>2 DEF Recent, NoDay
      <4>3. CASE ~o.pending /\ o.high # Missing
        <5>1. o.today + dayStart[date] <= o.mark /\ o.mark <= meterBase + o.high
          BY <2>2, <2>4, <4>3 DEF Recent, OnMeter, NoDay
        <5>2. a.today = o.today + (m - o.high) /\ o.high \in Nat
          BY <2>4, <3>2, <4>3
        <5>3. QED  BY <2>4, <3>1, <3>2, <5>1, <5>2
      <4>4. CASE ~o.pending /\ o.high = Missing
        BY <2>1, <2>2, <2>4, <3>1, <3>2, <4>4 DEF Recent, Sound, Booked, NoDay
      <4>5. QED  BY <2>4, <4>2, <4>3, <4>4
    <3>4. QED
      <4> HIDE DEF a
      <4>1. QED  BY <2>2, <2>3, <3>2, <3>3 DEF Recent
  <2>7. QED  BY <2>5, <2>6
<1>3. QED  BY <1>1, <1>2

LEMMA ConfirmRecent ==
    ASSUME NEW c, meterBase \in Nat, register \in Nat, Sound(c), Recent(c), c.mark <= meterBase,
           date \in Days, latest \in Days, date <= latest, dayStart \in [Days -> Nat],
           NEW m \in Nat, dayStart[date] <= meterBase + m
    PROVE  Recent(Confirm(c, m, date))
<1> DEFINE o == OpenPeriods(c, date)
           a == Confirm(c, m, date)
<1>1. Sound(o) /\ o.mark = c.mark
  BY OpenPeriodsSound
<1>2. Recent(o) /\ o.day = date /\ o.pending \in BOOLEAN
  BY OpenPeriodsRecent DEF Sound
<1>3. /\ a.day = o.day /\ a.today = o.today /\ a.pending = FALSE /\ a.mark = meterBase + m
  BY <1>1 DEF Confirm, Sound, Counters
<1>4. o.today \in Nat /\ o.mark \in Nat /\ dayStart[date] \in Nat /\ date \in Nat
  BY <1>1 DEF Sound, Counters, Days
<1> HIDE DEF o, a
<1>5. o.today + dayStart[date] <= meterBase + m
  <2>1. CASE o.pending
    BY <1>2, <1>4, <2>1 DEF Recent, NoDay
  <2>2. CASE ~o.pending
    BY <1>1, <1>2, <1>4, <2>2 DEF Recent, NoDay
  <2>3. QED  BY <2>1, <2>2
<1>6. Recent(a)
  BY <1>2, <1>3, <1>5 DEF Recent, NoDay
<1>7. QED  BY <1>6 DEF a

LEMMA DayInit == Init => DayInv
BY InitInv DEF Init, DayInv, Recent, NewCounter, NoDay, Missing, Days

\* Days begin when the clock first shows them, so the past keeps its beginning.
LEMMA DayWorld ==
    ASSUME DayInv, Consume \/ AdvanceDay \/ ClockSetBack \/ ReplaceMeter \/ Rebind
    PROVE  DayInv'
<1>0. /\ register \in Nat /\ meterBase \in Nat /\ date \in Days /\ latest \in Days
      /\ dayStart \in [Days -> Nat] /\ reportedDay \in Days
      /\ reported \in Nat \union {Missing}
      /\ counter.day \in Days \union {NoDay} /\ file.day \in Days \union {NoDay}
      /\ date <= latest /\ reportedDay <= latest /\ Days \subseteq Nat
  BY DEF DayInv, IInv, TypeOK, Counters, Days
<1>1. IInv' /\ UNCHANGED <<counter, file>> /\ reportedDay' \in {0, reportedDay}
  BY WorldStep DEF DayInv, Consume, AdvanceDay, ClockSetBack, ReplaceMeter, Rebind
<1>2. CASE AdvanceDay /\ date + 1 > latest
  <2>1. /\ date' = date + 1 /\ latest' = date' /\ dayStart' = [dayStart EXCEPT ![date'] = Flowed]
        /\ UNCHANGED <<register, meterBase, reported>>
    BY <1>2 DEF AdvanceDay
  <2>2. \A d \in Days : d <= latest => dayStart'[d] = dayStart[d]
    BY <1>0, <2>1, <1>2
  <2>3. Recent(counter)' /\ Recent(file)'
    <3>1. latest <= latest'
      BY <1>0, <1>2, <2>1
    <3>2. ASSUME NEW c \in Counters, Recent(c), c.day # NoDay
          PROVE  /\ c.day <= latest'
                 /\ c.pending => c.today = 0
                 /\ ~c.pending => c.today + dayStart'[c.day] <= c.mark
      <4>1. c.day \in Days /\ c.day <= latest
        BY <3>2 DEF Counters, Recent
      <4>2. dayStart'[c.day] = dayStart[c.day] /\ c.day <= latest'
        <5>0. c.day \in Nat /\ latest \in Nat
          BY <1>0, <4>1
        <5>1. latest' \in Nat
          BY <1>0, <2>1
        <5>2. c.day <= latest'
          BY <3>1, <4>1, <5>0, <5>1
        <5>3. QED  BY <2>2, <4>1, <5>2
      <4>3. QED  BY <3>2, <4>2 DEF Recent
    <3>3. counter \in Counters /\ file \in Counters /\ Recent(counter) /\ Recent(file)
      BY DEF DayInv, IInv, TypeOK
    <3>4. QED  BY <1>1, <3>2, <3>3 DEF Recent
  <2>4. \A d \in Days : dayStart'[d] <= meterBase' + register'
    BY <1>0, <2>1 DEF DayInv, Flowed
  <2>5. date' <= latest' /\ reportedDay' <= latest'
    BY <1>0, <1>1, <1>2, <2>1
  <2>6. reported' # Missing => dayStart'[reportedDay'] <= meterBase' + reported'
    <3>1. reportedDay' = reportedDay
      BY <1>2 DEF AdvanceDay
    <3>2. QED  BY <1>0, <2>1, <2>2, <3>1 DEF DayInv
  <2>7. QED  BY <1>1, <2>3, <2>4, <2>5, <2>6 DEF DayInv
<1>3. CASE ~(AdvanceDay /\ date + 1 > latest)
  <2>1. latest' = latest /\ dayStart' = dayStart /\ date' <= latest
    <3>1. CASE AdvanceDay
      BY <1>0, <1>3, <3>1 DEF AdvanceDay
    <3>2. CASE ClockSetBack
      BY <1>0, <3>2 DEF ClockSetBack
    <3>3. CASE Consume \/ ReplaceMeter \/ Rebind
      BY <1>0, <3>3 DEF Consume, ReplaceMeter, Rebind
    <3>4. QED  BY <3>1, <3>2, <3>3
  <2>2. meterBase' \in Nat /\ register' \in Nat
    BY <1>1 DEF IInv, TypeOK
  <2>7. meterBase + register <= meterBase' + register'
    <3>1. CASE Consume
      BY <1>0, <3>1 DEF Consume
    <3>2. CASE AdvanceDay \/ ClockSetBack
      BY <1>0, <3>2 DEF AdvanceDay, ClockSetBack
    <3>3. CASE ReplaceMeter
      BY <1>0, <3>3 DEF ReplaceMeter, Flowed
    <3>4. CASE Rebind
      BY <1>0, <3>4 DEF Rebind, Flowed
    <3>5. QED  BY <3>1, <3>2, <3>3, <3>4
  <2>3. reported' # Missing
          => reported' = reported /\ meterBase' = meterBase /\ reportedDay' = reportedDay
    BY DEF Consume, AdvanceDay, ClockSetBack, ReplaceMeter, Rebind
  <2>4. Recent(counter)' /\ Recent(file)'
    BY <1>1, <2>1 DEF DayInv, Recent
  <2>5. ASSUME NEW d \in Days PROVE dayStart[d] <= meterBase' + register'
    <3> DEFINE x == dayStart[d]
               a == meterBase'
               b == register'
    <3>1. x \in Nat /\ x <= meterBase + register
      BY <1>0 DEF DayInv
    <3> HIDE DEF x, a, b
    <3>2. \A i, j, k, l, n \in Int : i <= j + k /\ j + k <= l + n => i <= l + n
      OBVIOUS
    <3> HIDE <1>0, <1>1
    <3>3. meterBase \in Int /\ register \in Int /\ a \in Int /\ b \in Int
      BY <1>0, <2>2 DEF a, b
    <3>4. meterBase + register <= a + b
      BY <2>7 DEF a, b
    <3>5. x <= a + b
      BY <3>1, <3>2, <3>3, <3>4
    <3>6. QED  BY <3>5 DEF x, a, b
  <2>8. QED  BY <1>0, <1>1, <2>1, <2>3, <2>4, <2>5 DEF DayInv
<1>4. QED  BY <1>2, <1>3

LEMMA DayHandler ==
    ASSUME DayInv, honest',
           SourceChanged \/ Tick \/ ConfirmReset \/ WriteStore \/ Stop \/ Start
    PROVE  DayInv'
<1>0. /\ register \in Nat /\ meterBase \in Nat /\ date \in Days /\ latest \in Days
      /\ dayStart \in [Days -> Nat] /\ date <= latest
      /\ reported \in Nat \union {Missing} /\ (reported # Missing => reported <= register)
      /\ Sound(counter) /\ Sound(file) /\ Recent(counter) /\ Recent(file)
  BY DEF DayInv, IInv, TypeOK
<1>1. IInv' /\ UNCHANGED <<date, latest, dayStart, register, meterBase>>
  BY HandlerStep DEF DayInv, world, SourceChanged, Tick, ConfirmReset, WriteStore, Stop, Start
<1>2. SUFFICES /\ reportedDay' <= latest
               /\ reported' # Missing => dayStart[reportedDay'] <= meterBase + reported'
               /\ Recent(counter') /\ Recent(file')
  BY <1>0, <1>1 DEF DayInv, Recent
<1>3. CASE SourceChanged
  <2>1. PICK m \in {register, Missing} :
          /\ reported' = m /\ reportedDay' = (IF m = Missing THEN 0 ELSE date) /\ file' = file
          /\ IF running THEN ReadFlows(m, date) ELSE UNCHANGED counter
    BY <1>3 DEF SourceChanged
  <2>2. /\ m \in Nat \union {Missing} /\ (m # Missing => m <= register)
        /\ (m # Missing => dayStart[date] <= meterBase + m)
    BY <1>0, <2>1 DEF DayInv
  <2>3. /\ reportedDay' <= latest
        /\ reported' # Missing => dayStart[reportedDay'] <= meterBase + reported'
    <3>1. 0 <= latest
      BY <1>0 DEF Days
    <3>2. QED  BY <1>0, <2>1, <2>2, <3>1
  <2>4. CASE running
    <3>1. counter' = Update(counter, m, date) /\ OnMeter(counter)
      BY <2>1, <2>4 DEF ReadFlows, DayInv, IInv
    <3>2. Recent(counter')
      BY <1>0, <2>2, <3>1, UpdateRecent
    <3>3. QED  BY <1>0, <2>1, <2>3, <3>2
  <2>5. CASE ~running
    BY <1>0, <2>1, <2>3, <2>5
  <2>6. QED  BY <2>4, <2>5
<1>4. CASE Tick
  <2>1. PICK m \in {reported, Missing} : ReadFlows(m, reportedDay)
    BY <1>4 DEF Tick
  <2>2. running /\ UNCHANGED <<reported, reportedDay, file>>
    BY <1>4 DEF Tick, world
  <2>3. PICK k \in {m, Missing} :
          /\ counter' = Update(counter, k, date)
          /\ k # Missing => reportedDay = date
    BY <2>1 DEF ReadFlows
  <2>4. /\ k \in Nat \union {Missing} /\ (k # Missing => k <= register)
        /\ (k # Missing => dayStart[date] <= meterBase + k)
    BY <1>0, <2>1, <2>3 DEF DayInv
  <2>5. OnMeter(counter)
    BY <2>2 DEF DayInv, IInv
  <2>6. QED  BY <1>0, <2>2, <2>3, <2>4, <2>5, UpdateRecent DEF DayInv
<1>5. CASE ConfirmReset
  <2> DEFINE c == Confirm(counter, reported, date)
  <2>1. /\ reported \in Nat /\ reported <= register /\ reportedDay = date
        /\ counter.mark <= meterBase /\ counter' = Update(c, reported, date)
        /\ UNCHANGED <<reported, reportedDay, file>>
    BY <1>0, <1>5 DEF ConfirmReset, GenuineReplacement, world
  <2>2. dayStart[date] <= meterBase + reported
    BY <2>1 DEF DayInv, Missing
  <2>3. Sound(c) /\ OnMeter(c) /\ Recent(c)
    BY <1>0, <2>1, <2>2, ConfirmSound, ConfirmRecent
  <2> HIDE DEF c
  <2>4. QED  BY <1>0, <2>1, <2>2, <2>3, UpdateRecent DEF DayInv
<1>6. CASE WriteStore \/ Stop
  <2>1. UNCHANGED <<reported, reportedDay>>
    BY <1>6 DEF WriteStore, Stop, world
  <2>2. Recent(NewCounter)
    BY DEF Recent, NewCounter
  <2>3. Recent(counter') /\ Recent(file')
    BY <1>0, <1>6, <2>2 DEF WriteStore, Stop
  <2>4. QED  BY <1>0, <2>1, <2>3 DEF DayInv
<1>7. CASE Start
  <2>1. UNCHANGED <<reported, reportedDay, file>>
    BY <1>7 DEF Start, world
  <2>2. Recent(counter')
    BY <1>0, <1>7 DEF Start, Recent, NewCounter
  <2>3. QED  BY <1>0, <2>1, <2>2 DEF DayInv
<1>8. QED  BY <1>3, <1>4, <1>5, <1>6, <1>7

\* A source that has not fallen back had not before the step either.
LEMMA HonestBefore == [Next]_vars /\ honest' => honest
BY DEF Next, Consume, AdvanceDay, ClockSetBack, ReplaceMeter, Rebind, SourceChanged, Tick,
       ConfirmReset, WriteStore, Stop, Start, world, vars

(* Until the source has fallen back, a day never holds energy that flowed    *)
(* before it began, over outages, clock changes, exchanged meters, a change  *)
(* of source and restarts.                                                   *)
THEOREM DaySafe == Spec => []DayHoldsOnlyItsOwnEnergy
<1>0. Init => IInv /\ (honest => DayInv)
  BY DayInit, InitInv
<1>1. DayInv /\ UNCHANGED vars => DayInv'
  BY StutterInv DEF DayInv, Recent, vars
<1>2. IInv /\ (honest => DayInv) /\ [Next]_vars => IInv' /\ (honest' => DayInv')
  <2> SUFFICES ASSUME IInv, honest => DayInv, [Next]_vars, honest'
               PROVE  DayInv'
    BY NextInv
  <2>1. DayInv
    BY HonestBefore
  <2>2. QED  BY <2>1, <1>1, DayWorld, DayHandler DEF Next
<1>3. IInv /\ (honest => DayInv) => DayHoldsOnlyItsOwnEnergy
  <2> SUFFICES ASSUME DayInv, counter.day # NoDay
               PROVE  counter.today <= Flowed - dayStart[counter.day]
    BY DEF DayHoldsOnlyItsOwnEnergy
  <2>1. /\ counter.day \in Days /\ counter.today \in Nat /\ counter.mark \in Nat
        /\ counter.pending \in BOOLEAN /\ counter.mark <= meterBase + register
        /\ meterBase \in Nat /\ register \in Nat /\ dayStart[counter.day] \in Nat
        /\ dayStart[counter.day] <= meterBase + register
    BY DEF DayInv, IInv, TypeOK, Sound, Booked, Counters, Flowed, NoDay
  <2>2. CASE counter.pending
    BY <2>1, <2>2 DEF DayInv, Recent, Flowed
  <2>3. CASE ~counter.pending
    BY <2>1, <2>3 DEF DayInv, Recent, Flowed
  <2>4. QED  BY <2>2, <2>3
<1>4. QED  BY <1>0, <1>2, <1>3, PTL DEF Spec

-----------------------------------------------------------------------------
(* FlowCounter implements EnergyAccounting, for every calendar, bound and set *)
(* of faults.                                                                *)

(* The account of e follows that of c: some of its periods may have begun    *)
(* anew, and of the energy up to a later point it takes at most what lies    *)
(* between.                                                                  *)
Follows(e, c) ==
    \E a \in Accounting!Begin(AccountOf(c)) : \E p \in a.upto .. Flowed :
        \E n \in 0 .. p - a.upto : AccountOf(e) = Accounting!Taken(a, p, n)

\* A new day, with or without a new month, begins periods and takes nothing.
LEMMA OpenPeriodsBegin ==
    ASSUME meterBase \in Nat, register \in Nat, NEW c, Sound(c), NEW d \in Days
    PROVE  AccountOf(OpenPeriods(c, d)) \in Accounting!Begin(AccountOf(c))
<1> DEFINE o == OpenPeriods(c, d)
<1>1. /\ o.mark = c.mark
      /\ o.today = IF c.day = d THEN c.today ELSE 0
      /\ o.this_month = IF c.month = MonthOf[d] THEN c.this_month ELSE 0
  BY DEF Sound, Counters, OpenPeriods
<1>2. c.day = d => c.month = MonthOf[d]
  BY DEF Sound, Restorable, NoDay, Days
<1> HIDE DEF o
<1>3. AccountOf(o) \in {[day |-> c.today, month |-> c.this_month, upto |-> c.mark],
                        [day |-> 0, month |-> c.this_month, upto |-> c.mark],
                        [day |-> 0, month |-> 0, upto |-> c.mark]}
  BY <1>1, <1>2 DEF AccountOf
<1>4. QED  BY <1>3 DEF Accounting!Begin, AccountOf, o

\* A reading takes at most what lies between the last accepted one and itself.
LEMMA AcceptTakes ==
    ASSUME meterBase \in Nat, register \in Nat, NEW o, Sound(o), OnMeter(o),
           NEW m \in Nat \union {Missing}, m # Missing => m <= register
    PROVE  \E p \in o.mark .. Flowed : \E n \in 0 .. p - o.mark :
               AccountOf(Accept(o, m)) = Accounting!Taken(AccountOf(o), p, n)
<1>1. /\ o.today \in Nat /\ o.this_month \in Nat /\ o.mark \in Nat
      /\ o.high \in Nat \union {Missing} /\ o.mark <= meterBase + register
  BY DEF Sound, Counters, Booked, Flowed
<1>2. CASE m = Missing \/ m < o.high
  <2>1. Accept(o, m) = o
    BY <1>2 DEF Accept
  <2>2. AccountOf(o) = Accounting!Taken(AccountOf(o), o.mark, 0)
    BY <1>1 DEF AccountOf, Accounting!Taken
  <2>3. o.mark \in o.mark .. Flowed /\ 0 \in 0 .. o.mark - o.mark
    BY <1>1 DEF Flowed
  <2>4. QED  BY <2>1, <2>2, <2>3
<1>3. CASE ~(m = Missing \/ m < o.high)
  <2> DEFINE delta == IF o.high # Missing /\ ~o.pending THEN m - o.high ELSE 0
             p == meterBase + m
             a == Accept(o, m)
  <2>1. m \in Nat /\ m <= register /\ m >= o.high /\ delta \in Nat
    BY <1>1, <1>3 DEF Missing
  <2>2. /\ a.today = o.today + delta /\ a.this_month = o.this_month + delta /\ a.mark = p
    BY <1>3 DEF Accept, Sound, Counters
  <2>3. o.mark <= p /\ delta <= p - o.mark
    BY <1>1, <2>1 DEF Sound, Booked, OnMeter, Missing
  <2>4. p \in Nat /\ p <= Flowed
    BY <2>1 DEF Flowed
  <2>5. Flowed \in Nat
    BY DEF Flowed
  <2> HIDE DEF delta, p, a
  <2>6. AccountOf(a) = Accounting!Taken(AccountOf(o), p, delta)
    BY <2>2 DEF AccountOf, Accounting!Taken
  <2>7. p \in o.mark .. Flowed /\ delta \in 0 .. p - o.mark
    BY <1>1, <2>1, <2>3, <2>4, <2>5
  <2>8. QED  BY <2>6, <2>7 DEF a
<1>4. QED  BY <1>2, <1>3

LEMMA UpdateFollows ==
    ASSUME meterBase \in Nat, register \in Nat, NEW c, Sound(c), OnMeter(c),
           NEW m \in Nat \union {Missing}, m # Missing => m <= register, NEW d \in Days
    PROVE  Update(c, m, d) = c \/ Follows(Update(c, m, d), c)
<1>1. CASE OutOfOrder(c, d)
  BY <1>1 DEF Update
<1>2. CASE ~OutOfOrder(c, d)
  <2> DEFINE o == OpenPeriods(c, d)
  <2>1. Sound(o) /\ o.mark = c.mark /\ o.high = c.high
    BY OpenPeriodsSound
  <2>2. OnMeter(o)
    BY <2>1 DEF OnMeter
  <2>3. AccountOf(o) \in Accounting!Begin(AccountOf(c))
    BY OpenPeriodsBegin
  <2>4. Update(c, m, d) = Accept(o, m)
    BY <1>2 DEF Update
  <2> HIDE DEF o
  <2>5. \E p \in o.mark .. Flowed : \E n \in 0 .. p - o.mark :
            AccountOf(Accept(o, m)) = Accounting!Taken(AccountOf(o), p, n)
    BY <2>1, <2>2, AcceptTakes
  <2>6. AccountOf(o).upto = o.mark
    BY DEF AccountOf
  <2>7. QED  BY <2>3, <2>4, <2>5, <2>6 DEF Follows
<1>3. QED  BY <1>1, <1>2

(* A confirmed meter takes nothing: the account continues at what it shows.   *)
(* The reading that follows at once repeats it.                              *)
LEMMA ConfirmFollows ==
    ASSUME meterBase \in Nat, register \in Nat, NEW c, Sound(c), c.mark <= meterBase,
           NEW m \in Nat, m <= register, NEW d \in Days
    PROVE  Follows(Update(Confirm(c, m, d), m, d), c)
<1> DEFINE o == OpenPeriods(c, d)
           k == Confirm(c, m, d)
           u == OpenPeriods(k, d)
           e == Accept(u, m)
           p == meterBase + m
<1>0. Sound(o) /\ o.mark = c.mark /\ o.day = d
  BY OpenPeriodsSound
<1>1. Sound(o) /\ o.mark = c.mark /\ o.day = d /\ o.month = MonthOf[d]
  <2>1. o.month = MonthOf[d]
    BY DEF OpenPeriods, Sound, Counters
  <2>2. QED  BY <1>0, <2>1
<1>2. AccountOf(o) \in Accounting!Begin(AccountOf(c))
  BY OpenPeriodsBegin
<1>3. k = [o EXCEPT !.high = m, !.pending = FALSE, !.generation = @ + 1, !.mark = p]
  BY DEF Confirm
<1>4. d \in Nat /\ MonthOf[d] \in Nat
  BY FlowAssumption DEF Days
<1>5. c.mark \in Nat /\ o.today \in Nat /\ o.this_month \in Nat
  BY <1>1 DEF Sound, Counters
<1> HIDE DEF o, k, u, e, p
<1>6. /\ k.today = o.today /\ k.this_month = o.this_month /\ k.high = m /\ k.mark = p
      /\ k.day = d /\ k.month = MonthOf[d] /\ k.pending = FALSE
      /\ k = [day |-> k.day, month |-> k.month, high |-> k.high, today |-> k.today,
              this_month |-> k.this_month, pending |-> k.pending,
              generation |-> k.generation, mark |-> k.mark]
  BY <1>1, <1>3 DEF Sound, Counters
<1>7. ~OutOfOrder(k, d)
  BY <1>4, <1>6 DEF OutOfOrder
<1>8. u.today = k.today /\ u.this_month = k.this_month /\ u.high = m /\ u.mark = p
      /\ u.pending = FALSE
      /\ u = [day |-> u.day, month |-> u.month, high |-> u.high, today |-> u.today,
              this_month |-> u.this_month, pending |-> u.pending,
              generation |-> u.generation, mark |-> u.mark]
  BY <1>6 DEF u, OpenPeriods
<1>9. e.today = o.today /\ e.this_month = o.this_month /\ e.mark = p
  <2>1. ~(m = Missing \/ m < u.high)
    BY <1>8 DEF Missing
  <2>2. (IF u.high # Missing /\ ~u.pending THEN m - u.high ELSE 0) = 0
    BY <1>8 DEF Missing
  <2>3. e = [u EXCEPT !.today = @ + 0, !.this_month = @ + 0,
                      !.high = m, !.pending = FALSE, !.mark = p]
    BY <2>1, <2>2 DEF e, Accept, p
  <2>4. e.today = u.today + 0 /\ e.this_month = u.this_month + 0 /\ e.mark = p
    BY <1>8, <2>3
  <2>5. QED  BY <1>5, <1>6, <1>8, <2>4
<1>10. Update(k, m, d) = e
  BY <1>7 DEF Update, e, u
<1>11. AccountOf(e) = Accounting!Taken(AccountOf(o), p, 0)
  BY <1>5, <1>9 DEF AccountOf, Accounting!Taken
<1>12. /\ AccountOf(o).upto = c.mark
       /\ p \in c.mark .. Flowed /\ 0 \in 0 .. p - c.mark
  BY <1>1, <1>5 DEF p, Flowed, AccountOf
<1>13. QED  BY <1>2, <1>10, <1>11, <1>12 DEF Follows, k

-----------------------------------------------------------------------------
LEMMA AccountingInit == Init => Accounting!Init
BY DEF Init, Accounting!Init, Accounting!Nothing, AccountOf, NewCounter, Flowed

\* What the world does is use of energy, or nothing the account knows of.
LEMMA WorldImplements ==
    ASSUME IInv, Consume \/ AdvanceDay \/ ClockSetBack \/ ReplaceMeter \/ Rebind
    PROVE  [Accounting!Next]_(Accounting!vars)
<1>1. UNCHANGED <<counter, file>>
  BY DEF Consume, AdvanceDay, ClockSetBack, ReplaceMeter, Rebind
<1>2. Flowed' > Flowed \/ Flowed' = Flowed
  BY DEF IInv, TypeOK, Consume, AdvanceDay, ClockSetBack, ReplaceMeter, Rebind, Flowed
<1>3. UNCHANGED <<AccountOf(counter), AccountOf(file)>>
  BY <1>1 DEF AccountOf
<1>4. QED  BY <1>2, <1>3 DEF Accounting!Next, Accounting!Use, Accounting!vars

\* Every handler accounts, saves, resumes, or leaves the account alone.
LEMMA HandlerImplements ==
    ASSUME IInv, SourceChanged \/ Tick \/ ConfirmReset \/ WriteStore \/ Stop \/ Start
    PROVE  [Accounting!Next]_(Accounting!vars)
<1>0. /\ register \in Nat /\ meterBase \in Nat /\ date \in Days
      /\ reported \in Nat \union {Missing} /\ (reported # Missing => reported <= register)
      /\ Sound(counter) /\ (running => OnMeter(counter))
  BY DEF IInv, TypeOK
<1>1. Flowed' = Flowed
  BY DEF SourceChanged, Tick, ConfirmReset, WriteStore, Stop, Start, world, Flowed
<1>2. ASSUME counter' = counter \/ Follows(counter', counter), file' = file
      PROVE  [Accounting!Next]_(Accounting!vars)
  <2>1. CASE counter' = counter
    <3>1. UNCHANGED <<AccountOf(counter), AccountOf(file)>>
      BY <1>2, <2>1 DEF AccountOf
    <3>2. QED  BY <1>1, <3>1 DEF Accounting!vars
  <2>2. CASE Follows(counter', counter)
    <3>1. AccountOf(file)' = AccountOf(file)
      BY <1>2 DEF AccountOf
    <3>2. AccountOf(counter)' = AccountOf(counter')
      BY DEF AccountOf
    <3>3. QED  BY <1>1, <2>2, <3>1, <3>2
               DEF Follows, Accounting!Next, Accounting!Account
  <2>3. QED  BY <1>2, <2>1, <2>2
<1>3. ASSUME running, NEW m \in Nat \union {Missing}, m # Missing => m <= register,
             NEW d \in Days, ReadFlows(m, d)
      PROVE  counter' = counter \/ Follows(counter', counter)
  <2>1. PICK k \in {m, Missing} : counter' = Update(counter, k, date)
    BY <1>3 DEF ReadFlows
  <2>2. k \in Nat \union {Missing} /\ (k # Missing => k <= register)
    BY <1>3, <2>1
  <2>3. QED  BY <1>0, <1>3, <2>1, <2>2, UpdateFollows
<1>4. CASE SourceChanged
  <2>1. PICK m \in {register, Missing} \union 0 .. register :
            IF running THEN ReadFlows(m, date) ELSE UNCHANGED counter
    BY <1>4 DEF SourceChanged
  <2>2. m \in Nat \union {Missing} /\ (m # Missing => m <= register)
    BY <1>0, <2>1
  <2>3. file' = file
    BY <1>4 DEF SourceChanged
  <2>4. CASE running
    BY <1>0, <1>2, <1>3, <2>1, <2>2, <2>3, <2>4
  <2>5. CASE ~running
    BY <1>2, <2>1, <2>3, <2>5
  <2>6. QED  BY <2>4, <2>5
<1>5. CASE Tick
  <2>1. running /\ file' = file /\ reportedDay \in Days
    BY <1>5 DEF Tick, IInv, TypeOK
  <2>2. PICK m \in {reported, Missing} : ReadFlows(m, reportedDay)
    BY <1>5 DEF Tick
  <2>3. m \in Nat \union {Missing} /\ (m # Missing => m <= register)
    BY <1>0, <2>2
  <2>4. QED  BY <1>2, <1>3, <2>1, <2>2, <2>3
<1>6. CASE ConfirmReset
  <2>1. /\ reported \in Nat /\ reported <= register /\ counter.mark <= meterBase
        /\ counter' = Update(Confirm(counter, reported, date), reported, date)
        /\ file' = file
    BY <1>0, <1>6 DEF ConfirmReset, GenuineReplacement
  <2>2. QED  BY <1>0, <1>2, <2>1, ConfirmFollows
<1>7. CASE WriteStore
  <2>1. file' = counter /\ counter' = counter
    BY <1>7 DEF WriteStore
  <2>2. AccountOf(file)' = AccountOf(counter) /\ AccountOf(counter)' = AccountOf(counter)
    BY <2>1 DEF AccountOf
  <2>3. QED  BY <1>1, <2>2 DEF Accounting!Next, Accounting!Save
<1>8. CASE Stop \/ Start
  <2>1. counter' \in {NewCounter, file} /\ file' = file
    BY <1>8 DEF Stop, Start
  <2>2. /\ AccountOf(counter)' \in {AccountOf(file), Accounting!Nothing}
        /\ AccountOf(file)' = AccountOf(file)
    BY <2>1 DEF AccountOf, NewCounter, Accounting!Nothing
  <2>3. QED  BY <1>1, <2>2 DEF Accounting!Next, Accounting!Resume
<1>9. QED  BY <1>4, <1>5, <1>6, <1>7, <1>8

(* The flow counter implements the abstract account of energy: over dips and *)
(* recoveries, midnights, a clock set back, exchanged meters, another source *)
(* and restarts, each step takes a piece of energy that follows what was     *)
(* accounted for, saves or takes up an account, or leaves it as it is.       *)
THEOREM FlowImplementsAccounting == Spec => ImplementsAccounting
<1>1. Init => Accounting!Init
  BY AccountingInit
<1>2. IInv /\ [Next]_vars => [Accounting!Next]_(Accounting!vars)
  <2> SUFFICES ASSUME IInv, [Next]_vars
               PROVE  [Accounting!Next]_(Accounting!vars)
    OBVIOUS
  <2>1. CASE UNCHANGED vars
    <3>1. UNCHANGED <<Flowed, AccountOf(counter), AccountOf(file)>>
      BY <2>1 DEF vars, Flowed, AccountOf
    <3>2. QED  BY <3>1 DEF Accounting!vars
  <2>2. CASE Next
    BY <2>2, WorldImplements, HandlerImplements DEF Next
  <2>3. QED  BY <2>1, <2>2
<1>3. QED  BY <1>1, <1>2, SpecInv, PTL DEF Spec, ImplementsAccounting, Accounting!Spec
=================================================================================
