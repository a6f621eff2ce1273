----------------------------- MODULE FlowCounter -----------------------------
(***************************************************************************)
(* One directional energy channel (production, export or household): the   *)
(* FlowCounter of energy_flows.py as the coordinator drives it, with its   *)
(* copy in the statistics file.                                            *)
(*                                                                         *)
(* The clock is the local date.  It may be set back (the code has a branch *)
(* for it), the source may be silent, fall back, be exchanged, or be       *)
(* replaced by another source while the entry is unloaded.                 *)
(***************************************************************************)
EXTENDS Integers

CONSTANTS
    MaxDay,      \* bound: the last local day explored
    MaxEnergy,   \* bound: the energy that flows in all
    MaxResets,   \* bound: confirmed meter replacements
    MonthOf,     \* the calendar month of each day
    Faults       \* a subset of FaultKinds

FaultKinds == {"dip", "clock", "replacement", "rebind"}

Days == 0 .. MaxDay

ASSUME FlowAssumption ==
    /\ MaxDay \in Nat
    /\ MaxEnergy \in Nat
    /\ MaxResets \in Nat
    /\ MonthOf \in [Days -> Nat]
    /\ Faults \subseteq FaultKinds

Missing == -1    \* no reading, and no high-water mark
NoDay   == -1    \* no period yet

VARIABLES
    date,         \* the local date the clock shows
    latest,       \* history: the latest date it has shown
    dayStart,     \* history: energy that had flowed when each day began
    register,     \* what the source's meter shows
    meterBase,    \* history: energy that had flowed at the meter's zero
    reported,     \* the state of the source entity: a reading, or Missing
    reportedDay,  \* the local date of that reading (0 when there is none)
    binding,      \* the scope of the configured source (_flow_scope)
    honest,       \* history: the source has never shown less than its meter
    running,      \* the entry is loaded
    counter,      \* the FlowCounter in memory
    file,         \* the FlowCounter in the statistics file
    fileBinding   \* the scope saved with it

world == <<date, latest, dayStart, register, meterBase, reported, reportedDay, binding,
           honest>>
vars  == <<date, latest, dayStart, register, meterBase, reported, reportedDay, binding,
           honest, running, counter, file, fileBinding>>

Flowed == meterBase + register

\* mark is history: the energy that had flowed at the last accepted reading.
NewCounter ==
    [day |-> NoDay, month |-> NoDay, high |-> Missing, today |-> 0, this_month |-> 0,
     pending |-> TRUE, generation |-> 0, mark |-> 0]

-----------------------------------------------------------------------------
OutOfOrder(c, d) == c.day # NoDay /\ d < c.day

\* Opening a new day without noting that its baseline is still to come.
OpenPeriodsNotPending(c, d) ==
    [c EXCEPT !.day = d,
              !.month = MonthOf[d],
              !.today = IF c.day = d THEN @ ELSE 0,
              !.this_month = IF c.month = MonthOf[d] THEN @ ELSE 0]

\* Opening a new day that leaves the month's label to the next reading.
OpenPeriodsDayOnly(c, d) ==
    [c EXCEPT !.day = d,
              !.today = IF c.day = d THEN @ ELSE 0,
              !.pending = (@ \/ c.day # d)]

(* The first half of update: a new day or month starts at zero, and the     *)
(* first reading of a day is only its baseline.                             *)
OpenPeriods(c, d) ==
    [c EXCEPT !.day = d,
              !.month = MonthOf[d],
              !.today = IF c.day = d THEN @ ELSE 0,
              !.this_month = IF c.month = MonthOf[d] THEN @ ELSE 0,
              !.pending = (@ \/ c.day # d)]

\* Accepting every reading, also one below the high-water mark.
AcceptAny(c, m) ==
    IF m = Missing THEN c
    ELSE LET delta == IF c.high # Missing /\ ~c.pending /\ m >= c.high THEN m - c.high ELSE 0
         IN  [c EXCEPT !.today = @ + delta, !.this_month = @ + delta,
                       !.high = m, !.pending = FALSE, !.mark = meterBase + m]

(* The second half: a missing or backward reading adds nothing, a baseline  *)
(* adds nothing, any other reading adds its increase to both totals.        *)
Accept(c, m) ==
    IF m = Missing \/ m < c.high THEN c
    ELSE LET delta == IF c.high # Missing /\ ~c.pending THEN m - c.high ELSE 0
         IN  [c EXCEPT !.today = @ + delta, !.this_month = @ + delta,
                       !.high = m, !.pending = FALSE, !.mark = meterBase + m]

\* FlowCounter.update.
Update(c, m, d) == IF OutOfOrder(c, d) THEN c ELSE Accept(OpenPeriods(c, d), m)

\* confirm_reset that forgets to open a new meter generation.
ConfirmSameGeneration(c, m, d) ==
    [OpenPeriods(c, d) EXCEPT !.high = m, !.pending = FALSE, !.mark = meterBase + m]

\* FlowCounter.confirm_reset, called when the clock is not behind the counter.
Confirm(c, m, d) ==
    [OpenPeriods(c, d) EXCEPT !.high = m, !.pending = FALSE, !.generation = @ + 1,
                              !.mark = meterBase + m]

\* from_dict accepts what as_dict wrote: the month is the day's.
Restorable(c) ==
    /\ c.month = IF c.day = NoDay THEN NoDay ELSE MonthOf[c.day]
    /\ c.today >= 0 /\ c.this_month >= 0 /\ c.generation >= 0

-----------------------------------------------------------------------------
Init ==
    /\ date = 0 /\ latest = 0
    /\ dayStart = [d \in Days |-> 0]
    /\ register = 0 /\ meterBase = 0
    /\ reported = Missing /\ reportedDay = 0
    /\ binding = 1 /\ honest = TRUE
    /\ running = TRUE
    /\ counter = NewCounter
    /\ file = NewCounter /\ fileBinding = 1

Consume ==
    /\ Flowed < MaxEnergy
    /\ register' = register + 1
    /\ UNCHANGED <<date, latest, dayStart, meterBase, reported, reportedDay, binding,
                   honest, running, counter, file, fileBinding>>

\* The clock enters the next local day, for the first time or once more.
AdvanceDay ==
    /\ date < MaxDay
    /\ date' = date + 1
    /\ latest' = IF date' > latest THEN date' ELSE latest
    /\ dayStart' = IF date' > latest THEN [dayStart EXCEPT ![date'] = Flowed] ELSE dayStart
    /\ UNCHANGED <<register, meterBase, reported, reportedDay, binding,
                   honest, running, counter, file, fileBinding>>

ClockSetBack ==
    /\ "clock" \in Faults
    /\ date > 0
    /\ date' = date - 1
    /\ UNCHANGED <<latest, dayStart, register, meterBase, reported, reportedDay, binding,
                   honest, running, counter, file, fileBinding>>

ReplaceMeter ==
    /\ "replacement" \in Faults
    /\ register > 0
    /\ meterBase' = Flowed
    /\ register' = 0
    /\ reported' = Missing /\ reportedDay' = 0
    /\ UNCHANGED <<date, latest, dayStart, binding,
                   honest, running, counter, file, fileBinding>>

\* The user configures another source while the entry is unloaded.
Rebind ==
    /\ "rebind" \in Faults
    /\ ~running /\ binding = 1
    /\ binding' = 2
    /\ \E r \in 0 .. Flowed : register' = r /\ meterBase' = Flowed - r
    /\ reported' = Missing /\ reportedDay' = 0
    /\ UNCHANGED <<date, latest, dayStart, honest, running, counter, file, fileBinding>>

-----------------------------------------------------------------------------
(* _read_flows on the reading m: a reading received on another day, or too   *)
(* old, counts as missing.                                                   *)
ReadFlows(m, d) ==
    counter' = Update(counter, IF d = date THEN m ELSE Missing, date)

SourceChanged ==
    \E m \in {register, Missing} \union (IF "dip" \in Faults THEN 0 .. register ELSE {}) :
        /\ reported' = m
        /\ reportedDay' = IF m = Missing THEN 0 ELSE date
        /\ honest' = (honest /\ m \in {register, Missing})
        /\ IF running THEN ReadFlows(m, date) ELSE UNCHANGED counter
        /\ UNCHANGED <<date, latest, dayStart, register, meterBase, binding,
                       running, file, fileBinding>>

\* A timing tick or the midnight callback reads the flows; the state may be stale.
Tick ==
    /\ running
    /\ \E m \in {reported, Missing} : ReadFlows(m, reportedDay)
    /\ UNCHANGED <<world, running, file, fileBinding>>

GenuineReplacement == "replacement" \in Faults /\ counter.mark <= meterBase

(* async_confirm_flow_meter_reset: a fresh reading received today, a clock   *)
(* not behind the counter, and (the guide's part) a genuine replacement,     *)
(* whose meter no accepted reading belongs to yet.                           *)
ConfirmReset ==
    /\ running
    /\ reported # Missing /\ reportedDay = date
    /\ ~OutOfOrder(counter, date)
    /\ counter.generation < MaxResets
    /\ GenuineReplacement
    /\ counter' = Update(Confirm(counter, reported, date), reported, date)
    /\ UNCHANGED <<world, running, file, fileBinding>>

WriteStore ==
    /\ running
    /\ file' = counter
    /\ fileBinding' = binding
    /\ UNCHANGED <<world, running, counter>>

Stop ==
    /\ running
    /\ running' = FALSE
    /\ counter' = NewCounter
    /\ UNCHANGED <<world, file, fileBinding>>

\* A restart that takes the file's counter for any source's.
StartAnySource ==
    /\ ~running
    /\ running' = TRUE
    /\ counter' = IF Restorable(file) THEN file ELSE NewCounter
    /\ UNCHANGED <<world, file, fileBinding>>

\* _async_restore_statistics: the file counts only for the same source.
Start ==
    /\ ~running
    /\ running' = TRUE
    /\ counter' = IF fileBinding = binding /\ Restorable(file) THEN file ELSE NewCounter
    /\ UNCHANGED <<world, file, fileBinding>>

Next ==
    \/ Consume \/ AdvanceDay \/ ClockSetBack \/ ReplaceMeter \/ Rebind
    \/ SourceChanged \/ Tick \/ ConfirmReset \/ WriteStore \/ Stop \/ Start

Spec == Init /\ [][Next]_vars

-----------------------------------------------------------------------------
Counters ==
    [day : Days \union {NoDay}, month : Nat \union {NoDay}, high : Nat \union {Missing},
     today : Nat, this_month : Nat, pending : BOOLEAN, generation : Nat, mark : Nat]

\* Every variable keeps its type.
TypeOK ==
    /\ date \in Days /\ latest \in Days
    /\ dayStart \in [Days -> Nat]
    /\ register \in Nat /\ meterBase \in Nat
    /\ reported \in Nat \union {Missing}
    /\ reportedDay \in Days
    /\ binding \in {1, 2} /\ fileBinding \in {1, 2}
    /\ honest \in BOOLEAN /\ running \in BOOLEAN
    /\ counter \in Counters /\ file \in Counters

(* "At a local calendar-day boundary, the first accepted reading [...]       *)
(* establishes a fresh daily baseline": as long as the source has not fallen  *)
(* back, today never holds energy that flowed before its day began, over     *)
(* outages, clock changes, exchanged meters, other sources and restarts.     *)
DayHoldsOnlyItsOwnEnergy ==
    honest /\ counter.day # NoDay => counter.today <= Flowed - dayStart[counter.day]

(* Dips and their recovery, even over a restart from an older file, never    *)
(* book the same energy twice: the month holds no more than has flowed.      *)
NothingBookedTwice == counter.this_month <= Flowed

\* The day's total is always part of the month's.
DayWithinMonth == counter.today <= counter.this_month

(* Whatever the coordinator wrote, from_dict accepts: no order of days,      *)
(* clock changes and confirmations leaves a counter that a restart drops.    *)
RestartKeepsCounter == Restorable(file)

(* While the entry is loaded, the trusted high-water mark falls only when    *)
(* the user confirms a new meter, which opens a new generation.              *)
HighWaterOnlyLoweredByUser ==
    [][running /\ running' /\ counter'.high < counter.high
         => counter'.generation = counter.generation + 1]_vars

AccountOf(c) == [day |-> c.today, month |-> c.this_month, upto |-> c.mark]

Accounting == INSTANCE EnergyAccounting
                  WITH used <- Flowed, account <- AccountOf(counter), saved <- AccountOf(file)

(* The counter implements the abstract account: dips, recoveries, midnights, *)
(* a clock set back, confirmed and silent changes of the meter, another      *)
(* source and restarts are steps that take each unit of energy at most once  *)
(* and in its order, or that take nothing.                                   *)
ImplementsAccounting == Accounting!Spec
=============================================================================
