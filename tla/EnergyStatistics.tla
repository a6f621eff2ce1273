-------------------------- MODULE EnergyStatistics --------------------------
(***************************************************************************)
(* Energy today and Energy this month for a lifetime meter, as the         *)
(* coordinator keeps them (coordinator.py): the reading handler, the       *)
(* midnight callback, the two user actions, the delayed save, unload,      *)
(* crash and restart.                                                      *)
(*                                                                         *)
(* Home Assistant runs every handler to completion on one event loop, so a *)
(* handler is one action; what interleaves is the order of handlers.  The  *)
(* midnight callback fires shortly after local midnight: readings can      *)
(* arrive on the new day before it (rolloverDue).                          *)
(*                                                                         *)
(* The physical truth is kept beside the code's state in history           *)
(* variables: how much energy the installation has used, and at which      *)
(* point of that consumption the code's baselines were read (audit).       *)
(***************************************************************************)
EXTENDS StatisticsEngine

CONSTANTS
    MaxDay,      \* bound: the last local day explored, days count from 0
    MaxEnergy,   \* bound: the energy the installation uses in all
    MonthOf,     \* the calendar month of each day
    Faults       \* what the environment may do, a subset of FaultKinds

FaultKinds == {"outage", "dip", "replacement", "restart"}

Days == 0 .. MaxDay

ASSUME EnergyAssumption ==
    /\ MaxDay \in Nat
    /\ MaxEnergy \in Nat
    /\ MonthOf \in [Days -> Nat]
    /\ Faults \subseteq FaultKinds

VARIABLES
    day,          \* the local date
    rolloverDue,  \* midnight has passed and its callback has not run yet
    phase,        \* "down", "starting" (restored, not yet listening), "running"
    register,     \* what the installed meter shows
    meterBase,    \* history: energy used before the installed meter's zero
    reported,     \* the state of the source entity: a reading, or Missing
    stats,        \* the coordinator's statistics, in memory
    audit,        \* history: the consumption points behind stats
    stored,       \* the statistics file
    storedAudit,  \* history: the audit record of the file
    savePending   \* _statistics_save_pending

environment == <<day, rolloverDue, phase, register, meterBase, reported>>
vars == <<day, rolloverDue, phase, register, meterBase, reported,
          stats, audit, stored, storedAudit, savePending>>

\* Energy used so far, and at the moment the installed meter showed m.
Used        == meterBase + register
UsedAt(m)   == meterBase + m

NoStats == [today |-> NoSnapshot, complete |-> FALSE, month |-> NoSnapshot]

(* mark: the last accepted reading; dayMark: the reading the current day    *)
(* starts from; monthMark: the one the current month starts from; midnight: *)
(* the reading taken by the midnight callback, Missing if it took none.     *)
NoAudit == [mark |-> 0, dayMark |-> 0, monthMark |-> 0, midnight |-> Missing]

-----------------------------------------------------------------------------
\* _read that keeps period completeness over a change of day.
ReadStatsKeepingComplete(s, m, d) ==
    IF m = Missing THEN s
    ELSE LET today == DailyUpdate(s.today, m, d)
         IN  [today    |-> today,
              complete |-> s.complete /\ ~IsBackward(s.today, m),
              month    |-> CumulativeUpdate(s.month, today.value, MonthOf[d])]

\* _read that feeds the lifetime reading itself to the monthly statistic.
ReadStatsFromRegister(s, m, d) ==
    IF m = Missing THEN s
    ELSE [today    |-> DailyUpdate(s.today, m, d),
          complete |-> s.complete /\ s.today.period = d /\ ~IsBackward(s.today, m),
          month    |-> CumulativeUpdate(s.month, m, MonthOf[d])]

(* The energy part of _read: the day from the meter, the month from the day. *)
ReadStats(s, m, d) ==
    IF m = Missing THEN s
    ELSE LET today == DailyUpdate(s.today, m, d)
         IN  [today    |-> today,
              complete |-> s.complete /\ s.today.period = d /\ ~IsBackward(s.today, m),
              month    |-> CumulativeUpdate(s.month, today.value, MonthOf[d])]

\* The audit record of the same reading.
ReadAudit(s, a, m, d) ==
    IF m = Missing THEN a
    ELSE LET mark     == IF IsBackward(s.today, m) THEN a.mark ELSE UsedAt(m)
             dayMark  == IF s.today.period = d THEN a.dayMark ELSE mark
         IN  [mark      |-> mark,
              dayMark   |-> dayMark,
              monthMark |-> CASE ~Exists(s.month) -> mark
                              [] s.month.period = MonthOf[d] -> a.monthMark
                              [] OTHER -> dayMark,
              midnight  |-> IF s.today.period = d THEN a.midnight ELSE Missing]

\* _read, called with the statistics and audit the handler has so far.
Read(s, a, m) ==
    /\ stats' = ReadStats(s, m, day)
    /\ audit' = ReadAudit(s, a, m, day)
    /\ savePending' = (savePending \/ m # Missing)

-----------------------------------------------------------------------------
Init ==
    /\ day = 0
    /\ rolloverDue = FALSE
    /\ phase = "starting"
    /\ register \in {0, 1}
    /\ meterBase = 0
    /\ reported = register
    /\ stats = NoStats  /\ stored = NoStats
    /\ audit = NoAudit  /\ storedAudit = NoAudit
    /\ savePending = FALSE

(* The world.  A source may lag behind the meter, report nothing (outage)    *)
(* or fall back (dip).                                                       *)
Consume ==
    /\ Used < MaxEnergy
    /\ register' = register + 1
    /\ UNCHANGED <<day, rolloverDue, phase, meterBase, reported,
                   stats, audit, stored, storedAudit, savePending>>

\* The source is unavailable while its meter is exchanged; that reading changes nothing.
ReplaceMeter ==
    /\ "replacement" \in Faults
    /\ register > 0
    /\ meterBase' = Used
    /\ register' = 0
    /\ reported' = Missing
    /\ UNCHANGED <<day, rolloverDue, phase,
                   stats, audit, stored, storedAudit, savePending>>

\* The readings the source entity may show next.
Readings ==
    {register} \union (IF "outage" \in Faults THEN {Missing} ELSE {})
               \union (IF "dip" \in Faults THEN 0 .. register ELSE {})

\* _async_source_changed: a listening entry reads a state change at once.
SourceChanged ==
    \E m \in Readings \ {reported} :
        /\ reported' = m
        /\ IF phase = "running"
           THEN Read(stats, audit, m)
           ELSE UNCHANGED <<stats, audit, savePending>>
        /\ UNCHANGED <<day, rolloverDue, phase, register, meterBase, stored, storedAudit>>

AdvanceDay ==
    /\ day < MaxDay
    /\ ~rolloverDue
    /\ day' = day + 1
    /\ rolloverDue' = (phase # "down")
    /\ UNCHANGED <<phase, register, meterBase, reported,
                   stats, audit, stored, storedAudit, savePending>>

-----------------------------------------------------------------------------
\* _async_timing_tick.
TimingTick ==
    /\ phase # "down"
    /\ Read(stats, audit, reported)
    /\ UNCHANGED <<day, rolloverDue, phase, register, meterBase, reported,
                   stored, storedAudit>>

\* The end of async_start: the listener is registered and the first reading taken.
FirstRead ==
    /\ phase = "starting"
    /\ phase' = "running"
    /\ Read(stats, audit, reported)
    /\ UNCHANGED <<day, rolloverDue, register, meterBase, reported, stored, storedAudit>>

(* The energy part of _async_daily_rollover; the month is left to the next  *)
(* reading.                                                                 *)
RolloverStats(s, m, d) ==
    [s EXCEPT !.today    = DailyReset(s.today, m, d),
              !.complete = (m # Missing /\ ~ResetRejects(s.today, m))]

RolloverAudit(s, a, m) ==
    LET mark == IF m = Missing \/ ResetRejects(s.today, m) THEN a.mark ELSE UsedAt(m)
    IN  [a EXCEPT !.mark     = mark,
                  !.dayMark  = mark,
                  !.midnight = IF m = Missing \/ ResetRejects(s.today, m)
                               THEN Missing ELSE mark]

DailyRollover ==
    /\ rolloverDue
    /\ rolloverDue' = FALSE
    /\ stats' = RolloverStats(stats, reported, day)
    /\ audit' = RolloverAudit(stats, audit, reported)
    /\ savePending' = TRUE
    /\ UNCHANGED <<day, phase, register, meterBase, reported, stored, storedAudit>>

-----------------------------------------------------------------------------
(* async_confirm_meter_reset.  The code requires a valid reading; the guide  *)
(* tells the user to act only on a genuine replacement, that is when no      *)
(* reading of the installed meter has been accepted yet.                     *)
GenuineReplacement == audit.mark <= meterBase

ConfirmMeterReset ==
    /\ phase = "running"
    /\ reported # Missing
    /\ GenuineReplacement
    /\ Read([stats EXCEPT !.today    = DailyConfirm(stats.today, reported, day),
                          !.complete = FALSE],
            [audit EXCEPT !.mark    = UsedAt(reported),
                          !.dayMark = IF stats.today.period = day
                                      THEN audit.dayMark ELSE UsedAt(reported)],
            reported)
    /\ UNCHANGED <<day, rolloverDue, phase, register, meterBase, reported,
                   stored, storedAudit>>

(* async_reset_monthly_energy: a fresh baseline from today's value.  With no *)
(* valid reading the action is refused and _read changed nothing.            *)
ResetMonthlyEnergy ==
    /\ phase = "running"
    /\ reported # Missing
    /\ LET s == ReadStats(stats, reported, day)
           a == ReadAudit(stats, audit, reported, day)
       IN  /\ stats' = [s EXCEPT !.month =
                            CumulativeUpdate(NoSnapshot, s.today.value, MonthOf[day])]
           /\ audit' = [a EXCEPT !.monthMark = a.mark]
    /\ savePending' = TRUE
    /\ UNCHANGED <<day, rolloverDue, phase, register, meterBase, reported,
                   stored, storedAudit>>

-----------------------------------------------------------------------------
\* The Store writes; _statistics_data_for_save captures the state of that moment.
WriteStore ==
    /\ phase # "down"
    /\ savePending
    /\ stored' = stats
    /\ storedAudit' = audit
    /\ savePending' = FALSE
    /\ UNCHANGED <<day, rolloverDue, phase, register, meterBase, reported, stats, audit>>

\* Unload or an orderly stop: _async_save_statistics flushes the latest state.
Unload ==
    /\ "restart" \in Faults
    /\ phase = "running"
    /\ phase' = "down"
    /\ rolloverDue' = FALSE
    /\ stored' = stats
    /\ storedAudit' = audit
    /\ savePending' = FALSE
    /\ UNCHANGED <<day, register, meterBase, reported, stats, audit>>

\* A crash or a power cut: whatever was not written is lost.
Crash ==
    /\ "restart" \in Faults
    /\ phase # "down"
    /\ phase' = "down"
    /\ rolloverDue' = FALSE
    /\ savePending' = FALSE
    /\ UNCHANGED <<day, register, meterBase, reported, stats, audit, stored, storedAudit>>

\* _async_restore_statistics with an unchanged source.
Restore ==
    /\ phase = "down"
    /\ phase' = "starting"
    /\ stats' = stored
    /\ audit' = storedAudit
    /\ UNCHANGED <<day, rolloverDue, register, meterBase, reported,
                   stored, storedAudit, savePending>>

-----------------------------------------------------------------------------
Next ==
    \/ Consume \/ ReplaceMeter \/ SourceChanged \/ AdvanceDay
    \/ TimingTick \/ FirstRead \/ DailyRollover
    \/ ConfirmMeterReset \/ ResetMonthlyEnergy
    \/ WriteStore \/ Unload \/ Crash \/ Restore

Spec == Init /\ [][Next]_vars

-----------------------------------------------------------------------------
Statistics ==
    [today    : SnapshotOf(Days),
     complete : BOOLEAN,
     month    : SnapshotOf(Nat)]

Audits == [mark : Nat, dayMark : Nat, monthMark : Nat, midnight : Nat \union {Missing}]

\* Every variable keeps its type.
TypeOK ==
    /\ day \in Days
    /\ rolloverDue \in BOOLEAN
    /\ phase \in {"down", "starting", "running"}
    /\ register \in Nat
    /\ meterBase \in Nat
    /\ reported \in Nat \union {Missing}
    /\ stats \in Statistics
    /\ stored \in Statistics
    /\ audit \in Audits
    /\ storedAudit \in Audits
    /\ savePending \in BOOLEAN

(* Dips, recoveries, outages, meter replacements, restarts from an old file  *)
(* and readings on either side of the midnight callback never make Energy    *)
(* today exceed what was used since the reading the day started from.        *)
TodayNeverOvercounts ==
    Exists(stats.today) => stats.today.value <= Used - audit.dayMark

(* Nor Energy this month, since the reading its first day started from: no   *)
(* unit of energy enters the month twice, although the month is fed with a   *)
(* daily value that itself falls back to zero at midnight.                   *)
MonthNeverOvercounts ==
    Exists(stats.month) => stats.month.value <= Used - audit.monthMark

(* A day published with period_complete holds exactly the energy metered     *)
(* since the midnight callback read its baseline: no rejected reading,       *)
(* restart or race with the callback leaves the flag on a day with a hole.   *)
(* (A meter exchanged unseen is beyond any check: meterBase = 0.)            *)
CompleteDayIsExact ==
    (stats.complete /\ stats.today.period = day /\ meterBase = 0) =>
        /\ audit.midnight # Missing
        /\ stats.today.value = audit.mark - audit.midnight

(* Only a confirmed replacement, or a restart from an older file, lowers the *)
(* trusted meter baseline: no reading, missing reading or midnight does.     *)
BaselineOnlyLoweredByUser ==
    [][(Exists(stats.today) /\ stats'.today.last < stats.today.last)
       => (ConfirmMeterReset \/ Restore)]_vars
=============================================================================
