-------------------------- MODULE StatisticsEngine --------------------------
(***************************************************************************)
(* The pure accumulators of statistics_engine.py.  A snapshot is what the  *)
(* coordinator persists: the period it belongs to, the last accepted       *)
(* reading and the value accumulated in the period.  Readings are natural  *)
(* numbers (kWh in the smallest step the source reports); Missing stands   *)
(* for a reading the provider could not normalise (None).                  *)
(***************************************************************************)
EXTENDS Integers

Missing  == -1      \* no valid reading
NoPeriod == -1      \* the period of a snapshot that does not exist

Snapshot(period, last, value) ==
    [period |-> period, last |-> last, value |-> value]

NoSnapshot == Snapshot(NoPeriod, 0, 0)

Exists(snap) == snap.period # NoPeriod

\* The snapshots of the periods in Periods, or none.
SnapshotOf(Periods) == [period : Periods, last : Nat, value : Nat] \union {NoSnapshot}

-----------------------------------------------------------------------------
(* CumulativeStatistic.update: the first reading is the baseline; later ones *)
(* add their increase, or themselves when the source restarted.              *)
CumulativeUpdate(snap, m, period) ==
    LET delta == IF m >= snap.last THEN m - snap.last ELSE m
    IN  Snapshot(period, m,
                 IF ~Exists(snap) THEN 0
                 ELSE IF snap.period = period THEN snap.value + delta ELSE delta)

-----------------------------------------------------------------------------
\* A reading below the last accepted one: stale or backward.
IsBackward(snap, m) == Exists(snap) /\ m < snap.last

\* DailyConsumptionFromTotal.update that trusts a backward reading.
DailyUpdateTrusting(snap, m, day) ==
    Snapshot(day, m,
             IF snap.period # day THEN 0
             ELSE IF m < snap.last THEN snap.value
             ELSE snap.value + (m - snap.last))

(* DailyConsumptionFromTotal.update: the first reading of a day is its      *)
(* baseline, a backward reading adds nothing and never lowers the baseline. *)
DailyUpdate(snap, m, day) ==
    Snapshot(day,
             IF IsBackward(snap, m) THEN snap.last ELSE m,
             IF snap.period # day THEN 0
             ELSE IF IsBackward(snap, m) THEN snap.value
             ELSE snap.value + (m - snap.last))

-----------------------------------------------------------------------------
\* DailyConsumptionFromTotal.reset refuses the reading at midnight.
ResetRejects(snap, m) == Exists(snap) /\ (m = Missing \/ m < snap.last)

\* DailyConsumptionFromTotal.reset that forgets the baseline when the source is missing.
DailyResetForgetting(snap, m, day) ==
    IF m = Missing THEN NoSnapshot ELSE Snapshot(day, m, 0)

(* DailyConsumptionFromTotal.reset: a new day starts at zero from the       *)
(* reading at midnight, or from the trusted baseline when that reading is   *)
(* missing or backward.                                                     *)
DailyReset(snap, m, day) ==
    IF ResetRejects(snap, m) THEN Snapshot(day, snap.last, 0)
    ELSE IF m = Missing THEN NoSnapshot
    ELSE Snapshot(day, m, 0)

(* DailyConsumptionFromTotal.confirm_meter_reset: the confirmed reading is  *)
(* the baseline; energy already known for the day is kept.                  *)
DailyConfirm(snap, m, day) ==
    Snapshot(day, m, IF snap.period = day THEN snap.value ELSE 0)
=============================================================================
