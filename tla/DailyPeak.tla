------------------------------ MODULE DailyPeak ------------------------------
(***************************************************************************)
(* The highest power of the local day: DailyPeakStatistic as the           *)
(* coordinator feeds it, clears it at midnight, saves and restores it.     *)
(*                                                                         *)
(* Home Assistant runs the midnight callback up to half a second after     *)
(* midnight.  A power event that arrives in between is read on the new day *)
(* before the callback runs: midnightDue spans that window.                *)
(***************************************************************************)
EXTENDS PeakSensors

CONSTANTS
    MaxDay,     \* bound: the last local day
    MaxPower    \* bound: the highest power the source reports

ASSUME PeakAssumption == MaxDay \in Nat /\ MaxPower \in Nat

Days    == 0 .. MaxDay
Powers  == 0 .. MaxPower
Missing == -1         \* no usable power reading

VARIABLES
    power,        \* the state of the power entity, Missing when unavailable
    peak,         \* the snapshot in memory
    file          \* the snapshot in the statistics file

vars == <<date, power, running, midnightDue, peak, published, file, since, highest>>

Higher(a, b) == IF a > b THEN a ELSE b

-----------------------------------------------------------------------------
\* update that keeps the latest reading instead of the highest.
UpdateLatest(p, w, d) == [day |-> d, watts |-> w]

\* DailyPeakStatistic.update.
Update(p, w, d) ==
    IF p.day = d /\ w <= p.watts THEN p ELSE [day |-> d, watts |-> w]

Init ==
    /\ date = 0 /\ power = Missing
    /\ running = TRUE /\ midnightDue = FALSE
    /\ peak = NoPeak /\ published = NoPeak /\ file = NoPeak
    /\ since = Missing
    /\ highest = [d \in Days |-> Missing]

(* _read on the power w: a missing or negative reading changes nothing, and  *)
(* the current snapshot is published, whatever day it belongs to.            *)
Read(w) ==
    /\ peak' = IF w = Missing THEN peak ELSE Update(peak, w, date)
    /\ published' = peak'
    /\ since' = Higher(since, w)
    /\ highest' = [highest EXCEPT ![date] = Higher(@, w)]

SourceChanged ==
    /\ \E w \in Powers \union {Missing} :
          /\ power' = w
          /\ IF running THEN Read(w) ELSE UNCHANGED <<peak, published, since, highest>>
    /\ UNCHANGED <<date, running, midnightDue, file>>

\* A timing tick reads the unchanged sources.
Tick ==
    /\ running
    /\ Read(power)
    /\ UNCHANGED <<date, power, running, midnightDue, file>>

\* The callback of the previous midnight has long run when the next one comes.
Midnight ==
    /\ date < MaxDay
    /\ ~midnightDue
    /\ date' = date + 1
    /\ midnightDue' = running
    /\ since' = Missing
    /\ UNCHANGED <<power, running, peak, published, file, highest>>

\* A callback that clears the snapshot without telling the sensors.
DailyRolloverSilent ==
    /\ running /\ midnightDue
    /\ midnightDue' = FALSE
    /\ peak' = NoPeak
    /\ since' = Missing
    /\ UNCHANGED <<date, power, running, published, file, highest>>

(* _async_daily_rollover: clear the snapshot, and update the published data  *)
(* if there was one to clear.  The save it asks for is a later WriteStore.   *)
DailyRollover ==
    /\ running /\ midnightDue
    /\ midnightDue' = FALSE
    /\ peak' = NoPeak
    /\ published' = IF peak # NoPeak THEN NoPeak ELSE published
    /\ since' = Missing
    /\ UNCHANGED <<date, power, running, file, highest>>

\* The scheduled save runs.
WriteStore ==
    /\ running
    /\ file' = peak
    /\ UNCHANGED <<date, power, running, midnightDue, peak, published, since, highest>>

\* Unloading cancels the callback and saves.
Unload ==
    /\ running
    /\ running' = FALSE /\ midnightDue' = FALSE
    /\ file' = peak
    /\ peak' = NoPeak /\ published' = NoPeak
    /\ UNCHANGED <<date, power, since, highest>>

Crash ==
    /\ running
    /\ running' = FALSE /\ midnightDue' = FALSE
    /\ peak' = NoPeak /\ published' = NoPeak
    /\ since' = Missing
    /\ UNCHANGED <<date, power, file, highest>>

\* _async_restore_statistics keeps the snapshot of the current day only.
Restored(d) == IF file.day = d THEN file ELSE NoPeak

\* async_start: restore, then a first read.
Start ==
    /\ ~running
    /\ running' = TRUE
    /\ LET p == Restored(date)
       IN  peak' = IF power = Missing THEN p ELSE Update(p, power, date)
    /\ published' = peak'
    /\ since' = Higher(since, power)
    /\ highest' = [highest EXCEPT ![date] = Higher(@, power)]
    /\ UNCHANGED <<date, power, midnightDue, file>>

Next ==
    \/ SourceChanged \/ Tick \/ Midnight \/ DailyRollover
    \/ WriteStore \/ Unload \/ Crash \/ Start

Spec == Init /\ [][Next]_vars
=============================================================================
