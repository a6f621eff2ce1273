----------------------------- MODULE PeakSensors -----------------------------
(***************************************************************************)
(* What the daily peak sensors promise, of the snapshot that is published  *)
(* and what was read of the power source.  DailyPeak is how they keep it.  *)
(***************************************************************************)
EXTENDS Integers

VARIABLES
    date,         \* the local date
    running,      \* the entry is loaded
    midnightDue,  \* midnight has passed, its callback has not run yet
    published,    \* the peak the sensors show
    since,        \* history: highest reading since the callback, kept over a clean reload
    highest       \* history: highest reading of each day

NoPeak == [day |-> -1, watts |-> -1]    \* no snapshot

(* Once midnight has been handled, no sensor shows the peak of another day,  *)
(* also when the entry was unloaded or down over one or more midnights.      *)
NoPeakOfAnotherDay ==
    running /\ ~midnightDue => published = NoPeak \/ published.day = date

(* The published peak covers everything read since the day's callback, even  *)
(* over a reload, and never exceeds what was read that day.                  *)
PeakCoversItsReadings ==
    /\ running /\ ~midnightDue /\ since >= 0
           => published.day = date /\ published.watts >= since
    /\ published # NoPeak => published.watts <= highest[published.day]
=============================================================================
