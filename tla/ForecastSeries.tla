---------------------------- MODULE ForecastSeries ----------------------------
(***************************************************************************)
(* What the forecast promises, of the delivery dates it has cached and the  *)
(* series that is published.  ForecastCache is how it keeps it.             *)
(***************************************************************************)
EXTENDS Integers

CONSTANTS
    MaxDate,      \* bound: the last market day explored (from day 1 on)
    MaxTicks      \* bound: ticks in flight at once

SlotsPerDay == 4
Dates       == 0 .. MaxDate + 1
Ticks       == 1 .. MaxTicks
Idle        == -1

VARIABLES
    slot,       \* the time
    shift,      \* the local timezone
    cache,      \* _forecast_intervals_by_date, {} for a date not cached
    intervals,  \* _forecast_intervals, what the sensors show
    tick,       \* for each tick in flight, when it began and the date it awaits
    restarts    \* restarts so far

LocalStart(t) == SlotsPerDay * ((t + shift) \div SlotsPerDay) - shift

\* validate_forecast_series: one area and currency, and no two intervals that overlap.
Valid(S) ==
    \A i, j \in S : i.area = j.area /\ (i # j => i.end <= j.start \/ j.end <= i.start)

Cached(c) == UNION {c[d] : d \in Dates}

\* The delivery day d no longer reaches into the local day.
Over(d) == SlotsPerDay * (d + 1) <= LocalStart(slot)

-----------------------------------------------------------------------------
(* Validation before an await and storing after it never lets two dates      *)
(* conflict: the cached dates always form one valid series, so that no       *)
(* rebuild leaves the sensors without any.                                   *)
CachePublishable == Valid(Cached(cache))

(* Every cached date is published, whichever ticks are in flight, and once   *)
(* none is, nothing else is.                                                 *)
PublishedIsCached ==
    /\ Cached(cache) \subseteq intervals
    /\ (\A i \in Ticks : tick[i].at = Idle) => intervals = Cached(cache)

(* "A failed, empty or conflicting refresh never erases an existing valid    *)
(* cache entry. [...] Do not expire a cache entry merely because the market  *)
(* date changed" (forecast-retrieval.md): while the integration runs, a date *)
(* is dropped only when it no longer reaches into the local day.             *)
KeptWhileNeeded ==
    [][\A d \in Dates : cache[d] # {} /\ cache'[d] = {}
          => Over(d) \/ restarts' # restarts]_cache
=============================================================================
