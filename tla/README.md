# Electricity Pro: verification project

TLA+ models, TLC runs and TLAPS proofs for the Home Assistant integration in
`src/custom_components/electricity_pro/`. Paths below are relative to that
directory unless they start with `docs/`.

## 1. The system and its parts

Electricity Pro is a Home Assistant integration. Everything runs on one event
loop: a callback or the part of a coroutine between two `await`s runs to
completion, so the concurrency is in the *order* of handlers, in what other
handlers do while one awaits, and in what a crash or a reload leaves behind.

| Component | State it keeps | Operations | What makes it correct |
| --- | --- | --- | --- |
| Statistics engine (`statistics_engine.py`) | snapshots: day, last reading, value; daily peak | `update`, `reset`, `confirm_meter_reset`, `clear` | no energy counted twice over dips, midnight, restart; the trusted baseline only falls on a confirmed replacement |
| Coordinator (`coordinator.py`) | all statistics, the forecast cache, the pending-save flag | `_read`, midnight callback, timing/workday/forecast ticks, two reset actions, restore, save | each handler leaves a saved or scheduled-to-be-saved, consistent state in any order of handlers |
| Directional flow counters (`energy_flows.py`) | per channel: period, high water, totals, boundary flag, generation | `update`, `confirm_reset`, `from_dict` | boundary gaps and recoveries are never billed; the day is part of the month |
| Cost ledger (`cost_ledger.py`) | totals per day and month, open interval of price segments | `update`, `confirm_meter_reset`, `as_dict` | never prices more energy than was metered; gaps, dips and restarts stay unpriced |
| Statistics file (coordinator + Home Assistant `Store`) | pending flag, delayed write, the file | schedule, capture, write, unload flush, restart | a change is never left without a write; a confirmed reset survives |
| Forecast cache (`forecast.py`, `nordpool.py`, coordinator) | intervals and failures per date | 15-minute tick, per-date refresh over an `await` | published series always one valid series; a failure never erases a valid day; tomorrow arrives |
| Power histories (`timing_score.py`, `base_load.py`) | 15-minute buckets, last power, summaries | `add_segment`, finalize, retain | no instant integrated twice or longer than its hold; finalized before dropped |
| Adaptive price history (`adaptive_price.py`) | hourly summaries per scope | `add_segment`, retain | bounded, one scope |
| Forecast insights (`forecast_insights.py`, `forecast_pricing.py`, coordinator) | the cached insights | recalculation on the forecast tick, a delivery and the Workday tick | the windows are the cheapest at exact prices, the trend compares what lies ahead; both by the tariff in force |
| Good Time (`good_time.py`, `adaptive_price.py`) | none (pure over the last read, the history and the insights) | evaluation, fixed or adaptive, and suppression | a good hour is in the cheapest share of its peers, and is given up only for an hour that is really cheaper |
| Pricing, grid tariff, Workday (`pricing.py`, `grid_tariff.py`, `workday.py`) | cached non-working dates | composition of a price, fee in force, boundaries | VAT and each addition applied once; a price without its parts is not comparable |
| Config, options and section flows (`config_flow.py`, `*_config.py`) | the drafts of every open dialog, the entry | wizard and options steps | a save holds what its dialog showed, over other dialogs and refused forms |
| Provider, calculations, flow sources and compatibility | none (pure over HA states) | normalisation | units applied once |
| Household cost, score, percentile and average | none (pure) | sums, statistics | equal to a reference definition |
| Sensors and binary sensors | none of their own | read the coordinator | outside the state core |

How they interact. Source events, a 5-minute timing tick, a 15-minute forecast
tick, a Workday tick, the midnight callback and the user's actions all end in
`coordinator._read`, which updates every statistic from the current entity
states, in a fixed order, and publishes one data object to the sensors. The
statistics share one file and one pending-save flag. The forecast tick only
shares the published data object and the insights; Good Time is evaluated from
both and from the adaptive history, each as old as its last handler. A saved
options dialog reloads the entry. Reload makes a new coordinator, with its own
`Store`, for the same file.

The behaviours that are hard:

- **Order of handlers.** Home Assistant runs the midnight callback a moment
  *after* midnight, so a reading of the new day can come first; a tick and a
  source event read the same entity in any order.
- **Awaits.** A forecast tick awaits a request per delivery date and another
  tick, or midnight, may run meanwhile; the Workday tick awaits a service call
  and may resume on a coordinator that was unloaded; an unload awaits its save.
- **Crash, restart, reload.** The file is up to a minute old; readings are
  missed; the file may be of another source or another day.
- **Bad readings.** Missing, repeated, backward, recovering; a meter exchanged;
  a daily source that still shows yesterday's total.
- **Clocks.** Midnight, month ends, daylight saving, a clock set back, the
  market's time zone beside the local one.
- **Dialogs.** Several options dialogs may be open over one entry, each with the
  settings it was opened with; a refused form leaves its draft behind.
- **Limits.** 256 price segments, 900 s gaps, a 10-minute hold, a rolling window.

`PROJECT.json` lists these as hazards, each at its line with the properties
that cover it, or with the reason why none does.

## 2. The modules

Everything runs on one event loop, so one handler (or its part up to the next
`await`) is one action. Beside the code's state the modules keep *history*
variables, marked so in the declarations: what really happened in the world.
The properties compare the two. A definition that stands just before another of
the same shape and is used nowhere (`OpenPeriodsNotPending` before `OpenPeriods`)
is a plausible mistake in that code; a run finds its property violated once it
is put in place.

| Module | Models | Used by |
| --- | --- | --- |
| `StatisticsEngine` | the pure accumulators of `statistics_engine.py` | `EnergyStatistics` |
| `EnergyStatistics` | energy today and this month from a lifetime meter | run `energy_faults` |
| `EnergyStatisticsProofs` | theorems about it and about the daily peak | |
| `FlowCounter`, `FlowCounterProofs` | one directional energy channel and its file | run `flow` |
| `EnergyAccounting` | abstract: what a counter of energy promises | implemented by `FlowCounter`, proved in `FlowCounterProofs` |
| `PeakSensors` | what the peak sensors promise, over what was read | implemented by `DailyPeak` |
| `DailyPeak` | the daily power peak and its file; proofs in `EnergyStatisticsProofs` | run `peak_restarts` |
| `CostLedger`, `CostLedgerProofs` | the cost estimate | run `cost` |
| `StatisticsStore`, `StatisticsStoreProofs` | how statistics reach the file | runs `store_*` |
| `ForecastSeries` | what the published series promises, over the cached dates | implemented by `ForecastCache` |
| `ForecastCache` | the forecast cache over awaited requests; proofs in `ForecastProofs` | run `forecast` |
| `PowerHistory`, `PowerHistoryProofs` | timing-score and base-load histories | run `power` |
| `AdaptiveHistory`, `AdaptiveHistoryProofs` | the adaptive price history | run `adaptive` |
| `Pricing` | composition of prices, VAT, grid tariff and its boundaries (pure) | `Insights`, `GoodTime` |
| `Insights` | windows, next inexpensive hour, trend (pure) | `ForecastInsights` |
| `GoodTime` | the decision, its quantiles and its suppression (pure) | `ForecastInsights` |
| `ForecastInsights` | the cached insights, the live price and Good Time over ticks | run `insights` |
| `ForecastProofs` | theorems about the insights, Good Time and the forecast cache | |
| `Sections` | the configuration sections (pure) | `ConfigFlow` |
| `ConfigFlow`, `ConfigFlowProofs` | the setup wizard and the options dialogs over the entry | runs `config*` |
| `MC*` | small instances: calendars, scenarios, time zones | |

### EnergyStatistics

| Variable | Code |
| --- | --- |
| `stats.today`, `stats.month` | `_daily_consumption`, `_monthly_consumption`: a snapshot is (period, last reading, value) |
| `stats.complete` | `_energy_today_period_complete` |
| `stored` | those fields of the statistics file |
| `savePending` | `_statistics_save_pending` |
| `reported`, `phase`, `rolloverDue` | the entity's state; loaded and listening; midnight passed, callback still to run |
| `register`, `meterBase`, `audit`, `storedAudit` | history: the meter, and the points of consumption behind the snapshots |

`SourceChanged`, `TimingTick` and `FirstRead` are `_read` from its three
callers; `DailyRollover` is `_async_daily_rollover`; `ConfirmMeterReset` and
`ResetMonthlyEnergy` the user's actions, with the read at their end;
`WriteStore`, `Unload`, `Crash` and `Restore` the life of the file. `Faults`
says what the environment does. `ConfirmMeterReset` is enabled only for a
genuine replacement, which the guide demands of the user and no code can check.

### FlowCounter

`counter` is the `FlowCounter` object; `high` its high-water mark, `pending`
the flag that the next reading is only a baseline, `generation` the meter's
generation. `Update`, `Confirm` and `Restorable` are `update`, `confirm_reset`
and the validation of `from_dict`. `binding` and `fileBinding` are the scope
that ties the file to a configured source. A reading received on another day or
too old counts as missing (`ReadFlows`, `Tick`). The clock may be set back,
for which the code has a branch.

### EnergyAccounting

The account is a day's and a month's energy and the point up to which energy
has been accounted for. A step may begin periods anew and take, of the energy
between that point and a later one, at most what there is; save the account;
or take up the saved one, or nothing. `FlowCounter` implements it with
`used <- Flowed`, `account <- AccountOf(counter)`, `saved <- AccountOf(file)`:
`ImplementsAccounting`.

### DailyPeak

`PeakSensors` declares what an observer of the sensors sees (the day, whether
the entry runs, whether midnight's callback is due, `published`) with the
history `since` and `highest`, and states the two properties. `DailyPeak` adds
`peak`, the snapshot, and `file`, its copy. Actions as above.

### CostLedger

One unit of time is five minutes; the code's 900 s are three. `ledger.totals`
and `ledger.open` are the ledger's totals and its open interval: the baseline
reading, its time, the price segments since, and `discard`
(`_discard_next_delta`). `Verdict` is the chain of tests in `update` in its
order; `Observe` what follows from each verdict; `Allocate` the splitting of a
delta over segments, days and months. `booked`, `charge`, `seen` are history:
what was booked to each unit, the price in force then, and what must stay
unpriced. Only the effective price is kept; the supplier's goes through the
same lines. Splitting by time is exact here because energy flows in quanta of
six; the code's `Decimal` rounding is left out.

### StatisticsStore

The contents are abstracted to sets of changes; the control is kept: the
pending flag, the delayed write whose data is captured when it is written, the
write timer, the lock and its queue, the flush with fixed data, and one `Store`
per load. One write may fail (`WriteFails`): Home Assistant logs it and the flag
is already clear, so nothing retries it until the next change. `failure` is
history and says how far that has gone. Home Assistant's `Store` is outside `src/`; it is modelled from how
the coordinator uses it and marked external in the map.

### ForecastCache

`ForecastSeries` declares what an observer sees, with the three safety
properties; `ForecastCache` is how the coordinator keeps them. `slot` is the
time, `cache` is `_forecast_intervals_by_date`, `intervals` is
`_forecast_intervals`, `tick[i]` a tick in flight: when it began and the date it awaits. A market day
has four slots, at whose starts (00:00, 01:00, 13:00, 23:00) alone the set of
dates to ask for changes. `StartTick`, `Refused` and `Delivered` are the three
parts of `_async_forecast_tick` between its awaits. One interval stands for a
delivery day; an odd answer reaches into the next day or is for another area.
The map of last failures per date only chooses a log level and is left out.

### PowerHistory

`hist.timing` and `hist.base` say how often each instant was integrated into
the two histories, `hist.export` the dates marked unusable, `hist.score` the
verdict on the last scored day, `hist.loads` the daily summaries. `last` is how
far has been integrated, `power` the held observation. `Wall` is the local
clock, which may jump at the instant `Change`; comparisons use it wherever the
code compares local times. `Verdict` is the usability test of both histories in
its order; the values they compute are left out.

### AdaptiveHistory

`hist.open` and `hist.closed` are `_hours` and `_observations`, an aggregate
being the price sum and the covered time; `quote` is the price and scope
remembered from the last read, `last` its time. `Update` is
`_update_adaptive_price_history`; when an hour is covered for longer than it
lasts, building its observation raises (`Raises`), and `Raise` is what the
handler leaves behind: the hours before it closed, the bad one gone, nothing
remembered, and, at midnight, the rest of the callback not run. `charge` and
`fileCharge` are history: the price in force in each unit that memory and file
account for. The history saves only with the other statistics; `pending` says
that it has asked for that itself.

### Pricing, Insights, GoodTime and ForecastInsights

`Pricing` composes a price as `pricing.py` does, from what its source declares
to include, the VAT rate and the settings, and gives it a scope; `ChangeTimes`
are the instants at which `grid_tariff.py` can change the fee. `Insights` has
one operator per function of `forecast_insights.py`, on sets of disjoint
intervals: the loop along the sorted list that collects a window is
`WindowFrom`, the interval before another being the one that ends where it
begins, and the segments of the trend are `Pieces`. `GoodTime` has the
weighted quantile, the choice of the cohort, the fixed and the adaptive
verdict, and the search for a better hour. In `ForecastInsights`, `insights` is
what the coordinator caches, `data` the price and scope of its last read,
`excluded` the dates that count as non-working, `quote` the live entity, and
`taken` history: when and at what quote the insights were calculated.
`ForecastTick`, `Delivered` and `WorkdayTick` recalculate, the first two on the
dates kept when their tick began, which may have been before midnight; `Read`
reads the live price alone; `GoodTimeNow` is what the sensor would show.

### Sections and ConfigFlow

A setting is absent, cleared (`None`) or a value; the code tells the three
apart and so does `Sections`, which has one group of operators per section: the
draft it opens with, what a form makes of it, whether it is accepted. The entity
registry is given by `Registry` (Tibber's entities), `Own` (ours) and
`Unregistered` (the sources it does not know, which the supplier form takes for
Tibber's own); any other source belongs to another integration. `Nothing`
is the empty set of settings, which stands for a draft, a reference or an entry
the code has not made yet. In
`ConfigFlow` a dialog `flows[f]` has a step, a draft per section, and `ref`, the
settings it was opened with; a submitted form is one action. `data` and
`options` are the entry's. `Told` is what a dialog saves, laid over the options
as they are at that moment. The only await that lets others run is the markup
estimate (`EstimateArrives`, `EstimateFails`). `rates`, `periods`, `retried`,
`stale` and `last` are history.

## 3. The runs

All runs but the two of section 5 pass. Deadlock checking is on in all of them
but `config` and `config_retry`: there the users may stop once the entry has
been saved `MaxSaves` times and every dialog is closed.

| Run | Question |
| --- | --- |
| `energy_faults` | Can dips, outages, an exchanged meter, restarts or the midnight race make a day or month hold more than was used, flag a day complete that has a hole, or lower the baseline unasked? |
| `flow` | The same for a flow channel, with a clock set back and another source; does the file always restore; and does the counter implement the abstract account? |
| `peak_restarts` | Does a peak of another day survive midnight, a reload, or downtime over midnights; does the peak cover what was read? |
| `cost` | Are the totals the sums of their parts, is anything priced twice, is an interruption priced, is yesterday's total charged to today? |
| `store_life` | Is a change ever left without a write behind it, a confirmed reset lost, the flag stuck, also when a write fails; is everything written in the end? |
| `forecast` | Do overlapping ticks leave conflicting dates or an unpublished one; is a date dropped while needed; does each needed date arrive? |
| `power` | Is an instant integrated twice or beyond its hold, are days summarised before they are dropped, do the two histories agree on export? |
| `adaptive` | Does every retained hour hold exactly the prices of the present scope, is each closed hour saved, does the file restore? |
| `insights` | Are the cached windows the cheapest and the trend exact at the tariff in force, is an hour called good only among the cheapest of its peers, and given up only for a cheaper one, whatever ran when? |
| `config` | Does a save hold what its dialog showed and no more; can two sections share a source; does an area outlive its market; is VAT applied unconfirmed; is a meter's period stored that nobody saw? |

`store_outlived` and `config_retry` are the runs of section 5.

Bounds, and why they are enough:

- `EnergyFaults.cfg`: days 0 to 2 in two-day months and 3 units of energy. A
  day boundary inside a month and one between months are both there; three
  units allow a baseline, an increase and a second one after a dip, a
  replacement or a restart.
- `Flow.cfg`: the same calendar, 2 units, one confirmed replacement. The
  counter compares readings only with one mark, so two increases suffice to
  book something twice.
- `PeakRestarts.cfg`: three days and powers 0 to 2: a peak two days old, a
  lower and a higher reading.
- `CostLedger.cfg`: 6 units of time in days of 3, so an interval can cross a
  midnight that ends a month, and be longer than the gap limit; two quanta of
  energy; two segments, so the third overflows. Each of the four scenarios
  holds the faults its kind of source can have: prices that change for a
  lifetime meter, every fault of one, a source of today's energy that restarts,
  and one that falls back.
- `StoreLife.cfg`: 3 changes, 3 loads: a change before, during and after a
  reload, and a load whose file tells what survived; one failed write.
- `ForecastCache.cfg`: two market days and the dates around them, two ticks at
  once, London, Stockholm and Helsinki, one odd answer or restart.
- `PowerHistory.cfg`: days of 6 instants, a hold of 2, two days and the start
  of a third; the jump of the clock, 2 instants either way, in the second day;
  three observations, one loss of the price or its return, one crash or
  unload, a tick at least every 3 instants. A day needs half of it
  covered and no gap of more than 2 instants, so each verdict occurs.
- `AdaptiveHistory.cfg`: hours of 3 units, days of 2 hours, one completed day
  retained, up to the start of a third day, so an hour can be partly covered,
  end inside a day or at midnight, and leave the window. Two prices of one scope
  and one of another, the first price and one change; one mishap, which is a
  crash, an unload or a clock set back by up to two units.

- `ForecastInsights.cfg`: days of three hours of two units, from a Friday
  evening to Saturday, with the high tariff from the middle of an hour over
  midnight and Saturday excluded or not by its weekday and the Workday
  calendar. Intervals of one and two units, a negative price, a gap on Saturday;
  four entries (all additions and a tariff; a complete price with a ceiling; a
  fixed threshold and no energy tax; no VAT rate), three histories (varied,
  flat, too short), four live quotes (none, two prices, another currency),
  windows of one and two hours. So a window can run over a tariff change, over
  midnight, over the gap, and begin at the present moment inside an interval.
- `Config.cfg`: two dialogs, two saves; a home found by Tibber and a second
  device whose sensor is disabled; a market of one area and one of two; an entry
  of an earlier version, its price sensor unknown to the registry; two or three answers per form, among them one that the
  form refuses. Two saves are the fewest in which one dialog saves over
  another; the third dialog could only repeat that.

What the properties do not claim: `CoveredOnce` is stated for a clock that is
not put forward, and `HeldBrieflyUnlessPutBack` for one that is not put back
(section 5). `ExcludedStaysUnpriced` is stated for one lifetime meter that has
not fallen back and quotes in one currency; `TodayWithinDailyMeter` and, for a
source of today's energy, `NothingPricedTwice` for one that has not fallen back; `ResetSurvivesUnlessOutlived`, `NothingLeftUnsaved` and
`EventuallySaved` of `StatisticsStore` until a Workday tick outlives its
coordinator, and, after a failed write, from the next change on;
`SuppressedForABetterHour` for a live price in a currency the forecast has; `CompleteDayIsExact` for a meter that was not exchanged;
`DayHoldsOnlyItsOwnEnergy` for a source that has never fallen back; those of
`AdaptiveHistory` for a clock that was not set back; `SharedOnlyIfStale` allows
a shared source when the dialog was checked against settings since replaced;
`VatOnlyConfirmed` allows the rate that was in force when the supplier form was
opened. Each of these conditions is reached and left in the runs.

Every property of a passing run has a mutant of a mapped definition in
`PROJECT.json` that violates it under the run's own bounds.

## 4. Fairness

`StatisticsStore`: the event loop runs an armed timer, grants a free lock and
finishes a write (weak fairness of each, per `Store`). Nothing is assumed of
the user, sources, reloads, or the calendar service that a Workday tick awaits.

`ForecastCache`: the 15-minute timer starts ticks whenever a slot for one is
free (weak fairness) and every request ends, since it has a timeout (weak
fairness of each tick's answer, good or refused). A request for a published
date does not fail forever (strong fairness of a delivery per date): without it
an API that always refuses gives no forecast, and nothing in the code could
change that.

All other specifications are safety only.

## 5. Where code and text disagree

| Run | What it shows |
| --- | --- |
| `store_outlived` | A Workday tick suspended over a reload resumes on the old coordinator and schedules a write of its old data, over a reset confirmed since (`docs/guides/meter-reading-protection.md:6`). |
| `config_retry` | A refused measurements form replaces the draft by values without the meter's period; the corrected form finds no previous period and stores "daily" over a configured "lifetime" (`docs/guides/configuration.md:14`). |

More departures were met while modelling. They are excluded by a condition in a
property that passes, or by what the small instance offers:

- The month can be short of what was metered. The midnight callback sets a
  lifetime meter's day to zero and leaves the month to the next reading, whose
  daily value is compared with the last one of the day before, in a new month as
  in the same one (`statistics_engine.py:181`). A lower value counts whole; if
  the source was silent past midnight and the day holds as much when it returns,
  only the difference enters the month (`docs/reference/sensors.md:357` promises its
  changes). The model does this too; `MonthNeverOvercounts` is a bound from above
  only. A daily source, whose month is not modelled, is compared likewise.
- After an outage, a source that first repeats its old reading has what flowed
  during the outage priced with its next change; the flag that guards against
  this is set after a gap, not after a missing reading (`cost_ledger.py:79`;
  `docs/guides/costs-and-pricing.md:43`). `ExcludedStaysUnpriced` does not
  count such a unit among those that must stay unpriced.
- After the clock was set back by more than the time between two reads, an hour
  is covered for longer than it lasts and its summary raises
  (`adaptive_price.py:497`). When the midnight callback is the first to close
  that hour it ends there: no save, the peak not cleared, the finished day not
  summarised (`docs/adr/0012-adaptive-good-price-classification.md:97`).
- A daily source that falls back within a day is taken for a reset, and its
  recovery is charged (`cost_ledger.py:120`). The documents promise the
  rejection of a backward reading only for a lifetime meter.
- A write that fails is not retried until the next change (`coordinator.py:425`).
- `docs/reference/sensors.md:468` and ADR 0012 say that the Nord Pool forecast
  never suppresses Good Time. With all additions and a VAT rate configured the
  forecast becomes complete and comparable, and does, as
  `docs/guides/configuration.md:178` says.
- The midnight callback clears the peak even when a power event has opened the
  new day's peak before it ran (`coordinator.py:455`). `PeakCoversItsReadings`
  therefore begins with the callback.
- Two local times of one zone are compared by what the clock shows
  (`coordinator.py:1275`): when the clock is put back a held power is projected
  again after its ten minutes, hence `HeldBrieflyUnlessPutBack`.
- The supplier form of a known Tibber contract without a market hides the VAT
  rate, yet its save carries the one the form was opened with
  (`supplier_config.py:155`, `config_flow.py:1548`). Saved over a rate that
  another dialog set meanwhile, it silently brings the old one back; a menu
  dialog otherwise touches only what it shows. `VatOnlyConfirmed` names that
  rate, `opened`.
- In spring the end of a hold may be a time that is skipped, and the span before
  it is integrated twice; `CoveredOnce` leaves that clock out.

## 6. The proofs

TLAPS proves these for every value of the constants that the modules' named
assumptions allow (bounds in `Nat`, any calendar `[Days -> Nat]`, any set of
faults or time zones).

**`EnergyStatisticsProofs`**: `TypesCorrect`, `TodaySafe` and `MonthSafe` for
`TypeOK`, `TodayNeverOvercounts` and `MonthNeverOvercounts`. These are not
inductive: a value bounded by what was used says nothing about the next delta.
`IInv` adds that the reported reading is not above the register, and, for the
memory and for the file alike, `Sound`: the last accepted reading corresponds
to the audit's `mark`, no later than what was used, and the value is at most
the distance from the period's mark to it (`DaySound`, `MonthSound`). The file
has to be in the invariant because a restart brings it back. `SnapshotTypes`,
`ReadSound` and `RolloverSound` say that the code's operators preserve it, and
`InvNext` has a step per action. `BaselineSafe` (an action property) and
`CompleteSafe` state `BaselineOnlyLoweredByUser` and `CompleteDayIsExact`. The
second needs `Exact`: while a day is marked complete its value is the whole
distance from the midnight baseline to the last reading, in the memory and in
the file it may be restored from.

The same module proves `PeakOfItsDay` and `PeakCovers` of `DailyPeak`, for
`NoPeakOfAnotherDay` and `PeakCoversItsReadings`. The snapshot that has to
cover the day so far is the one in memory while the entry is loaded and the one
in the file while it is not; that each is bounded by the highest reading of its
day is invariant of both.

**`FlowCounterProofs`**: `TypesCorrect`, `MonthSafe`, `DayInMonth`,
`RestartSafe`, `HighWaterSafe` (an action property) and `DaySafe`, for
`TypeOK`, `NothingBookedTwice`, `DayWithinMonth`, `RestartKeepsCounter`,
`HighWaterOnlyLoweredByUser` and `DayHoldsOnlyItsOwnEnergy`. `Sound` bounds the
month by the audit mark and ties day to month; `OnMeter` ties the high-water
mark to the meter it was read from, which is what makes a delta new energy.
`DaySafe` needs a second invariant, `DayInv`, kept only while the source is
honest: a counter not waiting for its baseline has booked to today nothing from
before the day's start.

The same module proves `FlowImplementsAccounting`, the refinement
`Spec => Accounting!Spec`. It rests on the first invariant: a step of the world
is use of energy or nothing the account knows of; `OpenPeriodsBegin` says that
a new day or month is one of the abstract beginnings (a new month without a new
day is not, which is what `Restorable` excludes); `AcceptTakes` that a delta is at
most what lies between the last accepted reading and this one, which is where
`OnMeter` is needed; `ConfirmFollows` that a confirmation and the reading at
its end take nothing.

**`ForecastProofs`**: `SuppressionSafe` and `ShareSafe` for
`SuppressedForABetterHour` and `GoodIsInTheCheapestShare`, for every tariff,
history, series and order of reads, ticks and answers. The cached insights and
the live price are taken on different occasions, so the invariant (`IInv`) says
of each what remains true of it: the live price has the scope that the entry
gives its currency (`ScopeRead`), and the forecast was comparable exactly if the
present series is, at the present tariff, with the currency of the last
calculation, and then holds the present prices (`ForecastCurrent`). The key is
`ScopeStays`: a tariff changes fees but not which additions there are, so that
neither time nor a Workday answer changes a scope, while a Workday answer that
did not recalculate would leave prices of another tariff. `QuantileShare` is the
argument about ties: a price is at most the weighted quantile exactly if what is
strictly cheaper weighs less than the target share. It rests on sums of positive
weights over parts of a set (`SumOfPart`), `SumIsIterated` to `SumRemove` being
the same facts about sums as in `CostLedgerProofs`. `InsightsAssumption` says
that prices and fees are whole numbers, the target share is between 1 and 100
(`config_flow.py:424`), observations are finitely many, with some covered
time, and intervals are finitely many, not empty and disjoint
(`forecast.py:69` and `:139`).

`WindowsSafe` and `TrendSafe` show `WindowsAreTheCheapest` and `TrendIsExact`
for every series, resolution and tariff. The invariant adds that the cached
insights are those of the present series and tariff at the time they were
taken (`InsightsCurrent`), which holds because no other step changes either.
The rest is about the functions. `Unbroken` says when a stretch of time has no
gap: an interval reaches its end, and whatever begins inside it begins where
another ends; the code's checks along the list are that, for windows in
`WindowIsAStretch` and for the two hours in `JoinedIsWhole`. `SumOfSpans` turns a
sum of lengths times prices into the sum of the prices of all units of time, by
the smallest set of intervals for which it would fail. For the trend,
`PiecesOfSeries` shows that the pieces are apart and cover the two hours, and
`FeeHolds` that the fee is one throughout a piece, as every midnight and both
ends of the high period are change times.

The same module proves `CacheStaysPublishable`, `SeriesFollowsCache` and
`CacheIsKept` for `CachePublishable`, `PublishedIsCached` and `KeptWhileNeeded`
of the forecast cache, each under `ForecastAssumption`. `Shape` is the type
invariant weakened to what the argument needs; `StoredSeries`, `ValidPart`,
`FirstDeliveryDate` and `PrunedAreOver` are the facts about the operators.

**`StatisticsStoreProofs`**: `NothingUnsaved` and `ResetSurvives` for
`NothingLeftUnsaved` and `ResetSurvivesUnlessOutlived`, over any number of
loads, changes and waiting saves. `StoreOK` is a Store's own account. `Calm`
holds until a Workday tick outlives its coordinator: the Stores of earlier
coordinators are `Quiet` (only timers wait, and nothing is left to write), and
the active one, still loaded or waiting for the save of its unload, is
`KnownOK`. For its unload the order of the lock's queue matters: behind its
ticket only timers wait (`LastTicket`), so that when it returns the Store is
quiet. `ConfirmedOK` says that what users were told is in any data under way;
it is given up once a failed write is followed by a reload or a crash.

**`AdaptiveHistoryProofs`**: `WrittenIsRestored` and `ObservationsAreSaved` for
`FileRestores` and `ClosedIsSaved`. The invariant says of the memory at the last
read, and of the file at any time since, that it `Fits`: no open hour is covered
for longer than has passed of it, which needs the cardinalities of intervals
(`BeforeGrows`), and observations are of hours that are over, which no later
segment can reach. So no read raises and the file is accepted; a scope once
remembered is the history's, so that only a new quote can change it, which asks
for a save. `HoursHoldTheirPrices` proves `HoursAreExact`, from `ChargeInv`:
from the last read on the price in force is the one remembered, the file
accounts for nothing that is to come, and memory and file are `Exact`. The
price integral of an hour is the number of unit squares between its prices and
zero, those above less those below, so that the sum the code keeps and the one
the property names are compared by cardinalities of finite sets
(`IntegratedExact`, `ObservedExact`). Prices are any integers.

**`PowerHistoryProofs`**: `IntegratedAtMostOnce` and `HeldBriefly` for
`CoveredOnce` and `HeldBrieflyUnlessPutBack`, for any jump of the local clock at
any instant. Both rest on where a segment lies: `SegmentIsPast` (between the
last read and now, unless the clock is put forward) and `SegmentIsHeld` (within
the hold, unless it is put back), which is where the code's comparisons of local
times matter. `Once` holds of the memory up to the last read and of the file up
to now; midnight and a start keep the buckets of one and the same day of both
histories, so that a price is never without its power.

`NothingOutlivesItsDay`, `ScoreAndLoadAgree` and `NoDayIsLost` prove `Bounded`,
`BothSeeExport` and `SummarisedBeforeDropped` from `DayInv`: both histories know
the same days of export, nothing is held of a day already scored, and once
midnight is handled the last read was today and only today is held. `DayInv`
needs `ClockAssumption`: no time that a change of the clock skips or repeats
reaches a midnight, as in every zone of Nord Pool, where it changes at 01:00
UTC. In a zone that put its clock back over midnight the code would keep the
buckets of a day already scored. `IntegratedAtMostOnce` and `HeldBriefly` do
without it.

**`CostLedgerProofs`**: `TypeCorrect`, `UnitsMatch`, `TodayBounded`,
`PricedOnce` and `ExcludedUnpriced` for `TypeOK`, `TotalsMatchTheirUnits`,
`TodayWithinDailyMeter`, `NothingPricedTwice` and `ExcludedStaysUnpriced`. The
update is a function of the ledger, the time, the reading and the quote, so
most of the module says what each helper does to a sound ledger
(`OpenedFacts`, `AllocateFacts`, `SettleFacts`, `KeptFacts`), up to `Outcome`:
an update ends the observation, begins an interval, goes on with the one there
is, or books it and begins the next. The inductive invariant is `IInv`:

- `Sound`: the totals are the sums over their units, and the segments of the
  open interval hold the price in force in each of its units. `UnitsMatch`
  needs the second part, because the next delta is spread by those segments.
- `LifetimeInv`: what has been priced and the high-water mark lie within what
  has flowed since the meter in place began. A total below what flowed says
  nothing about the next delta; the mark does.
- `DailyInv`: for a source of today's energy, the day's energy ends where the
  open interval begins.
- `ExcludedInv`: what is booked and what must stay unpriced share the energy up
  to the last reading, from which the open interval goes on.

Memory and file are both in it, since a restart brings back the older file. The
sums are the fold of the community modules. What a fold computes follows
without induction over data: `SumsAgree` and `SumsExist` take a smallest subset
on which a sum would be wrong. The calendar is any in which months follow days.

**`ConfigFlowProofs`**: `SourcesShared`, `AreaFitsMarket`, `TypedIsInForce`,
`VatConfirmed` and `PeriodTold` for `SharedOnlyIfStale`, `AreaOfItsMarket`,
`EntryIsWhatWasTyped`, `VatOnlyConfirmed` and `MeterPeriodIsTold`, for any
number of dialogs and saves, any sources, homes, markets, answers and entries
of earlier versions. What a save leaves depends on the forms its dialog came
through, which may be a dozen, so the invariant says of an open dialog what
its present step implies (`Dialog`): which settings its drafts can hold
(`Drafted`), what a wizard has settled before that step (`Wizard`), and what the
form on the screen was made from (`Shown`): a shown period is one of
`periods`, a rate is in force or in `rates` (`RateKnown`), bindings at the
second form were accepted. `Dialog` speaks of the dialog alone, so that a save
by another one cannot disturb it; that the entry may have changed underneath is
what `stale` is for. Each handler ends in one of three ways, with a lemma each:
a form is shown (`ShowSound`), a section is finished (`FinishSound`, by
`WizardSound` or `SaveSound`) or the wizard makes the entry (`EntryMade`).
`SaveSound` has the argument: accepted measurements or bindings keep apart what
was apart where they were checked, which is the entry itself unless it is
stale; no other section owns a source, the market or the rate. `EntryMade`
rests on `AssembledIs`: the sections share no key, so whatever their order, the
overlay of the drafts holds each of them. `SectionsAssumption` and
`ConfigAssumption` say that `None` is neither a market nor a period, that a
market's areas are finite, what discovery can fill, that an older entry shares
no source, and that a form of bindings has all their fields.

**Only model-checked**: `NeededArrives` and `EventuallySaved`, which are
liveness and need `ENABLED` of the fair actions.

## 7. What is not modelled

- *The month of a daily source and of an external cost*
  (`CumulativeStatistic` over a source that resets daily): the lifetime path of
  the same class is in `EnergyStatistics`.
- *Score, percentile, average and the values of the power histories*: pure
  arithmetic; their verdicts (usable, complete, covered) are in `PowerHistory`.
- *Provider*: the conversion of Home Assistant states and units. How prices
  are composed and declared is in `Pricing` and `Sections`. The zone's clock
  change is left out of the tariff's boundaries.
- *Flow sources and compatibility diagnostic*: pure decisions over the
  configuration and current states; what the flow counter needs of them
  (missing, stale, valid) is in `FlowCounter`.
- *Household cost*: a sum of the ledger's totals and fixed fees.
- *Dialogs*: selectors, number formats, review texts and the arithmetic of the
  markup estimate. The steps `manual`, `tibber_settings` and `forecast_area`
  exist in the flow but no form or menu leads to them.
- *Sensors, binary sensors, device, constants, translations, documentation,
  examples*: no state of their own.
- In modelled parts: `Decimal` rounding, logging, the wording of attributes,
  migration of old files, and the change of cost scope on a restore.

## 8. Plan

Done, in order of importance: energy statistics, flow counters, cost ledger,
statistics file, forecast cache, power histories, adaptive price history, peak,
configuration, forecast insights and Good Time, the abstract account. Next:

1. The daily-source month with its external cost, beside the lifetime meter in
   `EnergyStatistics`, and what a handler that ends in an exception leaves
   behind in the rest of `_read`.
2. `EnergyStatistics` as a second implementation of `EnergyAccounting`.
3. Percentile, score and compatibility as functions beside a reference
   definition over bounded inputs.
