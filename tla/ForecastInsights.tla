--------------------------- MODULE ForecastInsights ---------------------------
(***************************************************************************)
(* What the coordinator caches of the forecast, and what Good Time makes    *)
(* of it.  The insights are recalculated on the forecast tick, whenever a   *)
(* delivery date arrives, and on the Workday tick; the present price is     *)
(* read on other occasions, and Good Time is evaluated on each of them.     *)
(* The cache of delivery dates is ForecastCache's, the history is           *)
(* AdaptiveHistory's; here both are given.                                  *)
(***************************************************************************)
EXTENDS Insights, GoodTime

CONSTANTS
    Entries,      \* configured entries: prices, tariff, Good Time options
    Pasts,        \* price histories
    Series,       \* what Nord Pool publishes, interval by interval
    Quotes,       \* states of the live price: [price, currency], {} when unavailable
    Durations,    \* hours of the cheapest windows (1, 2 and 3 in the code)
    FirstTime, Horizon,   \* bounds of the clock
    NonWorking    \* the days the Workday calendar calls non-working

\* Whole prices, a target share, observations with some covered time, disjoint intervals.
ASSUME InsightsAssumption ==
    /\ FirstTime \in Int
    /\ \A e \in Entries :
          /\ e.adj \in [Adjustments -> SUBSET Int]
          /\ {e.fee.low, e.fee.high, e.rate, e.live.rate, e.options.ceiling} \subseteq SUBSET Int
          /\ e.options.percentile \in 1 .. 100
    /\ \A p \in Pasts :
          /\ IsFiniteSet(p.hours)
          /\ \A o \in p.hours : o.day \in Int /\ o.price \in Int /\ o.covered \in Nat \ {0}
    /\ \A q \in Quotes : q.price \subseteq Int
    /\ IsFiniteSet(Series) /\ Durations \subseteq Nat \ {0}
    /\ \A i \in Series :
          /\ i.start \in Int /\ i.end \in Int /\ i.price \in Int /\ i.start < i.end
          /\ \A j \in Series : i # j => i.end <= j.start \/ j.end <= i.start

MarketCurrency == "SEK"

\* NORDPOOL_MARKET_PRICE_METADATA with the entry's VAT rate.
ForecastMeta(e) == [included |-> {"market"}, vat |-> "excluded", complete |-> FALSE, rate |-> e.rate]

VARIABLES
    now,
    entry,     \* settings, fixed while the entry is loaded
    past,      \* the adaptive history's observations
    series,    \* _forecast_intervals
    excluded,  \* the provider's excluded dates
    quote,     \* the live price entity
    data,      \* the price and scope of the last read
    insights,  \* the cached insights
    taken      \* history: when, and at what quote, they were calculated

vars == <<now, entry, past, series, excluded, quote, data, insights, taken>>

-----------------------------------------------------------------------------
Settings(e, ex) ==
    [meta |-> ForecastMeta(e), fee |-> e.fee, excluded |-> ex, adj |-> e.adj]

\* The scope of the live price, none if its state has no unit.
LiveScope(e, ex, q, t) ==
    ScopeOf(q.currency, e.live, AdjAt(Settings(e, ex), t))

\* What the sensors and the history take from provider.read().
ReadData(e, ex, q, t) ==
    [price |-> EffectivePrice(q.price, e.live, AdjAt(Settings(e, ex), t)),
     scope |-> LiveScope(e, ex, q, t)]

\* The forecast's scope: that of its first interval, with the fee at its start.
ForecastScope(e, ex, s) ==
    LET first == CHOOSE i \in s : \A j \in s : i.start <= j.start
    IN  ScopeOf(MarketCurrency, ForecastMeta(e), AdjAt(Settings(e, ex), first.start))

Comparable(e, ex, s, q, t) ==
    /\ s # {}
    /\ IsComparable(ForecastScope(e, ex, s))
    /\ ForecastScope(e, ex, s) = LiveScope(e, ex, q, t)

\* Each interval's effective price, at the fee of its start.
ForecastPrices(e, ex, s) ==
    UNION {{[start |-> i.start, price |-> p, scope |-> ForecastScope(e, ex, s)] :
               p \in EffectivePrice({i.price}, ForecastMeta(e), AdjAt(Settings(e, ex), i.start))} : i \in s}

\* _recalculate_forecast_insights on the series s at t.
Recalculated(e, ex, s, q, t) ==
    LET p == Settings(e, ex)
        comparable == Comparable(e, ex, s, q, t)
    IN  [cheapest   |-> [n \in Durations |-> CheapestWindow(s, t, n * HourSlots, p)],
         next       |-> NextInexpensive(s, t, e.options.threshold, p, comparable),
         direction  |-> PriceDirection(s, t, p),
         comparable |-> comparable,
         prices     |-> IF comparable THEN ForecastPrices(e, ex, s) ELSE {}]

Recalculate(ex, s) ==
    /\ insights' = Recalculated(entry, ex, s, quote, now)
    /\ taken' = [at |-> now, currency |-> quote.currency]

\* Workday dates from yesterday on; if the calendar fails, none.
Calendars == {NonWorking, {}}

SeriesDays == {DayOf(i.start) : i \in Series}
Of(d) == {i \in Series : DayOf(i.start) = d}

(* async_start: the Workday dates, the forecast tick, the first read.  The   *)
(* first date may not be there yet.                                          *)
Init ==
    /\ now = FirstTime
    /\ entry \in Entries /\ past \in Pasts /\ quote \in Quotes
    /\ excluded \in Calendars
    /\ series \in {{}, Of(DayOf(now))}
    /\ data = ReadData(entry, excluded, quote, now)
    /\ insights = Recalculated(entry, excluded, series, quote, now)
    /\ taken = [at |-> now, currency |-> quote.currency]

TimePass ==
    /\ now < Horizon
    /\ now' = now + 1
    /\ UNCHANGED <<entry, past, series, excluded, quote, data, insights, taken>>

\* A change of the price, or a tick at an unchanged one.
Read ==
    /\ quote' \in Quotes
    /\ data' = ReadData(entry, excluded, quote', now)
    /\ UNCHANGED <<now, entry, past, series, excluded, insights, taken>>

(* A forecast tick awaits its answers, and midnight may pass meanwhile: the  *)
(* day it began, whose past dates it dropped first, is today or yesterday.   *)
TickDays == {DayOf(now) - 1, DayOf(now)}

Kept(begun) == {i \in series : DayOf(i.start) >= begun}

\* _async_refresh_forecast_intervals: a date arrives within a forecast tick.
Delivered ==
    /\ \E begun \in TickDays : \E d \in begun .. begun + 1 :
          /\ d \in SeriesDays /\ ~(Of(d) \subseteq series)
          /\ series' = Kept(begun) \union Of(d)
    /\ Recalculate(excluded, series')
    /\ UNCHANGED <<now, entry, past, excluded, quote, data>>

\* The end of _async_forecast_tick: what it kept is published; no read.
ForecastTick ==
    /\ \E begun \in TickDays : series' = Kept(begun)
    /\ Recalculate(excluded, series')
    /\ UNCHANGED <<now, entry, past, excluded, quote, data>>

\* A Workday tick that leaves the forecast to the forecast tick.
WorkdayTickReadOnly ==
    /\ excluded' \in Calendars
    /\ data' = ReadData(entry, excluded', quote, now)
    /\ UNCHANGED <<now, entry, past, series, quote, insights, taken>>

\* _async_workday_tick after the calendar has answered or failed.
WorkdayTick ==
    /\ excluded' \in Calendars
    /\ Recalculate(excluded', series)
    /\ data' = ReadData(entry, excluded', quote, now)
    /\ UNCHANGED <<now, entry, past, series, quote>>

Next == TimePass \/ Read \/ Delivered \/ ForecastTick \/ WorkdayTick

Spec == Init /\ [][Next]_vars

\* GoodTimeToUseElectricityBinarySensor.
GoodTimeNow == Evaluate(data, past, entry.options, insights.prices, insights.comparable, now)

-----------------------------------------------------------------------------
\* The reference: the series unit of time by unit of time.
Present == Settings(entry, excluded)

At(t) == {i \in series : i.start <= t /\ t < i.end}

\* The scheduling price at t, at the fee in force when its interval begins, or at t itself.
HeldPrice(t) == LET i == CHOOSE i \in At(t) : TRUE IN SchedulingPrice(i.price, Present, i.start)
ExactPrice(t) == LET i == CHOOSE i \in At(t) : TRUE IN SchedulingPrice(i.price, Present, t)

\* All windows of that length, gap or not, that do not cut an interval.
Covering(length) ==
    {t \in {i.start : i \in series} :
        /\ t >= taken.at
        /\ \A u \in t .. t + length - 1 : At(u) # {}
        /\ t + length \in {i.end : i \in series}}

HeldCost(t, length) == SumOf(t .. t + length - 1, [u \in t .. t + length - 1 |-> HeldPrice(u)])
ExactCost(t) == SumOf(t .. t + HourSlots - 1, [u \in t .. t + HourSlots - 1 |-> ExactPrice(u)])

Priced == KnownVat(ForecastMeta(entry))

(* "The cheapest continuous window": of the windows that were still to come  *)
(* at the last calculation, none is cheaper than the one shown and no        *)
(* cheapest one starts earlier; none is shown only if there is none.  The    *)
(* same of the first inexpensive hour.  The tariff is the present one, over  *)
(* Workday answers, failures and dates that arrive in between.               *)
WindowsAreTheCheapest ==
    /\ \A n \in Durations :
          LET length == n * HourSlots
              cheapest == {t \in Covering(length) : \A u \in Covering(length) :
                              HeldCost(t, length) <= HeldCost(u, length)}
          IN  {w.start : w \in insights.cheapest[n]}
                 = IF Priced /\ cheapest # {} THEN {Min(cheapest)} ELSE {}
    /\ LET inexpensive == {t \in Covering(HourSlots) :
              \E th \in entry.options.threshold : HeldCost(t, HourSlots) <= th * HourSlots}
       IN  {w.start : w \in insights.next}
              = IF insights.comparable /\ inexpensive # {} THEN {Min(inexpensive)} ELSE {}

(* "Price trend - next 2 hours": the trend compares the exact mean prices of *)
(* the two hours after the last calculation, though intervals may be cut by  *)
(* either and the fee may change in the middle of an interval; it is shown   *)
(* exactly if every instant of the two hours has a price.                    *)
TrendIsExact ==
    LET from == taken.at
        whole == \A t \in from .. from + 2 * HourSlots - 1 : At(t) # {}
    IN  insights.direction =
           IF Priced /\ whole THEN Direction(ExactCost(from), ExactCost(from + HourSlots))
           ELSE "none"

\* The hours to come that are better, by the present tariff and the whole series.
BetterHours ==
    BetterPrices(CHOOSE p \in data.price : TRUE, data.scope, past, entry.options,
                 ForecastPrices(entry, excluded, series), now)

(* "A future interval suppresses a good-now result only when it qualifies    *)
(* for its own local-hour cohort and is lower by at least 10 percent of the  *)
(* compatible history's [...] range" (sensors.md:466): whatever was read or  *)
(* recalculated since, a result is suppressed for an hour that is still to   *)
(* come and better at the present tariff, and no good result ignores such    *)
(* an hour, unless the live price had no currency, or another one, when the  *)
(* insights were calculated last.                                            *)
SuppressedForABetterHour ==
    /\ GoodTimeNow.method = "suppressed" => BetterHours # {}
    /\ GoodTimeNow = Verdict("adaptive", "good") /\ taken.currency = data.scope.currency
          => BetterHours = {}

\* The observations of this hour of the day that a verdict may rest on.
SameHour == {o \in past.hours : /\ past.scope = data.scope /\ o.hour = HourOfDay(now)
                                /\ o.day \in DayOf(now) - HistoryDays .. DayOf(now) - 1}

\* Those of the same kind of day, if they are enough, else all, if they are.
Peers ==
    LET alike == {o \in SameHour : IsWeekend(o.day) = IsWeekend(DayOf(now))}
    IN  IF Cardinality(alike) >= MinDayTypeSamples THEN alike ELSE SameHour

(* "relatively favourable" (docs/adr/0012): an adaptive verdict is good       *)
(* exactly if the comparable hours that were cheaper weigh less than the     *)
(* target share of all of them, and the price is not above the ceiling; it   *)
(* is never given on fewer hours than required.                              *)
GoodIsInTheCheapestShare ==
    GoodTimeNow.method \in {"adaptive", "suppressed"} =>
        LET price == CHOOSE p \in data.price : TRUE
            cheaper == {o \in Peers : o.price < price}
            share == entry.options.percentile * Weight(Peers, DayOf(now))
        IN  /\ Cardinality(Peers) >= Min({MinDayTypeSamples, MinHourSamples})
            /\ (GoodTimeNow.good = "good" \/ GoodTimeNow.method = "suppressed")
                  <=> /\ 100 * Weight(cheaper, DayOf(now)) < share
                      /\ \A c \in entry.options.ceiling : price <= c
=============================================================================
