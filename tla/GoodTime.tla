------------------------------- MODULE GoodTime -------------------------------
(***************************************************************************)
(* Good Time: is the present price a good one, by a fixed threshold or by   *)
(* what the same hour cost on earlier days, and is a better one coming?     *)
(* An observation is [day, hour, price, covered] and all of them are of the *)
(* scope past.scope, as AdaptiveHistory shows; those kept are covered       *)
(* enough.  Options o: mode, threshold, percentile, ceiling.                *)
(***************************************************************************)
EXTENDS Pricing

CONSTANTS
    HistoryDays,        \* days of history compared with (28 in the code)
    Recency,            \* recency_weight by age in days, scaled to integers
    HalfLife,           \* in days (7 in the code)
    MinDayTypeSamples,  \* 8 in the code
    MinHourSamples,     \* 14 in the code
    LookAhead           \* units of time of forecast looked at (six hours in the code)

\* Weights halve every HalfLife days.
ASSUME GoodTimeAssumption ==
    /\ HistoryDays \in Nat \ {0} /\ HalfLife \in 1 .. HistoryDays
    /\ Recency \in [0 .. HistoryDays -> Nat \ {0}]
    /\ \A age \in HalfLife .. HistoryDays : 2 * Recency[age] = Recency[age - HalfLife]
    /\ \A age \in 1 .. HistoryDays : Recency[age] < Recency[age - 1]
    /\ MinDayTypeSamples \in Nat \ {0} /\ MinHourSamples \in Nat \ {0} /\ LookAhead \in Nat

Weekends(obs, day) == {o \in obs : IsWeekend(o.day) = IsWeekend(day)}

\* The weight of a set of observations at the day d.
Weight(obs, d) == SumOf(obs, [o \in obs |-> o.covered * Recency[d - o.day]])

\* A quantile that takes the next price when the target is just reached.
QuantileAbove(obs, d, percent) ==
    Min({o.price : o \in {q \in obs :
            100 * Weight({r \in obs : r.price <= q.price}, d) > percent * Weight(obs, d)}})

\* weighted_quantile: the lowest price whose cumulative weight reaches the target.
Quantile(obs, d, percent) ==
    Min({o.price : o \in {q \in obs :
            100 * Weight({r \in obs : r.price <= q.price}, d) >= percent * Weight(obs, d)}})

\* _eligible_observations: earlier days of the same scope.
Eligible(past, scope, d) ==
    IF past.scope # scope THEN {}
    ELSE {o \in past.hours : d - HistoryDays <= o.day /\ o.day < d}

\* _select_cohort, {} if neither has enough observations.
Cohort(obs, t) ==
    LET same_hour == {o \in obs : o.hour = HourOfDay(t)}
        same_day_type == Weekends(same_hour, DayOf(t))
    IN  IF Cardinality(same_day_type) >= MinDayTypeSamples THEN same_day_type
        ELSE IF Cardinality(same_hour) >= MinHourSamples THEN same_hour
        ELSE {}

Verdict(method, good) == [method |-> method, good |-> good]
Unavailable == Verdict("none", "unknown")
Good(b) == IF b THEN "good" ELSE "bad"

\* The verdict by a fixed threshold, if there is one.
ByThreshold(method, price, threshold) ==
    IF threshold = {} THEN Unavailable
    ELSE Verdict(method, Good(\A th \in threshold : price <= th))

\* evaluate_adaptive_good_price.
Adaptive(price, scope, past, o, t) ==
    LET cohort == Cohort(Eligible(past, scope, DayOf(t)), t)
        above_ceiling == \E c \in o.ceiling : price > c
    IN  IF ~IsComparable(scope) THEN Unavailable
        ELSE IF cohort = {} THEN ByThreshold("fallback", price, o.threshold)
        ELSE Verdict("adaptive",
                     Good(~above_ceiling /\ price <= Quantile(cohort, DayOf(t), o.percentile)))

\* The spread of prices that a difference is measured by, 90th to 10th percentile.
ReferenceRange(obs, d) == Quantile(obs, d, 90) - Quantile(obs, d, 10)

Material(difference, range) == range > 0 /\ 10 * difference >= range

(* evaluate_adaptive_forecast: the forecast prices, each [start, price,      *)
(* scope], that make a good present price no good one.                       *)
BetterPrices(price, scope, past, o, forecast, now) ==
    LET range == ReferenceRange(Eligible(past, scope, DayOf(now)), DayOf(now))
    IN  {f \in forecast :
            /\ f.scope = scope
            /\ now <= f.start /\ f.start < now + LookAhead
            /\ Adaptive(f.price, f.scope, past, [o EXCEPT !.threshold = {}], f.start)
                  = Verdict("adaptive", "good")
            /\ Material(price - f.price, range)}

(* evaluate_good_time on the price and scope last read (either may be        *)
(* absent) and the cached forecast.                                          *)
Evaluate(data, past, o, forecast, comparable, now) ==
    LET price == CHOOSE p \in data.price : TRUE
        scope == data.scope
        adaptive == Adaptive(price, scope, past, o, now)
        suppressed == /\ adaptive = Verdict("adaptive", "good") /\ comparable
                      /\ BetterPrices(price, scope, past, o, forecast, now) # {}
    IN  IF data.price = {} THEN Unavailable
        ELSE IF o.mode = "fixed" THEN ByThreshold("fixed", price, o.threshold)
        ELSE IF suppressed THEN Verdict("suppressed", "bad")
        ELSE adaptive
=============================================================================
