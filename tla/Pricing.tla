------------------------------- MODULE Pricing -------------------------------
(***************************************************************************)
(* Price components, VAT and the grid tariff: how one price per kWh is      *)
(* built from a source, what it declares to include, and the settings.      *)
(* Prices are integers; an absent one is {} and a price p is {p}.           *)
(***************************************************************************)
EXTENDS Integers, FiniteSets, FiniteSetsExt

CONSTANTS
    HourSlots,      \* units of time in an hour
    DayHours,       \* hours in a day
    HighWeekdays,   \* 0 is Monday
    SeasonStart, SeasonEnd,   \* days of a year of YearDays, both in the season
    YearDays,
    HighStart, HighEnd        \* units of time of the day, the end not in the period

ASSUME PricingAssumption ==
    /\ HourSlots \in Nat \ {0} /\ DayHours \in Nat \ {0} /\ YearDays \in Nat \ {0}
    /\ HighWeekdays \subseteq 0 .. 6 /\ HighWeekdays # {}
    /\ SeasonStart \in 0 .. YearDays - 1 /\ SeasonEnd \in 0 .. YearDays - 1
    /\ HighStart \in 0 .. HourSlots * DayHours - 1 /\ HighEnd \in 0 .. HourSlots * DayHours - 1
    /\ HighStart # HighEnd

DayLength    == HourSlots * DayHours
DayOf(t)     == t \div DayLength
Midnight(d)  == DayLength * d
ClockTime(t) == t % DayLength
HourOfDay(t) == ClockTime(t) \div HourSlots
Weekday(d)   == d % 7
IsWeekend(d) == Weekday(d) >= 5

NoCurrency == "none"

Components  == {"market", "markup", "tax", "grid"}
Adjustments == {"markup", "tax", "grid"}

-----------------------------------------------------------------------------
\* _month_day_in_period, whose end is in the period.
InSeason(d) ==
    IF SeasonStart <= SeasonEnd THEN d \in SeasonStart .. SeasonEnd
    ELSE d >= SeasonStart \/ d <= SeasonEnd

\* _time_in_period, whose end is not, and which may run over midnight.
InHighHours(c) ==
    IF HighStart < HighEnd THEN HighStart <= c /\ c < HighEnd
    ELSE c >= HighStart \/ c < HighEnd

\* HighLowGridTariff.fee_at, for the high period.
IsHigh(excluded, t) ==
    /\ DayOf(t) \notin excluded
    /\ Weekday(DayOf(t)) \in HighWeekdays
    /\ InSeason(DayOf(t) % YearDays)
    /\ InHighHours(ClockTime(t))

\* grid_fee_at: a tariff has both fees, otherwise the one configured holds.
FeeAt(fee, excluded, t) ==
    IF fee.low # {} /\ fee.high # {} /\ IsHigh(excluded, t) THEN fee.high ELSE fee.low

\* Where the fee can change in a day.
ClockTimes == {0, HighStart, HighEnd}

\* A tariff that changes at its high period's end only, where its low one begins.
ChangeTimesOfEnd(fee, from, to) ==
    {t \in {Midnight(d) + HighEnd : d \in DayOf(from) - 1 .. DayOf(to) + 1} : from < t /\ t < to}

(* grid_fee_change_times with change_boundaries, in a zone whose clock does  *)
(* not change.                                                              *)
ChangeTimes(fee, from, to) ==
    IF fee.low = {} \/ fee.high = {} THEN {}
    ELSE {t \in {Midnight(d) + c : d \in DayOf(from) - 1 .. DayOf(to) + 1, c \in ClockTimes} :
             from < t /\ t < to}

-----------------------------------------------------------------------------
\* The sum of e over the finite set S.
SumOf(S, e) == MapThenSumSet(LAMBDA x : e[x], S)

\* vat_inclusive_price: the source's price only; additions include VAT already.
Gross(p, meta) ==
    CASE meta.vat = "included" -> {p}
      [] meta.vat = "excluded" -> {p + (p * r) \div 100 : r \in meta.rate}
      [] OTHER -> {}

KnownVat(meta) == Gross(0, meta) # {}

\* The configured additions that the source does not include already.
Additions(meta, adj) == {c \in Adjustments : adj[c] # {} /\ c \notin meta.included}

AdditionSum(meta, adj) ==
    SumOf(Additions(meta, adj), [c \in Additions(meta, adj) |-> CHOOSE v \in adj[c] : TRUE])

\* calculate_declared_effective_price, calculate_normalized_effective_price.
EffectivePrice(price, meta, adj) ==
    IF meta.complete /\ Additions(meta, adj) # {} THEN {}
    ELSE {g + AdditionSum(meta, adj) : g \in UNION {Gross(p, meta) : p \in price}}

(* effective_price_metadata and AdaptivePriceScope.from_metadata; the tariff *)
(* signature is the entry's own and the same everywhere.                     *)
ScopeOf(currency, meta, adj) ==
    LET included == meta.included \union {c \in Adjustments : adj[c] # {}}
    IN  [currency |-> currency,
         included |-> included,
         vat      |-> KnownVat(meta),
         complete |-> meta.complete \/ (included = Components /\ KnownVat(meta))]

\* AdaptivePriceScope.is_comparable.
IsComparable(scope) == scope.currency # NoCurrency /\ scope.vat /\ scope.complete
=============================================================================
