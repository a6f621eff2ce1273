---------------------------- MODULE ForecastCache ----------------------------
(***************************************************************************)
(* The market-price forecast: the cache of delivery dates that the          *)
(* forecast tick prunes and fills, one awaited request at a time, and the   *)
(* series it publishes.                                                     *)
(*                                                                         *)
(* Time is counted in slots of a market day, which begin at 00:00, 01:00,   *)
(* 13:00 and 23:00 of the market's clock: what the program asks for changes *)
(* only there.  The local day begins Shift slots before the market day, so  *)
(* that Shift is 1 in Helsinki, 0 in Stockholm and -1 in London.            *)
(***************************************************************************)
EXTENDS ForecastSeries, FiniteSets, FiniteSetsExt

CONSTANTS
    Shifts,       \* the local timezones explored
    MaxMishaps    \* bound: odd answers of Nord Pool and restarts, together

ASSUME ForecastAssumption ==
    /\ MaxDate \in Nat \ {0} /\ MaxTicks \in Nat \ {0}
    /\ MaxMishaps \in Nat
    /\ Shifts \subseteq -1 .. 1

Slots  == SlotsPerDay .. SlotsPerDay * (MaxDate + 1) - 1
NoTick == [at |-> Idle, target |-> Idle]

VARIABLES
    published,  \* the dates Nord Pool has prices for
    odd         \* history: the odd answers so far

vars == <<slot, shift, published, cache, intervals, tick, restarts, odd>>

MarketDay(t)  == t \div SlotsPerDay
GateOpen(t)   == t % SlotsPerDay >= 2

\* Delivery dates of the market's clock alone.
DeliveryDatesOfMarket(t) == MarketDay(t) .. MarketDay(t) + (IF GateOpen(t) THEN 1 ELSE 0)

(* forecast_delivery_dates: from the market date on which the local day      *)
(* began to the market's today, and tomorrow after 13:00.                    *)
DeliveryDates(t) ==
    MarketDay(LocalStart(t)) .. MarketDay(t) + (IF GateOpen(t) THEN 1 ELSE 0)

-----------------------------------------------------------------------------
(* One interval stands for a delivery day.  An odd answer reaches into the   *)
(* next day, or is for the area of a Nord Pool entry configured anew.        *)
Interval(from, to, in) == [start |-> from, end |-> to, area |-> in]

Regular(d) == {Interval(d, d + 1, 1)}
Wide(d)    == {Interval(d, d + 2, 1)}
Foreign(d) == {Interval(d, d + 1, 2)}

Responses(d) ==
    {Regular(d)} \union (IF odd + restarts < MaxMishaps THEN {Wide(d), Foreign(d)} ELSE {})

\* _rebuild_forecast_intervals.
Rebuilt(c) == IF Valid(Cached(c)) THEN Cached(c) ELSE {}

\* Accepting every series that is valid by itself.
AcceptableAlone(c, d, response) == Valid(response)

\* A response is stored only if the whole series stays valid with it.
Acceptable(c, d, response) == Valid(response \union UNION {c[e] : e \in Dates \ {d}})

\* Pruning by the market's date.
PrunedByMarket(c, t) == [d \in Dates |-> IF d < MarketDay(t) THEN {} ELSE c[d]]

\* Dates before the first delivery date are dropped.
Pruned(c, t) == [d \in Dates |-> IF d < Min(DeliveryDates(t)) THEN {} ELSE c[d]]

\* The dates a tick that began at t still asks for, after the date d.
Missing(c, t, d) == {e \in DeliveryDates(t) : e > d /\ c[e] = {}}

-----------------------------------------------------------------------------
Init ==
    /\ slot = SlotsPerDay
    /\ shift \in Shifts
    /\ published = {0, 1}
    /\ cache = [d \in Dates |-> {}] /\ intervals = {}
    /\ tick = [i \in Ticks |-> NoTick]
    /\ restarts = 0
    /\ odd = 0

TimePass ==
    /\ slot + 1 \in Slots
    /\ slot' = slot + 1
    /\ UNCHANGED <<shift, published, cache, intervals, tick, restarts, odd>>

\* Nord Pool publishes the next day at noon at the earliest, or late.
Publish ==
    /\ \E d \in Dates \ published :
          /\ d - 1 \in published /\ d <= MarketDay(slot) + 1
          /\ published' = published \union {d}
    /\ UNCHANGED <<slot, shift, cache, intervals, tick, restarts, odd>>

\* A tick that ends without a last rebuild.
ProceedUnpublished(i, c, t, d, shown) ==
    /\ tick' = [tick EXCEPT ![i] = IF Missing(c, t, d) = {} THEN NoTick
                                   ELSE [at |-> t, target |-> Min(Missing(c, t, d))]]
    /\ intervals' = shown

(* With the cache c and the series shown so far, the tick that began at t    *)
(* requests its next missing date after d, or ends and rebuilds the series.  *)
Proceed(i, c, t, d, shown) ==
    IF Missing(c, t, d) = {}
    THEN tick' = [tick EXCEPT ![i] = NoTick] /\ intervals' = Rebuilt(c)
    ELSE /\ tick' = [tick EXCEPT ![i] = [at |-> t, target |-> Min(Missing(c, t, d))]]
         /\ intervals' = shown

\* _async_forecast_tick up to its first request.
StartTick(i) ==
    /\ tick[i].at = Idle
    /\ cache' = Pruned(cache, slot)
    /\ Proceed(i, cache', slot, -1, intervals)
    /\ UNCHANGED <<slot, shift, published, restarts, odd>>

\* A failed request that forgets what is cached for its date.
RefusedForgetting(i) ==
    LET t == tick[i]
    IN  /\ t.at # Idle
        /\ cache' = [cache EXCEPT ![t.target] = {}]
        /\ Proceed(i, cache', t.at, t.target, intervals)
        /\ UNCHANGED <<slot, shift, published, restarts, odd>>

(* Empty, late, failed and malformed answers leave the cache alone; the tick *)
(* goes on with its next date.                                               *)
Refused(i) ==
    LET t == tick[i]
    IN  /\ t.at # Idle
        /\ Proceed(i, cache, t.at, t.target, intervals)
        /\ UNCHANGED <<slot, shift, published, cache, restarts, odd>>

(* The answer for the awaited date, judged against the cache as it is now;   *)
(* if accepted it is stored and published at once.                           *)
Delivered(i, d) ==
    LET t == tick[i]
    IN  /\ t.at # Idle /\ t.target = d /\ d \in published
        /\ \E response \in Responses(d) :
              /\ odd' = odd + (IF response = Regular(d) THEN 0 ELSE 1)
              /\ IF Acceptable(cache, d, response)
                 THEN /\ cache' = [cache EXCEPT ![d] = response]
                      /\ Proceed(i, cache', t.at, d, Rebuilt(cache'))
                 ELSE /\ UNCHANGED cache
                      /\ Proceed(i, cache, t.at, d, intervals)
        /\ UNCHANGED <<slot, shift, published, restarts>>

\* The cache is in memory only.
Restart ==
    /\ odd + restarts < MaxMishaps
    /\ restarts' = restarts + 1
    /\ cache' = [d \in Dates |-> {}] /\ intervals' = {}
    /\ tick' = [i \in Ticks |-> NoTick]
    /\ UNCHANGED <<slot, shift, published, odd>>

Next ==
    \/ TimePass \/ Publish \/ Restart
    \/ \E i \in Ticks : StartTick(i) \/ Refused(i) \/ \E d \in Dates : Delivered(i, d)

(* The timer runs, every request is answered, and a date Nord Pool has       *)
(* prices for is not refused forever.                                        *)
Fairness ==
    /\ WF_vars(\E i \in Ticks : StartTick(i))
    /\ \A i \in Ticks : WF_vars(Refused(i) \/ \E d \in Dates : Delivered(i, d))
    /\ \A d \in Dates : SF_vars(\E i \in Ticks : Delivered(i, d))

Spec == Init /\ [][Next]_vars /\ Fairness

-----------------------------------------------------------------------------
Needed(d) == ~Over(d) /\ (d <= MarketDay(slot) \/ (d = MarketDay(slot) + 1 /\ GateOpen(slot)))

(* A needed date that Nord Pool has prices for is cached in the end, and     *)
(* retrieved again after a restart, unless an odd series stands in the way.  *)
NeededArrives ==
    \A d \in Dates : (Needed(d) /\ d \in published) ~> (cache[d] # {} \/ Over(d) \/ odd > 0)
=============================================================================
