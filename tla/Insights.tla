------------------------------- MODULE Insights -------------------------------
(***************************************************************************)
(* The forecast insights: the cheapest continuous window, the next          *)
(* inexpensive hour and the price trend of a series of market prices.       *)
(* The series is a set of disjoint intervals of one area and currency       *)
(* (ForecastCache), its prices without VAT.  In this module a              *)
(* price setting is a record p: meta of the series, fee, excluded dates,    *)
(* and the other additions adj.                                             *)
(***************************************************************************)
EXTENDS Pricing

CONSTANT TolerancePercent   \* of a stable trend (2 in the code)

\* The additions in force at t.
AdjAt(p, t) == [p.adj EXCEPT !["grid"] = FeeAt(p.fee, p.excluded, t)]

\* _scheduling_price of a market price at t, its VAT being known.
SchedulingPrice(market, p, t) ==
    (CHOOSE g \in Gross(market, p.meta) : TRUE) + AdditionSum(p.meta, AdjAt(p, t))

\* The price of an interval or a piece x over its length, at the fee of its start; that of a set.
Due(x, p)  == (x.end - x.start) * SchedulingPrice(x.price, p, x.start)
Cost(S, p) == SumOf(S, [x \in S |-> Due(x, p)])

Upcoming(series, now) == {i \in series : i.start >= now}

\* A window that goes on over a gap in the series.
WindowOverGaps(up, i, length) ==
    {m \in up : /\ i.start <= m.start
                /\ \A k \in up : i.start <= k.start /\ k.start < m.start => k.end - i.start < length}

(* The window from the interval i goes on as long as the next one begins    *)
(* where one ends, which is the one before it as they are disjoint, and the *)
(* length is not reached.                                                   *)
WindowFrom(up, i, length) ==
    {m \in up : /\ i.start <= m.start
                /\ \A j \in up : i.start < j.start /\ j.start <= m.start =>
                      \E k \in up : k.end = j.start /\ k.end - i.start < length}

\* The first intervals of the windows of exactly that length.
Windows(up, length) == {i \in up : \E m \in WindowFrom(up, i, length) : m.end = i.start + length}

\* _average_scheduling_price, times the length.
Window(up, i, length, p) == [start |-> i.start, price |-> Cost(WindowFrom(up, i, length), p)]

\* find_cheapest_continuous_window: the earliest of the cheapest, as a set of at most one.
CheapestWindow(series, now, length, p) ==
    LET up   == Upcoming(series, now)
        all  == {Window(up, i, length, p) : i \in Windows(up, length)}
        best == {w \in all : \A v \in all : w.price <= v.price}
    IN  IF ~KnownVat(p.meta) THEN {}
        ELSE {w \in best : \A v \in best : w.start <= v.start}

\* find_next_inexpensive_1h_window.
NextInexpensive(series, now, threshold, p, comparable) ==
    LET up   == Upcoming(series, now)
        good == {w \in {Window(up, i, HourSlots, p) : i \in Windows(up, HourSlots)} :
                    \E th \in threshold : w.price <= th * HourSlots}
    IN  IF ~KnownVat(p.meta) \/ ~comparable THEN {}
        ELSE {w \in good : \A v \in good : w.start <= v.start}

-----------------------------------------------------------------------------
\* max(abs(current), abs(following)) * tolerance, and the comparison with it.
Direction(current, following) ==
    LET Abs(n) == IF n < 0 THEN -n ELSE n
        delta  == following - current
    IN  IF 100 * Abs(delta) <= TolerancePercent * Max({Abs(current), Abs(following)}) THEN "stable"
        ELSE IF delta > 0 THEN "rising" ELSE "falling"

Relevant(series, now) == {i \in series : i.end > now /\ i.start < now + 2 * HourSlots}

\* Of an interval, what is in the next two hours.
Left(i, now)  == IF i.start > now THEN i.start ELSE now
Right(i, now) == IF i.end < now + 2 * HourSlots THEN i.end ELSE now + 2 * HourSlots

\* The intervals of the next two hours follow one another without a gap.
Joined(series, now) ==
    LET ends == {Right(i, now) : i \in Relevant(series, now)}
    IN  /\ now + 2 * HourSlots \in ends
        /\ \A i \in Relevant(series, now) : Left(i, now) \in {now} \union ends

\* An interval is cut in the middle of the two hours and where the fee may change.
Points(i, now, p) ==
    {Left(i, now), Right(i, now)} \union
    {t \in {now + HourSlots} \union ChangeTimes(p.fee, now, now + 2 * HourSlots) :
        Left(i, now) < t /\ t < Right(i, now)}

\* The pieces between two cuts.
PiecesOf(i, now, p) ==
    {x \in [start : Points(i, now, p), end : Points(i, now, p), price : {i.price}] :
        x.start < x.end /\ \A t \in Points(i, now, p) : ~(x.start < t /\ t < x.end)}

Pieces(series, now, p) == UNION {PiecesOf(i, now, p) : i \in Relevant(series, now)}

\* find_price_direction.
PriceDirection(series, now, p) ==
    LET middle == now + HourSlots
        pieces == Pieces(series, now, p)
    IN  IF ~(KnownVat(p.meta) /\ Joined(series, now)) THEN "none"
        ELSE Direction(Cost({x \in pieces : x.start < middle}, p),
                       Cost({x \in pieces : x.start >= middle}, p))
=============================================================================
