-------------------------- MODULE MCForecastInsights --------------------------
\* A Friday and the Saturday after it, in days of three hours of two units.
EXTENDS ForecastInsights

\* recency_weight with a half-life of seven days, in twentieths.
MCRecency == [age \in 0 .. 7 |-> <<20, 18, 16, 15, 13, 12, 11, 10>>[age + 1]]

Interval(from, to, p) == [start |-> from, end |-> to, price |-> p]

\* Hours and half hours; Saturday has a gap.
MCSeries ==
    {Interval(66, 68, 0), Interval(68, 70, 8), Interval(70, 71, 4), Interval(71, 72, 0),
     Interval(72, 74, 0), Interval(74, 75, -4), Interval(76, 78, 4)}

Quote(p, c) == [price |-> p, currency |-> c]
MCQuotes == {Quote({}, NoCurrency), Quote({8}, "SEK"), Quote({4}, "SEK"), Quote({8}, "EUR")}

MarketPrice   == [included |-> {"market"}, vat |-> "excluded", complete |-> FALSE, rate |-> {25}]
CompletePrice == [included |-> Components, vat |-> "included", complete |-> TRUE, rate |-> {25}]

Additional(tax) == [markup |-> {1}, tax |-> tax, grid |-> {}]
HighLow == [low |-> {1}, high |-> {6}]
OneFee  == [low |-> {1}, high |-> {}]

Options(m, th, c) == [mode |-> m, threshold |-> th, percentile |-> 50, ceiling |-> c]
Entry(live, rate, tax, fee, o) ==
    [live |-> [live EXCEPT !.rate = rate], rate |-> rate, adj |-> Additional(tax), fee |-> fee,
     options |-> o]

(* A spot price with all additions; a complete price with a ceiling; a spot  *)
(* price without energy tax, by a fixed threshold; one without a VAT rate.   *)
MCEntries ==
    {Entry(MarketPrice, {25}, {2}, HighLow, Options("adaptive", {10}, {})),
     Entry(CompletePrice, {25}, {2}, OneFee, Options("adaptive", {}, {7})),
     Entry(MarketPrice, {25}, {}, HighLow, Options("fixed", {12}, {})),
     Entry(CompletePrice, {}, {2}, HighLow, Options("adaptive", {4}, {}))}

CompleteScope == ScopeOf("SEK", CompletePrice, Additional({2}))
History(days, Price(_, _)) ==
    [scope |-> CompleteScope,
     hours |-> {[day |-> d, hour |-> h, price |-> Price(d, h), covered |-> 8 + (d % 2)] :
                   d \in days, h \in 0 .. DayHours - 1}]

\* Prices that vary by day and hour, flat ones, and too few.
MCPasts ==
    {History(4 .. 10, LAMBDA d, h : (5 * d + 4 * h) % 19),
     History(4 .. 10, LAMBDA d, h : 14),
     History(9 .. 10, LAMBDA d, h : IF d = 9 THEN 8 ELSE 14)}
=============================================================================
