---------------------------- MODULE MCCostLedger ----------------------------
\* Small instances of CostLedger: a new month every day.
EXTENDS CostLedger

MCMonthOf == [d \in Days |-> d]

Quote(u, p) == [unit |-> u, price |-> p]

SEK(n) == Quote("SEK", {n})

Scenario(l, f, q) == [lifetime |-> l, faults |-> f, quotes |-> q]

(* A lifetime meter whose prices change, in two currencies, or are missing;  *)
(* a lifetime meter with every fault; a source of today's energy, and one    *)
(* that falls back.                                                          *)
MCScenarios ==
    {Scenario(TRUE, {}, {SEK(2), Quote("EUR", {-1}), Quote("SEK", NoPrice), Quote(NoUnit, NoPrice)}),
     Scenario(TRUE, {"outage", "stale", "dip", "replacement", "restart"}, {SEK(2)}),
     Scenario(FALSE, {"outage", "restart"}, {SEK(2), SEK(-1)}),
     Scenario(FALSE, {"dip", "stale"}, {SEK(2)})}
=============================================================================
