----------------------------- MODULE CostLedger -----------------------------
(***************************************************************************)
(* The cost estimate: CostLedger of cost_ledger.py, fed by _read.           *)
(*                                                                         *)
(* Time is counted in units of five minutes, so the 900 seconds after which *)
(* an interval is a gap are MaxGap = 3 units.  Energy flows in quanta of 6, *)
(* so that a delta divides evenly over 1, 2 or 3 units.  Only the effective *)
(* price is modelled: the supplier's price goes through the same lines.     *)
(***************************************************************************)
EXTENDS Integers, Sequences, FiniteSetsExt

CONSTANTS
    MaxTime,      \* bound: the last unit of time
    DayLength,    \* units in a local day
    MonthOf,      \* the month of each day
    MaxFlow,      \* bound: the energy that flows in all
    MaxSegments,  \* price segments kept open (256 in the code)
    Scenarios     \* the kinds of source explored, with their faults and prices

FaultKinds == {"outage", "dip", "stale", "replacement", "restart"}

MaxGap  == 3
Quantum == 6

Times    == 0 .. MaxTime
DayOf(t) == t \div DayLength
Days     == 0 .. DayOf(MaxTime)

Missing == -1      \* no reading, no mark, no period
NoUnit  == "none"  \* no currency
NoPrice == {}      \* a price is a set of at most one amount

ASSUME LedgerAssumption ==
    /\ MaxTime \in Nat /\ DayLength \in Nat \ {0} /\ MaxFlow \in Nat /\ MaxSegments \in Nat \ {0}
    /\ MonthOf \in [Days -> Nat]
    /\ \A d, e \in Days : d <= e => MonthOf[d] <= MonthOf[e]
    /\ \A s \in Scenarios :
          /\ s.lifetime \in BOOLEAN /\ s.faults \subseteq FaultKinds
          /\ \A q \in s.quotes : Cardinality(q.price) <= 1 /\ \A n \in q.price : n \in Int

VARIABLES
    scenario,   \* the kind of source: a lifetime meter or today's total; its faults and prices
    now,        \* the unit of time
    register,   \* what the source's meter counts
    meterBase,  \* history: energy that had flowed when the register was zero
    reported,   \* the state of the energy entity
    quote,      \* the state of the price entities
    running,    \* the entry is loaded
    ledger,     \* the CostLedger in memory: its totals and its open interval
    file,       \* the totals in the statistics file
    booked,     \* history: energy and cost booked to each unit of time
    fileBooked, \* history: the same for the totals in the file
    charge,     \* history: the price in force in each unit of time
    seen        \* history: the last reading, and the energy that must stay unpriced

vars == <<scenario, now, register, meterBase, reported, quote, running, ledger, file,
          booked, fileBooked, charge, seen>>

Lifetime == scenario.lifetime
Faults   == scenario.faults
Quotes   == scenario.quotes   \* a quote is a currency and a price

Flowed == meterBase + register

NoTotals == [day |-> Missing, month |-> Missing, unit |-> NoUnit, high |-> Missing,
             daily_energy |-> 0, daily_effective |-> 0,
             monthly_energy |-> 0, monthly_effective |-> 0]

NoInterval == [meter |-> Missing, at |-> Missing, segments |-> << >>, discard |-> FALSE]

NewLedger == [totals |-> NoTotals, open |-> NoInterval]

NothingBooked == [t \in Times |-> [energy |-> 0, cost |-> 0]]

\* The sum of the values of a function over a finite set.
SumOf(S, e) == MapThenSumSet(LAMBDA x : e[x], S)

-----------------------------------------------------------------------------
Foreign(l, unit) == unit # NoUnit /\ l.totals.unit \notin {NoUnit, unit}

\* Another currency starts everything anew; a missing one changes nothing.
SetUnit(l, unit) ==
    IF unit = NoUnit THEN l
    ELSE [(IF Foreign(l, unit) THEN NewLedger ELSE l) EXCEPT !.totals.unit = unit]

\* A new day or month starts at zero.
StartPeriods(tot, t) ==
    LET d == DayOf(t)
    IN  [tot EXCEPT !.day = d, !.month = MonthOf[d],
                    !.daily_energy      = IF tot.day = d THEN @ ELSE 0,
                    !.daily_effective   = IF tot.day = d THEN @ ELSE 0,
                    !.monthly_energy    = IF tot.month = MonthOf[d] THEN @ ELSE 0,
                    !.monthly_effective = IF tot.month = MonthOf[d] THEN @ ELSE 0]

Baseline(l, t, m, p) ==
    [l EXCEPT !.open.meter = m, !.open.at = t, !.open.segments = <<[at |-> t, price |-> p]>>]

\* Whether the interval is discarded when the next reading comes.
Discarding(l, x) == [l EXCEPT !.open.discard = x]

\* A missing or rejected reading ends the observation; discard is kept.
Unobserved(l) == [l EXCEPT !.open = [NoInterval EXCEPT !.discard = l.open.discard]]

\* Price segments without a limit.
QuotedUncapped(l, t, m, p) ==
    IF l.open.segments[Len(l.open.segments)].price = p THEN l
    ELSE [l EXCEPT !.open.segments = Append(@, [at |-> t, price |-> p])]

\* The price changes within the open interval; too many changes discard it.
Quoted(l, t, m, p) ==
    LET segments == Append(l.open.segments, [at |-> t, price |-> p])
    IN  IF l.open.segments[Len(l.open.segments)].price = p THEN l
        ELSE IF Len(segments) > MaxSegments
             THEN Discarding(Baseline(l, t, m, p), TRUE)
             ELSE [l EXCEPT !.open.segments = segments]

\* The segment that covers the unit u, and its price.
InForce(segments, u)      == Max({i \in DOMAIN segments : segments[i].at <= u})
SegmentPrice(segments, u) == segments[InForce(segments, u)].price

Midnight(t) == DayOf(t) * DayLength

\* The segments from the unit x on: the one in force begins then, those after it stay.
SegmentsFrom(segments, x) ==
    LET kept == SubSeq(segments, InForce(segments, x), Len(segments))
    IN  [kept EXCEPT ![1] = [at |-> x, price |-> kept[1].price]]

\* The day of a daily source begins at midnight, with zero.
FromMidnight(l, t) ==
    [l EXCEPT !.open.meter = 0, !.open.at = Midnight(t),
              !.open.segments = SegmentsFrom(l.open.segments, Midnight(t))]

Amount(p) == CHOOSE n \in p : TRUE

\* Allocation that books the whole delta to the current day and month.
AllocateUnsplit(l, t, m) ==
    LET o      == l.open
        share  == (m - o.meter) \div (t - o.at)
        priced == {u \in o.at .. t - 1 : SegmentPrice(o.segments, u) # NoPrice}
        energy == share * Cardinality(priced)
        cost   == share * SumOf(priced, [u \in priced |-> Amount(SegmentPrice(o.segments, u))])
    IN  [l EXCEPT !.totals.monthly_energy = @ + energy, !.totals.monthly_effective = @ + cost,
                  !.totals.daily_energy   = @ + energy, !.totals.daily_effective   = @ + cost]

(* The delta is spread evenly over the interval; each part is charged at the *)
(* price of its segment and booked to the current month and day as far as it *)
(* lies in them.                                                             *)
Allocate(l, t, m) ==
    LET o         == l.open
        share     == (m - o.meter) \div (t - o.at)
        priced    == {u \in o.at .. t - 1 : SegmentPrice(o.segments, u) # NoPrice}
        Used(S)   == share * Cardinality(S)
        Cost(S)   == share * SumOf(S, [u \in S |-> Amount(SegmentPrice(o.segments, u))])
        month     == {u \in priced : MonthOf[DayOf(u)] = l.totals.month}
        today     == {u \in priced : DayOf(u) = l.totals.day}
    IN  [l EXCEPT !.totals.monthly_energy    = @ + Used(month),
                  !.totals.monthly_effective = @ + Cost(month),
                  !.totals.daily_energy      = @ + Used(today),
                  !.totals.daily_effective   = @ + Cost(today)]

Chargeable(o, t, m) == m # o.meter /\ t > o.at

\* A changed reading prices the interval and opens the next one.
Settle(l, t, m, p) ==
    IF Chargeable(l.open, t, m) THEN Baseline(Allocate(l, t, m), t, m, p) ELSE Quoted(l, t, m, p)

\* The verdict that takes yesterday's total, still shown after midnight, for today's.
VerdictNotStale(o, t, m) ==
    IF o.at = Missing THEN "first"
    ELSE IF t < o.at \/ t - o.at > MaxGap THEN "gap"
    ELSE IF o.discard /\ m # o.meter THEN "resume"
    ELSE IF ~Lifetime /\ DayOf(t) # DayOf(o.at) THEN "midnight"
    ELSE IF m >= o.meter THEN "settle"
    ELSE "backward"

\* The verdict without the memory of a gap that ended with an unchanged reading.
VerdictForgiving(o, t, m) ==
    IF o.at = Missing THEN "first"
    ELSE IF t < o.at \/ t - o.at > MaxGap THEN "gap"
    ELSE IF ~Lifetime /\ DayOf(t) # DayOf(o.at) /\ m >= o.meter THEN "stale"
    ELSE IF m >= o.meter THEN "settle"
    ELSE IF ~Lifetime /\ DayOf(t) # DayOf(o.at) THEN "midnight"
    ELSE "backward"

(* What an accepted reading means for the open interval, in the order of the *)
(* tests.  A "stale" reading is yesterday's total still shown by a daily     *)
(* source; after "midnight" the same source has started over.                *)
Verdict(o, t, m) ==
    IF o.at = Missing THEN "first"
    ELSE IF t < o.at \/ t - o.at > MaxGap THEN "gap"
    ELSE IF o.discard /\ m # o.meter THEN "resume"
    ELSE IF ~Lifetime /\ DayOf(t) # DayOf(o.at) /\ m >= o.meter THEN "stale"
    ELSE IF m >= o.meter THEN "settle"
    ELSE IF ~Lifetime /\ DayOf(t) # DayOf(o.at) THEN "midnight"
    ELSE "backward"

Observe(l, t, m, p) ==
    LET v == Verdict(l.open, t, m)
    IN  CASE v \in {"first", "backward"} -> Baseline(l, t, m, p)
          [] v = "gap"      -> Discarding(Baseline(l, t, m, p), m = l.open.meter)
          [] v = "resume"   -> Discarding(Baseline(l, t, m, p), FALSE)
          [] v = "stale"    -> Quoted(l, t, m, p)
          [] v = "midnight" -> Settle(FromMidnight(l, t), t, m, p)
          [] v = "settle"   -> Settle(l, t, m, p)

\* The beginning of every update: currency, day and month.
Opened(l, t, q) ==
    LET o == SetUnit(l, q.unit) IN [o EXCEPT !.totals = StartPeriods(o.totals, t)]

PriceOf(q) == IF q.unit = NoUnit THEN NoPrice ELSE q.price

Rejected(l, m) == m = Missing \/ (Lifetime /\ m < l.totals.high)

\* An accepted reading of a lifetime meter is its new high-water mark.
Marked(l, m) == [l EXCEPT !.totals.high = IF Lifetime THEN m ELSE @]

\* An update that trusts a reading below the high-water mark.
UpdateTrusting(l, t, m, q) ==
    LET o == Opened(l, t, q)
    IN  IF m = Missing THEN Unobserved(o)
        ELSE Observe(Marked(o, m), t, m, PriceOf(q))

\* CostLedger.update.
Update(l, t, m, q) ==
    LET o == Opened(l, t, q)
    IN  IF Rejected(o, m) THEN Unobserved(o)
        ELSE Observe(Marked(o, m), t, m, PriceOf(q))

\* CostLedger.confirm_meter_reset.
Confirm(l, m) == [l EXCEPT !.totals.high = m, !.open = NoInterval]

-----------------------------------------------------------------------------
(* History.  Each unit of time remembers what was booked to it and the price *)
(* in force, so that the ledger's running sums can be compared with sums     *)
(* over the units of a day or month.                                         *)
Closing(l, t, m, q) ==
    LET o == Opened(l, t, q)
    IN  IF Verdict(o.open, t, m) = "midnight" THEN FromMidnight(o, t).open ELSE o.open

Books(l, t, m, q) ==
    LET o == Opened(l, t, q)
    IN  /\ ~Rejected(o, m) /\ Verdict(o.open, t, m) \in {"midnight", "settle"}
        /\ Chargeable(Closing(l, t, m, q), t, m)

BookedAfter(b, l, t, m, q) ==
    LET closing == Closing(l, t, m, q)
        share   == (m - closing.meter) \div (t - closing.at)
        units   == IF Books(l, t, m, q) THEN closing.at .. t - 1 ELSE {}
        base    == IF Foreign(l, q.unit) THEN NothingBooked ELSE b
    IN  [u \in Times |->
            IF u \in units /\ charge[u] # NoPrice
            THEN [energy |-> base[u].energy + share,
                  cost   |-> base[u].cost + share * Amount(charge[u])]
            ELSE base[u]]

(* What must never be priced: the energy before the first reading, the       *)
(* energy between two readings with an outage, a restart or a rejected       *)
(* reading between them, and the energy of a gap of more than 15 minutes.    *)
(* "broken" says that such an interruption is still open; it stays open      *)
(* while the source repeats an old reading.  "fell" says that the source has *)
(* shown less than its meter.                                                *)
Witness(m) ==
    LET mark == meterBase + m
        fell == seen.fell \/ m \notin {register, Missing}
    IN  IF m = Missing \/ (Lifetime /\ m < seen.value)
        THEN [seen EXCEPT !.broken = TRUE, !.fell = fell]
        ELSE [fell     |-> fell,
              value    |-> m,
              mark     |-> mark,
              at       |-> IF mark # seen.mark \/ seen.broken THEN now ELSE seen.at,
              broken   |-> seen.broken /\ mark = seen.mark /\ m < register,
              excluded |-> IF seen.broken \/ now - seen.at > MaxGap
                           THEN seen.excluded + (mark - seen.mark) ELSE seen.excluded]

-----------------------------------------------------------------------------
Init ==
    /\ scenario \in Scenarios
    /\ now = 0
    /\ register = 0 /\ meterBase = 0
    /\ reported = Missing
    /\ quote \in Quotes
    /\ running = TRUE
    /\ ledger = NewLedger /\ file = NoTotals
    /\ booked = NothingBooked /\ fileBooked = NothingBooked
    /\ charge = [t \in Times |-> NoPrice]
    /\ seen = [value |-> Missing, mark |-> 0, at |-> 0, broken |-> TRUE, excluded |-> 0,
             fell |-> FALSE]

\* A daily source starts over at midnight; what the entity shows follows later.
TimePass ==
    /\ now < MaxTime
    /\ now' = now + 1
    /\ IF ~Lifetime /\ DayOf(now') # DayOf(now)
       THEN register' = 0 /\ meterBase' = Flowed
       ELSE UNCHANGED <<register, meterBase>>
    /\ UNCHANGED <<scenario, reported, quote, running, ledger, file, booked, fileBooked, charge, seen>>

Consume ==
    /\ Flowed + Quantum <= MaxFlow
    /\ register' = register + Quantum
    /\ UNCHANGED <<scenario, now, meterBase, reported, quote, running, ledger, file,
                   booked, fileBooked, charge, seen>>

ReplaceMeter ==
    /\ "replacement" \in Faults /\ Lifetime /\ register > 0
    /\ meterBase' = Flowed /\ register' = 0
    /\ UNCHANGED <<scenario, now, reported, quote, running, ledger, file, booked, fileBooked, charge, seen>>

\* _read: the ledger is updated with the current states of the sources.
Read(l, b, m, q) ==
    /\ ledger' = Update(l, now, m, q)
    /\ charge' = [t \in Times |-> IF t >= now THEN PriceOf(q) ELSE charge[t]]
    /\ booked' = BookedAfter(b, l, now, m, q)

Readings ==
    {register} \union (IF "outage" \in Faults THEN {Missing} ELSE {})
               \union (IF "dip" \in Faults THEN {0} ELSE {})
               \union (IF "stale" \in Faults /\ seen.value # Missing THEN {seen.value} ELSE {})

\* The meter reports at most one new reading per unit of time.
EnergyChanged ==
    /\ running
    /\ \E m \in Readings :
          /\ m # reported
          /\ m = Missing \/ now > seen.at \/ seen.value = Missing
          /\ reported' = m
          /\ seen' = Witness(m)
          /\ Read(ledger, booked, m, quote)
    /\ UNCHANGED <<scenario, now, register, meterBase, quote, running, file, fileBooked>>

PriceChanged ==
    /\ running
    /\ \E q \in Quotes :
          /\ q # quote
          /\ quote' = q
          /\ Read(ledger, booked, reported, q)
    /\ UNCHANGED <<scenario, now, register, meterBase, reported, running, file, fileBooked, seen>>

\* The five-minute tick reads unchanged sources.
TimingTick ==
    /\ running
    /\ Read(ledger, booked, reported, quote)
    /\ UNCHANGED <<scenario, now, register, meterBase, reported, quote, running, file, fileBooked, seen>>

(* async_confirm_meter_reset after a genuine replacement: the reading is the *)
(* new meter's, and none of it has been accepted yet.                        *)
ConfirmMeterReset ==
    /\ "replacement" \in Faults /\ Lifetime
    /\ running /\ reported = register /\ seen.mark <= meterBase
    /\ Read(Confirm(ledger, reported), booked, reported, quote)
    /\ seen' = [value |-> reported, mark |-> Flowed, at |-> now, broken |-> FALSE,
                excluded |-> seen.excluded + (Flowed - seen.mark),
                fell |-> seen.fell]
    /\ UNCHANGED <<scenario, now, register, meterBase, reported, quote, running, file, fileBooked>>

\* The totals are saved, never the open interval.
Save ==
    /\ "restart" \in Faults /\ running
    /\ file' = ledger.totals
    /\ fileBooked' = booked
    /\ UNCHANGED <<scenario, now, register, meterBase, reported, quote, running, ledger, booked, charge, seen>>

Stop ==
    /\ "restart" \in Faults /\ running
    /\ running' = FALSE
    /\ reported' = Missing
    /\ ledger' = NewLedger /\ booked' = NothingBooked
    /\ seen' = [seen EXCEPT !.broken = TRUE]
    /\ UNCHANGED <<scenario, now, register, meterBase, quote, file, fileBooked, charge>>

\* The restored totals and no open interval; then a first read.
Start ==
    /\ ~running
    /\ running' = TRUE
    /\ \E m \in Readings \union {Missing} :
          /\ reported' = m
          /\ seen' = Witness(m)
          /\ Read([totals |-> file, open |-> NoInterval], fileBooked, m, quote)
    /\ UNCHANGED <<scenario, now, register, meterBase, quote, file, fileBooked>>

Next ==
    \/ TimePass \/ Consume \/ ReplaceMeter
    \/ EnergyChanged \/ PriceChanged \/ TimingTick \/ ConfirmMeterReset
    \/ Save \/ Stop \/ Start

Spec == Init /\ [][Next]_vars

-----------------------------------------------------------------------------
\* What a history has booked to each unit, and to all of them.
Energies(b) == [u \in Times |-> b[u].energy]
Costs(b)    == [u \in Times |-> b[u].cost]
Energy(b)   == SumOf(Times, Energies(b))

Tallied(tot, b) ==
    LET today == {u \in Times : DayOf(u) = tot.day}
        month == {u \in Times : MonthOf[DayOf(u)] = tot.month}
    IN  /\ tot.daily_energy      = SumOf(today, Energies(b))
        /\ tot.daily_effective   = SumOf(today, Costs(b))
        /\ tot.monthly_energy    = SumOf(month, Energies(b))
        /\ tot.monthly_effective = SumOf(month, Costs(b))

Totals ==
    [day : Days \union {Missing}, month : Nat \union {Missing},
     unit : {q.unit : q \in Quotes} \union {NoUnit}, high : Nat \union {Missing},
     daily_energy : Nat, daily_effective : Int, monthly_energy : Nat, monthly_effective : Int]

\* Every variable keeps its type; the open interval never lies in the future.
TypeOK ==
    /\ now \in Times /\ register \in Nat /\ meterBase \in Nat
    /\ reported \in Nat \union {Missing}
    /\ quote \in Quotes /\ running \in BOOLEAN /\ scenario \in Scenarios
    /\ ledger.totals \in Totals /\ file \in Totals
    /\ ledger.open.at \in -1 .. now
    /\ Len(ledger.open.segments) <= MaxSegments
    /\ (ledger.open.at = Missing) = (ledger.open.segments = << >>)

(* The totals of the day and of the month are the sums over the units of     *)
(* that day and month of what was booked there at the price then in force,   *)
(* although the ledger never keeps more than one open interval.              *)
TotalsMatchTheirUnits == Tallied(ledger.totals, booked)

(* A daily source shows what was used today; yesterday's total, which it may *)
(* still show after midnight, is never charged to the new day.               *)
TodayWithinDailyMeter ==
    ~Lifetime /\ ~seen.fell /\ ledger.totals.day = DayOf(now)
        => ledger.totals.daily_energy <= register

(* "A backward lifetime reading is rejected, and its recovery is not billed  *)
(* as new consumption": no energy is priced twice, over dips, outages,       *)
(* meter replacement and restarts from an older file.  (A source of today's  *)
(* energy has no such protection: there it holds unless the source falls     *)
(* back.)                                                                    *)
NothingPricedTwice == Lifetime \/ ~seen.fell => Energy(booked) <= Flowed

(* "Meter outages, restart gaps, and intervals longer than 15 minutes are    *)
(* excluded" (costs-and-pricing.md:43): for one lifetime meter, as long as   *)
(* its source never falls back, nothing between the readings around such an  *)
(* interruption is priced.  (Another currency starts everything anew.)       *)
ExcludedStaysUnpriced ==
    (/\ Lifetime /\ ~seen.fell /\ meterBase = 0
     /\ \A p, q \in Quotes : p.unit = q.unit) => Energy(booked) + seen.excluded <= Flowed
=============================================================================
