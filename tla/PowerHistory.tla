----------------------------- MODULE PowerHistory -----------------------------
(***************************************************************************)
(* The two power histories: the consumption-timing buckets, which need a    *)
(* power and a price, and the base-load buckets, which need the power only. *)
(* An observed power is held for a limited time; the days are summarised at *)
(* midnight, or at the next start when the integration was down.            *)
(*                                                                         *)
(* Time is counted in instants of real time.  The local clock shows         *)
(* Wall(t), which jumps by `jump` at the instant Change when daylight       *)
(* saving begins or ends.  The code compares local times, and Python        *)
(* compares two times of one timezone by what the clock shows.              *)
(***************************************************************************)
EXTENDS Integers, FiniteSets, FiniteSetsExt

CONSTANTS
    DayLength,   \* instants of an ordinary day
    Hold,        \* how long an observed power is held
    Change,      \* the instant at which the local clock may jump
    Jumps,       \* by how much: 0, forward or back
    TickGap,     \* instants between two ticks at most, a late one included
    Horizon,     \* bound: the last instant explored
    Window,      \* days of the rolling base-load estimate
    MinPercent,  \* least coverage of a usable day
    MaxGap,      \* longest uncovered gap of a usable day
    MaxObs,      \* bound: observations after the first
    MaxPrices,   \* bound: losses and returns of the price
    MaxDowns     \* bound: crashes and unloads

ASSUME PowerAssumption ==
    /\ DayLength \in Nat \ {0} /\ Hold \in Nat \ {0}
    /\ Change \in Nat /\ TickGap \in Nat \ {0}
    /\ Jumps \subseteq Int /\ Horizon \in Nat /\ Window \in Nat \ {0}
    /\ MinPercent \in Nat /\ MaxGap \in Nat
    /\ MaxObs \in Nat /\ MaxPrices \in Nat /\ MaxDowns \in Nat

(* The local times that a jump skips or repeats, and those that the hold of a *)
(* power observed before a jump forward may reach.                           *)
AboutChange(j) ==
    IF j > 0 THEN Change + 1 .. Change + j + Hold - 2 ELSE Change + j + 1 .. Change - 1

\* Daylight saving begins and ends hours after midnight.
ASSUME ClockAssumption == \A j \in Jumps : \A w \in AboutChange(j) : w % DayLength # 0

Instants == DayLength .. Horizon + DayLength
Days     == 0 .. (2 * (Horizon + DayLength)) \div DayLength
Powers   == {"import", "export", "none"}
Never    == -1

VARIABLES
    now,      \* the instant
    jump,     \* the jump of the local clock
    hist,     \* the buckets, export days, score and daily summaries in memory
    file,     \* the same in the statistics file
    up,       \* the integration is loaded
    due,      \* the midnight callback is due
    last,     \* _timing_last_time, _base_load_last_time
    power,    \* the power last observed, and when
    price,    \* _timing_effective_price is known
    budget    \* what is left of MaxObs, MaxPrices and MaxDowns

vars == <<now, jump, hist, file, up, due, last, power, price, budget>>

-----------------------------------------------------------------------------
Wall(t) == IF t < Change THEN t ELSE t + jump
Day(t)  == Wall(t) \div DayLength

(* The instant of a computed local time: the first of two with that time,    *)
(* and for a time that is skipped, what the clock before the jump would say. *)
Instant(w) == IF w < Change + (IF jump > 0 THEN jump ELSE 0) THEN w ELSE w - jump

DayStart(d) == Instant(d * DayLength)
DayOf(d)    == DayStart(d) .. DayStart(d + 1) - 1

Empty    == [i \in Instants |-> 0]
NoScore  == [day |-> Never, as |-> "none"]
NewHist  == [timing |-> Empty, base |-> Empty, export |-> {}, score |-> NoScore,
             loads |-> [d \in Days |-> "none"]]

Covered(c, d) == {i \in DayOf(d) \intersect Instants : c[i] > 0}

\* The covered time of a day's buckets, unit by unit, and an uncovered gap that is too long.
Seconds(c, d) ==
    Cardinality({s \in (DayOf(d) \intersect Instants) \X (1 .. 2) : s[2] <= c[s[1]]})
Sparse(c, d)  == 100 * Seconds(c, d) < MinPercent * Cardinality(DayOf(d))
LongGap(c, d) ==
    \E i \in DayOf(d) : i + MaxGap \in DayOf(d) /\ \A j \in i .. i + MaxGap : c[j] = 0

(* calculate_timing_score and calculate_daily_base_load up to their values:   *)
(* what keeps a day from being used, in the code's order.                    *)
Verdict(c, d, export) ==
    IF d \in export THEN "export"
    ELSE IF Sparse(c, d) THEN "sparse"
    ELSE IF LongGap(c, d) THEN "gap"
    ELSE "usable"

-----------------------------------------------------------------------------
\* The end of the hold, by the local clock.
HoldEnd == Wall(power.at) + Hold

\* A segment that forgets the hold.
SegmentUnheld(t) ==
    IF last = Never \/ power.of = "none" \/ Wall(t) <= Wall(last) THEN {} ELSE last .. t - 1

\* The segment a read at t closes: from the last read to t, or to the end of the hold.
Segment(t) ==
    IF last = Never \/ power.of = "none" THEN {}
    ELSE IF HoldEnd < Wall(t)
         THEN IF HoldEnd > Wall(last) THEN last .. Instant(HoldEnd) - 1 ELSE {}
         ELSE IF Wall(t) > Wall(last) THEN last .. t - 1 ELSE {}

\* add_segment: the buckets of a segment gain its covered time, twice at most in the model.
Added(c, segment) ==
    [i \in Instants |-> IF i \in segment THEN Min({c[i] + 1, 2}) ELSE c[i]]

(* _update_timing_history and _update_base_load_history up to t: an imported  *)
(* power is covered, an exported one marks its dates.                        *)
Integrated(h, t) ==
    CASE power.of = "import" ->
           [h EXCEPT !.base = Added(@, Segment(t)),
                     !.timing = IF price THEN Added(@, Segment(t)) ELSE @]
      [] power.of = "export" -> [h EXCEPT !.export = @ \union {Day(i) : i \in Segment(t)}]
      [] OTHER -> h

Observe(p) == power' = [of |-> p, at |-> IF p = "none" THEN Never ELSE now]

-----------------------------------------------------------------------------
\* _finalize_timing_day, _finalize_base_load_day with _recalculate_base_load.
Scored(h, d) == [h EXCEPT !.score = [day |-> d, as |-> Verdict(h.timing, d, h.export)]]

PrunedNever(loads, end) == loads

Pruned(loads, end) == [d \in Days |-> IF d \in end - Window + 1 .. end THEN loads[d] ELSE "none"]

Summarised(h, d) ==
    [h EXCEPT !.loads = Pruned([@ EXCEPT ![d] = Verdict(h.base, d, h.export)], d)]

\* retain_dates: only one day's buckets and marks are kept.
Kept(c, d) == [i \in Instants |-> IF i \in DayOf(d) THEN c[i] ELSE 0]

KeptTiming(h, d) == [h EXCEPT !.timing = Kept(@, d)]
KeptBase(h, d)   == [h EXCEPT !.base = Kept(@, d), !.export = @ \intersect {d}]

\* Keeping the new day's base-load history before the finished day is scored.
RolledEagerly(h, today) ==
    LET y == today - 1
    IN  KeptTiming(Scored(KeptBase(Summarised(h, y), today), y), today)

\* The end of _async_daily_rollover.
Rolled(h, today) ==
    LET y == today - 1
    IN  KeptBase(KeptTiming(Summarised(Scored(h, y), y), today), today)

\* A start that only drops what is left of other days.
RestoredAsItIs(h, today) == KeptBase(KeptTiming(h, today), today)

(* _finalize_restored_timing_days and _finalize_restored_base_load_days: only *)
(* yesterday is finalised, and only with something to finalise.              *)
Restored(h, today) ==
    LET y  == today - 1
        h1 == IF Covered(h.timing, y) # {} THEN Scored(h, y) ELSE h
        h2 == KeptTiming(h1, today)
        h3 == IF Covered(h.base, y) # {} \/ y \in h.export THEN Summarised(h2, y) ELSE h2
        h4 == KeptBase(h3, today)
    IN  [h4 EXCEPT !.loads = Pruned(@, y)]

-----------------------------------------------------------------------------
Init ==
    /\ now = DayLength
    /\ jump \in Jumps
    /\ hist = NewHist /\ file = NewHist
    /\ up = TRUE /\ due = FALSE
    /\ last = now
    /\ power \in {[of |-> "import", at |-> now], [of |-> "none", at |-> Never]}
    /\ price = TRUE
    /\ budget = [obs |-> MaxObs, prices |-> MaxPrices, downs |-> MaxDowns]

\* Ticks and the midnight callback are called in time.
TimePass ==
    /\ now < Horizon /\ ~due /\ (up => now - last < TickGap)
    /\ now' = now + 1
    /\ due' = (up /\ Day(now') # Day(now))
    /\ UNCHANGED <<jump, hist, file, up, last, power, price, budget>>

\* A read that does not remember how far it has integrated.
ReadAgain ==
    /\ up
    /\ hist' = Integrated(hist, now)
    /\ UNCHANGED <<now, jump, file, up, due, last, power, price, budget>>

\* _read on a tick, or on a change that is not of the power entity.
Read ==
    /\ up
    /\ hist' = Integrated(hist, now)
    /\ last' = now
    /\ \/ UNCHANGED <<price, budget>>
       \/ /\ budget.prices > 0
          /\ price' = ~price
          /\ budget' = [budget EXCEPT !.prices = @ - 1]
    /\ UNCHANGED <<now, jump, file, up, due, power>>

\* _read on a change of the power entity.
ReadPower(p) ==
    /\ up /\ budget.obs > 0
    /\ hist' = Integrated(hist, now)
    /\ last' = now
    /\ Observe(p)
    /\ budget' = [budget EXCEPT !.obs = @ - 1]
    /\ UNCHANGED <<now, jump, file, up, due, price>>

\* _async_daily_rollover.
DailyRollover ==
    /\ up /\ due
    /\ hist' = Rolled(Integrated(hist, now), Day(now))
    /\ last' = now
    /\ due' = FALSE
    /\ UNCHANGED <<now, jump, file, up, power, price, budget>>

\* The statistics file is written with what is known, while it can still matter.
Save ==
    /\ up /\ budget.downs > 0
    /\ file' = hist
    /\ UNCHANGED <<now, jump, hist, up, due, last, power, price, budget>>

\* The integration is unloaded after a last write, or crashes without.
Down(saved) ==
    /\ up /\ budget.downs > 0
    /\ budget' = [budget EXCEPT !.downs = @ - 1]
    /\ up' = FALSE /\ due' = FALSE
    /\ file' = IF saved THEN hist ELSE file
    /\ hist' = NewHist /\ last' = Never /\ power' = [of |-> "none", at |-> Never]
    /\ UNCHANGED <<now, jump, price>>

\* async_start: the file is restored, unfinished days are finalised and all sources read.
Start(p) ==
    /\ ~up
    /\ up' = TRUE
    /\ hist' = Restored(file, Day(now))
    /\ last' = now
    /\ Observe(p)
    /\ UNCHANGED <<now, jump, file, due, price, budget>>

Next ==
    \/ TimePass \/ Read \/ DailyRollover \/ Save
    \/ \E p \in Powers : ReadPower(p) \/ Start(p)
    \/ \E saved \in BOOLEAN : Down(saved)

Spec == Init /\ [][Next]_vars

-----------------------------------------------------------------------------
(* "hold a power observation for at most ten minutes" (docs/adr/0008, line   *)
(* 78): a stalled source is not projected further, as long as the local      *)
(* clock is not put back.                                                    *)
HeldBrieflyUnlessPutBack ==
    [][jump >= 0 /\ up => \A i \in Instants :
           hist'.base[i] > hist.base[i] => power.at <= i /\ i < power.at + Hold]_vars

(* No instant is integrated twice, whichever of ticks, events, midnight and  *)
(* restarts read first, and none that is still to come, unless the local     *)
(* clock is put forward.                                                     *)
CoveredOnce ==
    jump <= 0 =>
        \A i \in Instants : /\ hist.base[i] <= 1 /\ hist.timing[i] <= hist.base[i]
                            /\ i >= now => hist.base[i] = 0

\* Yesterday's buckets leave the history h only for a verdict on all they held.
Accounted(h, d) ==
    /\ Covered(h.base, d) # {} /\ Covered(hist'.base, d) = {}
          => /\ hist'.loads[d] # "none"
             /\ hist'.loads[d] = "sparse" => Sparse(h.base, d)
             /\ d \in h.export => hist'.loads[d] = "export"
    /\ Covered(h.timing, d) # {} /\ Covered(hist'.timing, d) = {}
          => /\ hist'.score.day = d
             /\ hist'.score.as = "sparse" => Sparse(h.timing, d)

(* The finished day is scored and summarised before its buckets are dropped, *)
(* at midnight or at the first start after it.                               *)
SummarisedBeforeDropped ==
    [][up' => Accounted(IF up THEN hist ELSE file, Day(now) - 1)]_vars

(* A day with export is unusable for both histories: the score of a day and   *)
(* its summary never disagree about it, though only one of them records it.  *)
BothSeeExport ==
    \A d \in Days : hist.score.day = d /\ hist.loads[d] # "none"
        => (hist.score.as = "export" <=> hist.loads[d] = "export")

(* Nothing is kept of days that are over once midnight is handled, and no    *)
(* summary from before the window.                                           *)
Bounded ==
    up /\ ~due =>
        /\ \A i \in Instants : hist.base[i] > 0 \/ hist.timing[i] > 0 => Day(i) = Day(now)
        /\ hist.export \subseteq {Day(now)}
        /\ \A d \in Days : hist.loads[d] # "none" => d \in Day(now) - Window .. Day(now) - 1
=============================================================================
