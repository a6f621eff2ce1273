---------------------------- MODULE AdaptiveHistory ----------------------------
(***************************************************************************)
(* The adaptive price history: hourly means of the effective price, all of  *)
(* one compatibility scope, as the coordinator integrates, retains, saves   *)
(* and restores them.                                                       *)
(*                                                                         *)
(* Time is what the clock shows, counted in units of which HourLength make  *)
(* an hour; hours are kept by their absolute start, so daylight saving      *)
(* changes nothing here.  The clock may be set back within a day.           *)
(***************************************************************************)
EXTENDS Integers, FiniteSets, FiniteSetsExt

CONSTANTS
    HourLength,   \* units in an hour
    HoursPerDay,
    HistoryDays,  \* completed days retained (28 in the code)
    MinPercent,   \* least coverage of a usable hour (90 in the code)
    Horizon,      \* bound: the last unit of time
    Quotes,       \* the effective prices explored, each with its scope
    MaxQuotes,    \* bound: changes of the price
    MaxBack,      \* bound: how far the clock may be set back
    MaxMishaps    \* bound: clock changes, crashes and unloads, together

NoScope == "none"

ASSUME AdaptiveAssumption ==
    /\ HourLength \in Nat \ {0} /\ HoursPerDay \in Nat \ {0} /\ HistoryDays \in Nat \ {0}
    /\ MinPercent \in 1 .. 100 /\ Horizon \in Nat
    /\ \A q \in Quotes : q.price \in Int /\ q.scope # NoScope
    /\ MaxQuotes \in Nat /\ MaxBack \in Nat /\ MaxMishaps \in Nat

Units == 0 .. Horizon
HourOf(t) == t \div HourLength
Hours     == 0 .. HourOf(Horizon)
HourEnd(h) == HourLength * (h + 1)
UnitsOf(h) == HourLength * h .. HourEnd(h) - 1
DayOf(h)  == h \div HoursPerDay
Today(t)  == DayOf(HourOf(t))

Never   == -1
NoQuote == [scope |-> NoScope, price |-> 0]   \* no complete, comparable price

Absent  == [sum |-> 0, covered |-> 0]         \* an hour that has no aggregate
NewHist == [scope |-> NoScope, open |-> [h \in Hours |-> Absent],
            closed |-> [h \in Hours |-> Absent]]

VARIABLES
    now,      \* the clock
    hist,     \* the AdaptivePriceHistory in memory: its hours and observations
    last,     \* _adaptive_price_last_time
    quote,    \* _adaptive_price and _adaptive_price_scope
    up,       \* the entry is loaded
    due,      \* the midnight callback is due
    pending,  \* this history has asked for a save since the last one
    file,     \* the history in the statistics file
    failed,   \* history: the last read raised an exception
    charge,   \* history: the price in force in each unit, in the present scope
    fileCharge,  \* history: what of it the file accounts for
    stepped,  \* history: the clock has been set back
    budget    \* what is left of MaxQuotes and MaxMishaps

vars == <<now, hist, last, quote, up, due, pending, file, failed, charge, fileCharge, stepped,
          budget>>

NothingCharged == [t \in Units |-> NoQuote]

-----------------------------------------------------------------------------
\* A change of scope that keeps the hours still open.
EnsureScopeKeepingOpen(h, scope) ==
    IF h.scope = scope THEN h ELSE [NewHist EXCEPT !.scope = scope, !.open = h.open]

\* ensure_scope: another scope starts everything anew.
EnsureScope(h, scope) ==
    IF h.scope = scope THEN h ELSE [NewHist EXCEPT !.scope = scope]

\* The loop of add_segment: each hour gains its part of the segment.
Extended(h, from, to, price) ==
    [h EXCEPT !.open = [i \in Hours |->
        LET part == Cardinality(UnitsOf(i) \intersect (from .. to - 1))
        IN  [sum |-> @[i].sum + price * part, covered |-> @[i].covered + part]]]

Elapsed(h, to)  == {i \in Hours : h.open[i].covered > 0 /\ HourEnd(i) <= to}
Overfull(h, to) == {i \in Elapsed(h, to) : h.open[i].covered > HourLength}
Enough(hour)    == 100 * hour.covered >= MinPercent * HourLength

\* Hours that become observations stay open.
ClosedKeeping(h, S) ==
    [h EXCEPT !.closed = [i \in Hours |-> IF i \in S /\ Enough(h.open[i]) THEN h.open[i] ELSE @[i]]]

\* The hours S become observations, if covered enough, and are open no more.
Closed(h, S) ==
    [h EXCEPT !.closed = [i \in Hours |-> IF i \in S /\ Enough(h.open[i]) THEN h.open[i] ELSE @[i]],
              !.open   = [i \in Hours |-> IF i \in S THEN Absent ELSE @[i]]]

(* _finalize_closed_hours goes through the hours in order; an hour covered   *)
(* for longer than it lasts is taken out and then refused, and those after   *)
(* it are not looked at.                                                     *)
Finalized(h, to) ==
    IF Overfull(h, to) = {} THEN Closed(h, Elapsed(h, to))
    ELSE LET bad == Min(Overfull(h, to))
         IN  [Closed(h, {i \in Elapsed(h, to) : i < bad}) EXCEPT !.open[bad] = Absent]

\* retain_for_date.
Retained(h, day) ==
    LET Keep(hours, last_day) ==
            [i \in Hours |-> IF DayOf(i) \in day - HistoryDays .. last_day THEN hours[i] ELSE Absent]
    IN  [h EXCEPT !.closed = Keep(@, day), !.open = Keep(@, DayOf(HourOf(Horizon)))]

-----------------------------------------------------------------------------
(* _update_adaptive_price_history on a read of the quote q: the first half   *)
(* integrates the price remembered from the last read up to now.             *)
Closing == last # Never /\ quote # NoQuote /\ now > last
Segment == Extended(EnsureScope(hist, quote.scope), last, now, quote.price)

\* An open hour is covered for longer than it lasts.
Raises == Closing /\ Overfull(Segment, now) # {}

Integrated ==
    IF Closing THEN Retained(Finalized(Segment, now), Today(now)) ELSE hist

HourClosed == Closing /\ Elapsed(Segment, now) # {}
NewScope(q) == q # NoQuote /\ Integrated.scope # q.scope

\* The second half: the price to integrate next.
Observed(h, q) == IF q = NoQuote THEN h ELSE EnsureScope(h, q.scope)

\* The quotes the next read may find.
NextQuotes == {quote} \union (IF budget.quotes > 0 THEN Quotes \union {NoQuote} ELSE {})

Charged(q) ==
    LET past == IF NewScope(q) THEN NothingCharged ELSE charge
    IN  [t \in Units |-> IF t >= now THEN q ELSE past[t]]

Update(h, q) ==
    /\ hist' = h
    /\ last' = now /\ quote' = q
    /\ charge' = Charged(q)
    /\ budget' = [budget EXCEPT !.quotes = @ - (IF q = quote THEN 0 ELSE 1)]
    /\ failed' = FALSE

\* An update that raises leaves what it has changed so far.
Raise ==
    /\ hist' = Finalized(Segment, now)
    /\ failed' = TRUE
    /\ UNCHANGED <<last, quote, charge, budget>>

Init ==
    /\ now = 0
    /\ hist = NewHist /\ file = NewHist
    /\ last = Never /\ quote = NoQuote
    /\ up = TRUE /\ due = FALSE /\ pending = FALSE /\ failed = FALSE
    /\ charge = NothingCharged /\ fileCharge = NothingCharged
    /\ stepped = FALSE /\ budget = [quotes |-> MaxQuotes, mishaps |-> MaxMishaps]

TimePass ==
    /\ now < Horizon /\ ~due
    /\ now' = now + 1
    /\ due' = (up /\ Today(now') # Today(now))
    /\ UNCHANGED <<hist, last, quote, up, pending, file, failed, charge, fileCharge, stepped,
                   budget>>

ClockSetBack ==
    /\ budget.mishaps > 0 /\ ~due
    /\ \E k \in 1 .. MaxBack :
          /\ k <= now /\ Today(now - k) = Today(now)
          /\ now' = now - k
    /\ stepped' = TRUE
    /\ budget' = [budget EXCEPT !.mishaps = @ - 1]
    /\ UNCHANGED <<hist, last, quote, up, due, pending, file, failed, charge, fileCharge>>

\* A read that asks for a save only when the scope has changed.
ReadUnsaved ==
    /\ up
    /\ IF Raises THEN Raise /\ UNCHANGED pending
       ELSE \E q \in NextQuotes :
               /\ Update(Observed(Integrated, q), q)
               /\ pending' = (pending \/ NewScope(q))
    /\ UNCHANGED <<now, up, due, file, fileCharge, stepped>>

\* _read on a tick or a change of any source.
Read ==
    /\ up
    /\ IF Raises THEN Raise /\ UNCHANGED pending
       ELSE \E q \in NextQuotes :
               /\ Update(Observed(Integrated, q), q)
               /\ pending' = (pending \/ HourClosed \/ NewScope(q))
    /\ UNCHANGED <<now, up, due, file, fileCharge, stepped>>

(* _async_daily_rollover: the same update, then the window and a save; an    *)
(* exception ends the callback before either.                                *)
DailyRollover ==
    /\ up /\ due
    /\ due' = FALSE
    /\ IF Raises THEN Raise /\ UNCHANGED pending
       ELSE \E q \in NextQuotes :
               /\ Update(Retained(Observed(Integrated, q), Today(now)), q)
               /\ pending' = TRUE
    /\ UNCHANGED <<now, up, file, fileCharge, stepped>>

\* What has been charged up to the last read.
Accounted == [t \in Units |-> IF t < last THEN charge[t] ELSE NoQuote]

(* The statistics file is written, for this history or another statistic     *)
(* (the latter only while a restart can still tell).                         *)
Save ==
    /\ up /\ (pending \/ budget.mishaps > 0)
    /\ file' = hist /\ fileCharge' = Accounted
    /\ pending' = FALSE
    /\ UNCHANGED <<now, hist, last, quote, up, due, failed, charge, stepped, budget>>

\* The entry is unloaded after a last write, or crashes without.
Down(saved) ==
    /\ up /\ budget.mishaps > 0
    /\ budget' = [budget EXCEPT !.mishaps = @ - 1]
    /\ IF saved THEN file' = hist /\ fileCharge' = Accounted ELSE UNCHANGED <<file, fileCharge>>
    /\ up' = FALSE /\ due' = FALSE /\ pending' = FALSE /\ failed' = FALSE
    /\ hist' = NewHist /\ last' = Never /\ quote' = NoQuote
    /\ charge' = NothingCharged
    /\ UNCHANGED <<now, stepped>>

\* from_dict accepts what as_dict wrote.
Restorable(h) ==
    /\ h.scope = NoScope => h = NewHist
    /\ \A i \in Hours :
          /\ h.open[i].covered <= HourLength
          /\ h.closed[i].covered > 0 => h.open[i].covered = 0 /\ Enough(h.closed[i])

(* _async_restore_statistics; then the listeners and a first read, which     *)
(* happen before anything else.                                              *)
Start ==
    /\ ~up
    /\ up' = TRUE
    /\ \E q \in Quotes \union {NoQuote} :
          LET h == IF Restorable(file) THEN file ELSE NewHist
              anew == ~Restorable(file) \/ (q # NoQuote /\ h.scope # q.scope)
          IN  /\ hist' = Observed(h, q)
              /\ quote' = q
              /\ pending' = (q # NoQuote /\ h.scope # q.scope)
              /\ charge' = [t \in Units |-> IF t >= now THEN q
                                            ELSE IF anew THEN NoQuote ELSE fileCharge[t]]
    /\ last' = now
    /\ UNCHANGED <<now, due, file, failed, fileCharge, stepped, budget>>

Next ==
    \/ TimePass \/ ClockSetBack \/ Read \/ DailyRollover \/ Save \/ Start
    \/ \E saved \in BOOLEAN : Down(saved)

Spec == Init /\ [][Next]_vars

-----------------------------------------------------------------------------
(* What an hour's aggregate should be: the time-weighted prices of its units, *)
(* which is the area between them and zero, counted in squares.              *)
Squares(height) == UNION {{t} \X (1 .. height[t]) : t \in DOMAIN height}

Area(c, units) ==
    Cardinality(Squares([t \in units |-> c[t].price]))
        - Cardinality(Squares([t \in units |-> -c[t].price]))

Integral(h) ==
    LET units == {t \in UnitsOf(h) \intersect Units : t < last /\ charge[t] # NoQuote}
    IN  [sum |-> Area(charge, units), covered |-> Cardinality(units)]

(* "only complete Effective Price values from the active compatibility       *)
(* partition" (docs/adr/0012): every hour of the retained days holds exactly *)
(* the prices in force in it, of the present scope, over changes of price    *)
(* and scope, midnights, crashes and restarts; it is an observation once it  *)
(* is over and covered enough, and no hour is lost on the way.               *)
HoursAreExact ==
    up /\ ~stepped =>
        \A h \in Hours : DayOf(h) >= Today(now) - HistoryDays =>
            \/ hist.open[h] = Integral(h) /\ hist.closed[h] = Absent
            \/ /\ hist.open[h] = Absent /\ HourEnd(h) <= last
               /\ hist.closed[h] = IF Enough(Integral(h)) THEN Integral(h) ELSE Absent

(* "It is written when an hour closes [...] and after a compatibility reset" *)
(* (docs/adr/0012): no observation, and no scope, is left without a save.    *)
ClosedIsSaved ==
    up /\ ~pending /\ ~stepped =>
                      /\ hist.scope \in {NoScope, file.scope}
                      /\ \A h \in Hours : hist.closed[h] \in {Absent, file.closed[h]}

(* While the clock only moves on no read fails, and whatever is written is   *)
(* restored: no hour is both open and an observation, or covered for longer  *)
(* than it lasts, whichever handler finalised it last.                       *)
FileRestores == ~stepped => ~failed /\ Restorable(file)
=============================================================================
