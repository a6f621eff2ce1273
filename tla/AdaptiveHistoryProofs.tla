------------------------- MODULE AdaptiveHistoryProofs -------------------------
(***************************************************************************)
(* AdaptiveHistory for every length of hours, days and history, any prices  *)
(* and any number of changes and mishaps: while the clock only moves on, no *)
(* read raises, the file is restored, nothing closed is left unsaved        *)
(* (IInv), and every hour holds exactly its prices (ChargeInv).             *)
(***************************************************************************)
EXTENDS AdaptiveHistory, FiniteSetTheorems, TLAPS

Aggregates == [sum : Int, covered : Int]
Scopes     == {q.scope : q \in Quotes}
Hists ==
    [scope : Scopes \union {NoScope}, open : [Hours -> Aggregates], closed : [Hours -> Aggregates]]

\* How much of the hour i has passed at t.
Before(i, t) == Cardinality(UnitsOf(i) \intersect (0 .. t - 1))

\* How much of it passes from one moment to another.
Part(i, from, to) == Cardinality(UnitsOf(i) \intersect (from .. to - 1))

(* A history that may have been integrated up to t: no open hour is covered  *)
(* for longer than has passed of it, and observations are of hours that are  *)
(* over, covered enough and no longer open.                                  *)
Fits(h, t) ==
    /\ h \in Hists
    /\ h.scope = NoScope => h = NewHist
    /\ \A i \in Hours :
          /\ h.open[i].covered <= Before(i, t)
          /\ h.closed[i] # Absent =>
                HourEnd(i) <= t /\ h.open[i].covered = 0 /\ Enough(h.closed[i])

\* All that h holds of scope and observations is in f.
Within(h, f) ==
    /\ h.scope \in {NoScope, f.scope}
    /\ \A i \in Hours : h.closed[i] \in {Absent, f.closed[i]}

Types ==
    /\ now \in Units /\ last \in Units \union {Never}
    /\ quote \in Quotes \union {NoQuote}
    /\ stepped \in BOOLEAN /\ up \in BOOLEAN /\ pending \in BOOLEAN

Forward ==
    /\ last <= now
    /\ Fits(hist, last) /\ Fits(file, now)
    /\ quote # NoQuote => hist.scope = quote.scope
    /\ up /\ ~pending => Within(hist, file)
    /\ ~failed

IInv == Types /\ (~stepped => Forward)

-----------------------------------------------------------------------------
LEMMA Hour ==
    ASSUME NEW i \in Hours
    PROVE  /\ i \in Nat /\ HourLength * i \in Nat /\ HourEnd(i) = HourLength * i + HourLength
           /\ HourLength \in Nat /\ HourLength > 0
           /\ UnitsOf(i) = HourLength * i .. HourLength * i + HourLength - 1
<1>1. HourLength \in Nat \ {0} /\ Horizon \in Nat
  BY AdaptiveAssumption
<1>2. i \in Nat
  BY <1>1 DEF Hours
<1>3. HourLength * i \in Nat
  BY <1>1, <1>2
<1>4. HourLength * (i + 1) = HourLength * i + HourLength
  BY <1>1, <1>2
<1>5. QED  BY <1>1, <1>2, <1>3, <1>4 DEF HourEnd, UnitsOf

\* Of an hour passes no more than it lasts, and later no less.
LEMMA BeforeGrows ==
    ASSUME NEW i \in Hours, NEW t \in Int, NEW u \in Int, t <= u, -1 <= t
    PROVE  /\ Before(i, t) \in Nat /\ Before(i, u) \in Nat
           /\ Before(i, t) <= Before(i, u) /\ Before(i, u) <= HourLength
           /\ Part(i, t, u) \in Nat
           /\ t # -1 => Before(i, t) + Part(i, t, u) = Before(i, u)
           /\ HourEnd(i) <= t => Part(i, t, u) = 0
<1> DEFINE a == HourLength * i
           b == HourLength * i + HourLength - 1
           H == a .. b
           P == H \intersect (0 .. t - 1)
           Q == H \intersect (t .. u - 1)
           R == H \intersect (0 .. u - 1)
<1>1. a \in Nat /\ b \in Int /\ b = a + HourLength - 1 /\ HourLength \in Nat /\ HourLength > 0
      /\ HourEnd(i) = b + 1 /\ UnitsOf(i) = H
  BY Hour
<1> HIDE DEF a, b
<1>2. IsFiniteSet(H) /\ Cardinality(H) = HourLength
  BY <1>1, FS_Interval
<1>3. P \subseteq H /\ Q \subseteq H /\ R \subseteq H /\ P \subseteq R
  OBVIOUS
<1>4. /\ IsFiniteSet(P) /\ IsFiniteSet(Q) /\ IsFiniteSet(R)
      /\ Cardinality(P) <= Cardinality(H) /\ Cardinality(R) <= Cardinality(H)
      /\ Cardinality(P) <= Cardinality(R)
  BY <1>2, <1>3, FS_Subset
<1>5. Cardinality(P) \in Nat /\ Cardinality(Q) \in Nat /\ Cardinality(R) \in Nat
  BY <1>4, FS_CardinalityType
<1>6. ASSUME t # -1 PROVE Cardinality(P) + Cardinality(Q) = Cardinality(R)
  <2>1. P \intersect Q = {} /\ P \union Q = R
    BY <1>1, <1>6
  <2> HIDE DEF P, Q, R
  <2>2. Cardinality(P \union Q) = Cardinality(P) + Cardinality(Q) - Cardinality(P \intersect Q)
    BY <1>4, FS_Union
  <2>3. Cardinality({}) = 0
    BY FS_EmptySet
  <2>4. QED  BY <1>5, <2>1, <2>2, <2>3
<1>7. ASSUME HourEnd(i) <= t PROVE Cardinality(Q) = 0
  <2>1. Q = {}
    BY <1>1, <1>7
  <2>2. QED  BY <2>1, FS_EmptySet
<1>8. /\ Before(i, t) = Cardinality(P) /\ Before(i, u) = Cardinality(R)
      /\ Part(i, t, u) = Cardinality(Q)
  BY <1>1 DEF Before, Part
<1> HIDE DEF P, Q, R
<1>9. QED  BY <1>1, <1>2, <1>4, <1>5, <1>6, <1>7, <1>8

LEMMA BeforeType ==
    ASSUME NEW i \in Hours, NEW t \in Int, -1 <= t
    PROVE  Before(i, t) \in Nat /\ Before(i, t) <= HourLength
<1>1. t <= t
  OBVIOUS
<1>2. QED  BY <1>1, BeforeGrows

LEMMA FitsLater ==
    ASSUME NEW h, NEW t \in Int, NEW u \in Int, -1 <= t, t <= u, Fits(h, t)
    PROVE  Fits(h, u)
<1>1. ASSUME NEW i \in Hours
      PROVE  /\ h.open[i].covered <= Before(i, u)
             /\ h.closed[i] # Absent =>
                   HourEnd(i) <= u /\ h.open[i].covered = 0 /\ Enough(h.closed[i])
  <2>1. HourEnd(i) \in Int /\ h.open[i].covered \in Int
    BY Hour DEF Fits, Hists, Aggregates
  <2>2. Before(i, t) \in Nat /\ Before(i, u) \in Nat /\ Before(i, t) <= Before(i, u)
    BY BeforeGrows
  <2>3. h.open[i].covered <= Before(i, t)
    BY DEF Fits
  <2>4. h.closed[i] # Absent =>
            HourEnd(i) <= t /\ h.open[i].covered = 0 /\ Enough(h.closed[i])
    BY DEF Fits
  <2>5. QED  BY <2>1, <2>2, <2>3, <2>4
<1>2. QED  BY <1>1 DEF Fits

LEMMA NewHistFits ==
    ASSUME NEW t \in Int, -1 <= t
    PROVE  /\ NewHist \in Hists /\ Fits(NewHist, t) /\ NewHist.scope = NoScope
           /\ \A i \in Hours : NewHist.closed[i] = Absent
<1>1. Absent \in Aggregates /\ Absent.covered = 0
  BY DEF Absent, Aggregates
<1>2. NewHist \in Hists /\ NewHist.scope = NoScope
      /\ \A i \in Hours : NewHist.open[i] = Absent /\ NewHist.closed[i] = Absent
  BY <1>1 DEF NewHist, Hists
<1>3. \A i \in Hours : Before(i, t) \in Nat
  BY BeforeType
<1>4. QED  BY <1>1, <1>2, <1>3 DEF Fits

LEMMA ScopeFits ==
    ASSUME NEW t \in Int, -1 <= t, NEW h, Fits(h, t), NEW scope \in Scopes
    PROVE  /\ Fits(EnsureScope(h, scope), t)
           /\ EnsureScope(h, scope).scope = scope
<1>1. scope # NoScope
  BY AdaptiveAssumption DEF Scopes
<1>2. CASE h.scope = scope
  BY <1>2 DEF EnsureScope
<1>3. CASE h.scope # scope
  <2> PICK n : n = [NewHist EXCEPT !.scope = scope]
    OBVIOUS
  <2>1. n \in Hists /\ n.scope = scope /\ n.open = NewHist.open /\ n.closed = NewHist.closed
    BY NewHistFits DEF NewHist, Hists
  <2>2. Fits(n, t)
    BY <1>1, <2>1, NewHistFits DEF Fits
  <2>3. QED  BY <1>3, <2>1, <2>2 DEF EnsureScope
<1>4. QED  BY <1>2, <1>3

LEMMA ExtendedFits ==
    ASSUME NEW from \in Nat, NEW to \in Nat, from <= to, NEW price \in Int,
           NEW h, Fits(h, from), h.scope # NoScope
    PROVE  /\ Fits(Extended(h, from, to, price), to)
           /\ Extended(h, from, to, price).scope = h.scope
           /\ Extended(h, from, to, price).closed = h.closed
<1> PICK e : e = Extended(h, from, to, price)
  OBVIOUS
<1>1. /\ e = [h EXCEPT !.open = [i \in Hours |-> [sum |-> h.open[i].sum + price * Part(i, from, to),
                                                 covered |-> h.open[i].covered + Part(i, from, to)]]]
  BY DEF Extended, Part
<1>2. ASSUME NEW i \in Hours
      PROVE  /\ Part(i, from, to) \in Nat /\ Part(i, from, to) \in Int
             /\ Before(i, from) \in Nat /\ Before(i, from) + Part(i, from, to) = Before(i, to)
             /\ HourEnd(i) <= from => Part(i, from, to) = 0
  <2>1. from \in Int /\ to \in Int /\ -1 <= from /\ from # -1
    OBVIOUS
  <2>2. QED  BY <2>1, BeforeGrows
<1>3. /\ h \in Hists
      /\ \A i \in Hours : h.open[i].sum \in Int /\ h.open[i].covered \in Int
  BY DEF Fits, Hists, Aggregates
<1>4. \A i \in Hours : [sum |-> h.open[i].sum + price * Part(i, from, to),
                        covered |-> h.open[i].covered + Part(i, from, to)] \in Aggregates
  <2>1. \A i \in Hours : price * Part(i, from, to) \in Int
    BY <1>2
  <2>2. QED  BY <1>2, <1>3, <2>1 DEF Aggregates
<1>5. /\ e \in Hists /\ e.scope = h.scope /\ e.closed = h.closed
      /\ \A i \in Hours : e.open[i].covered = h.open[i].covered + Part(i, from, to)
  BY <1>1, <1>3, <1>4 DEF Hists
<1>6. ASSUME NEW i \in Hours
      PROVE  /\ e.open[i].covered <= Before(i, to)
             /\ e.closed[i] # Absent =>
                   HourEnd(i) <= to /\ e.open[i].covered = 0 /\ Enough(e.closed[i])
  <2>1. h.open[i].covered <= Before(i, from)
    BY DEF Fits
  <2>2. h.closed[i] # Absent =>
            HourEnd(i) <= from /\ h.open[i].covered = 0 /\ Enough(h.closed[i])
    BY DEF Fits
  <2>3. HourEnd(i) \in Int
    BY Hour
  <2>4. QED  BY <1>2, <1>3, <1>5, <2>1, <2>2, <2>3
<1>7. QED  BY <1>5, <1>6 DEF Fits

\* A history that fits has no hour covered for longer than it lasts.
LEMMA NothingOverfull ==
    ASSUME NEW t \in Int, -1 <= t, NEW h, Fits(h, t)
    PROVE  /\ \A i \in Hours : h.open[i].covered <= HourLength
           /\ \A to : Overfull(h, to) = {}
<1>1. ASSUME NEW i \in Hours PROVE h.open[i].covered <= HourLength
  <2>1. h.open[i].covered \in Int /\ h.open[i].covered <= Before(i, t) /\ HourLength \in Nat
    BY Hour DEF Fits, Hists, Aggregates
  <2>2. Before(i, t) \in Nat /\ Before(i, t) <= HourLength
    BY BeforeType
  <2>3. QED  BY <2>1, <2>2
<1>2. ASSUME NEW i \in Hours, h.open[i].covered > HourLength PROVE FALSE
  <2>1. h.open[i].covered \in Int /\ HourLength \in Nat
    BY Hour DEF Fits, Hists, Aggregates
  <2>2. QED  BY <1>1, <1>2, <2>1
<1>3. QED  BY <1>1, <1>2 DEF Overfull, Elapsed

LEMMA FinalizedFits ==
    ASSUME NEW t \in Int, -1 <= t, NEW h, Fits(h, t), h.scope # NoScope
    PROVE  /\ Fits(Finalized(h, t), t)
           /\ Finalized(h, t).scope = h.scope
           /\ Elapsed(h, t) = {} => Finalized(h, t).closed = h.closed
<1> DEFINE S == Elapsed(h, t)
           open == [i \in Hours |-> IF i \in S THEN Absent ELSE h.open[i]]
           closed == [i \in Hours |-> IF i \in S /\ Enough(h.open[i]) THEN h.open[i] ELSE h.closed[i]]
<1>1. Finalized(h, t) = Closed(h, S)
  BY NothingOverfull DEF Finalized
<1> PICK c : c = Closed(h, S)
  OBVIOUS
<1>2. c = [h EXCEPT !.closed = closed, !.open = open]
  BY DEF Closed
<1>3. Absent \in Aggregates /\ Absent.covered = 0
  BY DEF Absent, Aggregates
<1>4. h \in Hists
  BY DEF Fits
<1>5. open \in [Hours -> Aggregates] /\ closed \in [Hours -> Aggregates]
  BY <1>3, <1>4 DEF Hists
<1> HIDE DEF open, closed
<1>6. c \in Hists /\ c.scope = h.scope /\ c.open = open /\ c.closed = closed
  BY <1>2, <1>4, <1>5 DEF Hists
<1> HIDE DEF S
<1>7. ASSUME NEW i \in Hours
      PROVE  /\ c.open[i].covered <= Before(i, t)
             /\ c.closed[i] # Absent =>
                   HourEnd(i) <= t /\ c.open[i].covered = 0 /\ Enough(c.closed[i])
  <2>1. Before(i, t) \in Nat
    BY BeforeType
  <2>2. CASE i \in S
    <3>1. HourEnd(i) <= t
      BY <2>2 DEF S, Elapsed
    <3>2. c.open[i] = Absent
      BY <1>6, <2>2 DEF open
    <3>3. c.closed[i] # Absent => Enough(c.closed[i])
      BY <1>6, <2>2 DEF closed, Fits
    <3>4. QED  BY <1>3, <2>1, <3>1, <3>2, <3>3
  <2>3. CASE i \notin S
    <3>1. c.open[i] = h.open[i] /\ c.closed[i] = h.closed[i]
      BY <1>6, <2>3 DEF open, closed
    <3>2. QED  BY <3>1 DEF Fits
  <2>4. QED  BY <2>2, <2>3
<1>8. S = {} => c.closed = h.closed
  <2>1. h.closed = [i \in Hours |-> h.closed[i]]
    BY <1>4 DEF Hists
  <2>2. QED  BY <1>6, <2>1 DEF closed
<1>9. Fits(c, t)
  BY <1>6, <1>7 DEF Fits
<1>10. QED  BY <1>1, <1>6, <1>8, <1>9 DEF S

LEMMA RetainedFits ==
    ASSUME NEW t \in Int, -1 <= t, NEW h, Fits(h, t), NEW day
    PROVE  /\ Fits(Retained(h, day), t)
           /\ Retained(h, day).scope = h.scope
           /\ \A i \in Hours : Retained(h, day).closed[i] \in {Absent, h.closed[i]}
<1> DEFINE Kept(i, to) == DayOf(i) \in day - HistoryDays .. to
           end == DayOf(HourOf(Horizon))
           open == [i \in Hours |-> IF Kept(i, end) THEN h.open[i] ELSE Absent]
           closed == [i \in Hours |-> IF Kept(i, day) THEN h.closed[i] ELSE Absent]
<1> PICK r : r = Retained(h, day)
  OBVIOUS
<1>1. r = [h EXCEPT !.closed = closed, !.open = open]
  BY DEF Retained
<1> HIDE DEF Kept
<1>2. Absent \in Aggregates /\ Absent.covered = 0
  BY DEF Absent, Aggregates
<1>3. h \in Hists
  BY DEF Fits
<1>4. open \in [Hours -> Aggregates] /\ closed \in [Hours -> Aggregates]
  BY <1>2, <1>3 DEF Hists
<1> HIDE DEF open, closed
<1>5. r \in Hists /\ r.scope = h.scope /\ r.open = open /\ r.closed = closed
  BY <1>1, <1>3, <1>4 DEF Hists
<1>6. \A i \in Hours : r.open[i] \in {Absent, h.open[i]} /\ r.closed[i] \in {Absent, h.closed[i]}
  BY <1>5 DEF open, closed
<1>7. ASSUME NEW i \in Hours
      PROVE  /\ r.open[i].covered <= Before(i, t)
             /\ r.closed[i] # Absent =>
                   HourEnd(i) <= t /\ r.open[i].covered = 0 /\ Enough(r.closed[i])
  <2>1. Before(i, t) \in Nat
    BY BeforeType
  <2>2. QED  BY <1>2, <1>6, <2>1 DEF Fits
<1>8. ASSUME r.scope = NoScope PROVE r = NewHist
  <2>1. h = NewHist
    BY <1>5, <1>8 DEF Fits
  <2>2. \A i \in Hours : r.open[i] = Absent /\ r.closed[i] = Absent
    BY <1>6, <2>1 DEF NewHist
  <2>3. r.open = [i \in Hours |-> Absent] /\ r.closed = [i \in Hours |-> Absent]
    BY <1>4, <1>5, <2>2
  <2>4. QED  BY <1>5, <1>8, <2>3 DEF NewHist, Hists
<1>9. Fits(r, t)
  BY <1>5, <1>7, <1>8 DEF Fits
<1>10. QED  BY <1>5, <1>6, <1>9

-----------------------------------------------------------------------------
LEMMA TypeFacts ==
    ASSUME Types
    PROVE  /\ now \in Nat /\ now \in Int /\ -1 <= now
           /\ last \in Int /\ -1 <= last /\ (last # Never => last \in Nat)
           /\ \A q \in Quotes \union {NoQuote} :
                 /\ q.price \in Int
                 /\ q # NoQuote => q.scope \in Scopes /\ q.scope # NoScope
BY AdaptiveAssumption DEF Types, Units, Never, NoQuote, Scopes

(* On a clock that only moves on, integrating up to now cannot raise.  It    *)
(* leaves no observation and no scope that was not there, unless an hour has  *)
(* closed.                                                                   *)
LEMMA IntegratedFits ==
    ASSUME Types, Forward
    PROVE  /\ ~Raises
           /\ Fits(Integrated, now)
           /\ Integrated.scope = hist.scope
           /\ ~HourClosed => \A i \in Hours : Integrated.closed[i] \in {Absent, hist.closed[i]}
<1>1. CASE Closing
  <2>1. /\ last \in Nat /\ now \in Nat /\ last <= now
        /\ quote.price \in Int /\ quote.scope # NoScope /\ hist.scope = quote.scope
    BY <1>1, TypeFacts DEF Closing, Types, Forward
  <2> PICK s : s = Segment
    OBVIOUS
  <2>2. s = Extended(hist, last, now, quote.price)
    BY <2>1 DEF Segment, EnsureScope
  <2>3. Fits(s, now) /\ s.scope = hist.scope /\ s.closed = hist.closed
    BY <2>1, <2>2, ExtendedFits DEF Forward
  <2>4. now \in Int /\ -1 <= now
    BY TypeFacts
  <2>5. ~Raises
    BY <2>3, <2>4, NothingOverfull DEF Raises
  <2> PICK f : f = Finalized(s, now)
    OBVIOUS
  <2>6. Fits(f, now) /\ f.scope = hist.scope /\ (Elapsed(s, now) = {} => f.closed = hist.closed)
    BY <2>1, <2>3, <2>4, FinalizedFits
  <2>7. Integrated = Retained(f, Today(now))
    BY <1>1 DEF Integrated
  <2>8. /\ Fits(Integrated, now) /\ Integrated.scope = hist.scope
        /\ \A i \in Hours : Integrated.closed[i] \in {Absent, f.closed[i]}
    BY <2>4, <2>6, <2>7, RetainedFits
  <2>9. ~HourClosed => Elapsed(s, now) = {}
    BY <1>1 DEF HourClosed
  <2>10. QED  BY <2>5, <2>6, <2>8, <2>9
<1>2. CASE ~Closing
  <2>1. Integrated = hist /\ ~Raises
    BY <1>2 DEF Integrated, Raises
  <2>2. Fits(hist, now)
    BY TypeFacts, FitsLater DEF Forward
  <2>3. QED  BY <2>1, <2>2
<1>3. QED  BY <1>1, <1>2

LEMMA ObservedFits ==
    ASSUME NEW t \in Int, -1 <= t, NEW h, Fits(h, t),
           NEW q \in Quotes \union {NoQuote}
    PROVE  /\ Fits(Observed(h, q), t)
           /\ q # NoQuote => Observed(h, q).scope = q.scope
           /\ ~(q # NoQuote /\ h.scope # q.scope) => Observed(h, q) = h
<1>1. CASE q = NoQuote
  BY <1>1 DEF Observed
<1>2. CASE q # NoQuote
  <2>1. q.scope \in Scopes
    BY <1>2 DEF Scopes
  <2>2. QED  BY <1>2, <2>1, ScopeFits DEF Observed, EnsureScope
<1>3. QED  BY <1>1, <1>2

-----------------------------------------------------------------------------
LEMMA InitInv == Init => IInv
<1> SUFFICES ASSUME Init PROVE IInv
  OBVIOUS
<1>1. 0 \in Units /\ 0 \in Int /\ -1 \in Int /\ -1 <= -1 /\ -1 <= 0
  BY AdaptiveAssumption DEF Units
<1>2. Types
  BY <1>1 DEF Init, Types
<1>3. Fits(NewHist, -1) /\ Fits(NewHist, 0)
  BY <1>1, NewHistFits
<1>4. Forward
  BY <1>3 DEF Init, Forward, Never, Within
<1>5. QED  BY <1>2, <1>4 DEF IInv

\* What a read and the midnight callback have in common.
LEMMA ReadKeeps ==
    ASSUME IInv, ~stepped, NEW q \in NextQuotes, NEW h, Fits(h, now),
           q # NoQuote => h.scope = q.scope,
           hist' = h, last' = now, quote' = q, failed' = FALSE,
           pending' \in BOOLEAN, ~pending' /\ up => Within(h, file),
           UNCHANGED <<now, up, file, stepped>>
    PROVE  IInv'
<1>1. Types /\ Forward
  BY DEF IInv
<1>2. q \in Quotes \union {NoQuote}
  BY <1>1 DEF NextQuotes, Types
<1>3. Types'
  BY <1>1, <1>2 DEF Types
<1>4. Fits(hist', last') /\ Fits(file', now') /\ last' <= now'
  BY <1>1, TypeFacts DEF Forward
<1>5. Forward'
  BY <1>4 DEF Forward, Fits, Within
<1>6. QED  BY <1>3, <1>5 DEF IInv

\* When the clock has been set back only types are kept.
LEMMA SteppedKeeps ==
    ASSUME IInv, stepped', Types'
    PROVE  IInv'
BY DEF IInv

LEMMA ReadInv ==
    ASSUME IInv, Read
    PROVE  IInv'
<1>1. Types /\ stepped' = stepped
  BY DEF IInv, Read
<1>2. CASE stepped
  <2>1. /\ last' \in Units \union {Never} /\ quote' \in Quotes \union {NoQuote}
        /\ pending' \in BOOLEAN
    <3>1. CASE Raises
      BY <1>1, <3>1 DEF Read, Raise, Types
    <3>2. CASE ~Raises
      BY <1>1, <3>2 DEF Read, Update, NextQuotes, Types, HourClosed, NewScope, Closing
    <3>3. QED  BY <3>1, <3>2
  <2>2. Types'
    BY <1>1, <2>1 DEF Types, Read
  <2>3. QED  BY <1>1, <1>2, <2>2, SteppedKeeps
<1>3. CASE ~stepped
  <2>1. Forward
    BY <1>3 DEF IInv
  <2>2. /\ ~Raises /\ Fits(Integrated, now) /\ Integrated.scope = hist.scope
        /\ ~HourClosed => \A i \in Hours : Integrated.closed[i] \in {Absent, hist.closed[i]}
    BY <1>1, <2>1, IntegratedFits
  <2>3. PICK q \in NextQuotes :
            /\ Update(Observed(Integrated, q), q)
            /\ pending' = (pending \/ HourClosed \/ NewScope(q))
    BY <2>2 DEF Read
  <2>4. q \in Quotes \union {NoQuote}
    BY <1>1, <2>3 DEF NextQuotes, Types
  <2> PICK h : h = Observed(Integrated, q)
    OBVIOUS
  <2>5. now \in Int /\ -1 <= now
    BY <1>1, TypeFacts
  <2>6. Fits(h, now) /\ (q # NoQuote => h.scope = q.scope)
        /\ (~NewScope(q) => h = Integrated)
    BY <2>2, <2>4, <2>5, ObservedFits DEF NewScope
  <2>7. ASSUME ~pending', up PROVE Within(h, file)
    <3>1. ~HourClosed /\ ~NewScope(q) /\ ~pending
      BY <2>3, <2>7
    <3>2. Within(hist, file)
      BY <2>1, <2>7, <3>1 DEF Forward
    <3>3. QED  BY <2>2, <2>6, <3>1, <3>2 DEF Within
  <2>8. pending' \in BOOLEAN
    BY <1>1, <2>3 DEF Types, HourClosed, NewScope, Closing
  <2>9. /\ hist' = h /\ last' = now /\ quote' = q /\ failed' = FALSE
        /\ UNCHANGED <<now, up, file, stepped>>
    BY <2>3 DEF Update, Read
  <2>10. QED  BY <1>3, <2>3, <2>6, <2>7, <2>8, <2>9, ReadKeeps
<1>4. QED  BY <1>1, <1>2, <1>3 DEF Types

LEMMA DailyRolloverInv ==
    ASSUME IInv, DailyRollover
    PROVE  IInv'
<1>1. Types /\ stepped' = stepped
  BY DEF IInv, DailyRollover
<1>2. CASE stepped
  <2>1. /\ last' \in Units \union {Never} /\ quote' \in Quotes \union {NoQuote}
        /\ pending' \in BOOLEAN
    <3>1. CASE Raises
      BY <1>1, <3>1 DEF DailyRollover, Raise, Types
    <3>2. CASE ~Raises
      BY <1>1, <3>2 DEF DailyRollover, Update, NextQuotes, Types
    <3>3. QED  BY <3>1, <3>2
  <2>2. Types'
    BY <1>1, <2>1 DEF Types, DailyRollover
  <2>3. QED  BY <1>1, <1>2, <2>2, SteppedKeeps
<1>3. CASE ~stepped
  <2>1. Forward
    BY <1>3 DEF IInv
  <2>2. ~Raises /\ Fits(Integrated, now)
    BY <1>1, <2>1, IntegratedFits
  <2>3. PICK q \in NextQuotes :
            /\ Update(Retained(Observed(Integrated, q), Today(now)), q)
            /\ pending' = TRUE
    BY <2>2 DEF DailyRollover
  <2>4. q \in Quotes \union {NoQuote}
    BY <1>1, <2>3 DEF NextQuotes, Types
  <2> PICK o : o = Observed(Integrated, q)
    OBVIOUS
  <2> PICK h : h = Retained(o, Today(now))
    OBVIOUS
  <2>5. now \in Int /\ -1 <= now
    BY <1>1, TypeFacts
  <2>6. Fits(o, now) /\ (q # NoQuote => o.scope = q.scope)
    BY <2>2, <2>4, <2>5, ObservedFits
  <2>7. Fits(h, now) /\ h.scope = o.scope
    BY <2>5, <2>6, RetainedFits
  <2>8. /\ hist' = h /\ last' = now /\ quote' = q /\ failed' = FALSE
        /\ UNCHANGED <<now, up, file, stepped>>
    BY <2>3 DEF Update, DailyRollover
  <2>9. QED  BY <1>3, <2>3, <2>6, <2>7, <2>8, ReadKeeps
<1>4. QED  BY <1>1, <1>2, <1>3 DEF Types

LEMMA RestoredFits ==
    ASSUME Types, Forward
    PROVE  Restorable(file)
<1>1. now \in Int /\ -1 <= now /\ Fits(file, now)
  BY TypeFacts DEF Forward
<1>2. \A i \in Hours : file.open[i].covered <= HourLength
  BY <1>1, NothingOverfull
<1>3. ASSUME NEW i \in Hours, file.closed[i].covered > 0
      PROVE  file.open[i].covered = 0 /\ Enough(file.closed[i])
  <2>1. file.closed[i] # Absent
    BY <1>3 DEF Absent
  <2>2. QED  BY <1>1, <2>1 DEF Fits
<1>4. QED  BY <1>1, <1>2, <1>3 DEF Restorable, Fits

LEMMA StartInv ==
    ASSUME IInv, Start
    PROVE  IInv'
<1>1. Types /\ stepped' = stepped
  BY DEF IInv, Start
<1>2. PICK q \in Quotes \union {NoQuote} :
         LET h == IF Restorable(file) THEN file ELSE NewHist
         IN  /\ hist' = Observed(h, q)
             /\ quote' = q
             /\ pending' = (q # NoQuote /\ h.scope # q.scope)
  BY DEF Start
<1>3. Types'
  BY <1>1, <1>2 DEF Types, Start
<1>4. ASSUME ~stepped' PROVE Forward'
  <2>1. Forward /\ now \in Int /\ -1 <= now /\ last' = now /\ now' = now
        /\ UNCHANGED <<file, failed>>
    BY <1>1, <1>4, TypeFacts DEF IInv, Start
  <2>2. Restorable(file)
    BY <1>1, <2>1, RestoredFits
  <2> PICK h : h = Observed(file, q)
    OBVIOUS
  <2>3. hist' = h /\ quote' = q /\ pending' = (q # NoQuote /\ file.scope # q.scope)
    BY <1>2, <2>2
  <2>4. /\ Fits(h, now) /\ (q # NoQuote => h.scope = q.scope)
        /\ ~(q # NoQuote /\ file.scope # q.scope) => h = file
    BY <2>1, ObservedFits DEF Forward
  <2>5. ~pending' => Within(h, file)
    BY <2>3, <2>4 DEF Within
  <2>6. Fits(file, now) /\ now <= now
    BY <2>1 DEF Forward
  <2>7. QED  BY <2>1, <2>3, <2>4, <2>5, <2>6 DEF Forward, Fits, Within
<1>5. QED  BY <1>3, <1>4 DEF IInv

LEMMA WorldInv ==
    ASSUME IInv, TimePass \/ ClockSetBack \/ Save \/ (\E saved \in BOOLEAN : Down(saved))
    PROVE  IInv'
<1>1. Types
  BY DEF IInv
<1>2. CASE TimePass
  <2>1. now' = now + 1 /\ now' \in Units /\ now' \in Int /\ now <= now' /\ now \in Int /\ -1 <= now
    BY <1>1, <1>2, AdaptiveAssumption DEF Types, Units, TimePass
  <2>2. UNCHANGED <<hist, last, quote, up, pending, file, failed, stepped>>
    BY <1>2 DEF TimePass
  <2>3. Types'
    BY <1>1, <2>1, <2>2 DEF Types
  <2>4. ASSUME Forward PROVE Forward'
    <3> PICK n : n = now'
      OBVIOUS
    <3>1. Fits(file, n)
      BY <2>1, <2>4, FitsLater DEF Forward
    <3>2. last \in Int /\ last <= n
      BY <1>1, <2>1, <2>4, TypeFacts DEF Forward
    <3>3. QED  BY <2>2, <2>4, <3>1, <3>2 DEF Forward, Fits, Within
  <2>5. QED  BY <2>2, <2>3, <2>4 DEF IInv
<1>3. CASE ClockSetBack
  <2>1. now' \in Units
    <3>1. PICK k \in 1 .. MaxBack : k <= now /\ now' = now - k
      BY <1>3 DEF ClockSetBack
    <3>2. QED  BY <1>1, <3>1, AdaptiveAssumption DEF Types, Units
  <2>2. Types' /\ stepped'
    BY <1>1, <1>3, <2>1 DEF Types, ClockSetBack
  <2>3. QED  BY <2>2, SteppedKeeps
<1>4. CASE Save
  <2>1. /\ file' = hist /\ pending' = FALSE
        /\ UNCHANGED <<now, hist, last, quote, up, failed, stepped>>
    BY <1>4 DEF Save
  <2>2. Types'
    BY <1>1, <2>1 DEF Types
  <2>3. ASSUME Forward PROVE Forward'
    <3>1. Fits(hist, now)
      BY <1>1, <2>3, TypeFacts, FitsLater DEF Forward
    <3>2. QED  BY <2>1, <2>3, <3>1 DEF Forward, Fits, Within
  <2>4. QED  BY <2>1, <2>2, <2>3 DEF IInv
<1>5. ASSUME NEW saved \in BOOLEAN, Down(saved) PROVE IInv'
  <2>1. /\ file' \in {file, hist} /\ up' = FALSE /\ pending' = FALSE /\ failed' = FALSE
        /\ hist' = NewHist /\ last' = Never /\ quote' = NoQuote
        /\ UNCHANGED <<now, stepped>>
    BY <1>5 DEF Down
  <2>2. Types'
    BY <1>1, <2>1 DEF Types
  <2>3. ASSUME Forward PROVE Forward'
    <3>1. Fits(hist, now) /\ Fits(file, now)
      BY <1>1, <2>3, TypeFacts, FitsLater DEF Forward
    <3>2. Fits(NewHist, -1) /\ -1 <= now
      BY <1>1, TypeFacts, NewHistFits
    <3>3. QED  BY <2>1, <3>1, <3>2 DEF Forward, Fits, Never
  <2>4. QED  BY <2>1, <2>2, <2>3 DEF IInv
<1>6. QED  BY <1>2, <1>3, <1>4, <1>5

LEMMA StepInv == IInv /\ [Next]_vars => IInv'
<1> SUFFICES ASSUME IInv, [Next]_vars PROVE IInv'
  OBVIOUS
<1>1. CASE UNCHANGED vars
  BY <1>1 DEF vars, IInv, Types, Forward, Fits, Within
<1>2. QED  BY <1>1, ReadInv, DailyRolloverInv, StartInv, WorldInv DEF Next

-----------------------------------------------------------------------------
Charges == [Units -> Quotes \union {NoQuote}]

\* The units of the hour i before l with a price, and what they add up to.
Priced(c, l, i) == {t \in UnitsOf(i) \intersect Units : t < l /\ c[t] # NoQuote}

IntegralUpTo(c, l, i) ==
    [sum |-> Area(c, Priced(c, l, i)), covered |-> Cardinality(Priced(c, l, i))]

(* What h holds of the hour i is what the prices c before l add up to: in the  *)
(* open hour, or in its observation once it is over and covered enough.       *)
HourExact(h, c, l, i) ==
    \/ h.open[i] = IntegralUpTo(c, l, i) /\ h.closed[i] = Absent
    \/ /\ h.open[i] = Absent /\ HourEnd(i) <= l
       /\ h.closed[i] = IF Enough(IntegralUpTo(c, l, i)) THEN IntegralUpTo(c, l, i) ELSE Absent

\* And so for every hour still retained on the day.
Exact(h, c, l, day) == \A i \in Hours : DayOf(i) >= day - HistoryDays => HourExact(h, c, l, i)

-----------------------------------------------------------------------------
\* The squares up to finitely many heights, and up to as many equal ones.
LEMMA SquaresFacts ==
    ASSUME NEW S, IsFiniteSet(S), NEW h \in [S -> Int]
    PROVE  /\ IsFiniteSet(Squares(h)) /\ Cardinality(Squares(h)) \in Nat
           /\ \A s \in Squares(h) : s[1] \in S
           /\ \A n \in Int : (\A t \in S : h[t] = n) =>
                 Cardinality(Squares(h)) = IF n > 0 THEN n * Cardinality(S) ELSE 0
<1>1. ASSUME NEW t \in S PROVE IsFiniteSet({t} \X (1 .. h[t]))
  <2>1. h[t] \in Int /\ 1 \in Int
    OBVIOUS
  <2>2. IsFiniteSet(1 .. h[t]) /\ IsFiniteSet({t})
    BY <2>1, FS_Interval, FS_Singleton
  <2> QED
    BY <2>2, FS_Product
<1> DEFINE f == [t \in S |-> {t} \X (1 .. h[t])]
           F == {f[t] : t \in S}
<1>2. IsFiniteSet(F)
  <2> PICK g : g = f
    OBVIOUS
  <2>1. g \in [S -> F]
    OBVIOUS
  <2>2. \A T \in F : \E t \in S : g[t] = T
    OBVIOUS
  <2>3. g \in Surjection(S, F)
    BY <2>1, <2>2 DEF Surjection
  <2> HIDE DEF F
  <2> QED
    BY <2>3, FS_Surjection
<1>3. Squares(h) = UNION F
  BY DEF Squares
<1>4. \A T \in F : IsFiniteSet(T)
  BY <1>1
<1>5. IsFiniteSet(UNION F)
  <2> HIDE DEF F
  <2> QED
    BY <1>2, <1>4, FS_UNION
<1>6. Cardinality(Squares(h)) \in Nat
  BY <1>3, <1>5, FS_CardinalityType
<1>7. \A s \in Squares(h) : s[1] \in S
  BY DEF Squares
<1>8. ASSUME NEW n \in Int, \A t \in S : h[t] = n
      PROVE  Cardinality(Squares(h)) = IF n > 0 THEN n * Cardinality(S) ELSE 0
  <2>1. Squares(h) = S \X (1 .. n)
    BY <1>8 DEF Squares
  <2>2. 1 \in Int /\ Cardinality(S) \in Nat
    BY FS_CardinalityType
  <2>3. IsFiniteSet(1 .. n) /\ Cardinality(1 .. n) = IF 1 > n THEN 0 ELSE n - 1 + 1
    BY <2>2, FS_Interval
  <2>4. Cardinality(1 .. n) = IF n > 0 THEN n ELSE 0
    BY <2>3
  <2>5. Cardinality(S \X (1 .. n)) = Cardinality(S) * Cardinality(1 .. n)
    BY <2>3, FS_Product
  <2>6. \A a \in Int, b \in Int : a * b = b * a /\ a * 0 = 0
    OBVIOUS
  <2>7. \A a \in Nat : a \in Int
    OBVIOUS
  <2>8. CASE n > 0
    BY <2>1, <2>2, <2>4, <2>5, <2>6, <2>7, <2>8
  <2>9. CASE ~(n > 0)
    BY <2>1, <2>2, <2>4, <2>5, <2>6, <2>7, <2>9
  <2> QED
    BY <2>8, <2>9
<1> QED
  BY <1>3, <1>5, <1>6, <1>7, <1>8

LEMMA Disjoint ==
    ASSUME NEW S, NEW T, IsFiniteSet(S), IsFiniteSet(T), S \intersect T = {}
    PROVE  Cardinality(S \union T) = Cardinality(S) + Cardinality(T)
<1>1. Cardinality(S \union T) = Cardinality(S) + Cardinality(T) - Cardinality(S \intersect T)
  BY FS_Union
<1>2. Cardinality({}) = 0 /\ Cardinality(S) \in Nat /\ Cardinality(T) \in Nat
  BY FS_EmptySet, FS_CardinalityType
<1>3. Cardinality(S \intersect T) = 0
  BY <1>2, Zenon
<1> QED
  BY <1>1, <1>2, <1>3

\* The squares over some places, and over more of one height.
LEMMA SquaresGrow ==
    ASSUME NEW k \in [Units -> Int], NEW P \in SUBSET Units, IsFiniteSet(P)
    PROVE  /\ Cardinality(Squares([t \in P |-> k[t]])) \in Nat
           /\ \A Q \in SUBSET Units, n \in Int :
                 IsFiniteSet(Q) /\ P \intersect Q = {} /\ (\A t \in Q : k[t] = n) =>
                    Cardinality(Squares([t \in P \union Q |-> k[t]]))
                      = Cardinality(Squares([t \in P |-> k[t]]))
                          + IF n > 0 THEN n * Cardinality(Q) ELSE 0
<1> PICK f : f = [t \in P |-> k[t]]
  OBVIOUS
<1>1. f \in [P -> Int]
  OBVIOUS
<1>2. /\ IsFiniteSet(Squares(f)) /\ Cardinality(Squares(f)) \in Nat
      /\ \A s \in Squares(f) : s[1] \in P
  BY <1>1, SquaresFacts
<1>3. ASSUME NEW Q \in SUBSET Units, NEW n \in Int,
             IsFiniteSet(Q), P \intersect Q = {}, \A t \in Q : k[t] = n
      PROVE  Cardinality(Squares([t \in P \union Q |-> k[t]]))
               = Cardinality(Squares(f)) + IF n > 0 THEN n * Cardinality(Q) ELSE 0
  <2> PICK g : g = [t \in Q |-> k[t]]
    OBVIOUS
  <2> PICK h : h = [t \in P \union Q |-> k[t]]
    OBVIOUS
  <2>1. g \in [Q -> Int] /\ \A t \in Q : g[t] = n
    BY <1>3
  <2>2. /\ IsFiniteSet(Squares(g)) /\ \A s \in Squares(g) : s[1] \in Q
        /\ Cardinality(Squares(g)) = IF n > 0 THEN n * Cardinality(Q) ELSE 0
    BY <1>3, <2>1, SquaresFacts
  <2>3. Squares(h) = Squares(f) \union Squares(g)
    BY DEF Squares
  <2>4. Squares(f) \intersect Squares(g) = {}
    BY <1>2, <1>3, <2>2
  <2>5. Cardinality(Squares(h)) = Cardinality(Squares(f)) + Cardinality(Squares(g))
    BY <1>2, <2>2, <2>3, <2>4, Disjoint
  <2> QED
    BY <2>2, <2>5
<1> QED
  BY <1>2, <1>3

\* The area of some units is an integer, and one price over more adds its own.
LEMMA AreaFacts ==
    ASSUME NEW c \in Charges, NEW P \in SUBSET Units, IsFiniteSet(P)
    PROVE  /\ Area(c, P) \in Int
           /\ \A Q \in SUBSET Units, q \in Quotes :
                 IsFiniteSet(Q) /\ P \intersect Q = {} /\ (\A t \in Q : c[t] = q) =>
                    Area(c, P \union Q) = Area(c, P) + q.price * Cardinality(Q)
<1>1. \A t \in Units : c[t].price \in Int /\ -c[t].price \in Int
  BY AdaptiveAssumption DEF Charges, NoQuote
<1> PICK k : k = [t \in Units |-> c[t].price]
  OBVIOUS
<1> PICK m : m = [t \in Units |-> -c[t].price]
  OBVIOUS
<1>2. k \in [Units -> Int] /\ m \in [Units -> Int]
  BY <1>1
<1>3. \A S \in SUBSET Units :
         Area(c, S) = Cardinality(Squares([t \in S |-> k[t]]))
                        - Cardinality(Squares([t \in S |-> m[t]]))
  <2> SUFFICES ASSUME NEW S \in SUBSET Units
               PROVE  Area(c, S) = Cardinality(Squares([t \in S |-> k[t]]))
                                     - Cardinality(Squares([t \in S |-> m[t]]))
    OBVIOUS
  <2>1. [t \in S |-> c[t].price] = [t \in S |-> k[t]]
    OBVIOUS
  <2>2. [t \in S |-> -c[t].price] = [t \in S |-> m[t]]
    OBVIOUS
  <2> QED
    BY <2>1, <2>2 DEF Area
<1>4. /\ Cardinality(Squares([t \in P |-> k[t]])) \in Nat
      /\ Cardinality(Squares([t \in P |-> m[t]])) \in Nat
  BY <1>2, SquaresGrow
<1>5. ASSUME NEW Q \in SUBSET Units, NEW q \in Quotes,
             IsFiniteSet(Q), P \intersect Q = {}, \A t \in Q : c[t] = q
      PROVE  Area(c, P \union Q) = Area(c, P) + q.price * Cardinality(Q)
  <2> PICK n \in Int : n = q.price
    BY AdaptiveAssumption
  <2> PICK size \in Nat : size = Cardinality(Q)
    BY <1>5, FS_CardinalityType
  <2>1. -n \in Int /\ \A t \in Q : k[t] = n /\ m[t] = -n
    BY <1>5
  <2>2. Cardinality(Squares([t \in P \union Q |-> k[t]]))
          = Cardinality(Squares([t \in P |-> k[t]])) + IF n > 0 THEN n * size ELSE 0
    BY <1>2, <1>5, <2>1, SquaresGrow
  <2>3. Cardinality(Squares([t \in P \union Q |-> m[t]]))
          = Cardinality(Squares([t \in P |-> m[t]])) + IF -n > 0 THEN (-n) * size ELSE 0
    BY <1>2, <1>5, <2>1, SquaresGrow
  <2>4. (IF n > 0 THEN n * size ELSE 0) - (IF -n > 0 THEN (-n) * size ELSE 0) = n * size
    OBVIOUS
  <2>5. P \union Q \in SUBSET Units
    OBVIOUS
  <2>6. /\ Area(c, P) = Cardinality(Squares([t \in P |-> k[t]]))
                            - Cardinality(Squares([t \in P |-> m[t]]))
        /\ Area(c, P \union Q) = Cardinality(Squares([t \in P \union Q |-> k[t]]))
                                    - Cardinality(Squares([t \in P \union Q |-> m[t]]))
    BY <1>3, <2>5
  <2> PICK a \in Int : a = IF n > 0 THEN n * size ELSE 0
    OBVIOUS
  <2> PICK b \in Int : b = IF -n > 0 THEN (-n) * size ELSE 0
    OBVIOUS
  <2> QED
    BY <1>4, <2>2, <2>3, <2>4, <2>6
<1>6. Area(c, P) \in Int
  <2> PICK a \in Nat : a = Cardinality(Squares([t \in P |-> k[t]]))
    BY <1>4
  <2> PICK b \in Nat : b = Cardinality(Squares([t \in P |-> m[t]]))
    BY <1>4
  <2>1. Area(c, P) = a - b
    BY <1>3
  <2> QED
    BY <2>1
<1> QED
  BY <1>5, <1>6

LEMMA PricedFacts ==
    ASSUME NEW c \in Charges, NEW l \in Int, NEW i \in Hours
    PROVE  /\ Priced(c, l, i) \subseteq Units /\ IsFiniteSet(Priced(c, l, i))
           /\ Cardinality(Priced(c, l, i)) \in Nat
           /\ IntegralUpTo(c, l, i) \in Aggregates
           /\ IntegralUpTo(c, l, i).covered >= 0
<1>1. Horizon \in Int /\ 0 \in Int
  BY AdaptiveAssumption
<1>2. IsFiniteSet(Units)
  BY <1>1, FS_Interval DEF Units
<1>3. Priced(c, l, i) \subseteq Units
  BY DEF Priced
<1>4. IsFiniteSet(Priced(c, l, i))
  BY <1>2, <1>3, FS_Subset
<1>5. Cardinality(Priced(c, l, i)) \in Nat
  BY <1>4, FS_CardinalityType
<1>6. Area(c, Priced(c, l, i)) \in Int
  BY <1>3, <1>4, AreaFacts
<1> QED
  BY <1>3, <1>4, <1>5, <1>6 DEF IntegralUpTo, Aggregates

\* Prices that are the same in the same units add up to the same.
LEMMA SameIntegral ==
    ASSUME NEW c, NEW l, NEW d, NEW m, NEW i, Priced(c, l, i) = Priced(d, m, i),
           \A t \in Priced(c, l, i) : c[t] = d[t]
    PROVE  IntegralUpTo(c, l, i) = IntegralUpTo(d, m, i)
<1>1. /\ [t \in Priced(c, l, i) |-> c[t].price] = [t \in Priced(d, m, i) |-> d[t].price]
      /\ [t \in Priced(c, l, i) |-> -c[t].price] = [t \in Priced(d, m, i) |-> -d[t].price]
  OBVIOUS
<1>2. Area(c, Priced(c, l, i)) = Area(d, Priced(d, m, i))
  BY <1>1 DEF Area
<1> QED
  BY <1>2 DEF IntegralUpTo

\* Without a price there is nothing.
LEMMA NothingPriced ==
    ASSUME NEW c, NEW l, NEW i, Priced(c, l, i) = {}
    PROVE  IntegralUpTo(c, l, i) = Absent
<1>1. \A h : DOMAIN h = {} => Squares(h) = {}
  BY DEF Squares
<1>2. Area(c, {}) = 0 /\ Cardinality({}) = 0
  BY <1>1, FS_EmptySet DEF Area
<1> QED
  BY <1>2 DEF IntegralUpTo, Absent

\* One price from a moment to another adds its part of the hour.
LEMMA IntegralGrows ==
    ASSUME NEW c \in Charges, NEW from \in Nat, NEW to \in Nat, from <= to, to <= Horizon + 1,
           NEW q \in Quotes, q # NoQuote, \A t \in Units : from <= t /\ t < to => c[t] = q,
           NEW i \in Hours
    PROVE  IntegralUpTo(c, to, i) =
               [sum |-> IntegralUpTo(c, from, i).sum + q.price * Part(i, from, to),
                covered |-> IntegralUpTo(c, from, i).covered + Part(i, from, to)]
<1> DEFINE P == Priced(c, from, i)
           Q == UnitsOf(i) \intersect (from .. to - 1)
           R == Priced(c, to, i)
<1>1. Horizon \in Nat /\ from \in Int /\ to \in Int
  BY AdaptiveAssumption
<1>2. UnitsOf(i) \subseteq Int
  BY Hour
<1>3. Q \subseteq Units
  BY <1>1 DEF Units
<1>4. \A t \in Q : c[t] = q
  BY <1>1, <1>3
<1>5. R = P \union Q /\ P \intersect Q = {}
  BY <1>1, <1>2, <1>3, <1>4 DEF Priced, Units
<1>6. P \subseteq Units /\ IsFiniteSet(P) /\ Cardinality(P) \in Nat
  BY <1>1, PricedFacts
<1>7. IsFiniteSet(Q) /\ Cardinality(Q) \in Nat
  <2>1. R \subseteq Units /\ IsFiniteSet(R)
    BY <1>1, PricedFacts
  <2> QED
    BY <1>5, <2>1, FS_Subset, FS_CardinalityType
<1>8. Part(i, from, to) = Cardinality(Q)
  BY DEF Part
<1> HIDE DEF P, Q, R
<1>9. Cardinality(R) = Cardinality(P) + Cardinality(Q)
  BY <1>5, <1>6, <1>7, Disjoint
<1>10. Area(c, R) = Area(c, P) + q.price * Cardinality(Q)
  BY <1>3, <1>4, <1>5, <1>6, <1>7, AreaFacts
<1>11. /\ IntegralUpTo(c, to, i) = [sum |-> Area(c, R), covered |-> Cardinality(R)]
       /\ IntegralUpTo(c, from, i) = [sum |-> Area(c, P), covered |-> Cardinality(P)]
  BY DEF IntegralUpTo, P, R
<1> QED
  BY <1>8, <1>9, <1>10, <1>11

-----------------------------------------------------------------------------
(* While the clock has only moved on: from the last read on the price in force *)
(* is the one remembered, the file accounts for nothing that is to come, and   *)
(* memory and file are exact.                                                 *)
ChargeInv ==
    /\ charge \in Charges /\ fileCharge \in Charges
    /\ last = Never => quote = NoQuote
    /\ ~stepped =>
          /\ \A t \in Units : t >= last => charge[t] = quote
          /\ \A t \in Units : t >= now => fileCharge[t] = NoQuote
          /\ Exact(hist, charge, last, Today(now))
          /\ Exact(file, fileCharge, now, Today(now))

-----------------------------------------------------------------------------
\* Hours, and the days they are of, follow one another.
LEMMA HourFacts ==
    ASSUME NEW i \in Hours
    PROVE  /\ DayOf(i) \in Int /\ DayOf(i) <= DayOf(HourOf(Horizon))
           /\ HourEnd(i) \in Int
           /\ \A t \in Units : Today(t) \in Int /\ (HourEnd(i) <= t => DayOf(i) <= Today(t))
<1>1. /\ HourLength \in Int /\ HourLength > 0 /\ HoursPerDay \in Int /\ HoursPerDay > 0
      /\ Horizon \in Int
  BY AdaptiveAssumption
<1>2. \A a \in Int, n \in Int : n > 0 => a \div n \in Int
  BY Z3
<1>3. \A a \in Int, b \in Int, n \in Int : n > 0 /\ a <= b => a \div n <= b \div n
  BY Z3
<1>4. \A a \in Int, b \in Int, n \in Int : n > 0 /\ n * (a + 1) <= b => a <= b \div n
  BY Z3
<1>5. i \in Int /\ HourOf(Horizon) \in Int /\ i <= HourOf(Horizon)
  BY <1>1, <1>2, Hour DEF Hours, HourOf
<1>6. DayOf(i) \in Int /\ DayOf(i) <= DayOf(HourOf(Horizon))
  BY <1>1, <1>2, <1>3, <1>5 DEF DayOf
<1>7. HourEnd(i) \in Int
  BY Hour
<1>8. ASSUME NEW t \in Units
      PROVE  Today(t) \in Int /\ (HourEnd(i) <= t => DayOf(i) <= Today(t))
  <2>1. t \in Int /\ HourOf(t) \in Int
    BY <1>1, <1>2 DEF Units, HourOf
  <2>2. HourEnd(i) <= t => i <= HourOf(t)
    BY <1>1, <1>4, <1>5, <2>1 DEF HourEnd, HourOf
  <2> QED
    BY <1>1, <1>2, <1>3, <1>5, <2>1, <2>2 DEF DayOf, Today
<1> QED
  BY <1>6, <1>7, <1>8

LEMMA TodayFollows ==
    ASSUME NEW t \in Units, NEW u \in Units, t <= u
    PROVE  Today(t) \in Int /\ Today(u) \in Int /\ Today(t) <= Today(u)
<1>1. /\ HourLength \in Int /\ HourLength > 0 /\ HoursPerDay \in Int /\ HoursPerDay > 0
      /\ t \in Int /\ u \in Int
  BY AdaptiveAssumption DEF Units
<1>2. \A a \in Int, b \in Int, n \in Int :
         n > 0 /\ a <= b => a \div n \in Int /\ b \div n \in Int /\ a \div n <= b \div n
  BY Z3
<1>3. HourOf(t) \in Int /\ HourOf(u) \in Int /\ HourOf(t) <= HourOf(u)
  BY <1>1, <1>2 DEF HourOf
<1> QED
  BY <1>1, <1>2, <1>3 DEF Today, DayOf

\* An hour is as exact for prices that add up to the same, later too.
LEMMA ExactLater ==
    ASSUME NEW h, NEW c, NEW l \in Int, NEW d, NEW m \in Int, l <= m, NEW i \in Hours,
           IntegralUpTo(c, l, i) = IntegralUpTo(d, m, i), HourExact(h, c, l, i)
    PROVE  HourExact(h, d, m, i)
<1>1. HourEnd(i) \in Int
  BY Hour
<1> PICK n : n = IntegralUpTo(d, m, i)
  OBVIOUS
<1>2. CASE h.open[i] = n /\ h.closed[i] = Absent
  BY <1>2 DEF HourExact
<1>3. CASE /\ h.open[i] = Absent /\ HourEnd(i) <= l
           /\ h.closed[i] = IF Enough(n) THEN n ELSE Absent
  <2>1. HourEnd(i) <= m
    BY <1>1, <1>3
  <2> QED
    BY <1>3, <2>1 DEF HourExact
<1> QED
  BY <1>2, <1>3 DEF HourExact

\* A time without a price adds nothing.
LEMMA IdleExact ==
    ASSUME NEW h, NEW c, NEW from \in Int, NEW to \in Int, from <= to,
           \A t \in Units : from <= t /\ t < to => c[t] = NoQuote,
           NEW i \in Hours, HourExact(h, c, from, i)
    PROVE  HourExact(h, c, to, i)
<1>1. \A t \in Units : t \in Int
  BY DEF Units
<1>2. Priced(c, from, i) = Priced(c, to, i)
  BY <1>1 DEF Priced
<1>3. IntegralUpTo(c, from, i) = IntegralUpTo(c, to, i)
  BY <1>2, SameIntegral
<1> QED
  BY <1>3, ExactLater

\* add_segment with the price that was in force keeps an hour exact.
LEMMA ExtendedExact ==
    ASSUME NEW c \in Charges, NEW from \in Nat, NEW to \in Nat, from <= to, to <= Horizon + 1,
           NEW q \in Quotes, q # NoQuote, \A t \in Units : from <= t /\ t < to => c[t] = q,
           NEW h \in Hists, NEW i \in Hours, HourExact(h, c, from, i)
    PROVE  HourExact(Extended(h, from, to, q.price), c, to, i)
<1> PICK e : e = Extended(h, from, to, q.price)
  OBVIOUS
<1> PICK p : p = Part(i, from, to)
  OBVIOUS
<1> PICK m : m = IntegralUpTo(c, from, i)
  OBVIOUS
<1> PICK n : n = IntegralUpTo(c, to, i)
  OBVIOUS
<1>1. n = [sum |-> m.sum + q.price * p, covered |-> m.covered + p]
  BY IntegralGrows
<1>2. /\ e.closed = h.closed
      /\ e.open[i] = [sum |-> h.open[i].sum + q.price * p, covered |-> h.open[i].covered + p]
  <2>1. e = [h EXCEPT !.open = [k \in Hours |-> [sum |-> h.open[k].sum + q.price * Part(k, from, to),
                                                 covered |-> h.open[k].covered + Part(k, from, to)]]]
    BY DEF Extended, Part
  <2> QED
    BY <2>1 DEF Hists
<1>3. CASE h.open[i] = m /\ h.closed[i] = Absent
  BY <1>1, <1>2, <1>3 DEF HourExact
<1>4. CASE /\ h.open[i] = Absent /\ HourEnd(i) <= from
           /\ h.closed[i] = IF Enough(m) THEN m ELSE Absent
  <2>1. p = 0
    <3>1. from \in Int /\ to \in Int /\ -1 <= from
      OBVIOUS
    <3> QED
      BY <1>4, <3>1, BeforeGrows
  <2>2. q.price \in Int /\ m \in Aggregates
    <3>1. from \in Int
      OBVIOUS
    <3> QED
      BY <3>1, PricedFacts, AdaptiveAssumption
  <2>3. n = m
    <3>1. m.sum + q.price * 0 = m.sum /\ m.covered + 0 = m.covered
      BY <2>2 DEF Aggregates
    <3>2. m = [sum |-> m.sum, covered |-> m.covered]
      BY <2>2 DEF Aggregates
    <3> QED
      BY <1>1, <2>1, <3>1, <3>2
  <2>4. e.open[i] = Absent
    <3>1. q.price * 0 = 0
      BY <2>2
    <3> QED
      BY <1>2, <1>4, <2>1, <3>1 DEF Absent
  <2>5. HourEnd(i) <= to
    BY <1>4, Hour
  <2> QED
    BY <1>2, <1>4, <2>3, <2>4, <2>5 DEF HourExact
<1> QED
  BY <1>3, <1>4 DEF HourExact

\* Closing the hours that are over moves them, or drops those covered too little.
LEMMA FinalizedExact ==
    ASSUME NEW c, NEW t \in Int, -1 <= t, NEW h, Fits(h, t), NEW i \in Hours,
           HourExact(h, c, t, i)
    PROVE  HourExact(Finalized(h, t), c, t, i)
<1> PICK S : S = Elapsed(h, t)
  OBVIOUS
<1> PICK f : f = Finalized(h, t)
  OBVIOUS
<1>1. f = Closed(h, S)
  BY NothingOverfull DEF Finalized
<1>2. h \in Hists
  BY DEF Fits
<1>3. /\ f.open[i] = IF i \in S THEN Absent ELSE h.open[i]
      /\ f.closed[i] = IF i \in S /\ Enough(h.open[i]) THEN h.open[i] ELSE h.closed[i]
  BY <1>1, <1>2 DEF Closed, Hists
<1>4. CASE h.open[i] = IntegralUpTo(c, t, i) /\ h.closed[i] = Absent
  <2>1. CASE i \in S
    <3>1. HourEnd(i) <= t
      BY <2>1 DEF Elapsed
    <3> QED
      BY <1>3, <1>4, <2>1, <3>1 DEF HourExact
  <2>2. CASE i \notin S
    BY <1>3, <1>4, <2>2 DEF HourExact
  <2> QED
    BY <2>1, <2>2
<1>5. CASE /\ h.open[i] = Absent /\ HourEnd(i) <= t
           /\ h.closed[i] = IF Enough(IntegralUpTo(c, t, i)) THEN IntegralUpTo(c, t, i) ELSE Absent
  <2>1. i \notin S
    BY <1>5 DEF Elapsed, Absent
  <2> QED
    BY <1>3, <1>5, <2>1 DEF HourExact
<1> QED
  BY <1>4, <1>5 DEF HourExact

\* Retention leaves alone what is retained: nothing of a later day is an observation.
LEMMA RetainedExact ==
    ASSUME NEW c, NEW t \in Units, NEW h \in Hists, NEW i \in Hours,
           DayOf(i) >= Today(t) - HistoryDays, HourExact(h, c, t, i)
    PROVE  HourExact(Retained(h, Today(t)), c, t, i)
<1> PICK day \in Int : day = Today(t)
  BY HourFacts
<1> PICK r : r = Retained(h, day)
  OBVIOUS
<1>1. /\ r.open[i] = IF DayOf(i) \in day - HistoryDays .. DayOf(HourOf(Horizon))
                     THEN h.open[i] ELSE Absent
      /\ r.closed[i] = IF DayOf(i) \in day - HistoryDays .. day THEN h.closed[i] ELSE Absent
  BY DEF Retained, Hists
<1>2. /\ DayOf(i) \in Int /\ DayOf(i) <= DayOf(HourOf(Horizon)) /\ day - HistoryDays \in Int
      /\ HourEnd(i) <= t => DayOf(i) <= day
  BY HourFacts, AdaptiveAssumption
<1>3. DayOf(HourOf(Horizon)) \in Int
  BY AdaptiveAssumption, TodayFollows DEF Units, Today
<1>4. r.open[i] = h.open[i]
  BY <1>1, <1>2, <1>3
<1>5. h.closed[i] # Absent => HourEnd(i) <= t
  BY DEF HourExact
<1>6. r.closed[i] = h.closed[i]
  BY <1>1, <1>2, <1>5
<1> QED
  BY <1>4, <1>6 DEF HourExact

\* An empty history is exact where nothing is priced.
LEMMA EmptyExact ==
    ASSUME NEW h, NEW c, NEW l, NEW i \in Hours, Priced(c, l, i) = {},
           h.open[i] = Absent, h.closed[i] = Absent
    PROVE  HourExact(h, c, l, i)
BY NothingPriced DEF HourExact

-----------------------------------------------------------------------------
\* What a read integrates is exact up to now, whatever was in force since the last.
LEMMA IntegratedExact ==
    ASSUME Types, Forward, ChargeInv, ~stepped
    PROVE  Exact(Integrated, charge, now, Today(now))
<1>1. /\ charge \in Charges /\ (last = Never => quote = NoQuote)
      /\ \A t \in Units : t >= last => charge[t] = quote
      /\ Exact(hist, charge, last, Today(now))
      /\ hist \in Hists /\ Fits(hist, last) /\ last <= now /\ now \in Units
      /\ quote \in Quotes \union {NoQuote}
  BY DEF ChargeInv, Types, Forward, Fits
<1>2. last \in Int /\ -1 <= last /\ now \in Int /\ -1 <= now
  BY TypeFacts
<1> SUFFICES ASSUME NEW i \in Hours, DayOf(i) >= Today(now) - HistoryDays
             PROVE  HourExact(Integrated, charge, now, i)
  BY DEF Exact
<1>3. HourExact(hist, charge, last, i)
  BY <1>1 DEF Exact
<1>4. CASE Closing
  <2>1. /\ last \in Nat /\ now \in Nat /\ now <= Horizon + 1
        /\ quote \in Quotes /\ quote # NoQuote /\ hist.scope = quote.scope
        /\ quote.price \in Int /\ quote.scope # NoScope
    BY <1>1, <1>4, TypeFacts, AdaptiveAssumption DEF Closing, Units, Forward
  <2>2. \A t \in Units : last <= t /\ t < now => charge[t] = quote
    BY <1>1, <1>2 DEF Units
  <2> PICK s : s = Segment
    OBVIOUS
  <2>3. s = Extended(hist, last, now, quote.price)
    BY <2>1 DEF Segment, EnsureScope
  <2>4. HourExact(s, charge, now, i)
    BY <1>1, <1>3, <2>1, <2>2, <2>3, ExtendedExact
  <2>5. Fits(s, now) /\ s.scope = hist.scope
    BY <1>1, <2>1, <2>3, ExtendedFits
  <2> PICK f : f = Finalized(s, now)
    OBVIOUS
  <2>6. HourExact(f, charge, now, i)
    BY <1>2, <2>4, <2>5, FinalizedExact
  <2>7. f \in Hists
    <3>1. Fits(f, now)
      BY <1>2, <2>1, <2>5, FinalizedFits
    <3> QED
      BY <3>1 DEF Fits
  <2>8. HourExact(Retained(f, Today(now)), charge, now, i)
    BY <1>1, <2>6, <2>7, RetainedExact
  <2> QED
    BY <1>4, <2>8 DEF Integrated
<1>5. CASE ~Closing
  <2>1. Integrated = hist
    BY <1>5 DEF Integrated
  <2>2. \A t \in Units : last <= t /\ t < now => charge[t] = NoQuote
    <3>1. CASE quote = NoQuote
      BY <1>1, <1>2, <3>1 DEF Units
    <3>2. CASE quote # NoQuote
      <4>1. now <= last
        BY <1>1, <1>2, <1>5, <3>2 DEF Closing
      <4> QED
        BY <1>2, <4>1 DEF Units
    <3> QED
      BY <3>1, <3>2
  <2> QED
    BY <1>1, <1>2, <1>3, <2>1, <2>2, IdleExact
<1> QED
  BY <1>4, <1>5

(* A history h that is exact for the prices c before now stays so when the     *)
(* quote q is taken up: another scope starts it anew, and what was priced      *)
(* before no longer counts.                                                   *)
LEMMA ObservedExact ==
    ASSUME NEW c, NEW d, NEW n \in Units, NEW h \in Hists, NEW day,
           Exact(h, c, n, day), NEW q \in Quotes \union {NoQuote},
           q # NoQuote /\ h.scope # q.scope => \A t \in Units : t < n => d[t] = NoQuote,
           ~(q # NoQuote /\ h.scope # q.scope) => \A t \in Units : t < n => d[t] = c[t]
    PROVE  Exact(Observed(h, q), d, n, day)
<1> SUFFICES ASSUME NEW i \in Hours, DayOf(i) >= day - HistoryDays
             PROVE  HourExact(Observed(h, q), d, n, i)
  BY DEF Exact
<1>1. CASE q # NoQuote /\ h.scope # q.scope
  <2> PICK o : o = Observed(h, q)
    OBVIOUS
  <2>1. o = [NewHist EXCEPT !.scope = q.scope]
    BY <1>1 DEF Observed, EnsureScope
  <2>2. o.open[i] = Absent /\ o.closed[i] = Absent
    BY <2>1 DEF NewHist
  <2>3. Priced(d, n, i) = {}
    BY <1>1 DEF Priced
  <2> QED
    BY <2>2, <2>3, EmptyExact
<1>2. CASE ~(q # NoQuote /\ h.scope # q.scope)
  <2>1. Observed(h, q) = h
    BY <1>2 DEF Observed, EnsureScope
  <2>2. \A t \in Units : t < n => d[t] = c[t]
    BY <1>2
  <2>3. Priced(c, n, i) = Priced(d, n, i) /\ \A t \in Priced(c, n, i) : c[t] = d[t]
    BY <2>2 DEF Priced
  <2>4. IntegralUpTo(c, n, i) = IntegralUpTo(d, n, i)
    BY <2>3, SameIntegral
  <2>5. n \in Int /\ n <= n
    BY DEF Units
  <2>6. HourExact(h, c, n, i)
    BY DEF Exact
  <2> QED
    BY <2>1, <2>4, <2>5, <2>6, ExactLater
<1> QED
  BY <1>1, <1>2

\* Exact on one day is exact on a later one, of which fewer hours are retained.
LEMMA ExactNextDay ==
    ASSUME NEW h, NEW c, NEW l, NEW day \in Int, NEW next \in Int, day <= next,
           Exact(h, c, l, day)
    PROVE  Exact(h, c, l, next)
<1>1. HistoryDays \in Int
  BY AdaptiveAssumption
<1>2. \A i \in Hours : DayOf(i) \in Int
  BY HourFacts
<1> QED
  BY <1>1, <1>2 DEF Exact

\* What the file accounts for when it is written now.
LEMMA AccountedExact ==
    ASSUME Types, last <= now, charge \in Charges, NEW h, Exact(h, charge, last, Today(now))
    PROVE  /\ Accounted \in Charges
           /\ \A t \in Units : t >= now => Accounted[t] = NoQuote
           /\ Exact(h, Accounted, now, Today(now))
<1>1. last \in Int /\ now \in Int /\ \A t \in Units : t \in Int
  BY TypeFacts DEF Units
<1>2. Accounted \in Charges
  BY DEF Accounted, Charges
<1>3. \A t \in Units : t >= now => Accounted[t] = NoQuote
  BY <1>1 DEF Accounted
<1>4. ASSUME NEW i \in Hours, HourExact(h, charge, last, i)
      PROVE  HourExact(h, Accounted, now, i)
  <2> PICK a : a = Accounted
    OBVIOUS
  <2>1. \A t \in Units : a[t] = IF t < last THEN charge[t] ELSE NoQuote
    BY DEF Accounted
  <2>2. /\ Priced(charge, last, i) = Priced(a, now, i)
        /\ \A t \in Priced(charge, last, i) : charge[t] = a[t]
    BY <1>1, <2>1 DEF Priced
  <2>3. IntegralUpTo(charge, last, i) = IntegralUpTo(a, now, i)
    BY <2>2, SameIntegral
  <2> QED
    BY <1>1, <1>4, <2>3, ExactLater
<1> QED
  BY <1>2, <1>3, <1>4 DEF Exact

-----------------------------------------------------------------------------
LEMMA NewHistExact ==
    ASSUME NEW l, NEW day
    PROVE  Exact(NewHist, NothingCharged, l, day)
<1>1. \A i \in Hours : Priced(NothingCharged, l, i) = {}
  BY DEF Priced, NothingCharged
<1>2. \A i \in Hours : NewHist.open[i] = Absent /\ NewHist.closed[i] = Absent
  BY DEF NewHist
<1> QED
  BY <1>1, <1>2, EmptyExact DEF Exact

LEMMA InitCharge == Init => ChargeInv
<1> SUFFICES ASSUME Init PROVE ChargeInv
  OBVIOUS
<1>1. NothingCharged \in Charges /\ \A t \in Units : NothingCharged[t] = NoQuote
  BY DEF NothingCharged, Charges
<1> QED
  BY <1>1, NewHistExact DEF Init, ChargeInv

\* What a read and the midnight callback have in common.
LEMMA ReadCharges ==
    ASSUME IInv, ChargeInv, NEW q \in Quotes \union {NoQuote}, NEW h,
           ~stepped => Exact(h, Charged(q), now, Today(now)),
           hist' = h, last' = now, quote' = q, charge' = Charged(q),
           UNCHANGED <<now, file, fileCharge, stepped>>
    PROVE  ChargeInv'
<1>1. now # Never /\ \A t \in Units : t \in Int
  BY AdaptiveAssumption DEF IInv, Types, Units, Never
<1>2. Charged(q) \in Charges
  BY DEF Charged, NothingCharged, ChargeInv, Charges
<1>3. \A t \in Units : t >= now => Charged(q)[t] = q
  BY DEF Charged
<1> PICK d : d = Charged(q)
  OBVIOUS
<1>4. ~stepped => /\ \A t \in Units : t >= now => fileCharge[t] = NoQuote
                  /\ Exact(file, fileCharge, now, Today(now))
  BY DEF ChargeInv
<1>5. fileCharge \in Charges
  BY DEF ChargeInv
<1> QED
  BY <1>1, <1>2, <1>3, <1>4, <1>5 DEF ChargeInv

\* A read that takes up the quote q.
LEMMA TakenUp ==
    ASSUME IInv, ChargeInv, ~stepped, NEW q \in Quotes \union {NoQuote}
    PROVE  /\ Exact(Observed(Integrated, q), Charged(q), now, Today(now))
           /\ Observed(Integrated, q) \in Hists
<1>1. Types /\ Forward /\ now \in Units
  BY DEF IInv, Types
<1>2. Exact(Integrated, charge, now, Today(now))
  BY <1>1, IntegratedExact
<1>3. Fits(Integrated, now) /\ Integrated \in Hists
  BY <1>1, IntegratedFits DEF Fits
<1> PICK h : h = Integrated
  OBVIOUS
<1> PICK d : d = Charged(q)
  OBVIOUS
<1>4. /\ q # NoQuote /\ h.scope # q.scope => \A t \in Units : t < now => d[t] = NoQuote
      /\ ~(q # NoQuote /\ h.scope # q.scope) => \A t \in Units : t < now => d[t] = charge[t]
  <2>1. NewScope(q) <=> q # NoQuote /\ h.scope # q.scope
    BY DEF NewScope
  <2>2. \A t \in Units : t < now => ~(t >= now)
    BY <1>1 DEF Units
  <2> QED
    BY <2>1, <2>2 DEF Charged, NothingCharged
<1>5. now \in Int /\ -1 <= now
  BY <1>1, TypeFacts
<1>6. Observed(h, q) \in Hists
  <2>1. Fits(Observed(h, q), now)
    BY <1>3, <1>5, ObservedFits
  <2> QED
    BY <2>1 DEF Fits
<1>7. Exact(Observed(h, q), d, now, Today(now))
  BY <1>1, <1>2, <1>3, <1>4, ObservedExact
<1> QED
  BY <1>6, <1>7

-----------------------------------------------------------------------------
LEMMA RaiseCharges ==
    ASSUME IInv, ChargeInv, Raises,
           UNCHANGED <<last, quote, charge, fileCharge, stepped>>
    PROVE  ChargeInv'
<1>1. stepped
  BY IntegratedFits DEF IInv
<1> QED
  BY <1>1 DEF ChargeInv

LEMMA ReadCharge ==
    ASSUME IInv, ChargeInv, Read
    PROVE  ChargeInv'
<1>1. CASE Raises
  BY <1>1, RaiseCharges DEF Read, Raise
<1>2. CASE ~Raises
  <2>1. PICK q \in NextQuotes : Update(Observed(Integrated, q), q)
    BY <1>2 DEF Read
  <2>2. q \in Quotes \union {NoQuote}
    BY <2>1 DEF NextQuotes, IInv, Types
  <2> PICK h : h = Observed(Integrated, q)
    OBVIOUS
  <2>3. ~stepped => Exact(h, Charged(q), now, Today(now))
    BY <2>2, TakenUp
  <2>4. /\ hist' = h /\ last' = now /\ quote' = q /\ charge' = Charged(q)
        /\ UNCHANGED <<now, file, fileCharge, stepped>>
    BY <2>1 DEF Update, Read
  <2> QED
    BY <2>2, <2>3, <2>4, ReadCharges
<1> QED
  BY <1>1, <1>2

LEMMA DailyRolloverCharge ==
    ASSUME IInv, ChargeInv, DailyRollover
    PROVE  ChargeInv'
<1>1. CASE Raises
  BY <1>1, RaiseCharges DEF DailyRollover, Raise
<1>2. CASE ~Raises
  <2>1. PICK q \in NextQuotes : Update(Retained(Observed(Integrated, q), Today(now)), q)
    BY <1>2 DEF DailyRollover
  <2>2. q \in Quotes \union {NoQuote} /\ now \in Units
    BY <2>1 DEF NextQuotes, IInv, Types
  <2> PICK o : o = Observed(Integrated, q)
    OBVIOUS
  <2> PICK h : h = Retained(o, Today(now))
    OBVIOUS
  <2>3. ASSUME ~stepped PROVE Exact(h, Charged(q), now, Today(now))
    <3>1. Exact(o, Charged(q), now, Today(now)) /\ o \in Hists
      BY <2>2, <2>3, TakenUp
    <3> QED
      BY <2>2, <3>1, RetainedExact DEF Exact
  <2>4. /\ hist' = h /\ last' = now /\ quote' = q /\ charge' = Charged(q)
        /\ UNCHANGED <<now, file, fileCharge, stepped>>
    BY <2>1 DEF Update, DailyRollover
  <2> QED
    BY <2>2, <2>3, <2>4, ReadCharges
<1> QED
  BY <1>1, <1>2

LEMMA StartCharge ==
    ASSUME IInv, ChargeInv, Start
    PROVE  ChargeInv'
<1>1. Types /\ now \in Units /\ now # Never /\ \A t \in Units : t \in Int
  BY AdaptiveAssumption DEF IInv, Types, Units, Never
<1> PICK f : f = IF Restorable(file) THEN file ELSE NewHist
  OBVIOUS
<1>2. PICK q \in Quotes \union {NoQuote} :
         /\ hist' = Observed(f, q) /\ quote' = q
         /\ charge' = [t \in Units |-> IF t >= now THEN q
                          ELSE IF ~Restorable(file) \/ (q # NoQuote /\ f.scope # q.scope)
                               THEN NoQuote ELSE fileCharge[t]]
  BY DEF Start
<1>3. /\ last' = now /\ UNCHANGED <<now, file, fileCharge, stepped>>
  BY DEF Start
<1> PICK d : d = [t \in Units |-> IF t >= now THEN q
                          ELSE IF ~Restorable(file) \/ (q # NoQuote /\ f.scope # q.scope)
                               THEN NoQuote ELSE fileCharge[t]]
  OBVIOUS
<1>4. d \in Charges /\ fileCharge \in Charges
  BY DEF ChargeInv, Charges
<1>5. \A t \in Units : t >= now => d[t] = q
  OBVIOUS
<1>6. ASSUME ~stepped
      PROVE  /\ Exact(Observed(file, q), d, now, Today(now)) /\ f = file
             /\ \A t \in Units : t >= now => fileCharge[t] = NoQuote
             /\ Exact(file, fileCharge, now, Today(now))
  <2>1. Forward
    BY <1>6 DEF IInv
  <2>2. Restorable(file) /\ file \in Hists
    BY <1>1, <2>1, RestoredFits DEF Forward, Fits
  <2>3. f = file
    BY <2>2
  <2>4. /\ q # NoQuote /\ file.scope # q.scope => \A t \in Units : t < now => d[t] = NoQuote
        /\ ~(q # NoQuote /\ file.scope # q.scope) => \A t \in Units : t < now => d[t] = fileCharge[t]
    <3>1. \A t \in Units : t < now => ~(t >= now)
      BY <1>1
    <3> QED
      BY <2>2, <2>3, <3>1
  <2>5. /\ Exact(file, fileCharge, now, Today(now))
        /\ \A t \in Units : t >= now => fileCharge[t] = NoQuote
    BY <1>6 DEF ChargeInv
  <2>6. Exact(Observed(file, q), d, now, Today(now))
    BY <1>1, <2>2, <2>4, <2>5, ObservedExact
  <2> QED
    BY <2>3, <2>5, <2>6
<1> PICK h : h = Observed(f, q)
  OBVIOUS
<1>7. hist' = h /\ charge' = d /\ quote' = q
  BY <1>2
<1>8. ~stepped => Exact(h, d, now, Today(now))
  BY <1>6
<1> QED
  BY <1>1, <1>3, <1>4, <1>5, <1>6, <1>7, <1>8 DEF ChargeInv

LEMMA TimePassCharge ==
    ASSUME IInv, ChargeInv, TimePass
    PROVE  ChargeInv'
<1> PICK n : n = now + 1
  OBVIOUS
<1>1. now \in Units /\ n \in Units /\ now \in Int /\ n \in Int /\ now <= n
      /\ \A t \in Units : t \in Int
  BY AdaptiveAssumption DEF IInv, Types, TimePass, Units
<1>2. /\ now' = n
      /\ UNCHANGED <<hist, last, quote, file, charge, fileCharge, stepped>>
  BY DEF TimePass
<1>3. Today(now) \in Int /\ Today(n) \in Int /\ Today(now) <= Today(n)
  BY <1>1, TodayFollows
<1>4. ASSUME ~stepped
      PROVE  /\ Exact(hist, charge, last, Today(n))
             /\ \A t \in Units : t >= n => fileCharge[t] = NoQuote
             /\ Exact(file, fileCharge, n, Today(n))
  <2>1. Exact(hist, charge, last, Today(n)) /\ Exact(file, fileCharge, now, Today(n))
    BY <1>3, <1>4, ExactNextDay DEF ChargeInv
  <2>2. \A t \in Units : t >= now => fileCharge[t] = NoQuote
    BY <1>4 DEF ChargeInv
  <2>3. \A t \in Units : t >= n => fileCharge[t] = NoQuote
    BY <1>1, <2>2
  <2>4. \A t \in Units : now <= t /\ t < n => fileCharge[t] = NoQuote
    BY <1>1, <2>2
  <2>5. Exact(file, fileCharge, n, Today(n))
    BY <1>1, <2>1, <2>4, IdleExact DEF Exact
  <2> QED
    BY <2>1, <2>3, <2>5
<1>5. /\ charge \in Charges /\ fileCharge \in Charges /\ (last = Never => quote = NoQuote)
      /\ ~stepped => \A t \in Units : t >= last => charge[t] = quote
  BY DEF ChargeInv
<1> QED
  BY <1>2, <1>4, <1>5 DEF ChargeInv

LEMMA SaveCharge ==
    ASSUME IInv, ChargeInv, Save
    PROVE  ChargeInv'
<1>1. /\ file' = hist /\ fileCharge' = Accounted
      /\ UNCHANGED <<now, hist, last, quote, charge, stepped>>
  BY DEF Save
<1>2. Types /\ charge \in Charges /\ (~stepped => last <= now)
  BY DEF IInv, Forward, ChargeInv
<1>3. Accounted \in Charges
  BY <1>2 DEF Accounted, Charges
<1>4. ~stepped => /\ \A t \in Units : t >= now => Accounted[t] = NoQuote
                  /\ Exact(hist, Accounted, now, Today(now))
  BY <1>2, AccountedExact DEF ChargeInv
<1> PICK a : a = Accounted
  OBVIOUS
<1>5. /\ last = Never => quote = NoQuote
      /\ ~stepped => /\ \A t \in Units : t >= last => charge[t] = quote
                     /\ Exact(hist, charge, last, Today(now))
  BY DEF ChargeInv
<1> QED
  BY <1>1, <1>2, <1>3, <1>4, <1>5 DEF ChargeInv

LEMMA DownCharge ==
    ASSUME IInv, ChargeInv, NEW saved \in BOOLEAN, Down(saved)
    PROVE  ChargeInv'
<1>1. /\ hist' = NewHist /\ last' = Never /\ quote' = NoQuote /\ charge' = NothingCharged
      /\ now' = now /\ stepped' = stepped
      /\ \/ file' = hist /\ fileCharge' = Accounted
         \/ file' = file /\ fileCharge' = fileCharge
  BY DEF Down
<1>2. Types /\ charge \in Charges /\ (~stepped => last <= now)
  BY DEF IInv, Forward, ChargeInv
<1>3. Accounted \in Charges
  BY <1>2 DEF Accounted, Charges
<1>4. ~stepped => /\ \A t \in Units : t >= now => Accounted[t] = NoQuote
                  /\ Exact(hist, Accounted, now, Today(now))
  BY <1>2, AccountedExact DEF ChargeInv
<1> PICK f : f = file'
  OBVIOUS
<1> PICK a : a = fileCharge'
  OBVIOUS
<1>5. /\ a \in Charges
      /\ ~stepped => /\ \A t \in Units : t >= now => a[t] = NoQuote
                     /\ Exact(f, a, now, Today(now))
  BY <1>1, <1>3, <1>4 DEF ChargeInv
<1>6. NothingCharged \in Charges /\ \A t \in Units : NothingCharged[t] = NoQuote
  BY DEF NothingCharged, Charges
<1>7. Exact(NewHist, NothingCharged, Never, Today(now))
  BY NewHistExact
<1>8. file' = f /\ fileCharge' = a
  OBVIOUS
<1> QED
  BY <1>1, <1>5, <1>6, <1>7, <1>8 DEF ChargeInv

LEMMA StepCharge == IInv /\ ChargeInv /\ [Next]_vars => ChargeInv'
<1> SUFFICES ASSUME IInv, ChargeInv, [Next]_vars PROVE ChargeInv'
  OBVIOUS
<1>1. CASE ClockSetBack
  BY <1>1 DEF ClockSetBack, ChargeInv
<1>2. CASE UNCHANGED vars
  BY <1>2 DEF vars, ChargeInv
<1> QED
  BY <1>1, <1>2, ReadCharge, DailyRolloverCharge, StartCharge, TimePassCharge, SaveCharge,
     DownCharge DEF Next

(* Every hour of the retained days holds exactly the prices that were in force *)
(* in it, of the present scope, and is an observation once it is over and      *)
(* covered enough: for any lengths of hours and days, any prices and scopes,   *)
(* and over any number of midnights, saves, crashes and starts.               *)
THEOREM HoursHoldTheirPrices == Spec => []HoursAreExact
<1>1. ChargeInv => HoursAreExact
  <2> SUFFICES ASSUME ChargeInv, ~stepped, NEW i \in Hours, DayOf(i) >= Today(now) - HistoryDays
               PROVE  \/ hist.open[i] = Integral(i) /\ hist.closed[i] = Absent
                      \/ /\ hist.open[i] = Absent /\ HourEnd(i) <= last
                         /\ hist.closed[i] = IF Enough(Integral(i)) THEN Integral(i) ELSE Absent
    BY DEF HoursAreExact
  <2>1. Integral(i) = IntegralUpTo(charge, last, i)
    BY DEF Integral, IntegralUpTo, Priced
  <2>2. HourExact(hist, charge, last, i)
    BY DEF ChargeInv, Exact
  <2> QED
    BY <2>1, <2>2 DEF HourExact
<1> QED
  BY <1>1, InitInv, StepInv, InitCharge, StepCharge, PTL DEF Spec

-----------------------------------------------------------------------------
(* For every length of the hours and of the history: while the clock only     *)
(* moves on, no read ends in an exception and whatever is written is          *)
(* restored.                                                                  *)
THEOREM WrittenIsRestored == Spec => []FileRestores
<1>1. IInv => FileRestores
  BY RestoredFits DEF IInv, FileRestores, Forward
<1>2. QED  BY <1>1, InitInv, StepInv, PTL DEF Spec

\* And no observation, and no scope, is left without a save.
THEOREM ObservationsAreSaved == Spec => []ClosedIsSaved
<1>1. IInv => ClosedIsSaved
  BY DEF IInv, ClosedIsSaved, Forward, Within
<1>2. QED  BY <1>1, InitInv, StepInv, PTL DEF Spec
================================================================================
