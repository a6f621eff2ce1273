-------------------------- MODULE PowerHistoryProofs --------------------------
(***************************************************************************)
(* PowerHistory for every length of days and of the hold, any change of the *)
(* clock, and any number of observations, prices, crashes and unloads: what *)
(* the segments of the integration may cover (IInv, for a clock that jumps  *)
(* at any time of day), and what midnights and starts make of the histories *)
(* (DayInv, for one that does not jump about midnight, ClockAssumption).    *)
(***************************************************************************)
EXTENDS PowerHistory, FiniteSetTheorems, TLAPS

Verdicts == {"export", "sparse", "gap", "usable", "none"}

Hists ==
    [timing : [Instants -> 0 .. 2], base : [Instants -> 0 .. 2], export : SUBSET Int,
     score : [day : Int, as : Verdicts], loads : [Days -> Verdicts]]

Types ==
    /\ now \in Instants /\ jump \in Int
    /\ hist \in Hists /\ file \in Hists
    /\ up \in BOOLEAN /\ price \in BOOLEAN
    /\ last \in Instants \union {Never} /\ last <= now /\ (up => last # Never)
    /\ power.of \in Powers
    /\ power.of # "none" => up /\ power.at \in Instants /\ power.at <= last

\* No instant of h is covered twice, or priced and not covered, and none from t on.
Once(h, t) ==
    \A i \in Instants : /\ h.base[i] <= 1 /\ h.timing[i] <= h.base[i]
                        /\ i >= t => h.base[i] = 0

(* The memory is integrated up to the last read, and the file up to some read *)
(* before now.                                                               *)
IInv == Types /\ (jump <= 0 => Once(hist, last) /\ Once(file, now))

-----------------------------------------------------------------------------
LEMMA InstantFacts ==
    /\ \A i \in Instants : i \in Nat /\ i \in Int
    /\ DayLength \in Nat /\ DayLength > 0 /\ Hold \in Nat /\ Hold > 0 /\ Change \in Nat
    /\ Never \notin Instants /\ Never \in Int
BY PowerAssumption DEF Instants, Never

LEMMA DayIsInteger ==
    ASSUME Types
    PROVE  Day(now) \in Int /\ Day(now) - 1 \in Int
           /\ \A i \in Int : Day(i) \in Int
<1>1. ASSUME NEW i \in Int PROVE Day(i) \in Int
  <2>1. Wall(i) \in Int
    BY DEF Wall, Types
  <2>2. QED  BY <2>1, PowerAssumption DEF Day
<1>2. now \in Int
  BY InstantFacts DEF Types
<1>3. QED  BY <1>1, <1>2

\* Unless the clock is put forward, a segment begins at the last read and ends by now.
LEMMA SegmentIsPast ==
    ASSUME Types, jump <= 0, NEW i \in Segment(now)
    PROVE  i \in Int /\ last <= i /\ i < now
<1>1. power.of # "none" /\ last # Never
  BY DEF Segment
<1>2. /\ now \in Int /\ last \in Int /\ power.at \in Int /\ jump \in Int
      /\ Change \in Int /\ Hold \in Int
  BY <1>1, InstantFacts DEF Types
<1>3. CASE HoldEnd < Wall(now)
  <2>1. i \in last .. Instant(HoldEnd) - 1
    BY <1>1, <1>3 DEF Segment
  <2>2. HoldEnd \in Int
    BY <1>2 DEF HoldEnd, Wall
  <2>3. Instant(HoldEnd) \in Int /\ Instant(HoldEnd) <= now
    BY <1>2, <1>3, <2>2 DEF Instant, Wall
  <2>4. QED  BY <1>2, <2>1, <2>3
<1>4. CASE ~(HoldEnd < Wall(now))
  <2>1. i \in last .. now - 1
    BY <1>1, <1>4 DEF Segment
  <2>2. QED  BY <1>2, <2>1
<1>5. QED  BY <1>3, <1>4

\* Unless the clock is put back, a segment lies within the hold.
LEMMA SegmentIsHeld ==
    ASSUME Types, jump >= 0, NEW i \in Segment(now)
    PROVE  power.at <= i /\ i < power.at + Hold
<1>1. power.of # "none" /\ last # Never
  BY DEF Segment
<1>2. /\ now \in Int /\ last \in Int /\ power.at \in Int /\ jump \in Int
      /\ Change \in Int /\ Hold \in Int /\ Hold > 0 /\ power.at <= last /\ last <= now
  BY <1>1, InstantFacts DEF Types
<1>3. HoldEnd = Wall(power.at) + Hold
  BY DEF HoldEnd
<1>4. CASE HoldEnd < Wall(now)
  <2>1. i \in last .. Instant(HoldEnd) - 1
    BY <1>1, <1>4 DEF Segment
  <2>2. Instant(HoldEnd) \in Int /\ Instant(HoldEnd) <= power.at + Hold
    BY <1>2, <1>3 DEF Instant, Wall
  <2>3. QED  BY <1>2, <2>1, <2>2
<1>5. CASE ~(HoldEnd < Wall(now))
  <2>1. i \in last .. now - 1
    BY <1>1, <1>5 DEF Segment
  <2>2. now <= power.at + Hold
    BY <1>2, <1>3, <1>5 DEF Wall
  <2>3. QED  BY <1>2, <2>1, <2>2
<1>6. QED  BY <1>4, <1>5

-----------------------------------------------------------------------------
\* What the integration of a read adds, and where.
LEMMA AddedFacts ==
    ASSUME NEW c \in [Instants -> 0 .. 2], NEW S
    PROVE  /\ Added(c, S) \in [Instants -> 0 .. 2]
           /\ \A i \in Instants :
                 /\ i \notin S => Added(c, S)[i] = c[i]
                 /\ i \in S /\ c[i] = 0 => Added(c, S)[i] = 1
<1>1. ASSUME NEW n \in 0 .. 2
      PROVE  Min({n + 1, 2}) \in 0 .. 2 /\ (n = 0 => Min({n + 1, 2}) = 1)
  <2>1. \A S1 : Min(S1) = CHOOSE x \in S1 : \A y \in S1 : x <= y
    BY DEF Min
  <2>2. PICK m : m = Min({n + 1, 2})
    OBVIOUS
  <2>3. \E x \in {n + 1, 2} : \A y \in {n + 1, 2} : x <= y
    BY <1>1
  <2>4. m \in {n + 1, 2} /\ \A y \in {n + 1, 2} : m <= y
    BY <2>1, <2>2, <2>3
  <2>5. QED  BY <2>2, <2>4
<1>2. QED  BY <1>1 DEF Added

LEMMA IntegratedFacts ==
    ASSUME Types
    PROVE  LET h == Integrated(hist, now)
           IN  /\ h \in Hists
               /\ \A i \in Instants :
                     /\ i \notin Segment(now) =>
                           h.base[i] = hist.base[i] /\ h.timing[i] = hist.timing[i]
                     /\ i \in Segment(now) /\ hist.base[i] = 0 /\ hist.timing[i] = 0 =>
                           h.base[i] \in 0 .. 1 /\ h.timing[i] \in 0 .. h.base[i]
<1> PICK h : h = Integrated(hist, now)
  OBVIOUS
<1> PICK S : S = Segment(now)
  OBVIOUS
<1>1. hist \in Hists /\ hist.base \in [Instants -> 0 .. 2] /\ hist.timing \in [Instants -> 0 .. 2]
  BY DEF Types, Hists
<1> PICK b : b = Added(hist.base, S)
  OBVIOUS
<1> PICK c : c = Added(hist.timing, S)
  OBVIOUS
<1>2. /\ b \in [Instants -> 0 .. 2] /\ c \in [Instants -> 0 .. 2]
      /\ \A i \in Instants : /\ i \notin S => b[i] = hist.base[i] /\ c[i] = hist.timing[i]
                             /\ i \in S /\ hist.base[i] = 0 => b[i] = 1
                             /\ i \in S /\ hist.timing[i] = 0 => c[i] = 1
  BY <1>1, AddedFacts
<1>3. CASE power.of = "import"
  <2>1. h = [hist EXCEPT !.base = b, !.timing = IF price THEN c ELSE hist.timing]
    BY <1>3 DEF Integrated
  <2>2. h \in Hists /\ h.base = b /\ h.timing = IF price THEN c ELSE hist.timing
    BY <1>1, <1>2, <2>1 DEF Hists
  <2>3. ASSUME NEW i \in Instants
        PROVE  /\ i \notin S => h.base[i] = hist.base[i] /\ h.timing[i] = hist.timing[i]
               /\ i \in S /\ hist.base[i] = 0 /\ hist.timing[i] = 0 =>
                     h.base[i] \in 0 .. 1 /\ h.timing[i] \in 0 .. h.base[i]
    BY <1>2, <2>2
  <2>4. QED  BY <2>2, <2>3
<1>4. CASE power.of = "export"
  <2>1. \A i \in S : i \in Int
    BY InstantFacts DEF Segment, Types
  <2>2. {Day(i) : i \in S} \subseteq Int
    BY <2>1, DayIsInteger
  <2>3. h = [hist EXCEPT !.export = hist.export \union {Day(i) : i \in S}]
    BY <1>4 DEF Integrated
  <2>4. h \in Hists /\ h.base = hist.base /\ h.timing = hist.timing
    BY <1>1, <2>2, <2>3 DEF Hists
  <2>5. QED  BY <1>1, <2>4
<1>5. CASE power.of \notin {"import", "export"}
  <2>1. h = hist
    BY <1>5 DEF Integrated
  <2>2. QED  BY <1>1, <2>1
<1>6. QED  BY <1>3, <1>4, <1>5

LEMMA IntegratedOnce ==
    ASSUME Types, jump <= 0, Once(hist, last)
    PROVE  Once(Integrated(hist, now), now)
<1> PICK h : h = Integrated(hist, now)
  OBVIOUS
<1> SUFFICES ASSUME NEW i \in Instants
             PROVE  /\ h.base[i] <= 1 /\ h.timing[i] <= h.base[i]
                    /\ i >= now => h.base[i] = 0
  BY DEF Once
<1>1. /\ i \in Int /\ now \in Int /\ last \in Int /\ last <= now
      /\ hist.base[i] \in 0 .. 2 /\ hist.timing[i] \in 0 .. 2
  BY InstantFacts DEF Types, Hists
<1>2. /\ hist.base[i] <= 1 /\ hist.timing[i] <= hist.base[i]
      /\ i >= last => hist.base[i] = 0
  BY DEF Once
<1>3. CASE i \in Segment(now)
  <2>1. last <= i /\ i < now
    BY <1>3, SegmentIsPast
  <2>2. hist.base[i] = 0 /\ hist.timing[i] = 0
    BY <1>1, <1>2, <2>1
  <2>3. h.base[i] \in 0 .. 1 /\ h.timing[i] \in 0 .. h.base[i]
    BY <1>3, <2>2, IntegratedFacts
  <2>4. QED  BY <1>1, <2>1, <2>3
<1>4. CASE i \notin Segment(now)
  <2>1. h.base[i] = hist.base[i] /\ h.timing[i] = hist.timing[i]
    BY <1>4, IntegratedFacts
  <2>2. QED  BY <1>1, <1>2, <2>1
<1>5. QED  BY <1>3, <1>4

LEMMA OnceLater ==
    ASSUME NEW h, NEW t \in Int, NEW u \in Int, t <= u, Once(h, t)
    PROVE  Once(h, u)
BY InstantFacts DEF Once

-----------------------------------------------------------------------------
\* Scores and summaries leave the buckets alone; retention empties other days'.
LEMMA SummaryFacts ==
    ASSUME NEW h \in Hists, NEW d \in Int
    PROVE  /\ Scored(h, d) \in Hists /\ Scored(h, d).base = h.base /\ Scored(h, d).timing = h.timing
           /\ Summarised(h, d) \in Hists
           /\ Summarised(h, d).base = h.base /\ Summarised(h, d).timing = h.timing
<1>1. \A c, e, x : Verdict(c, e, x) \in Verdicts
  BY DEF Verdict, Verdicts
<1>2. Scored(h, d) \in Hists /\ Scored(h, d).base = h.base /\ Scored(h, d).timing = h.timing
  BY <1>1 DEF Scored, Hists
<1> PICK v : v = Verdict(h.base, d, h.export)
  OBVIOUS
<1> PICK l : l = Pruned([h.loads EXCEPT ![d] = v], d)
  OBVIOUS
<1>3. l \in [Days -> Verdicts]
  BY <1>1 DEF Pruned, Hists, Verdicts
<1>4. Summarised(h, d) = [h EXCEPT !.loads = l]
  BY DEF Summarised
<1>5. QED  BY <1>2, <1>3, <1>4 DEF Hists

LEMMA KeptFacts ==
    ASSUME NEW h \in Hists, NEW d \in Int
    PROVE  /\ KeptTiming(h, d) \in Hists
           /\ KeptTiming(h, d).base = h.base /\ KeptTiming(h, d).timing = Kept(h.timing, d)
           /\ KeptBase(h, d) \in Hists
           /\ KeptBase(h, d).base = Kept(h.base, d) /\ KeptBase(h, d).timing = h.timing
<1>1. Kept(h.timing, d) \in [Instants -> 0 .. 2] /\ Kept(h.base, d) \in [Instants -> 0 .. 2]
  BY DEF Kept, Hists
<1>2. QED  BY <1>1 DEF KeptTiming, KeptBase, Hists

\* Buckets kept of the same day keep to once.
LEMMA KeptOnce ==
    ASSUME NEW h, NEW t \in Int, Once(h, t), NEW d, NEW r,
           r.base = Kept(h.base, d), r.timing = Kept(h.timing, d)
    PROVE  Once(r, t)
BY DEF Once, Kept

LEMMA RolledFacts ==
    ASSUME NEW h \in Hists, NEW today \in Int
    PROVE  /\ Rolled(h, today) \in Hists
           /\ Rolled(h, today).base = Kept(h.base, today)
           /\ Rolled(h, today).timing = Kept(h.timing, today)
<1>1. today - 1 \in Int
  OBVIOUS
<1> PICK s : s = Scored(h, today - 1)
  OBVIOUS
<1> PICK m : m = Summarised(s, today - 1)
  OBVIOUS
<1>2. m \in Hists /\ m.base = h.base /\ m.timing = h.timing
  BY <1>1, SummaryFacts
<1> PICK k : k = KeptTiming(m, today)
  OBVIOUS
<1>3. k \in Hists /\ k.base = h.base /\ k.timing = Kept(h.timing, today)
  <2>1. k \in Hists /\ k.base = m.base /\ k.timing = Kept(m.timing, today)
    BY <1>2, KeptFacts
  <2>2. QED  BY <1>2, <2>1
<1>4. Rolled(h, today) = KeptBase(k, today)
  BY DEF Rolled
<1>5. /\ KeptBase(k, today) \in Hists /\ KeptBase(k, today).base = Kept(k.base, today)
      /\ KeptBase(k, today).timing = k.timing
  BY <1>3, KeptFacts
<1>6. QED  BY <1>3, <1>4, <1>5

LEMMA RestoredFacts ==
    ASSUME NEW h \in Hists, NEW today \in Int
    PROVE  /\ Restored(h, today) \in Hists
           /\ Restored(h, today).base = Kept(h.base, today)
           /\ Restored(h, today).timing = Kept(h.timing, today)
<1> PICK y \in Int : y = today - 1
  OBVIOUS
<1> PICK h1 : h1 = IF Covered(h.timing, y) # {} THEN Scored(h, y) ELSE h
  OBVIOUS
<1>1. h1 \in Hists /\ h1.base = h.base /\ h1.timing = h.timing
  BY SummaryFacts
<1> PICK h2 : h2 = KeptTiming(h1, today)
  OBVIOUS
<1>2. h2 \in Hists /\ h2.base = h.base /\ h2.timing = Kept(h.timing, today)
  <2>1. h2 \in Hists /\ h2.base = h1.base /\ h2.timing = Kept(h1.timing, today)
    BY <1>1, KeptFacts
  <2>2. QED  BY <1>1, <2>1
<1> PICK h3 : h3 = IF Covered(h.base, y) # {} \/ y \in h.export THEN Summarised(h2, y) ELSE h2
  OBVIOUS
<1>3. h3 \in Hists /\ h3.base = h.base /\ h3.timing = Kept(h.timing, today)
  BY <1>2, SummaryFacts
<1> PICK h4 : h4 = KeptBase(h3, today)
  OBVIOUS
<1>4. h4 \in Hists /\ h4.base = Kept(h.base, today) /\ h4.timing = Kept(h.timing, today)
  <2>1. h4 \in Hists /\ h4.base = Kept(h3.base, today) /\ h4.timing = h3.timing
    BY <1>3, KeptFacts
  <2>2. QED  BY <1>3, <2>1
<1>5. Restored(h, today) = [h4 EXCEPT !.loads = Pruned(h4.loads, y)]
  BY DEF Restored
<1>6. Pruned(h4.loads, y) \in [Days -> Verdicts]
  BY <1>4 DEF Pruned, Hists, Verdicts
<1>7. QED  BY <1>4, <1>5, <1>6 DEF Hists

-----------------------------------------------------------------------------
LEMMA NewHistFacts ==
    /\ NewHist \in Hists
    /\ \A t : Once(NewHist, t)
    /\ \A i \in Instants : NewHist.base[i] = 0
<1>1. Empty \in [Instants -> 0 .. 2] /\ \A i \in Instants : Empty[i] = 0
  BY DEF Empty
<1>2. NewHist.base = Empty /\ NewHist.timing = Empty
  BY DEF NewHist
<1>3. NewHist \in Hists
  BY <1>1 DEF NewHist, Hists, NoScore, Never, Verdicts
<1>4. QED  BY <1>1, <1>2, <1>3 DEF Once

LEMMA InitInv == Init => IInv
<1> SUFFICES ASSUME Init PROVE IInv
  OBVIOUS
<1>1. DayLength \in Instants /\ DayLength # Never /\ DayLength <= DayLength
  BY PowerAssumption DEF Instants, Never
<1>2. Types
  BY <1>1, NewHistFacts, PowerAssumption DEF Init, Types, Powers
<1>3. QED  BY <1>2, NewHistFacts DEF Init, IInv

\* What a read, of whatever cause, has in common with the midnight callback.
LEMMA ReadKeeps ==
    ASSUME IInv, up, NEW h \in Hists, jump <= 0 => Once(h, now),
           hist' = h, last' = now,
           power'.of \in Powers, power'.of # "none" => power'.at \in Instants /\ power'.at <= now,
           price' \in BOOLEAN, UNCHANGED <<now, jump, file, up>>
    PROVE  IInv'
<1>1. now \in Instants /\ now # Never /\ now \in Int /\ now <= now
  BY InstantFacts DEF IInv, Types
<1>2. Types'
  BY <1>1 DEF IInv, Types
<1>3. jump' <= 0 => Once(hist', last') /\ Once(file', now')
  BY DEF IInv
<1>4. QED  BY <1>2, <1>3 DEF IInv, Once

LEMMA SamePower ==
    ASSUME IInv
    PROVE  power.of \in Powers /\ (power.of # "none" => power.at \in Instants /\ power.at <= now)
<1>1. power.of # "none" => /\ power.at \in Int /\ last \in Int /\ now \in Int
                           /\ power.at <= last /\ last <= now
  BY InstantFacts DEF IInv, Types
<1>2. QED  BY <1>1 DEF IInv, Types

LEMMA ObservedPower ==
    ASSUME IInv, NEW p \in Powers, Observe(p)
    PROVE  /\ power'.of \in Powers
           /\ power'.of # "none" => power'.at \in Instants /\ power'.at <= now
<1>1. now \in Instants /\ now <= now
  BY InstantFacts DEF IInv, Types
<1>2. power'.of = p /\ (p # "none" => power'.at = now)
  BY DEF Observe
<1>3. QED  BY <1>1, <1>2

LEMMA ReadInv ==
    ASSUME IInv, up, hist' = Integrated(hist, now), last' = now,
           power'.of \in Powers, power'.of # "none" => power'.at \in Instants /\ power'.at <= now,
           price' \in BOOLEAN, UNCHANGED <<now, jump, file, up>>
    PROVE  IInv'
<1> PICK h : h = Integrated(hist, now)
  OBVIOUS
<1>1. h \in Hists
  BY IntegratedFacts DEF IInv
<1>2. jump <= 0 => Once(h, now)
  BY IntegratedOnce DEF IInv
<1>3. QED  BY <1>1, <1>2, ReadKeeps

LEMMA DailyRolloverInv ==
    ASSUME IInv, DailyRollover
    PROVE  IInv'
<1> PICK h : h = Integrated(hist, now)
  OBVIOUS
<1>1. h \in Hists /\ (jump <= 0 => Once(h, now)) /\ now \in Int
  BY IntegratedFacts, IntegratedOnce, InstantFacts DEF IInv, Types
<1> PICK r : r = Rolled(h, Day(now))
  OBVIOUS
<1>2. r \in Hists /\ r.base = Kept(h.base, Day(now)) /\ r.timing = Kept(h.timing, Day(now))
  BY <1>1, DayIsInteger, RolledFacts DEF IInv
<1>3. jump <= 0 => Once(r, now)
  BY <1>1, <1>2, KeptOnce
<1>4. /\ up /\ hist' = r /\ last' = now /\ power' = power /\ price' = price
      /\ UNCHANGED <<now, jump, file, up>> /\ price \in BOOLEAN
  BY DEF DailyRollover, IInv, Types
<1>5. QED  BY <1>2, <1>3, <1>4, ReadKeeps, SamePower

LEMMA StartInv ==
    ASSUME IInv, NEW p \in Powers, Start(p)
    PROVE  IInv'
<1> PICK r : r = Restored(file, Day(now))
  OBVIOUS
<1>1. /\ r \in Hists /\ r.base = Kept(file.base, Day(now)) /\ r.timing = Kept(file.timing, Day(now))
  BY DayIsInteger, RestoredFacts DEF IInv, Types
<1>2. now \in Instants /\ now \in Int /\ now # Never /\ now <= now
  BY InstantFacts DEF IInv, Types
<1>3. jump <= 0 => Once(r, now)
  BY <1>1, <1>2, KeptOnce DEF IInv
<1>4. /\ hist' = r /\ last' = now /\ up' = TRUE /\ UNCHANGED <<now, jump, file, price>>
      /\ Observe(p)
  BY DEF Start
<1>5. /\ power'.of \in Powers
      /\ power'.of # "none" => power'.at \in Instants /\ power'.at <= now
  BY <1>4, ObservedPower
<1>6. Types'
  BY <1>1, <1>2, <1>4, <1>5 DEF IInv, Types
<1>7. QED  BY <1>3, <1>4, <1>6 DEF IInv, Once

LEMMA WorldInv ==
    ASSUME IInv, TimePass \/ Save \/ (\E saved \in BOOLEAN : Down(saved))
    PROVE  IInv'
<1>1. /\ Types /\ now \in Int /\ last \in Int /\ last <= now
      /\ (jump <= 0 => Once(hist, last) /\ Once(file, now))
  BY InstantFacts DEF IInv, Types
<1>2. CASE TimePass
  <2>1. now' \in Instants /\ now' \in Int /\ now <= now' /\ last <= now'
    BY <1>1, <1>2, PowerAssumption DEF TimePass, Types, Instants
  <2>2. UNCHANGED <<jump, hist, file, up, last, power, price>>
    BY <1>2 DEF TimePass
  <2>3. Types'
    BY <1>1, <2>1, <2>2 DEF Types
  <2>4. \A i \in Instants : i \in Int
    BY InstantFacts
  <2>5. jump <= 0 => Once(file, now)'
    BY <1>1, <2>1, <2>2, <2>4 DEF Once
  <2>6. QED  BY <1>1, <2>2, <2>3, <2>5 DEF IInv, Once
<1>3. CASE Save
  <2>1. file' = hist /\ UNCHANGED <<now, jump, hist, up, last, power, price>>
    BY <1>3 DEF Save
  <2>2. Types'
    BY <1>1, <2>1 DEF Types
  <2>3. jump <= 0 => Once(hist, now)
    BY <1>1, OnceLater
  <2>4. QED  BY <1>1, <2>1, <2>2, <2>3 DEF IInv, Once
<1>4. ASSUME NEW saved \in BOOLEAN, Down(saved) PROVE IInv'
  <2>1. /\ file' \in {file, hist} /\ up' = FALSE /\ hist' = NewHist /\ last' = Never
        /\ power'.of = "none" /\ UNCHANGED <<now, jump, price>>
    BY <1>4 DEF Down
  <2>2. Never <= now
    BY <1>1, InstantFacts DEF Types, Never
  <2>3. Types'
    BY <1>1, <2>1, <2>2, NewHistFacts DEF Types, Powers
  <2>4. jump <= 0 => Once(hist, now) /\ Once(file, now)
    BY <1>1, OnceLater
  <2>5. QED  BY <2>1, <2>3, <2>4, NewHistFacts DEF IInv, Once
<1>5. QED  BY <1>2, <1>3, <1>4

LEMMA StepInv == IInv /\ [Next]_vars => IInv'
<1> SUFFICES ASSUME IInv, [Next]_vars PROVE IInv'
  OBVIOUS
<1>1. CASE Read
  <2>1. price' \in BOOLEAN
    BY <1>1 DEF Read, IInv, Types
  <2>2. QED  BY <1>1, <2>1, SamePower, ReadInv DEF Read
<1>2. ASSUME NEW p \in Powers, ReadPower(p) PROVE IInv'
  BY <1>2, ObservedPower, ReadInv DEF ReadPower, IInv, Types
<1>3. CASE UNCHANGED vars
  BY <1>3 DEF vars, IInv, Types, Once
<1>4. QED  BY <1>1, <1>2, <1>3, DailyRolloverInv, StartInv, WorldInv DEF Next

-----------------------------------------------------------------------------
(* Whatever the days, the hold and the jump of the clock: unless it is put    *)
(* forward, no instant is integrated twice, and none that is still to come.   *)
THEOREM IntegratedAtMostOnce == Spec => []CoveredOnce
<1>1. IInv => CoveredOnce
  <2> SUFFICES ASSUME IInv, jump <= 0, NEW i \in Instants
               PROVE  /\ hist.base[i] <= 1 /\ hist.timing[i] <= hist.base[i]
                      /\ i >= now => hist.base[i] = 0
    BY DEF CoveredOnce
  <2>1. last \in Int /\ now \in Int /\ i \in Int /\ last <= now /\ Once(hist, last)
    BY InstantFacts DEF IInv, Types
  <2>2. QED  BY <2>1 DEF Once
<1>2. QED  BY <1>1, InitInv, StepInv, PTL DEF Spec

(* And unless it is put back, a power is projected for the hold at most.      *)
THEOREM HeldBriefly == Spec => HeldBrieflyUnlessPutBack
<1> DEFINE Held == jump >= 0 /\ up => \A i \in Instants :
                      hist'.base[i] > hist.base[i] => power.at <= i /\ i < power.at + Hold
<1>1. ASSUME IInv, Next PROVE Held
  <2> SUFFICES ASSUME jump >= 0, up, NEW i \in Instants, hist'.base[i] > hist.base[i]
               PROVE  power.at <= i /\ i < power.at + Hold
    OBVIOUS
  <2> HIDE DEF Held
  <2>1. Types /\ hist.base[i] \in 0 .. 2
    <3>1. Types
      BY <1>1 DEF IInv
    <3>2. hist \in Hists
      BY <3>1 DEF Types
    <3>3. QED  BY <3>1, <3>2 DEF Hists
  <2> PICK h : h = Integrated(hist, now)
    OBVIOUS
  <2>2. h \in Hists /\ (i \notin Segment(now) => h.base[i] = hist.base[i])
    BY <2>1, IntegratedFacts
  <2>3. hist'.base[i] \in {h.base[i], hist.base[i], 0}
    <3>1. CASE DailyRollover
      <4>1. Rolled(h, Day(now)).base = Kept(h.base, Day(now))
        BY <2>1, <2>2, DayIsInteger, RolledFacts
      <4>2. QED  BY <3>1, <4>1 DEF DailyRollover, Kept
    <3>2. CASE Read \/ \E p \in Powers : ReadPower(p)
      BY <3>2 DEF Read, ReadPower
    <3>3. CASE TimePass \/ Save
      BY <3>3 DEF TimePass, Save
    <3>4. CASE \E saved \in BOOLEAN : Down(saved)
      BY <3>4, NewHistFacts DEF Down
    <3>5. ~ \E p \in Powers : Start(p)
      BY DEF Start
    <3>6. QED  BY <1>1, <3>1, <3>2, <3>3, <3>4, <3>5 DEF Next
  <2>4. i \in Segment(now)
    BY <2>1, <2>2, <2>3
  <2>5. QED  BY <2>1, <2>4, SegmentIsHeld
<1>2. ASSUME UNCHANGED vars, IInv PROVE Held
  <2> SUFFICES ASSUME NEW i \in Instants, hist'.base[i] > hist.base[i] PROVE FALSE
    OBVIOUS
  <2>1. hist' = hist /\ hist.base[i] \in 0 .. 2
    BY <1>2 DEF vars, IInv, Types, Hists
  <2>2. QED  BY <2>1
<1>3. IInv /\ [Next]_vars => [Held]_vars
  BY <1>1, <1>2
<1> HIDE DEF Held
<1>4. QED  BY <1>3, InitInv, StepInv, PTL DEF Spec, HeldBrieflyUnlessPutBack, Held

-----------------------------------------------------------------------------
\* A midnight has passed at an instant if and only if the local clock says so.
LEMMA Boundary ==
    ASSUME jump \in Jumps, NEW w \in Int, w % DayLength = 0, NEW i \in Int
    PROVE  Instant(w) \in Int /\ (Instant(w) <= i <=> w <= Wall(i))
<1>1. /\ jump \in Int /\ Change \in Int /\ Hold \in Int /\ Hold >= 1
  BY PowerAssumption
<1>2. w \notin AboutChange(jump)
  BY ClockAssumption
<1>3. CASE jump > 0
  <2>1. w <= Change \/ w >= Change + jump
    BY <1>1, <1>2, <1>3 DEF AboutChange
  <2> QED
    BY <1>1, <1>3, <2>1 DEF Instant, Wall
<1>4. CASE jump <= 0
  <2>1. w <= Change + jump \/ w >= Change
    BY <1>1, <1>2, <1>4 DEF AboutChange
  <2> QED
    BY <1>1, <1>4, <2>1 DEF Instant, Wall
<1> QED
  BY <1>1, <1>3, <1>4

\* Division by the length of a day.
LEMMA DayDivision ==
    /\ \A d \in Int : d * DayLength \in Int /\ (d * DayLength) % DayLength = 0
    /\ \A w \in Int, d \in Int : (d * DayLength <= w /\ w < (d + 1) * DayLength) <=> w \div DayLength = d
    /\ \A w \in Int : w \div DayLength \in Int
<1>1. DayLength \in Int /\ DayLength > 0
  BY PowerAssumption
<1> PICK n \in Int : n = DayLength /\ n > 0
  BY <1>1
<1>2. \A d \in Int : d * n \in Int /\ (d * n) % n = 0
  BY Z3
<1>3. \A w \in Int, d \in Int : (d * n <= w /\ w < (d + 1) * n) <=> w \div n = d
  BY Z3
<1>4. \A w \in Int : w \div n \in Int
  BY Z3
<1> QED
  BY <1>2, <1>3, <1>4

\* The instants of a day are those at which the local clock shows it.
LEMMA DayIsShown ==
    ASSUME jump \in Jumps, NEW d \in Int, NEW i \in Int
    PROVE  i \in DayOf(d) <=> Day(i) = d
<1>1. Wall(i) \in Int /\ d + 1 \in Int
  BY PowerAssumption DEF Wall
<1>2. /\ DayStart(d) \in Int /\ (DayStart(d) <= i <=> d * DayLength <= Wall(i))
      /\ DayStart(d + 1) \in Int /\ (DayStart(d + 1) <= i <=> (d + 1) * DayLength <= Wall(i))
  BY <1>1, Boundary, DayDivision DEF DayStart
<1>3. i \in DayOf(d) <=> d * DayLength <= Wall(i) /\ ~((d + 1) * DayLength <= Wall(i))
  BY <1>2 DEF DayOf
<1>4. d * DayLength \in Int /\ (d + 1) * DayLength \in Int
  BY <1>1, DayDivision
<1>5. i \in DayOf(d) <=> d * DayLength <= Wall(i) /\ Wall(i) < (d + 1) * DayLength
  BY <1>1, <1>3, <1>4
<1> QED
  BY <1>1, <1>5, DayDivision DEF Day

\* Days only follow one another.
LEMMA DaysFollow ==
    ASSUME jump \in Jumps, NEW i \in Int, NEW k \in Int, i <= k
    PROVE  Day(i) \in Int /\ Day(k) \in Int /\ Day(i) <= Day(k)
<1>1. Wall(i) \in Int /\ Wall(k) \in Int
  BY PowerAssumption DEF Wall
<1>2. Day(i) \in Int /\ Day(k) \in Int
  BY <1>1, DayDivision DEF Day
<1> PICK w : w = Day(i) * DayLength
  OBVIOUS
<1>3. w \in Int /\ w % DayLength = 0 /\ w <= Wall(i)
  BY <1>1, <1>2, DayDivision DEF Day
<1>4. w <= Wall(k)
  <2>1. Instant(w) \in Int /\ Instant(w) <= i
    BY <1>3, Boundary
  <2>2. Instant(w) <= k
    BY <2>1
  <2> QED
    BY <1>3, <2>2, Boundary
<1>5. \A v \in Int, u \in Int, d \in Int, n \in Int :
         n > 0 /\ d * n <= u /\ u <= v => d <= v \div n
  BY Z3
<1>6. DayLength \in Int /\ DayLength > 0
  BY PowerAssumption
<1> QED
  BY <1>1, <1>2, <1>3, <1>4, <1>5, <1>6 DEF Day

\* Local times between which there is no midnight are of one day.
LEMMA OneDay ==
    ASSUME NEW v \in Int, NEW w \in Int, v <= w,
           \A x \in v + 1 .. w : x % DayLength # 0
    PROVE  v \div DayLength = w \div DayLength
<1> PICK d \in Int : d = w \div DayLength
  BY DayDivision
<1>1. d * DayLength <= w /\ w < (d + 1) * DayLength /\ d * DayLength \in Int
  BY DayDivision
<1>2. d * DayLength <= v
  <2> SUFFICES ASSUME ~(d * DayLength <= v) PROVE FALSE
    OBVIOUS
  <2>1. d * DayLength \in v + 1 .. w
    BY <1>1
  <2> QED
    BY <2>1, DayDivision
<1>3. (d + 1) * DayLength \in Int
  BY DayDivision
<1>4. v < (d + 1) * DayLength
  BY <1>1, <1>3
<1> QED
  BY <1>2, <1>4, DayDivision

(* A segment is of the days from the last read to now, also where the end of  *)
(* the hold is a local time that was skipped.                                 *)
LEMMA SegmentDays ==
    ASSUME Types, jump \in Jumps, NEW i \in Segment(now)
    PROVE  i \in Int /\ Day(last) <= Day(i) /\ Day(i) <= Day(now)
<1>1. power.of # "none" /\ last # Never
  BY DEF Segment
<1>2. /\ now \in Int /\ last \in Int /\ power.at \in Int /\ jump \in Int
      /\ Change \in Int /\ Hold \in Int /\ Hold > 0 /\ power.at <= last /\ last <= now
  BY <1>1, InstantFacts DEF Types
<1>3. HoldEnd = Wall(power.at) + Hold /\ HoldEnd \in Int /\ Wall(now) \in Int
  BY <1>2 DEF HoldEnd, Wall
<1>4. /\ i \in Int /\ last <= i
      /\ i < now \/ (HoldEnd < Wall(now) /\ i < Instant(HoldEnd))
  <2>1. CASE HoldEnd < Wall(now)
    <3>1. i \in last .. Instant(HoldEnd) - 1
      BY <1>1, <2>1 DEF Segment
    <3>2. Instant(HoldEnd) \in Int
      BY <1>2, <1>3 DEF Instant
    <3> QED
      BY <1>2, <2>1, <3>1, <3>2
  <2>2. CASE ~(HoldEnd < Wall(now))
    <3>1. i \in last .. now - 1
      BY <1>1, <2>2 DEF Segment
    <3> QED
      BY <1>2, <3>1
  <2> QED
    BY <2>1, <2>2
<1>5. Day(last) <= Day(i)
  BY <1>2, <1>4, DaysFollow
<1>6. CASE i <= now
  BY <1>2, <1>4, <1>5, <1>6, DaysFollow
<1>7. CASE now < i
  <2>1. HoldEnd < Wall(now) /\ i < Instant(HoldEnd)
    BY <1>2, <1>4, <1>7
  <2>2. jump > 0 /\ Change <= now /\ HoldEnd < Change + jump /\ Instant(HoldEnd) = HoldEnd
    BY <1>2, <1>3, <1>7, <1>4, <2>1 DEF Instant, Wall
  <2>3. power.at < Change
    BY <1>2, <1>3, <2>2 DEF Wall
  <2>4. HoldEnd <= Change - 1 + Hold
    BY <1>2, <1>3, <2>3 DEF Wall
  <2>5. /\ Wall(i) = i + jump /\ Wall(now) = now + jump
        /\ Change + jump <= Wall(now) /\ Wall(now) <= Wall(i) /\ Wall(i) <= Change + jump + Hold - 2
    BY <1>2, <1>3, <1>4, <1>7, <2>1, <2>2, <2>4 DEF Wall
  <2>6. \A x \in Wall(now) + 1 .. Wall(i) : x % DayLength # 0
    <3>1. \A x \in Wall(now) + 1 .. Wall(i) : x \in AboutChange(jump)
      BY <1>2, <1>3, <1>4, <2>2, <2>5 DEF AboutChange
    <3> QED
      BY <3>1, ClockAssumption
  <2>7. Day(now) = Day(i)
    BY <1>2, <1>4, <2>5, <2>6, OneDay DEF Day
  <2>8. Day(i) \in Int
    BY <1>4, DaysFollow
  <2> QED
    BY <1>4, <1>5, <2>7, <2>8
<1> QED
  BY <1>2, <1>4, <1>6, <1>7

\* A jump is of a day at most, so that every instant is of a day of the model.
LEMMA DayInRange ==
    ASSUME jump \in Jumps, NEW i \in Instants
    PROVE  Day(i) \in Days /\ Day(i) \in Nat
<1>1. /\ jump \in Int /\ Change \in Int /\ Hold \in Int /\ Hold >= 1
      /\ DayLength \in Int /\ DayLength > 0 /\ Horizon \in Nat
      /\ i \in Int /\ DayLength <= i /\ i <= Horizon + DayLength
  BY PowerAssumption DEF Instants
<1>2. ASSUME NEW a \in Int
      PROVE  \E x \in a .. a + DayLength - 1 : x % DayLength = 0
  <2> PICK d \in Int : d = (a + DayLength - 1) \div DayLength
    BY <1>1, DayDivision
  <2>1. /\ d * DayLength <= a + DayLength - 1 /\ a + DayLength - 1 < (d + 1) * DayLength
        /\ d * DayLength \in Int /\ (d * DayLength) % DayLength = 0
    BY <1>1, DayDivision
  <2>2. (d + 1) * DayLength = d * DayLength + DayLength
    BY <1>1
  <2>3. d * DayLength \in a .. a + DayLength - 1
    BY <1>1, <2>1, <2>2
  <2> QED
    BY <2>1, <2>3
<1>3. -DayLength <= jump /\ jump <= DayLength
  <2>1. CASE jump > DayLength
    <3> PICK a \in Int : a = Change + 1
      BY <1>1
    <3>1. PICK x \in a .. a + DayLength - 1 : x % DayLength = 0
      BY <1>2
    <3>2. x \in AboutChange(jump)
      BY <1>1, <2>1, <3>1 DEF AboutChange
    <3> QED
      BY <3>1, <3>2, ClockAssumption
  <2>2. CASE jump < -DayLength
    <3> PICK a \in Int : a = Change - DayLength
      BY <1>1
    <3>1. PICK x \in a .. a + DayLength - 1 : x % DayLength = 0
      BY <1>2
    <3>2. x \in AboutChange(jump)
      BY <1>1, <2>2, <3>1 DEF AboutChange
    <3> QED
      BY <3>1, <3>2, ClockAssumption
  <2> QED
    BY <1>1, <2>1, <2>2
<1>4. Wall(i) \in Int /\ 0 <= Wall(i) /\ Wall(i) <= 2 * (Horizon + DayLength)
  BY <1>1, <1>3 DEF Wall
<1>5. \A v \in Int, w \in Int, n \in Int :
         n > 0 /\ 0 <= v /\ v <= w => v \div n \in Int /\ 0 <= v \div n /\ v \div n <= w \div n
  BY Z3
<1>6. 2 * (Horizon + DayLength) \in Int
  BY <1>1
<1>7. Day(i) \in Int /\ 0 <= Day(i) /\ Day(i) <= (2 * (Horizon + DayLength)) \div DayLength
  BY <1>1, <1>4, <1>5, <1>6 DEF Day
<1>8. (2 * (Horizon + DayLength)) \div DayLength \in Int
  BY <1>6, DayDivision
<1> QED
  BY <1>7, <1>8 DEF Days

-----------------------------------------------------------------------------
\* Buckets only gain from a segment, and a covered one stays covered.
LEMMA AddedGrows ==
    ASSUME NEW c \in [Instants -> 0 .. 2], NEW S, NEW i \in Instants
    PROVE  /\ Added(c, S)[i] \in 0 .. 2 /\ c[i] <= Added(c, S)[i]
           /\ i \in S => Added(c, S)[i] > 0
           /\ i \notin S => Added(c, S)[i] = c[i]
<1>1. ASSUME NEW n \in 0 .. 2
      PROVE  Min({n + 1, 2}) \in 0 .. 2 /\ n <= Min({n + 1, 2}) /\ Min({n + 1, 2}) > 0
  <2>1. \A S1 : Min(S1) = CHOOSE x \in S1 : \A y \in S1 : x <= y
    BY DEF Min
  <2>2. PICK m : m = Min({n + 1, 2})
    OBVIOUS
  <2>3. \E x \in {n + 1, 2} : \A y \in {n + 1, 2} : x <= y
    BY <1>1
  <2>4. m \in {n + 1, 2} /\ \A y \in {n + 1, 2} : m <= y
    BY <2>1, <2>2, <2>3
  <2> QED
    BY <2>2, <2>4
<1>2. c[i] \in 0 .. 2
  OBVIOUS
<1>3. Added(c, S)[i] = IF i \in S THEN Min({c[i] + 1, 2}) ELSE c[i]
  BY DEF Added
<1>4. c[i] <= c[i]
  BY <1>2
<1> QED
  BY <1>1, <1>2, <1>3, <1>4

\* A covered power is counted in both histories.
Supported(h) == \A i \in Instants : h.timing[i] > 0 => h.base[i] > 0

\* Everything the history h holds is of the days from d on.
Since(h, d) ==
    /\ \A i \in Instants : h.base[i] > 0 => Day(i) >= d
    /\ \A e \in h.export : e >= d

(* What a read integrates: the buckets only grow, by instants of the segment, *)
(* and whatever is added is of a day from the last read to now.               *)
Grown(g, h) ==
    /\ g \in Hists /\ g.score = h.score /\ g.loads = h.loads /\ h.export \subseteq g.export
    /\ \A i \in Instants :
          /\ h.base[i] <= g.base[i] /\ h.timing[i] <= g.timing[i]
          /\ g.base[i] > 0 => h.base[i] > 0 \/ (Day(last) <= Day(i) /\ Day(i) <= Day(now))
    /\ \A e \in g.export : e \in h.export \/ (Day(last) <= e /\ e <= Day(now))
    /\ Supported(h) => Supported(g)

LEMMA IntegratedGrows ==
    ASSUME Types, jump \in Jumps
    PROVE  Grown(Integrated(hist, now), hist)
<1> PICK h : h = Integrated(hist, now)
  OBVIOUS
<1> PICK S : S = Segment(now)
  OBVIOUS
<1>1. /\ hist \in Hists /\ hist.base \in [Instants -> 0 .. 2] /\ hist.timing \in [Instants -> 0 .. 2]
      /\ hist.export \in SUBSET Int
  BY DEF Types, Hists
<1>2. /\ \A i \in Instants : hist.base[i] <= hist.base[i] /\ hist.timing[i] <= hist.timing[i]
      /\ h \in Hists
  BY <1>1, IntegratedFacts
<1>3. \A i \in S : Day(last) <= Day(i) /\ Day(i) <= Day(now)
  BY SegmentDays
<1> PICK b : b = Added(hist.base, S)
  OBVIOUS
<1> PICK c : c = Added(hist.timing, S)
  OBVIOUS
<1>4. \A i \in Instants : /\ hist.base[i] <= b[i] /\ hist.timing[i] <= c[i]
                          /\ i \in S => b[i] > 0 /\ c[i] > 0
                          /\ i \notin S => b[i] = hist.base[i] /\ c[i] = hist.timing[i]
  BY <1>1, AddedGrows
<1>5. CASE power.of = "import"
  <2>1. h = [hist EXCEPT !.base = b, !.timing = IF price THEN c ELSE hist.timing]
    BY <1>5 DEF Integrated
  <2>2. /\ h.base = b /\ h.timing = IF price THEN c ELSE hist.timing
        /\ h.score = hist.score /\ h.loads = hist.loads /\ h.export = hist.export
    BY <1>1, <2>1 DEF Hists
  <2>3. Supported(hist) => Supported(h)
    BY <1>4, <2>2 DEF Supported
  <2> QED
    BY <1>2, <1>3, <1>4, <2>2, <2>3 DEF Grown
<1>6. CASE power.of = "export"
  <2>1. h = [hist EXCEPT !.export = hist.export \union {Day(i) : i \in S}]
    BY <1>6 DEF Integrated
  <2>2. /\ h.base = hist.base /\ h.timing = hist.timing /\ h.score = hist.score
        /\ h.loads = hist.loads /\ h.export = hist.export \union {Day(i) : i \in S}
    BY <1>1, <2>1 DEF Hists
  <2>3. Supported(hist) => Supported(h)
    BY <2>2 DEF Supported
  <2> QED
    BY <1>2, <1>3, <2>2, <2>3 DEF Grown
<1>7. CASE power.of \notin {"import", "export"}
  <2>1. h = hist
    BY <1>7 DEF Integrated
  <2> QED
    BY <1>2, <2>1 DEF Grown
<1> QED
  BY <1>5, <1>6, <1>7

-----------------------------------------------------------------------------
(* A day with export is unusable for both histories: the score of a day and   *)
(* its summary never disagree about it.                                      *)
Agreed(h) ==
    \A d \in Days : h.score.day = d /\ h.loads[d] # "none"
        => (h.score.as = "export" <=> h.loads[d] = "export")

\* A history whose day was last scored before all that it holds.
Consistent(h) == Supported(h) /\ Agreed(h) /\ Since(h, h.score.day + 1)

\* Only the buckets and marks of a day, and the summaries of the window before it.
OfDay(h, d) ==
    /\ \A i \in Instants : h.base[i] > 0 => Day(i) = d
    /\ h.export \subseteq {d}
    /\ \A e \in Days : h.loads[e] # "none" => e \in d - Window .. d - 1

-----------------------------------------------------------------------------
\* Why a day is not used, as far as the code's order decides it.
LEMMA VerdictFacts ==
    ASSUME NEW c, NEW d, NEW x
    PROVE  /\ Verdict(c, d, x) \in Verdicts /\ Verdict(c, d, x) # "none"
           /\ Verdict(c, d, x) = "export" <=> d \in x
           /\ Verdict(c, d, x) = "sparse" => Sparse(c, d)
BY DEF Verdict, Verdicts

\* A day of which less is covered is sparse too.
LEMMA SparserStill ==
    ASSUME jump \in Jumps, NEW d \in Int,
           NEW c \in [Instants -> 0 .. 2], NEW e \in [Instants -> 0 .. 2],
           \A i \in Instants : c[i] <= e[i], Sparse(e, d)
    PROVE  Sparse(c, d)
<1> DEFINE T == (DayOf(d) \intersect Instants) \X (1 .. 2)
           U(f) == {s \in T : s[2] <= f[s[1]]}
<1>1. /\ d + 1 \in Int /\ DayStart(d) \in Int /\ DayStart(d + 1) \in Int
      /\ DayStart(d + 1) - 1 \in Int
  BY DayDivision, Boundary DEF DayStart
<1>2. IsFiniteSet(DayOf(d)) /\ Cardinality(DayOf(d)) \in Nat
  BY <1>1, FS_Interval, FS_CardinalityType DEF DayOf
<1>3. IsFiniteSet(T)
  <2>1. IsFiniteSet(DayOf(d) \intersect Instants)
    BY <1>2, FS_Subset
  <2>2. IsFiniteSet(1 .. 2)
    <3>1. 1 \in Int /\ 2 \in Int
      OBVIOUS
    <3> QED
      BY <3>1, FS_Interval
  <2> QED
    BY <2>1, <2>2, FS_Product
<1>4. U(c) \subseteq U(e)
  <2> SUFFICES ASSUME NEW s \in U(c) PROVE s \in U(e)
    OBVIOUS
  <2>1. s \in T /\ s[2] <= c[s[1]] /\ s[1] \in Instants /\ s[2] \in Int
    OBVIOUS
  <2>2. c[s[1]] \in Int /\ e[s[1]] \in Int /\ c[s[1]] <= e[s[1]]
    BY <2>1
  <2>3. s[2] <= e[s[1]]
    BY <2>1, <2>2
  <2> QED
    BY <2>1, <2>3
<1>5. IsFiniteSet(U(c)) /\ IsFiniteSet(U(e)) /\ Cardinality(U(c)) <= Cardinality(U(e))
  <2>1. IsFiniteSet(U(e)) /\ IsFiniteSet(U(c))
    BY <1>3, FS_Subset
  <2> QED
    BY <1>4, <2>1, FS_Subset
<1>6. Seconds(c, d) = Cardinality(U(c)) /\ Seconds(e, d) = Cardinality(U(e))
  BY DEF Seconds
<1> HIDE DEF U, T
<1>7. Seconds(c, d) \in Nat /\ Seconds(e, d) \in Nat /\ Seconds(c, d) <= Seconds(e, d)
  BY <1>5, <1>6, FS_CardinalityType
<1>8. MinPercent * Cardinality(DayOf(d)) \in Int
  BY <1>2, PowerAssumption
<1> QED
  BY <1>7, <1>8 DEF Sparse

-----------------------------------------------------------------------------
\* What scoring, summarising and retention leave of the rest of a history.
LEMMA ScoredRest ==
    ASSUME NEW h \in Hists, NEW d \in Int
    PROVE  /\ Scored(h, d).score = [day |-> d, as |-> Verdict(h.timing, d, h.export)]
           /\ Scored(h, d).export = h.export /\ Scored(h, d).loads = h.loads
BY DEF Scored, Hists

LEMMA SummarisedRest ==
    ASSUME NEW h \in Hists, NEW d \in Int
    PROVE  /\ Summarised(h, d).score = h.score /\ Summarised(h, d).export = h.export
           /\ \A e \in Days :
                 Summarised(h, d).loads[e] =
                     IF e \notin d - Window + 1 .. d THEN "none"
                     ELSE IF e = d THEN Verdict(h.base, d, h.export) ELSE h.loads[e]
<1> PICK v : v = Verdict(h.base, d, h.export)
  OBVIOUS
<1> PICK l : l = Pruned([h.loads EXCEPT ![d] = v], d)
  OBVIOUS
<1>1. Summarised(h, d) = [h EXCEPT !.loads = l]
  BY DEF Summarised
<1>2. /\ Summarised(h, d).score = h.score /\ Summarised(h, d).export = h.export
      /\ Summarised(h, d).loads = l
  BY <1>1 DEF Hists
<1>3. \A e \in Days : [h.loads EXCEPT ![d] = v][e] = IF e = d THEN v ELSE h.loads[e]
  BY DEF Hists
<1>4. \A e \in Days : l[e] = IF e \in d - Window + 1 .. d THEN [h.loads EXCEPT ![d] = v][e] ELSE "none"
  BY DEF Pruned
<1> QED
  BY <1>2, <1>3, <1>4

LEMMA KeptRest ==
    ASSUME NEW h \in Hists, NEW d \in Int
    PROVE  /\ KeptTiming(h, d).score = h.score /\ KeptTiming(h, d).export = h.export
           /\ KeptTiming(h, d).loads = h.loads
           /\ KeptBase(h, d).score = h.score /\ KeptBase(h, d).export = h.export \intersect {d}
           /\ KeptBase(h, d).loads = h.loads
BY DEF KeptTiming, KeptBase, Hists

(* What r keeps of the history g when the day before `today` is scored (or    *)
(* not) and summarised (or not).                                             *)
Closed(r, g, today, scored, summarised) ==
    LET y == today - 1
    IN  /\ r \in Hists
        /\ r.base = Kept(g.base, today) /\ r.timing = Kept(g.timing, today)
        /\ r.export = g.export \intersect {today}
        /\ r.score = IF scored THEN [day |-> y, as |-> Verdict(g.timing, y, g.export)] ELSE g.score
        /\ \A d \in Days :
              r.loads[d] = IF d \notin y - Window + 1 .. y THEN "none"
                           ELSE IF summarised /\ d = y THEN Verdict(g.base, y, g.export)
                           ELSE g.loads[d]

LEMMA RolledCloses ==
    ASSUME NEW g \in Hists, NEW today \in Int
    PROVE  Closed(Rolled(g, today), g, today, TRUE, TRUE)
<1> PICK y \in Int : y = today - 1
  OBVIOUS
<1> PICK s : s = Scored(g, y)
  OBVIOUS
<1>1. /\ s \in Hists /\ s.base = g.base /\ s.timing = g.timing
      /\ s.score = [day |-> y, as |-> Verdict(g.timing, y, g.export)]
      /\ s.export = g.export /\ s.loads = g.loads
  BY SummaryFacts, ScoredRest
<1> PICK m : m = Summarised(s, y)
  OBVIOUS
<1>2. /\ m \in Hists /\ m.score = s.score /\ m.export = g.export
      /\ \A e \in Days : m.loads[e] = IF e \notin y - Window + 1 .. y THEN "none"
                                      ELSE IF e = y THEN Verdict(g.base, y, g.export)
                                      ELSE g.loads[e]
  <2>1. /\ m \in Hists /\ m.score = s.score /\ m.export = s.export
        /\ \A e \in Days : m.loads[e] = IF e \notin y - Window + 1 .. y THEN "none"
                                        ELSE IF e = y THEN Verdict(s.base, y, s.export)
                                        ELSE s.loads[e]
    BY <1>1, SummaryFacts, SummarisedRest
  <2> QED
    BY <1>1, <2>1
<1> PICK k : k = KeptTiming(m, today)
  OBVIOUS
<1>3. k \in Hists /\ k.score = m.score /\ k.export = m.export /\ k.loads = m.loads
  BY <1>2, KeptFacts, KeptRest
<1> PICK r : r = Rolled(g, today)
  OBVIOUS
<1>4. r = KeptBase(k, today)
  BY DEF Rolled
<1>5. r.score = k.score /\ r.export = k.export \intersect {today} /\ r.loads = k.loads
  BY <1>3, <1>4, KeptRest
<1>6. /\ r \in Hists /\ r.base = Kept(g.base, today) /\ r.timing = Kept(g.timing, today)
  BY RolledFacts
<1>7. r.export = g.export \intersect {today} /\ r.score = s.score /\ r.loads = m.loads
  BY <1>2, <1>3, <1>5
<1> QED
  BY <1>1, <1>2, <1>6, <1>7 DEF Closed

LEMMA RestoredCloses ==
    ASSUME NEW h \in Hists, NEW today \in Int
    PROVE  LET y == today - 1
           IN  Closed(Restored(h, today), h, today, Covered(h.timing, y) # {},
                      Covered(h.base, y) # {} \/ y \in h.export)
<1> PICK y \in Int : y = today - 1
  OBVIOUS
<1> PICK sc \in BOOLEAN : sc = (Covered(h.timing, y) # {})
  OBVIOUS
<1> PICK su \in BOOLEAN : su = (Covered(h.base, y) # {} \/ y \in h.export)
  OBVIOUS
<1> PICK h1 : h1 = IF sc THEN Scored(h, y) ELSE h
  OBVIOUS
<1>1. /\ h1 \in Hists /\ h1.base = h.base /\ h1.timing = h.timing
      /\ h1.score = IF sc THEN [day |-> y, as |-> Verdict(h.timing, y, h.export)] ELSE h.score
      /\ h1.export = h.export /\ h1.loads = h.loads
  BY SummaryFacts, ScoredRest
<1> PICK h2 : h2 = KeptTiming(h1, today)
  OBVIOUS
<1>2. /\ h2 \in Hists /\ h2.base = h.base /\ h2.score = h1.score /\ h2.export = h.export
      /\ h2.loads = h.loads
  BY <1>1, KeptFacts, KeptRest
<1> PICK h3 : h3 = IF su THEN Summarised(h2, y) ELSE h2
  OBVIOUS
<1>3. /\ h3 \in Hists /\ h3.score = h1.score /\ h3.export = h.export
      /\ \A e \in Days : e \in y - Window + 1 .. y =>
            h3.loads[e] = IF su /\ e = y THEN Verdict(h.base, y, h.export) ELSE h.loads[e]
  <2>1. CASE su
    <3>1. h3 = Summarised(h2, y)
      BY <2>1
    <3>2. /\ h3 \in Hists /\ h3.score = h2.score /\ h3.export = h2.export
          /\ \A e \in Days : h3.loads[e] = IF e \notin y - Window + 1 .. y THEN "none"
                                           ELSE IF e = y THEN Verdict(h2.base, y, h2.export)
                                           ELSE h2.loads[e]
      <4>1. h2 \in Hists
        BY <1>2
      <4>2. h3 \in Hists
        BY <3>1, <4>1, SummaryFacts
      <4> QED
        BY <3>1, <4>1, <4>2, SummarisedRest
    <3> QED
      BY <1>2, <2>1, <3>2
  <2>2. CASE ~su
    BY <1>2, <2>2
  <2> QED
    BY <2>1, <2>2
<1> PICK h4 : h4 = KeptBase(h3, today)
  OBVIOUS
<1>4. /\ h4 \in Hists /\ h4.score = h1.score /\ h4.export = h.export \intersect {today}
      /\ h4.loads = h3.loads
  <2>1. h4 \in Hists
    BY <1>3, KeptFacts
  <2>2. h4.score = h3.score /\ h4.export = h3.export \intersect {today} /\ h4.loads = h3.loads
    BY <1>3, KeptRest
  <2> QED
    BY <1>3, <2>1, <2>2
<1> PICK r : r = Restored(h, today)
  OBVIOUS
<1>5. r = [h4 EXCEPT !.loads = Pruned(h4.loads, y)]
  BY DEF Restored
<1>6. r.score = h1.score /\ r.export = h.export \intersect {today} /\ r.loads = Pruned(h4.loads, y)
  BY <1>4, <1>5 DEF Hists
<1>7. /\ r \in Hists /\ r.base = Kept(h.base, today) /\ r.timing = Kept(h.timing, today)
  BY RestoredFacts
<1>8. \A d \in Days : r.loads[d] = IF d \notin y - Window + 1 .. y THEN "none"
                                   ELSE IF su /\ d = y THEN Verdict(h.base, y, h.export)
                                   ELSE h.loads[d]
  BY <1>3, <1>4, <1>6 DEF Pruned
<1>9. Closed(r, h, today, sc, su)
  BY <1>1, <1>6, <1>7, <1>8 DEF Closed
<1> QED
  BY <1>9

-----------------------------------------------------------------------------
(* A day's end keeps a history consistent and leaves nothing of other days.   *)
(* A day that is summarised and not scored was not scored before either.      *)
LEMMA ClosedConsistent ==
    ASSUME jump \in Jumps, NEW g \in Hists, NEW r, NEW today \in Int,
           NEW sc \in BOOLEAN, NEW su \in BOOLEAN, Closed(r, g, today, sc, su),
           Consistent(g), g.score.day < today, sc => su,
           su /\ ~sc => g.score.day # today - 1
    PROVE  Consistent(r) /\ r.score.day < today /\ OfDay(r, today)
<1> PICK y \in Int : y = today - 1
  OBVIOUS
<1>1. /\ r.base = Kept(g.base, today) /\ r.timing = Kept(g.timing, today)
      /\ r.export = g.export \intersect {today} /\ r \in Hists
      /\ r.score = IF sc THEN [day |-> y, as |-> Verdict(g.timing, y, g.export)] ELSE g.score
      /\ \A d \in Days :
            r.loads[d] = IF d \notin y - Window + 1 .. y THEN "none"
                         ELSE IF su /\ d = y THEN Verdict(g.base, y, g.export)
                         ELSE g.loads[d]
  BY DEF Closed
<1>2. \A i \in Instants : Day(i) \in Int /\ (i \in DayOf(today) <=> Day(i) = today)
  BY InstantFacts, DayIsShown, DaysFollow
<1>3. \A i \in Instants : /\ r.base[i] = IF i \in DayOf(today) THEN g.base[i] ELSE 0
                          /\ r.timing[i] = IF i \in DayOf(today) THEN g.timing[i] ELSE 0
  BY <1>1 DEF Kept
<1>4. g.score.day \in Int /\ r.score.day \in Int
  BY <1>1 DEF Hists
<1>5. r.score.day < today
  BY <1>1, <1>4
<1>6. OfDay(r, today)
  <2>1. \A i \in Instants : r.base[i] > 0 => Day(i) = today
    BY <1>2, <1>3
  <2>2. r.export \subseteq {today}
    BY <1>1
  <2>3. \A d \in Days : r.loads[d] # "none" => d \in y - Window + 1 .. y
    BY <1>1
  <2>4. y - Window + 1 = today - Window
    BY PowerAssumption
  <2> QED
    BY <2>1, <2>2, <2>3, <2>4 DEF OfDay
<1>7. Supported(r)
  BY <1>3 DEF Supported, Consistent
<1>8. Since(r, r.score.day + 1)
  <2>1. today >= r.score.day + 1
    BY <1>4, <1>5
  <2> QED
    BY <1>1, <1>4, <1>6, <2>1 DEF Since, OfDay
<1>9. Agreed(r)
  <2> SUFFICES ASSUME NEW d \in Days, r.score.day = d, r.loads[d] # "none"
               PROVE  r.score.as = "export" <=> r.loads[d] = "export"
    BY DEF Agreed
  <2>1. r.loads[d] = IF su /\ d = y THEN Verdict(g.base, y, g.export) ELSE g.loads[d]
    BY <1>1
  <2>2. CASE sc
    <3>1. r.score.as = Verdict(g.timing, y, g.export) /\ d = y
      BY <1>1, <2>2
    <3>2. r.loads[d] = Verdict(g.base, y, g.export)
      BY <2>1, <2>2, <3>1
    <3> QED
      BY <3>1, <3>2, VerdictFacts
  <2>3. CASE ~sc
    <3>1. r.score = g.score /\ g.score.day = d
      BY <1>1, <2>3
    <3>2. r.loads[d] = g.loads[d]
      BY <2>1, <2>3, <3>1
    <3> QED
      BY <3>1, <3>2 DEF Consistent, Agreed
  <2> QED
    BY <2>2, <2>3
<1> QED
  BY <1>5, <1>6, <1>7, <1>8, <1>9 DEF Consistent

\* The midnight callback, on a consistent history.
LEMMA RolledConsistent ==
    ASSUME jump \in Jumps, NEW g \in Hists, NEW today \in Int,
           Consistent(g), g.score.day < today
    PROVE  LET r == Rolled(g, today)
           IN  Consistent(r) /\ r.score.day < today /\ OfDay(r, today)
BY RolledCloses, ClosedConsistent

\* A start, on a file written on this day or on an earlier one.
LEMMA RestoredConsistent ==
    ASSUME jump \in Jumps, NEW h \in Hists, NEW today \in Int,
           Consistent(h), h.score.day < today
    PROVE  LET r == Restored(h, today)
           IN  Consistent(r) /\ r.score.day < today /\ OfDay(r, today)
<1> PICK y \in Int : y = today - 1
  OBVIOUS
<1> PICK sc \in BOOLEAN : sc = (Covered(h.timing, y) # {})
  OBVIOUS
<1> PICK su \in BOOLEAN : su = (Covered(h.base, y) # {} \/ y \in h.export)
  OBVIOUS
<1>1. Closed(Restored(h, today), h, today, sc, su)
  BY RestoredCloses
<1>2. sc => su
  BY DEF Covered, Consistent, Supported
<1>3. h.score.day \in Int
  BY DEF Hists
<1>4. su => h.score.day # y
  <2>1. CASE Covered(h.base, y) # {}
    <3> PICK i \in DayOf(y) \intersect Instants : h.base[i] > 0
      BY <2>1 DEF Covered
    <3>1. Day(i) = y
      BY InstantFacts, DayIsShown
    <3>2. y >= h.score.day + 1
      BY <3>1 DEF Consistent, Since
    <3> QED
      BY <1>3, <3>2
  <2>2. CASE y \in h.export
    <3>1. y >= h.score.day + 1
      BY <2>2 DEF Consistent, Since
    <3> QED
      BY <1>3, <3>1
  <2> QED
    BY <2>1, <2>2
<1>5. su /\ ~sc => h.score.day # today - 1
  BY <1>4
<1> QED
  BY <1>1, <1>2, <1>5, ClosedConsistent

\* A read, if the last day scored is before the last read.
LEMMA GrownConsistent ==
    ASSUME Types, jump \in Jumps, NEW h \in Hists, NEW g, Grown(g, h),
           Consistent(h), h.score.day < Day(last), last # Never
    PROVE  /\ g \in Hists /\ Consistent(g) /\ g.score.day < Day(now)
           /\ Day(last) = Day(now) /\ OfDay(h, Day(now)) => OfDay(g, Day(now))
<1>1. /\ Day(last) \in Int /\ Day(now) \in Int /\ Day(last) <= Day(now)
      /\ \A i \in Instants : Day(i) \in Int
  <2>1. last \in Int /\ now \in Int /\ last <= now
    BY InstantFacts DEF Types
  <2> QED
    BY <2>1, InstantFacts, DaysFollow
<1>2. h.score.day \in Int /\ g.score = h.score /\ g.loads = h.loads /\ g \in Hists
  BY DEF Hists, Grown
<1>3. g.export \subseteq Int /\ h.export \subseteq Int
  BY <1>2 DEF Hists
<1>4. Supported(g)
  BY DEF Grown, Consistent
<1>5. Agreed(g)
  BY <1>2 DEF Consistent, Agreed
<1>6. Since(g, g.score.day + 1)
  <2> PICK n \in Int : n = h.score.day + 1
    BY <1>2
  <2>1. n <= Day(last)
    BY <1>1, <1>2
  <2>2. Since(h, n)
    BY DEF Consistent
  <2>3. \A i \in Instants : g.base[i] > 0 => Day(i) >= n
    BY <1>1, <2>1, <2>2 DEF Grown, Since
  <2>4. \A e \in g.export : e >= n
    BY <1>1, <1>3, <2>1, <2>2 DEF Grown, Since
  <2> QED
    BY <1>2, <2>3, <2>4 DEF Since
<1>7. g.score.day < Day(now)
  BY <1>1, <1>2
<1>8. Day(last) = Day(now) /\ OfDay(h, Day(now)) => OfDay(g, Day(now))
  <2> SUFFICES ASSUME Day(last) = Day(now), OfDay(h, Day(now)) PROVE OfDay(g, Day(now))
    OBVIOUS
  <2>1. \A i \in Instants : g.base[i] > 0 => Day(i) = Day(now)
    BY <1>1 DEF Grown, OfDay
  <2>2. g.export \subseteq {Day(now)}
    BY <1>1, <1>3 DEF Grown, OfDay
  <2> QED
    BY <1>2, <2>1, <2>2 DEF OfDay
<1> QED
  BY <1>2, <1>4, <1>5, <1>6, <1>7, <1>8 DEF Consistent

-----------------------------------------------------------------------------
(* The histories in memory and in the file are consistent; the last day scored *)
(* is before the last read, and in the file before now.  Once midnight is      *)
(* handled the last read was today, and only today is held.                    *)
DayInv ==
    /\ Types /\ jump \in Jumps
    /\ Consistent(hist) /\ (up => hist.score.day < Day(last))
    /\ Consistent(file) /\ file.score.day < Day(now)
    /\ up /\ ~due => Day(last) = Day(now) /\ OfDay(hist, Day(now))

LEMMA NewHistConsistent ==
    ASSUME NEW d
    PROVE  Consistent(NewHist) /\ NewHist.score.day = -1 /\ OfDay(NewHist, d)
<1>1. /\ \A i \in Instants : NewHist.base[i] = 0 /\ NewHist.timing[i] = 0
      /\ NewHist.export = {} /\ NewHist.score.day = -1
      /\ \A e \in Days : NewHist.loads[e] = "none"
  BY DEF NewHist, Empty, NoScore, Never
<1>2. Supported(NewHist) /\ Agreed(NewHist) /\ Since(NewHist, NewHist.score.day + 1)
  BY <1>1 DEF Supported, Agreed, Since
<1> QED
  BY <1>1, <1>2 DEF Consistent, OfDay

LEMMA InitDays == Init => DayInv
<1> SUFFICES ASSUME Init PROVE DayInv
  OBVIOUS
<1>1. Types /\ jump \in Jumps
  BY InitInv DEF IInv, Init
<1>2. now \in Instants /\ hist = NewHist /\ file = NewHist /\ last = now
  BY <1>1 DEF Types, Init
<1>3. Day(now) \in Nat
  BY <1>1, <1>2, DayInRange
<1>4. -1 < Day(now)
  BY <1>3
<1> QED
  BY <1>1, <1>2, <1>4, NewHistConsistent DEF DayInv

\* What is said of the next histories, the next read and the next instant.
LEMMA Carried ==
    ASSUME jump \in Jumps, jump' = jump, Types',
           NEW h, NEW f, NEW l, NEW n, hist' = h, file' = f, last' = l, now' = n,
           Consistent(h), up' => h.score.day < Day(l),
           Consistent(f), f.score.day < Day(n),
           up' /\ ~due' => Day(l) = Day(n) /\ OfDay(h, Day(n))
    PROVE  DayInv'
<1>1. \A i : Day(i) = Day(i)'
  BY DEF Day, Wall
<1>2. Consistent(hist)' /\ Consistent(file)'
  BY <1>1 DEF Consistent, Supported, Agreed, Since, Day, Wall
<1>3. Day(last)' = Day(l) /\ Day(now)' = Day(n)
  BY DEF Day, Wall
<1>4. OfDay(h, Day(n)) => OfDay(hist, Day(now))'
  BY <1>3 DEF OfDay, Day, Wall
<1> QED
  BY <1>2, <1>3, <1>4 DEF DayInv

LEMMA ReadDays ==
    ASSUME DayInv, up, hist' = Integrated(hist, now), last' = now, Types',
           UNCHANGED <<now, jump, file, up, due>>
    PROVE  DayInv'
<1> PICK g : g = Integrated(hist, now)
  OBVIOUS
<1>1. Types /\ hist \in Hists /\ jump \in Jumps /\ last # Never
  BY DEF DayInv, Types
<1>2. Grown(g, hist)
  BY <1>1, IntegratedGrows
<1>3. /\ Consistent(g) /\ g.score.day < Day(now)
      /\ Day(last) = Day(now) /\ OfDay(hist, Day(now)) => OfDay(g, Day(now))
  BY <1>1, <1>2, GrownConsistent DEF DayInv
<1>4. up /\ ~due => Day(now) = Day(now) /\ OfDay(g, Day(now))
  BY <1>3 DEF DayInv
<1>5. Consistent(file) /\ file.score.day < Day(now)
  BY DEF DayInv
<1> QED
  BY <1>1, <1>3, <1>4, <1>5, Carried

LEMMA DailyRolloverDays ==
    ASSUME DayInv, DailyRollover, Types'
    PROVE  DayInv'
<1> PICK g : g = Integrated(hist, now)
  OBVIOUS
<1>1. Types /\ hist \in Hists /\ jump \in Jumps /\ last # Never
  BY DEF DayInv, Types, DailyRollover
<1>2. Grown(g, hist)
  BY <1>1, IntegratedGrows
<1>3. g \in Hists /\ Consistent(g) /\ g.score.day < Day(now)
  BY <1>1, <1>2, GrownConsistent DEF DayInv, DailyRollover
<1> PICK r : r = Rolled(g, Day(now))
  OBVIOUS
<1>4. Consistent(r) /\ r.score.day < Day(now) /\ OfDay(r, Day(now))
  BY <1>1, <1>3, DayIsInteger, RolledConsistent
<1>5. Consistent(file) /\ file.score.day < Day(now)
  BY DEF DayInv
<1>6. hist' = r /\ last' = now /\ now' = now /\ file' = file /\ jump' = jump
  BY DEF DailyRollover
<1> QED
  BY <1>1, <1>4, <1>5, <1>6, Carried

LEMMA StartDays ==
    ASSUME DayInv, NEW p \in Powers, Start(p), Types'
    PROVE  DayInv'
<1>1. Types /\ file \in Hists /\ jump \in Jumps
  BY DEF DayInv, Types
<1> PICK r : r = Restored(file, Day(now))
  OBVIOUS
<1>2. Consistent(file) /\ file.score.day < Day(now)
  BY DEF DayInv
<1>3. Consistent(r) /\ r.score.day < Day(now) /\ OfDay(r, Day(now))
  BY <1>1, <1>2, DayIsInteger, RestoredConsistent
<1>4. hist' = r /\ last' = now /\ now' = now /\ file' = file /\ jump' = jump
  BY DEF Start
<1> QED
  BY <1>1, <1>2, <1>3, <1>4, Carried

LEMMA DownDays ==
    ASSUME DayInv, NEW saved \in BOOLEAN, Down(saved), Types'
    PROVE  DayInv'
<1>1. /\ jump \in Jumps /\ now \in Int /\ last \in Int /\ last <= now
      /\ hist.score.day \in Int
  BY InstantFacts DEF DayInv, Types, Hists
<1>2. Day(last) \in Int /\ Day(now) \in Int /\ Day(last) <= Day(now)
  BY <1>1, DaysFollow
<1> PICK f : f = IF saved THEN hist ELSE file
  OBVIOUS
<1>3. Consistent(f) /\ f.score.day < Day(now)
  BY <1>1, <1>2 DEF DayInv, Down
<1>4. /\ hist' = NewHist /\ last' = Never /\ now' = now /\ file' = f /\ jump' = jump
      /\ ~up'
  BY DEF Down
<1> QED
  BY <1>1, <1>3, <1>4, NewHistConsistent, Carried

LEMMA SaveDays ==
    ASSUME DayInv, Save, Types'
    PROVE  DayInv'
<1>1. /\ jump \in Jumps /\ now \in Int /\ last \in Int /\ last <= now
      /\ hist.score.day \in Int
  BY InstantFacts DEF DayInv, Types, Hists
<1>2. Day(last) \in Int /\ Day(now) \in Int /\ Day(last) <= Day(now)
  BY <1>1, DaysFollow
<1>3. Consistent(hist) /\ hist.score.day < Day(last) /\ hist.score.day < Day(now)
  BY <1>1, <1>2 DEF DayInv, Save
<1>4. hist' = hist /\ last' = last /\ now' = now /\ file' = hist /\ jump' = jump
  BY DEF Save
<1>5. up' /\ ~due' => Day(last) = Day(now) /\ OfDay(hist, Day(now))
  BY DEF DayInv, Save
<1> QED
  BY <1>1, <1>3, <1>4, <1>5, Carried

LEMMA TimePassDays ==
    ASSUME DayInv, TimePass, Types'
    PROVE  DayInv'
<1>1. /\ jump \in Jumps /\ now \in Int /\ now + 1 \in Int /\ now <= now + 1
      /\ hist.score.day \in Int /\ file.score.day \in Int
  BY InstantFacts DEF DayInv, Types, Hists
<1> PICK n \in Int : n = now + 1
  BY <1>1
<1>2. Day(now) \in Int /\ Day(n) \in Int /\ Day(now) <= Day(n)
  BY <1>1, DaysFollow
<1>3. Consistent(file) /\ file.score.day < Day(n)
  BY <1>1, <1>2 DEF DayInv
<1>4. Consistent(hist) /\ (up' => hist.score.day < Day(last))
  BY DEF DayInv, TimePass
<1>5. up' /\ ~due' => Day(n) = Day(now)
  BY DEF TimePass
<1>6. up' /\ ~due' => Day(last) = Day(n) /\ OfDay(hist, Day(n))
  BY <1>5 DEF DayInv, TimePass
<1>7. hist' = hist /\ last' = last /\ now' = n /\ file' = file /\ jump' = jump
  BY DEF TimePass
<1> QED
  BY <1>1, <1>3, <1>4, <1>6, <1>7, Carried

LEMMA StepDays == DayInv /\ IInv' /\ [Next]_vars => DayInv'
<1> SUFFICES ASSUME DayInv, IInv', [Next]_vars PROVE DayInv'
  OBVIOUS
<1>1. Types'
  BY DEF IInv
<1>2. CASE TimePass
  BY <1>1, <1>2, TimePassDays
<1>3. CASE Read
  BY <1>1, <1>3, ReadDays DEF Read
<1>4. ASSUME NEW p \in Powers, ReadPower(p) PROVE DayInv'
  BY <1>1, <1>4, ReadDays DEF ReadPower
<1>5. CASE DailyRollover
  BY <1>1, <1>5, DailyRolloverDays
<1>6. CASE Save
  BY <1>1, <1>6, SaveDays
<1>7. ASSUME NEW p \in Powers, Start(p) PROVE DayInv'
  BY <1>1, <1>7, StartDays
<1>8. ASSUME NEW saved \in BOOLEAN, Down(saved) PROVE DayInv'
  BY <1>1, <1>8, DownDays
<1>9. CASE UNCHANGED vars
  BY <1>9 DEF vars, DayInv, Types, Consistent, Supported, Agreed, Since, OfDay, Day, Wall
<1> QED
  BY <1>2, <1>3, <1>4, <1>5, <1>6, <1>7, <1>8, <1>9 DEF Next

\* In every behaviour.
LEMMA DaysHold == Spec => []DayInv
<1>1. IInv /\ [Next]_vars => IInv'
  BY StepInv
<1> QED
  BY <1>1, InitInv, InitDays, StepDays, PTL DEF Spec

(* Once midnight is handled nothing is kept of days that are over, and no      *)
(* summary from before the window, whatever the clock jumps by, unless it      *)
(* jumps about midnight (Bounded): the buckets, marks and files are bounded.   *)
THEOREM NothingOutlivesItsDay == Spec => []Bounded
<1>1. DayInv => Bounded
  <2> SUFFICES ASSUME DayInv, up, ~due
               PROVE  /\ \A i \in Instants : hist.base[i] > 0 \/ hist.timing[i] > 0 => Day(i) = Day(now)
                      /\ hist.export \subseteq {Day(now)}
                      /\ \A d \in Days : hist.loads[d] # "none" => d \in Day(now) - Window .. Day(now) - 1
    BY DEF Bounded
  <2>1. OfDay(hist, Day(now)) /\ Supported(hist)
    BY DEF DayInv, Consistent
  <2> QED
    BY <2>1 DEF OfDay, Supported
<1> QED
  BY <1>1, DaysHold, PTL

(* The score of a day and its base-load summary never disagree about export,   *)
(* whichever of midnight and a start finalised them and however many crashes    *)
(* and saves came between (BothSeeExport).                                     *)
THEOREM ScoreAndLoadAgree == Spec => []BothSeeExport
<1>1. DayInv => BothSeeExport
  BY DEF DayInv, Consistent, Agreed, BothSeeExport
<1> QED
  BY <1>1, DaysHold, PTL

-----------------------------------------------------------------------------
\* Buckets that are not emptied need no verdict.
LEMMA NothingDropped ==
    ASSUME NEW h \in Hists, NEW d,
           \A i \in Instants : /\ hist'.base[i] \in Int /\ hist'.timing[i] \in Int
                               /\ h.base[i] <= hist'.base[i] /\ h.timing[i] <= hist'.timing[i]
    PROVE  Accounted(h, d)
<1>1. \A i \in Instants : h.base[i] \in 0 .. 2 /\ h.timing[i] \in 0 .. 2
  BY DEF Hists
<1>2. Covered(h.base, d) # {} => Covered(hist'.base, d) # {}
  BY <1>1 DEF Covered
<1>3. Covered(h.timing, d) # {} => Covered(hist'.timing, d) # {}
  BY <1>1 DEF Covered
<1> QED
  BY <1>2, <1>3 DEF Accounted

(* A day's end gives the day its verdict on at least what h held of it, if it  *)
(* scores what was priced and summarises what was covered.                    *)
LEMMA ClosedAccounts ==
    ASSUME jump \in Jumps, NEW h \in Hists, NEW g \in Hists, NEW today \in Int,
           \A i \in Instants : h.base[i] <= g.base[i] /\ h.timing[i] <= g.timing[i],
           h.export \subseteq g.export,
           NEW sc \in BOOLEAN, NEW su \in BOOLEAN, Closed(hist', g, today, sc, su),
           Covered(h.timing, today - 1) # {} => sc,
           Covered(h.base, today - 1) # {} => su
    PROVE  Accounted(h, today - 1)
<1> PICK y \in Int : y = today - 1
  OBVIOUS
<1> PICK r : r = hist'
  OBVIOUS
<1>1. /\ r.score = IF sc THEN [day |-> y, as |-> Verdict(g.timing, y, g.export)] ELSE g.score
      /\ \A d \in Days :
            r.loads[d] = IF d \notin y - Window + 1 .. y THEN "none"
                         ELSE IF su /\ d = y THEN Verdict(g.base, y, g.export)
                         ELSE g.loads[d]
  BY DEF Closed
<1>2. /\ h.base \in [Instants -> 0 .. 2] /\ g.base \in [Instants -> 0 .. 2]
      /\ h.timing \in [Instants -> 0 .. 2] /\ g.timing \in [Instants -> 0 .. 2]
  BY DEF Hists
<1>3. y \in y - Window + 1 .. y
  BY PowerAssumption
<1>4. ASSUME Covered(h.base, y) # {}
      PROVE  /\ r.loads[y] # "none"
             /\ r.loads[y] = "sparse" => Sparse(h.base, y)
             /\ y \in h.export => r.loads[y] = "export"
  <2> PICK i \in DayOf(y) \intersect Instants : h.base[i] > 0
    BY <1>4 DEF Covered
  <2>1. Day(i) = y
    BY InstantFacts, DayIsShown
  <2>2. y \in Days
    BY <2>1, DayInRange
  <2>3. su
    BY <1>4
  <2>4. r.loads[y] = Verdict(g.base, y, g.export)
    BY <1>1, <1>3, <2>2, <2>3
  <2>5. Sparse(g.base, y) => Sparse(h.base, y)
    BY <1>2, SparserStill
  <2> QED
    BY <2>4, <2>5, VerdictFacts
<1>5. ASSUME Covered(h.timing, y) # {}
      PROVE  r.score.day = y /\ (r.score.as = "sparse" => Sparse(h.timing, y))
  <2>1. r.score.day = y /\ r.score.as = Verdict(g.timing, y, g.export)
    BY <1>1, <1>5
  <2>2. Sparse(g.timing, y) => Sparse(h.timing, y)
    BY <1>2, SparserStill
  <2> QED
    BY <2>1, <2>2, VerdictFacts
<1>6. Accounted(h, y)
  BY <1>4, <1>5 DEF Accounted
<1> QED
  BY <1>6

(* Yesterday's buckets leave memory, or the file at a start, only for a score  *)
(* and a summary of all they held (SummarisedBeforeDropped).                   *)
THEOREM NoDayIsLost == Spec => SummarisedBeforeDropped
<1> DEFINE A == up' => Accounted(IF up THEN hist ELSE file, Day(now) - 1)
<1>1. ASSUME DayInv, IInv', [Next]_vars, up' PROVE A
  <2>1. /\ Types /\ jump \in Jumps /\ hist \in Hists /\ file \in Hists /\ hist' \in Hists
        /\ Day(now) \in Int
    BY <1>1, DayIsInteger DEF DayInv, IInv, Types
  <2> PICK d : d = Day(now) - 1
    OBVIOUS
  <2> PICK g : g = Integrated(hist, now)
    OBVIOUS
  <2>2. Grown(g, hist)
    BY <2>1, IntegratedGrows
  <2>3. \A i \in Instants : /\ hist'.base[i] \in Int /\ hist'.timing[i] \in Int
                            /\ hist.base[i] <= hist.base[i] /\ hist.timing[i] <= hist.timing[i]
    BY <2>1 DEF Hists
  <2>4. CASE Read \/ \E p \in Powers : ReadPower(p)
    <3>1. up /\ hist' = g
      BY <2>4 DEF Read, ReadPower
    <3>2. Accounted(hist, d)
      BY <2>1, <2>2, <2>3, <3>1, NothingDropped DEF Grown
    <3> QED
      BY <3>1, <3>2
  <2>5. CASE TimePass \/ Save \/ UNCHANGED vars
    <3>1. up /\ hist' = hist
      BY <1>1, <2>5 DEF TimePass, Save, vars
    <3>2. Accounted(hist, d)
      BY <2>1, <2>3, <3>1, NothingDropped
    <3> QED
      BY <3>1, <3>2
  <2>6. CASE DailyRollover
    <3>1. up /\ hist' = Rolled(g, Day(now)) /\ g \in Hists
      BY <2>2, <2>6 DEF DailyRollover, Grown
    <3>2. Closed(hist', g, Day(now), TRUE, TRUE)
      BY <2>1, <3>1, RolledCloses
    <3>3. /\ \A i \in Instants : hist.base[i] <= g.base[i] /\ hist.timing[i] <= g.timing[i]
          /\ hist.export \subseteq g.export
      BY <2>2 DEF Grown
    <3>4. Accounted(hist, Day(now) - 1)
      BY <2>1, <3>1, <3>2, <3>3, ClosedAccounts
    <3> QED
      BY <3>1, <3>4
  <2>7. CASE \E p \in Powers : Start(p)
    <3>1. ~up /\ hist' = Restored(file, Day(now))
      BY <2>7 DEF Start
    <3> PICK sc \in BOOLEAN : sc = (Covered(file.timing, Day(now) - 1) # {})
      OBVIOUS
    <3> PICK su \in BOOLEAN :
           su = (Covered(file.base, Day(now) - 1) # {} \/ Day(now) - 1 \in file.export)
      OBVIOUS
    <3>2. Closed(hist', file, Day(now), sc, su)
      BY <2>1, <3>1, RestoredCloses
    <3>3. \A i \in Instants : file.base[i] <= file.base[i] /\ file.timing[i] <= file.timing[i]
      BY <2>1 DEF Hists
    <3>4. Accounted(file, Day(now) - 1)
      BY <2>1, <3>2, <3>3, ClosedAccounts
    <3> QED
      BY <3>1, <3>4
  <2>8. ~ \E saved \in BOOLEAN : Down(saved)
    BY <1>1 DEF Down
  <2> QED
    BY <1>1, <2>4, <2>5, <2>6, <2>7, <2>8 DEF Next
<1>2. DayInv /\ IInv' /\ [Next]_vars => [A]_vars
  BY <1>1
<1>3. IInv /\ [Next]_vars => IInv'
  BY StepInv
<1> HIDE DEF A
<1>4. Spec => [][A]_vars
  BY <1>2, <1>3, InitInv, DaysHold, PTL DEF Spec
<1> QED
  BY <1>4 DEF SummarisedBeforeDropped, A
===============================================================================
