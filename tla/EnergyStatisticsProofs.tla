----------------------- MODULE EnergyStatisticsProofs -----------------------
(***************************************************************************)
(* EnergyStatistics for every calendar, bound and set of faults: types, and *)
(* that neither the daily nor the monthly total exceeds what was used.      *)
(* At the end the other statistic of statistics_engine.py, the daily peak.  *)
(***************************************************************************)
EXTENDS EnergyStatistics, PeakSensors, TLAPS

(* What a set of statistics and its audit record must satisfy, in memory and *)
(* in the file alike.  The last conjunct of the month is the heart of it:    *)
(* the month has either seen the day's current value, and then its next      *)
(* delta is the day's own increase, or everything it holds lies before the   *)
(* day's baseline, and then even the whole daily value is new to it.         *)
DaySound(s, a) ==
    Exists(s.today) =>
        /\ a.mark <= meterBase + s.today.last
        /\ s.today.value + a.dayMark <= a.mark

MonthSound(s, a) ==
    Exists(s.month) =>
        /\ Exists(s.today)
        /\ s.month.value + a.monthMark <= a.mark
        /\ \/ s.month.last = s.today.value
           \/ s.month.value + a.monthMark <= a.dayMark

Sound(s, a) ==
    /\ a.mark <= Used
    /\ DaySound(s, a)
    /\ MonthSound(s, a)

IInv ==
    /\ TypeOK
    /\ reported # Missing => reported <= register
    /\ Sound(stats, audit)
    /\ Sound(stored, storedAudit)

-----------------------------------------------------------------------------
\* The accumulators return snapshots of the period they are given.
LEMMA SnapshotTypes ==
    ASSUME NEW P, P \subseteq Nat, NEW p \in P, NEW snap \in SnapshotOf(P), NEW m \in Nat
    PROVE  /\ DailyUpdate(snap, m, p) \in SnapshotOf(P)
           /\ DailyReset(snap, m, p) \in SnapshotOf(P)
           /\ DailyReset(snap, Missing, p) \in SnapshotOf(P)
           /\ DailyConfirm(snap, m, p) \in SnapshotOf(P)
           /\ CumulativeUpdate(snap, m, p) \in SnapshotOf(P)
BY DEF SnapshotOf, NoSnapshot, Snapshot, NoPeriod, Missing, Exists, DailyUpdate, DailyReset,
       ResetRejects, IsBackward, DailyConfirm, CumulativeUpdate

\* A reading keeps the types and the soundness of the statistics.
LEMMA ReadSound ==
    ASSUME NEW s \in Statistics, NEW a \in Audits, NEW m \in Nat \union {Missing},
           NEW d \in Days, meterBase \in Nat, register \in Nat,
           m # Missing => m <= register, Sound(s, a)
    PROVE  /\ ReadStats(s, m, d) \in Statistics
           /\ ReadAudit(s, a, m, d) \in Audits
           /\ Sound(ReadStats(s, m, d), ReadAudit(s, a, m, d))
<1>1. CASE m = Missing
  BY <1>1 DEF ReadStats, ReadAudit
<1>2. CASE m # Missing
  <2>1. m \in Nat /\ MonthOf[d] \in Nat /\ d \in Nat
    BY <1>2, EnergyAssumption DEF Days
  <2> DEFINE today == DailyUpdate(s.today, m, d)
             month == CumulativeUpdate(s.month, today.value, MonthOf[d])
             s2 == ReadStats(s, m, d)
             a2 == ReadAudit(s, a, m, d)
  <2>2. today \in SnapshotOf(Days) /\ today.value \in Nat /\ today.last \in Nat
    <3>0. Days \subseteq Nat /\ s.today \in SnapshotOf(Days)
      BY DEF Statistics, Days
    <3>1. today \in SnapshotOf(Days)
      BY <2>1, <3>0, SnapshotTypes
    <3>2. QED  BY <3>1 DEF SnapshotOf, NoSnapshot, Snapshot
  <2>3. month \in SnapshotOf(Nat)
    BY <2>1, <2>2, SnapshotTypes DEF Statistics
  <2>4. s2 \in Statistics /\ s2.today = today /\ s2.month = month
    BY <1>2, <2>2, <2>3 DEF ReadStats, Statistics
  <2>5. /\ s.today.last \in Nat /\ s.today.value \in Nat
        /\ s.month.last \in Nat /\ s.month.value \in Nat
        /\ s.today.period \in Int /\ s.month.period \in Int
    BY DEF Statistics, SnapshotOf, NoSnapshot, Snapshot, Days, NoPeriod
  <2>6. /\ a.mark \in Nat /\ a.dayMark \in Nat /\ a.monthMark \in Nat
        /\ a.midnight \in Nat \union {Missing}
    BY DEF Audits
  <2>7. a2 \in Audits
    BY <1>2, <2>1, <2>5, <2>6 DEF ReadAudit, Audits, UsedAt, Missing
  <2>8. /\ a2.mark = IF IsBackward(s.today, m) THEN a.mark ELSE meterBase + m
        /\ a2.dayMark = IF s.today.period = d THEN a.dayMark ELSE a2.mark
        /\ a2.monthMark = CASE ~Exists(s.month) -> a2.mark
                            [] s.month.period = MonthOf[d] -> a.monthMark
                            [] OTHER -> a2.dayMark
    BY <1>2 DEF ReadAudit, UsedAt
  <2>9. /\ today.period = d
        /\ today.last = IF IsBackward(s.today, m) THEN s.today.last ELSE m
        /\ today.value = IF s.today.period # d THEN 0
                         ELSE IF IsBackward(s.today, m) THEN s.today.value
                         ELSE s.today.value + (m - s.today.last)
    BY DEF DailyUpdate, Snapshot
  <2>10. /\ month.last = today.value
         /\ month.value = IF ~Exists(s.month) THEN 0
                          ELSE IF s.month.period = MonthOf[d]
                               THEN s.month.value + (IF today.value >= s.month.last
                                                     THEN today.value - s.month.last
                                                     ELSE today.value)
                               ELSE IF today.value >= s.month.last
                                    THEN today.value - s.month.last
                                    ELSE today.value
    BY DEF CumulativeUpdate, Snapshot
  <2>11. Exists(today)
    BY <2>1, <2>9 DEF Exists, NoPeriod
  <2> HIDE DEF today, month, s2, a2
  <2>12. a2.mark <= Used /\ DaySound(s2, a2) /\ (Exists(s.today) => a2.mark >= a.mark)
    BY <1>2, <2>1, <2>4, <2>5, <2>6, <2>8, <2>9, <2>11
       DEF Sound, DaySound, Used, IsBackward, Exists, NoPeriod
  <2>13. MonthSound(s2, a2)
    <3> SUFFICES month.value + a2.monthMark <= a2.mark
      BY <2>4, <2>10, <2>11 DEF MonthSound
    <3>0. today.value + a2.dayMark <= a2.mark
      BY <2>4, <2>11, <2>12 DEF DaySound
    <3>0a. a2.mark \in Nat /\ a2.dayMark \in Nat
      BY <2>7 DEF Audits
    <3>1. CASE ~Exists(s.month)
      BY <3>1, <2>1, <2>8, <2>10, <3>0a DEF Exists, NoPeriod
    <3>2. CASE Exists(s.month) /\ s.month.period # MonthOf[d]
      BY <3>2, <3>0, <3>0a, <2>2, <2>5, <2>8, <2>10
    <3>3. CASE Exists(s.month) /\ s.month.period = MonthOf[d]
      <4>1. /\ Exists(s.today)
            /\ s.month.value + a.monthMark <= a.mark
            /\ \/ s.month.last = s.today.value
               \/ s.month.value + a.monthMark <= a.dayMark
        BY <3>3 DEF Sound, MonthSound
      <4>2. a2.monthMark = a.monthMark
        BY <3>3, <2>8
      <4>3. /\ a.mark <= meterBase + s.today.last
            /\ s.today.value + a.dayMark <= a.mark
        BY <4>1 DEF Sound, DaySound
      <4>4. CASE s.today.period # d
        <5>1. today.value = 0 /\ a2.mark >= a.mark
          BY <4>1, <4>4, <2>9, <2>12
        <5>2. QED
          BY <3>3, <4>1, <4>2, <5>1, <2>5, <2>6, <2>10, <3>0a
      <4>5. CASE s.today.period = d
        <5>1. today.value >= s.today.value /\ a2.dayMark = a.dayMark
          BY <4>1, <4>5, <2>1, <2>5, <2>8, <2>9 DEF IsBackward
        <5>2. today.value - s.today.value <= a2.mark - a.mark
          BY <4>1, <4>3, <4>5, <2>1, <2>5, <2>6, <2>8, <2>9 DEF IsBackward
        <5>3. CASE s.month.last = s.today.value
          BY <5>1, <5>2, <5>3, <3>3, <4>1, <4>2, <2>2, <2>5, <2>6, <2>10, <3>0a
        <5>4. CASE s.month.value + a.monthMark <= a.dayMark
          BY <5>1, <5>4, <3>0, <3>3, <4>2, <2>2, <2>5, <2>6, <2>10, <3>0a
        <5>5. QED  BY <4>1, <5>3, <5>4
      <4>6. QED  BY <4>4, <4>5
    <3>4. QED  BY <3>1, <3>2, <3>3
  <2>14. QED  BY <2>4, <2>7, <2>12, <2>13 DEF Sound, s2, a2
<1>3. QED  BY <1>1, <1>2

\* The midnight callback keeps them too.
LEMMA RolloverSound ==
    ASSUME NEW s \in Statistics, NEW a \in Audits, NEW m \in Nat \union {Missing},
           NEW d \in Days, meterBase \in Nat, register \in Nat,
           m # Missing => m <= register, Sound(s, a)
    PROVE  /\ RolloverStats(s, m, d) \in Statistics
           /\ RolloverAudit(s, a, m) \in Audits
           /\ Sound(RolloverStats(s, m, d), RolloverAudit(s, a, m))
<1> DEFINE rejects == ResetRejects(s.today, m)
           today == DailyReset(s.today, m, d)
           s2 == RolloverStats(s, m, d)
           a2 == RolloverAudit(s, a, m)
<1>1. d \in Nat /\ Days \subseteq Nat /\ s.today \in SnapshotOf(Days)
  BY DEF Days, Statistics
<1>2. today \in SnapshotOf(Days)
  BY <1>1, SnapshotTypes
<1>3. s2 \in Statistics /\ s2.today = today /\ s2.month = s.month
  BY <1>2 DEF RolloverStats, Statistics
<1>4. /\ s.today.last \in Nat /\ s.today.value \in Nat /\ s.today.period \in Int
      /\ s.month.last \in Nat /\ s.month.value \in Nat
      /\ a.mark \in Nat /\ a.dayMark \in Nat /\ a.monthMark \in Nat
  BY DEF Statistics, SnapshotOf, NoSnapshot, Snapshot, Days, NoPeriod, Audits
<1>5. a2 \in Audits
  <2> DEFINE mark == IF m = Missing \/ rejects THEN a.mark ELSE UsedAt(m)
             midnight == IF m = Missing \/ rejects THEN Missing ELSE mark
  <2>1. mark \in Nat /\ midnight \in Nat \union {Missing}
    BY <1>4 DEF UsedAt
  <2>2. a2 = [a EXCEPT !.mark = mark, !.dayMark = mark, !.midnight = midnight]
    BY DEF RolloverAudit
  <2> HIDE DEF mark, midnight
  <2>3. QED  BY <2>1, <2>2 DEF Audits
<1>6. /\ a2.mark = IF m = Missing \/ rejects THEN a.mark ELSE meterBase + m
      /\ a2.dayMark = a2.mark
      /\ a2.monthMark = a.monthMark
  BY DEF RolloverAudit, UsedAt, Audits
<1>7. /\ Exists(today) => today.value = 0
      /\ Exists(s.today) => Exists(today)
      /\ Exists(today) =>
           today.last = IF rejects THEN s.today.last ELSE m
      /\ Exists(today) /\ m = Missing => Exists(s.today) /\ rejects
  BY <1>1 DEF DailyReset, ResetRejects, Exists, Snapshot, NoSnapshot, NoPeriod
<1>8. Exists(s.today) => a.mark <= meterBase + s.today.last
  BY DEF Sound, DaySound
<1>9. a2.mark <= Used /\ (Exists(s.today) => a2.mark >= a.mark)
  BY <1>4, <1>6, <1>8 DEF Sound, Used, ResetRejects, Missing
<1>10. DaySound(s2, a2)
  <2> SUFFICES ASSUME Exists(today)
               PROVE  /\ a2.mark <= meterBase + today.last
                      /\ today.value + a2.dayMark <= a2.mark
    BY <1>3 DEF DaySound
  <2> HIDE DEF today, a2
  <2>1. today.value + a2.dayMark <= a2.mark
    BY <1>5, <1>6, <1>7 DEF Audits
  <2>2. a2.mark <= meterBase + today.last
    BY <1>4, <1>6, <1>7, <1>8 DEF ResetRejects, Missing
  <2>3. QED  BY <2>1, <2>2
<1>11. MonthSound(s2, a2)
  <2> SUFFICES ASSUME Exists(s.month)
               PROVE  /\ Exists(today)
                      /\ s.month.value + a2.monthMark <= a2.mark
                      /\ s.month.value + a2.monthMark <= a2.dayMark
    BY <1>3 DEF MonthSound
  <2>1. Exists(s.today) /\ s.month.value + a.monthMark <= a.mark
    BY DEF Sound, MonthSound
  <2>2. a2.mark \in Nat /\ a2.mark >= a.mark /\ a2.dayMark = a2.mark
    BY <2>1, <1>5, <1>6, <1>9 DEF Audits
  <2>3. QED  BY <2>1, <2>2, <1>4, <1>6, <1>7
<1>12. QED  BY <1>3, <1>5, <1>9, <1>10, <1>11 DEF Sound

-----------------------------------------------------------------------------
\* The invariant holds at start and is kept by every step.
LEMMA InvInit == Init => IInv
<1> SUFFICES ASSUME Init PROVE IInv
  OBVIOUS
<1>1. /\ stats = NoStats /\ stored = NoStats /\ audit = NoAudit /\ storedAudit = NoAudit
      /\ meterBase = 0 /\ register \in Nat /\ reported = register
  BY DEF Init
<1>2. NoStats \in Statistics /\ NoAudit \in Audits
  BY DEF NoStats, Statistics, SnapshotOf, NoAudit, Audits
<1>3. TypeOK
  <2>1. day \in Days
    BY EnergyAssumption DEF Init, Days
  <2>2. rolloverDue \in BOOLEAN /\ savePending \in BOOLEAN
        /\ phase \in {"down", "starting", "running"}
    BY DEF Init
  <2>3. QED  BY <1>1, <1>2, <2>1, <2>2 DEF TypeOK
<1>4. ~Exists(NoStats.today) /\ ~Exists(NoStats.month) /\ NoAudit.mark = 0
  BY DEF NoStats, NoAudit, Exists, NoSnapshot, Snapshot
<1>5. Sound(stats, audit) /\ Sound(stored, storedAudit)
  BY <1>1, <1>4 DEF Sound, DaySound, MonthSound, Used
<1>6. QED  BY <1>1, <1>3, <1>5 DEF IInv

LEMMA InvNext == IInv /\ [Next]_vars => IInv'
<1> SUFFICES ASSUME IInv, [Next]_vars PROVE IInv'
  OBVIOUS
<1>0. /\ TypeOK
      /\ reported # Missing => reported <= register
      /\ Sound(stats, audit) /\ Sound(stored, storedAudit)
  BY DEF IInv
<1>1. CASE Consume
  <2>1. TypeOK' /\ (reported # Missing => reported <= register)'
    BY <1>0, <1>1 DEF Consume, TypeOK
  <2>2. Sound(stats, audit)' /\ Sound(stored, storedAudit)'
    BY <1>0, <1>1 DEF Consume, TypeOK, Sound, DaySound, MonthSound, Used, Audits
  <2>3. QED  BY <2>1, <2>2 DEF IInv
<1>2. CASE ReplaceMeter
  <2>1. TypeOK' /\ (reported # Missing => reported <= register)'
    BY <1>0, <1>2 DEF ReplaceMeter, TypeOK, Used
  <2>2. Used' = Used /\ meterBase' >= meterBase /\ meterBase \in Nat /\ meterBase' \in Nat
    BY <1>0, <1>2 DEF ReplaceMeter, TypeOK, Used
  <2>3. /\ stats' = stats /\ audit' = audit
        /\ stored' = stored /\ storedAudit' = storedAudit
    BY <1>2 DEF ReplaceMeter
  <2>4. /\ audit.mark \in Nat /\ storedAudit.mark \in Nat
        /\ stats.today.last \in Nat /\ stored.today.last \in Nat
    BY <1>0 DEF TypeOK, Audits, Statistics, SnapshotOf, NoSnapshot, Snapshot
  <2>5. Sound(stats, audit)' /\ Sound(stored, storedAudit)'
    BY <1>0, <2>2, <2>3, <2>4 DEF Sound, DaySound, MonthSound
  <2>6. QED  BY <2>1, <2>5 DEF IInv
<1>3. CASE AdvanceDay
  BY <1>0, <1>3, EnergyAssumption
     DEF AdvanceDay, IInv, TypeOK, Days, Sound, DaySound, MonthSound, Used
<1>4. CASE WriteStore \/ Unload \/ Crash \/ Restore
  BY <1>0, <1>4 DEF WriteStore, Unload, Crash, Restore, IInv, TypeOK,
                    Sound, DaySound, MonthSound, Used
<1>5. ASSUME NEW m \in Nat \union {Missing}, m # Missing => m <= register,
             Read(stats, audit, m), reported' = m,
             UNCHANGED <<day, rolloverDue, register, meterBase, stored, storedAudit>>,
             phase' \in {"down", "starting", "running"}
      PROVE  IInv'
  <2>1. /\ stats' \in Statistics /\ audit' \in Audits
        /\ Sound(ReadStats(stats, m, day), ReadAudit(stats, audit, m, day))
    BY <1>0, <1>5, ReadSound DEF Read, TypeOK
  <2>2. Sound(stats, audit)' /\ Sound(stored, storedAudit)'
    BY <1>0, <1>5, <2>1 DEF Read, Sound, DaySound, MonthSound, Used
  <2>3. TypeOK'
    BY <1>0, <1>5, <2>1 DEF TypeOK, Read
  <2>4. QED  BY <1>5, <2>2, <2>3 DEF IInv
<1>6. CASE SourceChanged
  <2>1. PICK m \in Readings \ {reported} :
          /\ reported' = m
          /\ IF phase = "running" THEN Read(stats, audit, m)
                                  ELSE UNCHANGED <<stats, audit, savePending>>
          /\ UNCHANGED <<day, rolloverDue, phase, register, meterBase, stored, storedAudit>>
    BY <1>6 DEF SourceChanged
  <2>2. m \in Nat \union {Missing} /\ (m # Missing => m <= register)
    BY <1>0 DEF Readings, TypeOK, Missing
  <2>3. CASE phase = "running"
    BY <1>5, <2>1, <2>2, <2>3
  <2>4. CASE phase # "running"
    BY <1>0, <2>1, <2>2, <2>4 DEF IInv, TypeOK, Sound, DaySound, MonthSound, Used
  <2>5. QED  BY <2>3, <2>4
<1>7. CASE TimingTick \/ FirstRead
  BY <1>0, <1>5, <1>7 DEF TimingTick, FirstRead, TypeOK
<1>8. CASE DailyRollover
  <2>1. /\ stats' \in Statistics /\ audit' \in Audits
        /\ Sound(RolloverStats(stats, reported, day), RolloverAudit(stats, audit, reported))
    BY <1>0, <1>8, RolloverSound DEF DailyRollover, TypeOK
  <2>2. Sound(stats, audit)' /\ Sound(stored, storedAudit)'
    BY <1>0, <1>8, <2>1 DEF DailyRollover, Sound, DaySound, MonthSound, Used
  <2>3. TypeOK' /\ (reported # Missing => reported <= register)'
    BY <1>0, <1>8, <2>1 DEF DailyRollover, TypeOK
  <2>4. QED  BY <2>2, <2>3 DEF IInv
<1>9. CASE ConfirmMeterReset
  <2> DEFINE s == [stats EXCEPT !.today    = DailyConfirm(stats.today, reported, day),
                                !.complete = FALSE]
             a == [audit EXCEPT !.mark    = UsedAt(reported),
                                !.dayMark = IF stats.today.period = day
                                            THEN audit.dayMark ELSE UsedAt(reported)]
  <2>1. /\ Read(s, a, reported) /\ reported \in Nat /\ reported <= register
        /\ audit.mark <= meterBase /\ day \in Nat /\ meterBase \in Nat /\ register \in Nat
    BY <1>0, <1>9 DEF ConfirmMeterReset, GenuineReplacement, TypeOK, Days, Missing
  <2>2. /\ stats.today.last \in Nat /\ stats.today.value \in Nat
        /\ stats.month.last \in Nat /\ stats.month.value \in Nat
        /\ audit.mark \in Nat /\ audit.dayMark \in Nat /\ audit.monthMark \in Nat
    BY <1>0 DEF TypeOK, Statistics, SnapshotOf, NoSnapshot, Snapshot, Audits
  <2>3. Days \subseteq Nat /\ day \in Days /\ stats.today \in SnapshotOf(Days)
    BY <1>0 DEF TypeOK, Statistics, Days
  <2>4. DailyConfirm(stats.today, reported, day) \in SnapshotOf(Days)
    BY <2>1, <2>3, SnapshotTypes
  <2>5. s \in Statistics /\ a \in Audits
    <3>1. s \in Statistics
      BY <1>0, <2>4 DEF TypeOK, Statistics
    <3>2. UsedAt(reported) \in Nat /\ audit \in Audits
      BY <1>0, <2>1 DEF TypeOK, UsedAt
    <3>3. (IF stats.today.period = day THEN audit.dayMark ELSE UsedAt(reported)) \in Nat
      BY <2>2, <3>2
    <3>4. a \in Audits
      BY <3>2, <3>3 DEF Audits
    <3>5. QED  BY <3>1, <3>4
  <2>6. /\ s.today = Snapshot(day, reported,
                              IF stats.today.period = day THEN stats.today.value ELSE 0)
        /\ s.month = stats.month
        /\ a.mark = meterBase + reported /\ a.monthMark = audit.monthMark
        /\ a.dayMark = IF stats.today.period = day THEN audit.dayMark
                       ELSE meterBase + reported
    BY <1>0 DEF DailyConfirm, UsedAt, TypeOK, Statistics, Audits
  <2>7. Sound(s, a)
    <3> HIDE DEF s, a
    <3>1. a.mark <= Used
      BY <2>1, <2>6 DEF Used
    <3>2. DaySound(s, a)
      <4>1. s.today.value + a.dayMark <= a.mark /\ a.mark <= meterBase + s.today.last
        <5>1. CASE stats.today.period = day
          <6>1. Exists(stats.today)
            BY <2>1, <5>1 DEF Exists, NoPeriod
          <6>2. stats.today.value + audit.dayMark <= audit.mark
            BY <1>0, <6>1 DEF Sound, DaySound
          <6>3. QED  BY <5>1, <6>2, <2>1, <2>2, <2>6 DEF Snapshot
        <5>2. CASE stats.today.period # day
          BY <5>2, <2>1, <2>2, <2>6 DEF Snapshot
        <5>3. QED  BY <5>1, <5>2
      <4>2. QED  BY <4>1 DEF DaySound
    <3>3. MonthSound(s, a)
      <4> SUFFICES ASSUME Exists(stats.month)
                   PROVE  /\ Exists(s.today)
                          /\ s.month.value + a.monthMark <= a.mark
                          /\ \/ s.month.last = s.today.value
                             \/ s.month.value + a.monthMark <= a.dayMark
        BY <2>6 DEF MonthSound
      <4>1. /\ stats.month.value + audit.monthMark <= audit.mark
            /\ \/ stats.month.last = stats.today.value
               \/ stats.month.value + audit.monthMark <= audit.dayMark
        BY <1>0 DEF Sound, MonthSound
      <4>2. Exists(s.today)
        BY <2>1, <2>6 DEF Exists, Snapshot, NoPeriod
      <4>3. s.month.value + a.monthMark <= a.mark
        BY <4>1, <2>1, <2>2, <2>6
      <4>4. CASE stats.today.period = day
        BY <4>1, <4>2, <4>3, <4>4, <2>6 DEF Snapshot
      <4>5. CASE stats.today.period # day
        BY <4>2, <4>3, <4>5, <2>6
      <4>6. QED  BY <4>4, <4>5
    <3>4. QED  BY <3>1, <3>2, <3>3 DEF Sound
  <2> HIDE DEF s, a
  <2>8. /\ stats' = ReadStats(s, reported, day) /\ audit' = ReadAudit(s, a, reported, day)
        /\ stats' \in Statistics /\ audit' \in Audits
        /\ Sound(ReadStats(s, reported, day), ReadAudit(s, a, reported, day))
    BY <2>1, <2>3, <2>5, <2>7, ReadSound DEF Read
  <2>9. Sound(stats, audit)' /\ Sound(stored, storedAudit)'
    BY <1>0, <1>9, <2>8 DEF ConfirmMeterReset, Sound, DaySound, MonthSound, Used
  <2>10. TypeOK' /\ (reported # Missing => reported <= register)'
    BY <1>0, <1>9, <2>8 DEF ConfirmMeterReset, Read, TypeOK
  <2>11. QED  BY <2>9, <2>10 DEF IInv
<1>10. CASE ResetMonthlyEnergy
  <2> DEFINE s == ReadStats(stats, reported, day)
             a == ReadAudit(stats, audit, reported, day)
             month == CumulativeUpdate(NoSnapshot, s.today.value, MonthOf[day])
  <2>1. /\ stats' = [s EXCEPT !.month = month]
        /\ audit' = [a EXCEPT !.monthMark = a.mark]
        /\ reported \in Nat /\ day \in Days /\ MonthOf[day] \in Nat
    BY <1>0, <1>10, EnergyAssumption DEF ResetMonthlyEnergy, TypeOK, Missing
  <2>2. s \in Statistics /\ a \in Audits /\ Sound(s, a)
    BY <1>0, <2>1, ReadSound DEF TypeOK
  <2>3. Exists(s.today)
    BY <2>1 DEF ReadStats, DailyUpdate, Snapshot, Exists, NoPeriod, Missing, Days
  <2> HIDE DEF s, a
  <2>4. s.today.value \in Nat
    BY <2>2 DEF Statistics, SnapshotOf, NoSnapshot, Snapshot
  <2>5. month = Snapshot(MonthOf[day], s.today.value, 0)
    BY DEF CumulativeUpdate, NoSnapshot, Exists, Snapshot
  <2>6. month \in SnapshotOf(Nat)
    BY <2>1, <2>4, <2>5 DEF SnapshotOf, Snapshot
  <2> HIDE DEF month
  <2>7. /\ stats' \in Statistics /\ stats'.today = s.today /\ stats'.month = month
        /\ audit' \in Audits /\ audit'.mark = a.mark /\ audit'.dayMark = a.dayMark
        /\ audit'.monthMark = a.mark
    BY <2>1, <2>2, <2>6 DEF Statistics, Audits
  <2>8. /\ meterBase' = meterBase /\ register' = register
        /\ stored' = stored /\ storedAudit' = storedAudit /\ reported' = reported
    BY <1>10 DEF ResetMonthlyEnergy
  <2>9. Sound(stats, audit)'
    BY <2>2, <2>3, <2>5, <2>7, <2>8
       DEF Sound, DaySound, MonthSound, Used, Snapshot, Audits
  <2>10. Sound(stored, storedAudit)'
    BY <1>0, <2>8 DEF Sound, DaySound, MonthSound, Used
  <2>11. TypeOK' /\ (reported # Missing => reported <= register)'
    BY <1>0, <1>10, <2>7 DEF ResetMonthlyEnergy, TypeOK
  <2>12. QED  BY <2>9, <2>10, <2>11 DEF IInv
<1>11. CASE UNCHANGED vars
  BY <1>0, <1>11 DEF vars, IInv, TypeOK, Sound, DaySound, MonthSound, Used
<1>12. QED
  BY <1>1, <1>2, <1>3, <1>4, <1>6, <1>7, <1>8, <1>9, <1>10, <1>11 DEF Next

-----------------------------------------------------------------------------
\* The inductive invariant holds in every reachable state.
LEMMA InvAlways == Spec => []IInv
BY InvInit, InvNext, PTL DEF Spec

\* Every variable keeps its type, for every calendar, bound and set of faults.
THEOREM TypesCorrect == Spec => []TypeOK
<1>1. IInv => TypeOK
  BY DEF IInv
<1>2. QED  BY <1>1, InvAlways, PTL

(* Energy today never exceeds the energy used since the reading the day      *)
(* started from, whatever the source, the user and restarts do.              *)
THEOREM TodaySafe == Spec => []TodayNeverOvercounts
<1>1. IInv => TodayNeverOvercounts
  <2> SUFFICES ASSUME IInv, Exists(stats.today)
               PROVE  stats.today.value <= Used - audit.dayMark
    BY DEF TodayNeverOvercounts
  <2>1. stats.today.value + audit.dayMark <= audit.mark /\ audit.mark <= Used
    BY DEF IInv, Sound, DaySound
  <2>2. /\ stats.today.value \in Nat /\ audit.mark \in Nat /\ audit.dayMark \in Nat
        /\ Used \in Nat
    BY DEF IInv, TypeOK, Statistics, SnapshotOf, NoSnapshot, Snapshot, Audits, Used
  <2>3. QED  BY <2>1, <2>2
<1>2. QED  BY <1>1, InvAlways, PTL

(* Energy this month never exceeds the energy used since its own baseline:   *)
(* no unit of energy is added to the month twice.                            *)
THEOREM MonthSafe == Spec => []MonthNeverOvercounts
<1>1. IInv => MonthNeverOvercounts
  <2> SUFFICES ASSUME IInv, Exists(stats.month)
               PROVE  stats.month.value <= Used - audit.monthMark
    BY DEF MonthNeverOvercounts
  <2>1. stats.month.value + audit.monthMark <= audit.mark /\ audit.mark <= Used
    BY DEF IInv, Sound, MonthSound
  <2>2. /\ stats.month.value \in Nat /\ audit.mark \in Nat /\ audit.monthMark \in Nat
        /\ Used \in Nat
    BY DEF IInv, TypeOK, Statistics, SnapshotOf, NoSnapshot, Snapshot, Audits, Used
  <2>3. QED  BY <2>1, <2>2
<1>2. QED  BY <1>1, InvAlways, PTL

-----------------------------------------------------------------------------
\* A reading never lowers an existing baseline.
LEMMA ReadKeepsBaseline ==
    ASSUME NEW s \in Statistics, NEW m \in Nat \union {Missing}, NEW d, Exists(s.today)
    PROVE  ~(ReadStats(s, m, d).today.last < s.today.last)
<1>1. s.today.last \in Nat
  BY DEF Statistics, SnapshotOf, NoSnapshot, Snapshot
<1>2. CASE m = Missing
  BY <1>1, <1>2 DEF ReadStats
<1>3. CASE m # Missing
  <2>1. ReadStats(s, m, d).today.last = IF m < s.today.last THEN s.today.last ELSE m
    BY <1>3 DEF ReadStats, DailyUpdate, Snapshot, IsBackward
  <2>2. m \in Nat
    BY <1>3
  <2>3. QED  BY <1>1, <2>1, <2>2
<1>4. QED  BY <1>2, <1>3

\* Nor does midnight, with or without a reading.
LEMMA RolloverKeepsBaseline ==
    ASSUME NEW s \in Statistics, NEW m \in Nat \union {Missing}, NEW d, Exists(s.today)
    PROVE  ~(RolloverStats(s, m, d).today.last < s.today.last)
<1>1. s.today.last \in Nat
  BY DEF Statistics, SnapshotOf, NoSnapshot, Snapshot
<1>2. RolloverStats(s, m, d).today = DailyReset(s.today, m, d)
  BY DEF RolloverStats, Statistics
<1>3. CASE ResetRejects(s.today, m)
  BY <1>1, <1>2, <1>3 DEF DailyReset, Snapshot
<1>4. CASE ~ResetRejects(s.today, m)
  <2>1. m # Missing /\ ~(m < s.today.last)
    BY <1>4 DEF ResetRejects
  <2>2. DailyReset(s.today, m, d).last = m
    BY <1>4, <2>1 DEF DailyReset, Snapshot
  <2>3. QED  BY <1>2, <2>1, <2>2
<1>5. QED  BY <1>3, <1>4

(* The trusted baseline of the meter falls only when the user confirms a     *)
(* replacement or a restart brings an older file back: no dip, outage,       *)
(* midnight, monthly reset or order of handlers lowers it.                   *)
THEOREM BaselineSafe == Spec => BaselineOnlyLoweredByUser
<1> DEFINE Kept == (Exists(stats.today) /\ stats'.today.last < stats.today.last)
                       => (ConfirmMeterReset \/ Restore)
<1>1. ASSUME IInv, Next
      PROVE  Kept
  <2> SUFFICES ASSUME Exists(stats.today), ~ConfirmMeterReset, ~Restore
               PROVE  ~(stats'.today.last < stats.today.last)
    OBVIOUS
  <2>0. /\ stats \in Statistics /\ reported \in Nat \union {Missing} /\ register \in Nat
        /\ stats.today.last \in Nat
    BY <1>1 DEF IInv, TypeOK, Statistics, SnapshotOf, NoSnapshot, Snapshot
  <2>1. CASE stats' = stats
    BY <2>0, <2>1
  <2>2. CASE SourceChanged
    <3>1. PICK m \in Nat \union {Missing} :
              IF phase = "running" THEN Read(stats, audit, m) ELSE stats' = stats
      BY <2>0, <2>2 DEF SourceChanged, Readings
    <3>2. QED  BY <2>0, <2>1, <3>1, ReadKeepsBaseline DEF Read
  <2>3. CASE TimingTick \/ FirstRead
    <3>1. stats' = ReadStats(stats, reported, day)
      BY <2>3 DEF TimingTick, FirstRead, Read
    <3>2. QED  BY <2>0, <3>1, ReadKeepsBaseline
  <2>4. CASE DailyRollover
    <3>1. stats' = RolloverStats(stats, reported, day)
      BY <2>4 DEF DailyRollover
    <3>2. QED  BY <2>0, <3>1, RolloverKeepsBaseline
  <2>5. CASE ResetMonthlyEnergy
    <3> DEFINE s == ReadStats(stats, reported, day)
    <3>1. PICK month : stats' = [s EXCEPT !.month = month]
      BY <2>5 DEF ResetMonthlyEnergy
    <3>2. s = IF reported = Missing THEN stats
              ELSE [today |-> s.today, complete |-> s.complete, month |-> s.month]
      BY DEF ReadStats
    <3>3. ~(s.today.last < stats.today.last)
      BY <2>0, ReadKeepsBaseline
    <3> HIDE DEF s
    <3>4. stats'.today = s.today
      BY <2>0, <3>1, <3>2 DEF Statistics
    <3>5. QED  BY <3>3, <3>4
  <2>6. QED
    BY <1>1, <2>1, <2>2, <2>3, <2>4, <2>5
       DEF Next, Consume, ReplaceMeter, AdvanceDay, WriteStore, Unload, Crash
<1>2. IInv /\ [Next]_vars => [Kept]_vars
  BY <1>1
<1>3. QED  BY <1>2, InvAlways, PTL DEF Spec, BaselineOnlyLoweredByUser

-----------------------------------------------------------------------------
(* What the completeness flag promises while the meter is the first one, in  *)
(* memory and in the file: the baseline was read at midnight, and the value  *)
(* is what was metered from there to the last accepted reading.              *)
Exact(s, a) ==
    meterBase = 0 /\ s.complete =>
        /\ a.midnight # Missing
        /\ a.mark = s.today.last
        /\ s.today.value = a.mark - a.midnight

CompleteInv == IInv /\ Exact(stats, audit) /\ Exact(stored, storedAudit)

LEMMA ReadExact ==
    ASSUME NEW s \in Statistics, NEW a \in Audits, NEW m \in Nat \union {Missing},
           NEW d, Exact(s, a), meterBase \in Nat
    PROVE  Exact(ReadStats(s, m, d), ReadAudit(s, a, m, d))
<1>1. CASE m = Missing
  BY <1>1 DEF ReadStats, ReadAudit
<1>2. CASE m # Missing
  <2> DEFINE t == ReadStats(s, m, d)
             b == ReadAudit(s, a, m, d)
  <2> SUFFICES ASSUME meterBase = 0, t.complete
               PROVE  /\ b.midnight # Missing
                      /\ b.mark = t.today.last
                      /\ t.today.value = b.mark - b.midnight
    BY DEF Exact
  <2>1. m \in Nat
    BY <1>2
  <2>2. s.complete /\ s.today.period = d /\ ~IsBackward(s.today, m)
    BY <1>2 DEF ReadStats
  <2>3. t.today = Snapshot(d, m, s.today.value + (m - s.today.last))
    BY <1>2, <2>2 DEF ReadStats, DailyUpdate
  <2>4. b.mark = meterBase + m /\ b.midnight = a.midnight
    BY <1>2, <2>2 DEF ReadAudit, UsedAt
  <2>5. /\ s.today.last \in Nat /\ s.today.value \in Nat
        /\ a.mark \in Nat /\ a.midnight \in Nat \union {Missing}
    BY DEF Statistics, SnapshotOf, NoSnapshot, Snapshot, Audits
  <2>6. /\ a.midnight # Missing /\ a.mark = s.today.last
        /\ s.today.value = a.mark - a.midnight
    BY <2>2 DEF Exact
  <2> HIDE DEF t, b
  <2>7. QED  BY <2>1, <2>3, <2>4, <2>5, <2>6 DEF Snapshot
<1>3. QED  BY <1>1, <1>2

LEMMA RolloverExact ==
    ASSUME NEW s \in Statistics, NEW a \in Audits, NEW m \in Nat \union {Missing},
           NEW d, meterBase \in Nat
    PROVE  Exact(RolloverStats(s, m, d), RolloverAudit(s, a, m))
<1> DEFINE t == RolloverStats(s, m, d)
           b == RolloverAudit(s, a, m)
<1> SUFFICES ASSUME meterBase = 0, t.complete
             PROVE  /\ b.midnight # Missing
                    /\ b.mark = t.today.last
                    /\ t.today.value = b.mark - b.midnight
  BY DEF Exact
<1>1. m # Missing /\ ~ResetRejects(s.today, m)
  BY DEF RolloverStats, Statistics
<1>2. t.today = Snapshot(d, m, 0)
  BY <1>1 DEF RolloverStats, DailyReset, Statistics
<1>3. b.mark = meterBase + m /\ b.midnight = meterBase + m
  BY <1>1 DEF RolloverAudit, UsedAt, Audits
<1> HIDE DEF t, b
<1>4. m \in Nat
  BY <1>1
<1>5. QED  BY <1>2, <1>3, <1>4 DEF Snapshot, Missing

LEMMA CompleteNext == CompleteInv /\ [Next]_vars => CompleteInv'
<1> SUFFICES ASSUME CompleteInv, [Next]_vars PROVE CompleteInv'
  OBVIOUS
<1>0. /\ IInv' /\ stats \in Statistics /\ audit \in Audits
      /\ reported \in Nat \union {Missing} /\ register \in Nat /\ meterBase \in Nat
      /\ Exact(stats, audit) /\ Exact(stored, storedAudit)
  BY InvNext DEF CompleteInv, IInv, TypeOK
<1>1. ASSUME meterBase' = meterBase, UNCHANGED <<stored, storedAudit>>,
             UNCHANGED <<stats, audit>> \/ Exact(stats', audit')
      PROVE  CompleteInv'
  BY <1>0, <1>1 DEF CompleteInv, Exact
<1>2. CASE ReplaceMeter
  <2>1. meterBase' # 0
    BY <1>0, <1>2 DEF ReplaceMeter, Used
  <2>2. QED  BY <1>0, <2>1 DEF CompleteInv, Exact
<1>3. CASE SourceChanged
  <2>1. PICK m \in Nat \union {Missing} :
            IF phase = "running" THEN Read(stats, audit, m) ELSE UNCHANGED <<stats, audit>>
    BY <1>0, <1>3 DEF SourceChanged, Readings
  <2>2. UNCHANGED <<stats, audit>> \/ Exact(stats', audit')
    BY <1>0, <2>1, ReadExact DEF Read
  <2>3. QED  BY <1>1, <1>3, <2>2 DEF SourceChanged
<1>4. CASE TimingTick \/ FirstRead
  <2>1. Exact(stats', audit')
    BY <1>0, <1>4, ReadExact DEF TimingTick, FirstRead, Read
  <2>2. QED  BY <1>1, <1>4, <2>1 DEF TimingTick, FirstRead
<1>5. CASE DailyRollover
  <2>1. Exact(stats', audit')
    BY <1>0, <1>5, RolloverExact DEF DailyRollover
  <2>2. QED  BY <1>1, <1>5, <2>1 DEF DailyRollover
<1>6. CASE ConfirmMeterReset
  <2>1. reported # Missing
    BY <1>6 DEF ConfirmMeterReset
  <2>2. stats'.complete = FALSE
    BY <1>0, <1>6, <2>1 DEF ConfirmMeterReset, Read, ReadStats, Statistics
  <2>3. Exact(stats', audit')
    BY <2>2 DEF Exact
  <2>4. QED  BY <1>1, <1>6, <2>3 DEF ConfirmMeterReset
<1>7. CASE ResetMonthlyEnergy
  <2> DEFINE s == ReadStats(stats, reported, day)
             a == ReadAudit(stats, audit, reported, day)
  <2>1. reported # Missing /\ (\E month : stats' = [s EXCEPT !.month = month])
        /\ audit' = [a EXCEPT !.monthMark = a.mark]
    BY <1>7 DEF ResetMonthlyEnergy
  <2>2. Exact(s, a)
    BY <1>0, ReadExact
  <2>3. /\ s = [today |-> s.today, complete |-> s.complete, month |-> s.month]
        /\ a = [mark |-> a.mark, dayMark |-> a.dayMark, monthMark |-> a.monthMark,
                midnight |-> a.midnight]
    BY <2>1 DEF ReadStats, ReadAudit
  <2> HIDE DEF s, a
  <2>4. /\ stats'.today = s.today /\ stats'.complete = s.complete
        /\ audit'.mark = a.mark /\ audit'.midnight = a.midnight
    BY <2>1, <2>3
  <2>5. Exact(stats', audit')
    BY <2>2, <2>4 DEF Exact
  <2>6. QED  BY <1>1, <1>7, <2>5 DEF ResetMonthlyEnergy
<1>8. CASE WriteStore \/ Unload
  <2>1. /\ stored' = stats /\ storedAudit' = audit
        /\ UNCHANGED <<stats, audit, meterBase>>
    BY <1>8 DEF WriteStore, Unload
  <2>2. QED  BY <1>0, <2>1 DEF CompleteInv, Exact
<1>9. CASE Restore
  BY <1>0, <1>1, <1>9 DEF Restore
<1>10. CASE Consume \/ AdvanceDay \/ Crash \/ UNCHANGED vars
  BY <1>1, <1>10 DEF Consume, AdvanceDay, Crash, vars
<1>11. QED
  BY <1>2, <1>3, <1>4, <1>5, <1>6, <1>7, <1>8, <1>9, <1>10 DEF Next

(* With the first meter, a day flagged complete holds exactly what was       *)
(* metered since its midnight callback: no dip, outage, restart or race with *)
(* the callback leaves the flag on a day with a hole.                        *)
THEOREM CompleteSafe == Spec => []CompleteDayIsExact
<1>1. Init => CompleteInv
  BY InvInit DEF Init, CompleteInv, Exact, NoStats
<1>2. CompleteInv => CompleteDayIsExact
  BY DEF CompleteInv, Exact, CompleteDayIsExact
<1>3. QED  BY <1>1, <1>2, CompleteNext, PTL DEF Spec
-----------------------------------------------------------------------------
(* The other statistic of statistics_engine.py: DailyPeak, for every number  *)
(* of days and every range of power.  Its variables are PeakSensors'.          *)
CONSTANT MaxPower
VARIABLES power, peak, peakFile

Peak == INSTANCE DailyPeak WITH file <- peakFile

Snapshots == [day : Peak!Days, watts : Peak!Powers] \union {Peak!NoPeak}

PeakTypes ==
    /\ date \in Peak!Days
    /\ power \in Peak!Powers \union {Peak!Missing}
    /\ running \in BOOLEAN /\ midnightDue \in BOOLEAN
    /\ peak \in Snapshots /\ peakFile \in Snapshots
    /\ since \in Peak!Powers \union {Peak!Missing}
    /\ highest \in [Peak!Days -> Peak!Powers \union {Peak!Missing}]

\* No snapshot holds more than was read on its day.
WithinHighest(p) == p # Peak!NoPeak => p.watts <= highest[p.day]

\* A snapshot of today that covers what was read since the callback.
Covers(p) == since # Peak!Missing => p.day = date /\ p.watts >= since

(* The sensors show the snapshot in memory.  While the entry is loaded that   *)
(* snapshot covers the day so far; while it is not, the file must, because   *)
(* the next start takes it from there.                                       *)
PeakIInv ==
    /\ PeakTypes
    /\ published = peak
    /\ running /\ ~midnightDue => peak = Peak!NoPeak \/ peak.day = date
    /\ WithinHighest(peak) /\ WithinHighest(peakFile)
    /\ running => Covers(peak)
    /\ ~running => Covers(peakFile)

-----------------------------------------------------------------------------
LEMMA WattsAreIntegers ==
    ASSUME MaxPower \in Nat
    PROVE  /\ Peak!Powers \union {Peak!Missing} \subseteq Int
           /\ \A p \in Snapshots : p.watts \in Int /\ (p # Peak!NoPeak => p.day \in Peak!Days)
<1>1. Peak!Powers \subseteq Nat
  BY EnergyAssumption DEF Peak!Powers
<1>2. Peak!Powers \union {Peak!Missing} \subseteq Int
  BY <1>1 DEF Peak!Missing
<1>3. ASSUME NEW p \in Snapshots
      PROVE  p.watts \in Int /\ (p # Peak!NoPeak => p.day \in Peak!Days)
  <2>1. CASE p = Peak!NoPeak
    BY <2>1 DEF Peak!NoPeak
  <2>2. CASE p \in [day : Peak!Days, watts : Peak!Powers]
    <3>1. p.day \in Peak!Days /\ p.watts \in Peak!Powers
      BY <2>2
    <3>2. p.watts \in Nat
      BY <1>1, <3>1
    <3>3. \A n \in Nat : n \in Int
      OBVIOUS
    <3>4. QED  BY <3>1, <3>2, <3>3
  <2>3. QED  BY <2>1, <2>2 DEF Snapshots
<1>4. QED  BY <1>2, <1>3

LEMMA UpdateCovers ==
    ASSUME MaxPower \in Nat, NEW p \in Snapshots, NEW w \in Peak!Powers, NEW d \in Peak!Days
    PROVE  /\ Peak!Update(p, w, d) \in [day : Peak!Days, watts : Peak!Powers]
           /\ Peak!Update(p, w, d).day = d
           /\ Peak!Update(p, w, d).watts >= w
           /\ p.day = d => Peak!Update(p, w, d).watts >= p.watts
           /\ Peak!Update(p, w, d).watts = w \/ Peak!Update(p, w, d) = p
<1>1. w \in Nat /\ d \in Nat
  BY EnergyAssumption DEF Peak!Powers, Peak!Days
<1>2. CASE p = Peak!NoPeak
  <2>1. Peak!Update(p, w, d) = [day |-> d, watts |-> w]
    BY <1>1, <1>2 DEF Peak!Update, Peak!NoPeak
  <2>2. p.day # d
    BY <1>1, <1>2 DEF Peak!NoPeak
  <2>3. QED  BY <1>1, <2>1, <2>2
<1>3. CASE p # Peak!NoPeak
  <2>1. p \in [day : Peak!Days, watts : Peak!Powers] /\ p.watts \in Nat
    BY <1>3, EnergyAssumption DEF Snapshots, Peak!Powers
  <2>2. CASE p.day = d /\ w <= p.watts
    BY <1>1, <2>1, <2>2 DEF Peak!Update
  <2>3. CASE ~(p.day = d /\ w <= p.watts)
    <3>1. Peak!Update(p, w, d) = [day |-> d, watts |-> w]
      BY <2>3 DEF Peak!Update
    <3>2. QED  BY <1>1, <2>1, <2>3, <3>1
  <2>4. QED  BY <2>2, <2>3
<1>4. QED  BY <1>2, <1>3

(* A reading w, or none, of the snapshot p: what a handler of the coordinator *)
(* and the start of an entry have in common.                                 *)
LEMMA ReadingCovers ==
    ASSUME MaxPower \in Nat, PeakTypes, NEW p \in Snapshots, NEW w \in Peak!Powers \union {Peak!Missing},
           WithinHighest(p), WithinHighest(peakFile), Covers(p),
           since' = Peak!Higher(since, w), highest' = [highest EXCEPT ![date] = Peak!Higher(@, w)],
           peak' = IF w = Peak!Missing THEN p ELSE Peak!Update(p, w, date),
           date' = date, peakFile' = peakFile
    PROVE  /\ peak' \in Snapshots
           /\ peak' = p \/ peak'.day = date
           /\ WithinHighest(peak)' /\ WithinHighest(peakFile)' /\ Covers(peak)'
           /\ since' \in Peak!Powers \union {Peak!Missing}
           /\ highest' \in [Peak!Days -> Peak!Powers \union {Peak!Missing}]
<1>0. /\ since \in Int /\ w \in Int /\ date \in Peak!Days /\ Peak!Powers \subseteq Nat
      /\ \A d \in Peak!Days : highest[d] \in Peak!Powers \union {Peak!Missing} /\ highest[d] \in Int
  BY EnergyAssumption DEF PeakTypes, Peak!Powers, Peak!Missing
<1>1. since' \in Peak!Powers \union {Peak!Missing} /\ highest' \in [Peak!Days -> Peak!Powers \union {Peak!Missing}]
  BY <1>0 DEF PeakTypes, Peak!Higher
<1>2. \A d \in Peak!Days : highest[d] <= highest'[d]
  BY <1>0 DEF PeakTypes, Peak!Higher
<1>3. w <= highest'[date]
  BY <1>0 DEF PeakTypes, Peak!Higher
<1>4. ASSUME NEW q \in Snapshots, WithinHighest(q)
      PROVE  q # Peak!NoPeak => q.watts <= highest'[q.day]
  <2> SUFFICES ASSUME q # Peak!NoPeak PROVE q.watts <= highest'[q.day]
    OBVIOUS
  <2>1. q.day \in Peak!Days /\ q.watts \in Int /\ q.watts <= highest[q.day]
    BY <1>4, WattsAreIntegers DEF WithinHighest
  <2>2. highest'[q.day] \in Int
    BY <1>1, <2>1, WattsAreIntegers
  <2>3. QED  BY <1>0, <1>2, <2>1, <2>2
<1>5. WithinHighest(peakFile)'
  BY <1>4 DEF PeakTypes, WithinHighest
<1>6. CASE w = Peak!Missing
  <2>1. since' = since
    BY <1>0, <1>6, EnergyAssumption DEF Peak!Higher, PeakTypes, Peak!Powers, Peak!Missing
  <2>2. QED  BY <1>1, <1>4, <1>5, <1>6, <2>1 DEF WithinHighest, Covers
<1>7. CASE w # Peak!Missing
  <2> DEFINE u == Peak!Update(p, w, date)
  <2>1. /\ u \in [day : Peak!Days, watts : Peak!Powers] /\ u.day = date /\ u.watts >= w
        /\ p.day = date => u.watts >= p.watts
        /\ u.watts = w \/ u = p
    BY <1>0, <1>7, UpdateCovers
  <2>2. peak' = u
    BY <1>7
  <2> HIDE DEF u
  <2>3. WithinHighest(peak)'
    <3>1. CASE u.watts = w
      BY <1>3, <2>1, <2>2, <3>1 DEF WithinHighest
    <3>2. CASE u = p
      BY <1>4, <2>2, <3>2 DEF WithinHighest
    <3>3. QED  BY <2>1, <3>1, <3>2
  <2>4. Covers(peak)'
    <3>1. since = Peak!Missing => u.watts >= since'
      BY <1>0, <1>7, <2>1 DEF Peak!Higher, Peak!Missing
    <3>2. since # Peak!Missing => u.watts >= since'
      <4> SUFFICES ASSUME since # Peak!Missing PROVE u.watts >= since'
        OBVIOUS
      <4>1. p.day = date /\ p.watts >= since
        BY DEF Covers
      <4>2. p.watts \in Int /\ u.watts \in Int
        BY <1>0, <2>1, WattsAreIntegers
      <4>3. QED  BY <1>0, <2>1, <4>1, <4>2 DEF Peak!Higher
    <3>3. QED  BY <2>1, <2>2, <3>1, <3>2 DEF Covers
  <2>5. QED  BY <1>1, <1>5, <2>1, <2>2, <2>3, <2>4 DEF Snapshots
<1>8. QED  BY <1>6, <1>7

-----------------------------------------------------------------------------
LEMMA PeakInit ==
    ASSUME MaxPower \in Nat
    PROVE  Peak!Init => PeakIInv
<1> SUFFICES ASSUME Peak!Init PROVE PeakIInv
  OBVIOUS
<1>1. date \in Peak!Days
  BY EnergyAssumption DEF Peak!Init, Peak!Days
<1>2. PeakTypes
  BY <1>1 DEF Peak!Init, PeakTypes, Snapshots
<1>3. QED  BY <1>2 DEF Peak!Init, PeakIInv, WithinHighest, Covers

LEMMA PeakNext ==
    ASSUME MaxPower \in Nat
    PROVE  PeakIInv /\ [Peak!Next]_(Peak!vars) => PeakIInv'
<1> SUFFICES ASSUME PeakIInv, [Peak!Next]_(Peak!vars) PROVE PeakIInv'
  OBVIOUS
<1>0. /\ PeakTypes /\ published = peak /\ WithinHighest(peak) /\ WithinHighest(peakFile)
      /\ Peak!NoPeak \in Snapshots /\ WithinHighest(Peak!NoPeak)
  BY DEF PeakIInv, Snapshots, WithinHighest
<1>1. ASSUME running, NEW w \in Peak!Powers \union {Peak!Missing}, Peak!Read(w),
             UNCHANGED <<date, running, midnightDue, peakFile>>, power' \in Peak!Powers \union {Peak!Missing}
      PROVE  PeakIInv'
  <2>1. Covers(peak)
    BY <1>1 DEF PeakIInv
  <2>2. /\ peak' \in Snapshots /\ (peak' = peak \/ peak'.day = date)
        /\ WithinHighest(peak)' /\ WithinHighest(peakFile)' /\ Covers(peak)'
        /\ since' \in Peak!Powers \union {Peak!Missing}
        /\ highest' \in [Peak!Days -> Peak!Powers \union {Peak!Missing}]
    BY <1>0, <1>1, <2>1, ReadingCovers DEF Peak!Read, PeakTypes
  <2>3. QED  BY <1>0, <1>1, <2>2 DEF PeakIInv, PeakTypes, Peak!Read
<1>2. CASE Peak!SourceChanged
  <2>1. PICK w \in Peak!Powers \union {Peak!Missing} :
            /\ power' = w
            /\ IF running THEN Peak!Read(w) ELSE UNCHANGED <<peak, published, since, highest>>
    BY <1>2 DEF Peak!SourceChanged
  <2>2. UNCHANGED <<date, running, midnightDue, peakFile>>
    BY <1>2 DEF Peak!SourceChanged
  <2>3. CASE running
    BY <1>1, <2>1, <2>2, <2>3
  <2>4. CASE ~running
    BY <2>1, <2>2, <2>4 DEF PeakIInv, PeakTypes, WithinHighest, Covers
  <2>5. QED  BY <2>3, <2>4
<1>3. CASE Peak!Tick
  BY <1>0, <1>1, <1>3 DEF Peak!Tick, PeakTypes
<1>4. CASE Peak!Midnight
  <2>1. date' \in Peak!Days
    BY <1>0, <1>4, EnergyAssumption DEF Peak!Midnight, PeakTypes, Peak!Days
  <2>2. QED  BY <1>4, <2>1 DEF Peak!Midnight, PeakIInv, PeakTypes, WithinHighest, Covers
<1>5. CASE Peak!DailyRollover
  BY <1>0, <1>5 DEF Peak!DailyRollover, PeakIInv, PeakTypes, WithinHighest, Covers
<1>6. CASE Peak!WriteStore
  BY <1>6 DEF Peak!WriteStore, PeakIInv, PeakTypes, WithinHighest, Covers
<1>7. CASE Peak!Unload
  BY <1>0, <1>7 DEF Peak!Unload, PeakIInv, PeakTypes, WithinHighest, Covers
<1>8. CASE Peak!Crash
  BY <1>0, <1>8 DEF Peak!Crash, PeakIInv, PeakTypes, WithinHighest, Covers
<1>9. CASE Peak!Start
  <2> DEFINE p == Peak!Restored(date)
  <2>1. /\ ~running /\ running' = TRUE /\ published' = peak'
        /\ peak' = (IF power = Peak!Missing THEN p ELSE Peak!Update(p, power, date))
        /\ since' = Peak!Higher(since, power) /\ highest' = [highest EXCEPT ![date] = Peak!Higher(@, power)]
        /\ UNCHANGED <<date, power, midnightDue, peakFile>>
    BY <1>9 DEF Peak!Start
  <2>2. Covers(peakFile)
    BY <2>1 DEF PeakIInv
  <2>3. p \in Snapshots /\ WithinHighest(p) /\ Covers(p) /\ (p = Peak!NoPeak \/ p.day = date)
    BY <1>0, <2>2 DEF Peak!Restored, PeakTypes, Covers
  <2> HIDE DEF p
  <2>4. /\ peak' \in Snapshots /\ (peak' = p \/ peak'.day = date)
        /\ WithinHighest(peak)' /\ WithinHighest(peakFile)' /\ Covers(peak)'
        /\ since' \in Peak!Powers \union {Peak!Missing}
        /\ highest' \in [Peak!Days -> Peak!Powers \union {Peak!Missing}]
    BY <1>0, <2>1, <2>3, ReadingCovers DEF PeakTypes
  <2>5. QED  BY <1>0, <2>1, <2>3, <2>4 DEF PeakIInv, PeakTypes
<1>10. CASE UNCHANGED Peak!vars
  BY <1>10 DEF Peak!vars, PeakIInv, PeakTypes, WithinHighest, Covers
<1>11. QED
  BY <1>2, <1>3, <1>4, <1>5, <1>6, <1>7, <1>8, <1>9, <1>10 DEF Peak!Next

LEMMA PeakInv ==
    ASSUME MaxPower \in Nat
    PROVE  Peak!Spec => []PeakIInv
<1>1. Peak!Init => PeakIInv
  BY PeakInit
<1>2. PeakIInv /\ [Peak!Next]_(Peak!vars) => PeakIInv'
  BY PeakNext
<1>3. QED  BY <1>1, <1>2, PTL DEF Peak!Spec

(* Once midnight's callback has run, no sensor shows the peak of another     *)
(* day, over any number of reloads, crashes and midnights missed.            *)
THEOREM PeakOfItsDay ==
    ASSUME MaxPower \in Nat
    PROVE  Peak!Spec => []NoPeakOfAnotherDay
<1>1. PeakIInv => NoPeakOfAnotherDay
  BY DEF PeakIInv, NoPeakOfAnotherDay, NoPeak, Peak!NoPeak
<1>2. Peak!Spec => []PeakIInv
  BY PeakInv
<1>3. QED  BY <1>1, <1>2, PTL

(* The published peak is never below what was read since the callback, also  *)
(* over a reload, and never above what was read on its day.                  *)
THEOREM PeakCovers ==
    ASSUME MaxPower \in Nat
    PROVE  Peak!Spec => []PeakCoversItsReadings
<1>1. PeakIInv => PeakCoversItsReadings
  BY DEF PeakIInv, PeakTypes, WithinHighest, Covers, Peak!Missing, PeakCoversItsReadings, NoPeak, Peak!NoPeak
<1>2. Peak!Spec => []PeakIInv
  BY PeakInv
<1>3. QED  BY <1>1, <1>2, PTL
=============================================================================
