------------------------- MODULE StatisticsStoreProofs -------------------------
(***************************************************************************)
(* StatisticsStore for every number of changes and loads, with or without   *)
(* Workday ticks, crashes and a failed write: as long as no Workday tick    *)
(* outlives its coordinator, nothing is left unsaved and no confirmed reset *)
(* is lost.                                                                *)
(***************************************************************************)
EXTENDS StatisticsStore, TLAPS

Stores ==
    [pending : BOOLEAN, latest : BOOLEAN, fixed : SUBSET (SUBSET Changes), armed : BOOLEAN,
     waiting : Seq(Tickets), writing : SUBSET (SUBSET Changes), owner : Tickets]

Types ==
    /\ live \in {0, loads} /\ loads \in Loads
    /\ unloading \in BOOLEAN /\ changes \in 0 .. MaxChanges
    /\ known \in [Loads -> SUBSET Changes]
    /\ store \in [Loads -> Stores]
    /\ file \in SUBSET Changes /\ confirmed \in SUBSET Changes
    /\ outlived \in BOOLEAN
    /\ failure \in {"none", "open", "retried", "healed", "lost"}

Queued(q) == {q[i] : i \in 1 .. Len(q)}

(* A Store's own account: the pending flag says that the latest data is to   *)
(* be written, which replaces fixed data, and data has a writer to come.     *)
StoreOK(s) ==
    /\ s.pending = s.latest
    /\ s.latest => s.fixed = {}
    /\ HasData(s) => s.armed \/ s.waiting # << >>

Basic == Types /\ (unloading => live = 0) /\ \A g \in Loads : StoreOK(store[g])

\* The coordinator that is loaded, or whose unload waits for its save.
Active(g) == g = loads /\ (live = g \/ unloading)

\* A Store with nothing to write, for which at most timers wait.
Quiet(s) == ~HasData(s) /\ s.writing = {} /\ Queued(s.waiting) \subseteq {Timer}

(* The active coordinator knows k.  Its Store will write k, or is writing    *)
(* it, or the file holds it; who waits for a write has its change in the     *)
(* data that is written.                                                     *)
KnownOK(s, k) ==
    /\ s.fixed \in {{}, {k}}
    /\ s.writing # {} => \E w \in SUBSET k :
          /\ s.writing = {w}
          /\ s.owner \in Changes => s.owner \in w
          /\ ~HasData(s) => w = k
    /\ ~HasData(s) /\ s.writing = {} /\ failure # "open" => file = k
    /\ Queued(s.waiting) \intersect Changes \subseteq k
    /\ failure = "open" => ~HasData(s) /\ s.writing = {}

\* What users were told is known, and is in whatever is being written.
ConfirmedOK(s, k) == confirmed \subseteq k /\ \A w \in s.writing : confirmed \subseteq w

\* Behind the ticket of the unload only timers wait, and its write is the last.
LastTicket(q) ==
    \A i, j \in 1 .. Len(q) : i < j /\ q[i] = Unloading => q[j] = Timer
Leaving(s) ==
    /\ LastTicket(s.waiting)
    /\ s.writing # {} /\ s.owner = Unloading
          => ~HasData(s) /\ Queued(s.waiting) \subseteq {Timer}

Staying(s) ==
    /\ Unloading \notin Queued(s.waiting)
    /\ s.writing # {} => s.owner # Unloading

Calm ==
    /\ \A g \in Loads : ~Active(g) => Quiet(store[g])
    /\ live # 0 => Staying(store[loads])
    /\ unloading => Leaving(store[loads])
    /\ live # 0 \/ unloading => KnownOK(store[loads], known[loads])
    /\ (live # 0 \/ unloading) /\ failure # "lost" => ConfirmedOK(store[loads], known[loads])
    /\ failure \in {"none", "healed"} => confirmed \subseteq file

IInv == Basic /\ (~outlived => Calm)

-----------------------------------------------------------------------------
\* Queues of tickets.
LEMMA TicketFacts ==
    /\ Unloading \in Tickets /\ Timer \in Tickets /\ Changes \subseteq Tickets
    /\ Unloading \notin Changes /\ Timer \notin Changes /\ Unloading # Timer
BY StoreAssumption DEF Tickets, Unloading, Timer, Changes

LEMMA AppendQueue ==
    ASSUME NEW q \in Seq(Tickets), NEW t \in Tickets
    PROVE  /\ Append(q, t) \in Seq(Tickets) /\ Append(q, t) # << >>
           /\ Queued(Append(q, t)) = Queued(q) \union {t}
           /\ LastTicket(q) /\ (t = Timer \/ Unloading \notin Queued(q)) => LastTicket(Append(q, t))
<1> DEFINE r == Append(q, t)
<1>1. /\ r \in Seq(Tickets) /\ r # << >> /\ Len(r) = Len(q) + 1 /\ Len(q) \in Nat
      /\ \A i \in 1 .. Len(q) : r[i] = q[i]
      /\ r[Len(q) + 1] = t
  OBVIOUS
<1> HIDE DEF r
<1>2. Queued(r) = Queued(q) \union {t}
  BY <1>1 DEF Queued
<1>3. ASSUME LastTicket(q), t = Timer \/ Unloading \notin Queued(q),
             NEW i \in 1 .. Len(r), NEW j \in 1 .. Len(r), i < j, r[i] = Unloading
      PROVE  r[j] = Timer
  <2>1. i \in 1 .. Len(q) /\ q[i] = Unloading
    BY <1>1, <1>3
  <2>2. t = Timer
    BY <1>3, <2>1 DEF Queued
  <2>3. CASE j \in 1 .. Len(q)
    BY <1>1, <1>3, <2>1, <2>3 DEF LastTicket
  <2>4. CASE j = Len(q) + 1
    BY <1>1, <2>2, <2>4
  <2>5. QED  BY <1>1, <2>3, <2>4
<1>4. QED  BY <1>1, <1>2, <1>3 DEF LastTicket, r

LEMMA TailQueue ==
    ASSUME NEW q \in Seq(Tickets), q # << >>
    PROVE  /\ Tail(q) \in Seq(Tickets) /\ Head(q) \in Tickets
           /\ Queued(q) = {Head(q)} \union Queued(Tail(q))
           /\ LastTicket(q) => LastTicket(Tail(q))
           /\ LastTicket(q) /\ Head(q) = Unloading => Queued(Tail(q)) \subseteq {Timer}
<1> DEFINE r == Tail(q)
<1>1. /\ r \in Seq(Tickets) /\ Head(q) = q[1] /\ Len(q) \in Nat /\ Len(q) > 0
      /\ q[1] \in Tickets
      /\ Len(r) = Len(q) - 1
      /\ \A i \in 1 .. Len(q) - 1 : r[i] = q[i + 1]
  OBVIOUS
<1> HIDE DEF r
<1>2. Queued(q) = {Head(q)} \union Queued(r)
  <2>1. ASSUME NEW i \in 1 .. Len(q) PROVE q[i] \in {q[1]} \union Queued(r)
    <3>1. CASE i = 1
      BY <3>1
    <3>2. CASE i # 1
      <4>1. i - 1 \in 1 .. Len(r) /\ r[i - 1] = q[i]
        BY <1>1, <3>2
      <4>2. QED  BY <4>1 DEF Queued
    <3>3. QED  BY <3>1, <3>2
  <2>2. ASSUME NEW i \in 1 .. Len(r) PROVE r[i] \in Queued(q)
    <3>1. i + 1 \in 1 .. Len(q) /\ r[i] = q[i + 1]
      BY <1>1
    <3>2. QED  BY <3>1 DEF Queued
  <2>3. q[1] \in Queued(q)
    BY <1>1 DEF Queued
  <2>4. QED  BY <1>1, <2>1, <2>2, <2>3 DEF Queued
<1>3. ASSUME LastTicket(q), NEW i \in 1 .. Len(r), NEW j \in 1 .. Len(r), i < j,
             r[i] = Unloading
      PROVE  r[j] = Timer
  <2>1. /\ i + 1 \in 1 .. Len(q) /\ j + 1 \in 1 .. Len(q) /\ i + 1 < j + 1
        /\ q[i + 1] = Unloading /\ r[j] = q[j + 1]
    BY <1>1, <1>3
  <2>2. QED  BY <1>3, <2>1 DEF LastTicket
<1>4. ASSUME LastTicket(q), Head(q) = Unloading, NEW i \in 1 .. Len(r) PROVE r[i] = Timer
  <2>1. /\ 1 \in 1 .. Len(q) /\ i + 1 \in 1 .. Len(q) /\ 1 < i + 1
        /\ q[1] = Unloading /\ r[i] = q[i + 1]
    BY <1>1, <1>4
  <2>2. QED  BY <1>4, <2>1 DEF LastTicket
<1>5. QED  BY <1>1, <1>2, <1>3, <1>4 DEF LastTicket, Queued, r

LEMMA EmptyQueue == Queued(<< >>) = {} /\ << >> \in Seq(Tickets)
BY DEF Queued

-----------------------------------------------------------------------------
\* Both ways to schedule a save leave the latest data to be written.
LEMMA ScheduleLatest ==
    ASSUME NEW s \in Stores, StoreOK(s), NEW t, t = Schedule(s) \/ t = ScheduleNow(s)
    PROVE  /\ t \in Stores /\ StoreOK(t)
           /\ t.latest = TRUE /\ t.fixed = {}
           /\ t.waiting = s.waiting /\ t.writing = s.writing /\ t.owner = s.owner
BY DEF Stores, StoreOK, Schedule, ScheduleNow, HasData

LEMMA FlushFixes ==
    ASSUME NEW s \in Stores, NEW data \in SUBSET Changes, NEW ticket \in Tickets
    PROVE  /\ Flush(s, data, ticket) \in Stores /\ StoreOK(Flush(s, data, ticket))
           /\ Flush(s, data, ticket).latest = FALSE /\ Flush(s, data, ticket).fixed = {data}
           /\ Flush(s, data, ticket).waiting = Append(s.waiting, ticket)
           /\ Flush(s, data, ticket).writing = s.writing
           /\ Flush(s, data, ticket).owner = s.owner
<1> DEFINE t == Flush(s, data, ticket)
<1>1. Append(s.waiting, ticket) \in Seq(Tickets) /\ Append(s.waiting, ticket) # << >>
  BY AppendQueue DEF Stores
<1>2. /\ t.pending = FALSE /\ t.latest = FALSE /\ t.fixed = {data}
      /\ t.waiting = Append(s.waiting, ticket)
      /\ t.writing = s.writing /\ t.owner = s.owner
  BY DEF Flush, Stores
<1>3. t \in Stores
  BY <1>1 DEF Flush, Stores
<1>4. QED  BY <1>1, <1>2, <1>3 DEF StoreOK

LEMMA IdleFacts == IdleStore \in Stores /\ StoreOK(IdleStore) /\ Quiet(IdleStore)
BY TicketFacts, EmptyQueue DEF IdleStore, Stores, StoreOK, Quiet, HasData

\* A step that replaces one Store keeps every Store's own account.
LEMMA OneStore ==
    ASSUME Basic, NEW g \in Loads, NEW t \in Stores, StoreOK(t),
           store' = [store EXCEPT ![g] = t]
    PROVE  /\ store' \in [Loads -> Stores]
           /\ store'[g] = t /\ \A h \in Loads \ {g} : store'[h] = store[h]
           /\ \A h \in Loads : StoreOK(store'[h])
BY DEF Basic, Types

LEMMA LoadsFacts ==
    ASSUME Types
    PROVE  0 \notin Loads /\ loads \in Loads /\ (live # 0 => live = loads)
BY StoreAssumption DEF Types, Loads

\* A Store that has something to write is the active coordinator's.
LEMMA BusyIsActive ==
    ASSUME Types, Calm, NEW g \in Loads, ~Quiet(store[g])
    PROVE  g = loads /\ (live # 0 \/ unloading)
BY LoadsFacts DEF Calm, Active

LEMMA InitInv == Init => IInv
<1> SUFFICES ASSUME Init PROVE IInv
  OBVIOUS
<1>1. 1 \in Loads /\ 0 \in 0 .. MaxChanges
  BY StoreAssumption DEF Loads
<1>2. \A g \in Loads : store[g] = IdleStore /\ known[g] = {}
  BY DEF Init
<1>3. Basic
  BY <1>1, <1>2, IdleFacts DEF Init, Basic, Types
<1>4. Calm
  <2>1. /\ IdleStore.fixed = {} /\ IdleStore.writing = {} /\ ~HasData(IdleStore)
        /\ Queued(IdleStore.waiting) = {}
    BY EmptyQueue DEF IdleStore, HasData
  <2>2. Staying(IdleStore) /\ KnownOK(IdleStore, {}) /\ ConfirmedOK(IdleStore, {})
    BY <2>1 DEF Init, Staying, KnownOK, ConfirmedOK
  <2>3. QED  BY <1>1, <1>2, <2>2, IdleFacts DEF Init, Calm
<1>5. QED  BY <1>3, <1>4 DEF IInv

-----------------------------------------------------------------------------
(* A new change with data scheduled or fixed that includes it keeps the      *)
(* invariant, when the loaded coordinator makes it; a user's ticket may be   *)
(* queued for it.                                                            *)
LEMMA ChangeInv ==
    ASSUME IInv, NEW g \in Loads, NewChange(g), NEW t \in Stores, StoreOK(t),
           HasData(t), t.fixed \in {{}, {known'[g]}},
           t.writing = store[g].writing, t.owner = store[g].owner,
           Queued(t.waiting) \subseteq Queued(store[g].waiting) \union {changes'},
           store' = [store EXCEPT ![g] = t],
           UNCHANGED <<live, loads, unloading, file, confirmed>>,
           outlived' \in BOOLEAN, ~outlived' => ~outlived /\ live = g
    PROVE  IInv'
<1> DEFINE s == store[g]
           k == known[g]
<1>1. Basic /\ Types
  BY DEF IInv, Basic
<1>2. /\ changes' \in Changes
      /\ known' \in [Loads -> SUBSET Changes] /\ known'[g] = k \union {changes'}
      /\ changes' \in 0 .. MaxChanges
      /\ failure' \in {"none", "retried", "healed", "lost"}
      /\ failure' \in {"none", "healed", "lost"} => failure' = failure
      /\ failure = "lost" => failure' = "lost"
  <2>1. changes' \in 1 .. MaxChanges
    BY <1>1, StoreAssumption DEF Types, NewChange
  <2>2. QED  BY <1>1, <2>1, StoreAssumption DEF Types, NewChange, Retried, Changes
<1>3. Basic'
  BY <1>1, <1>2, OneStore DEF Basic, Types
<1>4. ASSUME ~outlived' PROVE Calm'
  <2>1. Calm /\ live = g /\ g = loads /\ live # 0 /\ ~unloading
    BY <1>1, <1>4, LoadsFacts DEF IInv, Basic
  <2>2. KnownOK(s, k) /\ Staying(s) /\ (failure # "lost" => ConfirmedOK(s, k))
    BY <2>1 DEF Calm
  <2>3. store'[g] = t /\ \A h \in Loads \ {g} : store'[h] = store[h]
    BY <1>1, OneStore
  <2>4. \A h \in Loads : ~Active(h)' => Quiet(store'[h])
    BY <2>1, <2>3 DEF Calm, Active
  <2>5. Staying(t)
    BY <1>2, <2>2, TicketFacts DEF Staying
  <2> PICK kk : kk = known'[g]
    OBVIOUS
  <2>6. KnownOK(t, kk)'
    BY <1>2, <2>2 DEF KnownOK
  <2>7. failure' # "lost" => ConfirmedOK(t, kk)'
    BY <1>2, <2>2 DEF ConfirmedOK
  <2>8. failure' \in {"none", "healed"} => confirmed' \subseteq file'
    BY <1>2, <2>1 DEF Calm
  <2>9. QED  BY <2>1, <2>3, <2>4, <2>5, <2>6, <2>7, <2>8 DEF Calm
<1>5. QED  BY <1>3, <1>4 DEF IInv

LEMMA LatestInv ==
    ASSUME IInv, NEW g \in Loads, NewChange(g),
           NEW t, t = Schedule(store[g]) \/ t = ScheduleNow(store[g]),
           store' = [store EXCEPT ![g] = t],
           UNCHANGED <<live, loads, unloading, file, confirmed>>,
           outlived' \in BOOLEAN, ~outlived' => ~outlived /\ live = g
    PROVE  IInv'
<1>1. store[g] \in Stores /\ StoreOK(store[g])
  BY DEF IInv, Basic, Types
<1>2. /\ t \in Stores /\ StoreOK(t) /\ t.latest = TRUE /\ t.fixed = {}
      /\ t.waiting = store[g].waiting /\ t.writing = store[g].writing /\ t.owner = store[g].owner
  BY <1>1, ScheduleLatest
<1>3. HasData(t)
  BY <1>2 DEF HasData
<1>4. QED  BY <1>2, <1>3, ChangeInv

LEMMA UserResetInv ==
    ASSUME IInv, NEW g \in Loads, UserReset(g)
    PROVE  IInv'
<1> DEFINE s == Schedule(store[g])
           t == Flush(s, known'[g], changes')
<1>1. store[g] \in Stores /\ StoreOK(store[g]) /\ Types
  BY DEF IInv, Basic, Types
<1>2. s \in Stores /\ s.waiting = store[g].waiting /\ s.writing = store[g].writing
      /\ s.owner = store[g].owner
  BY <1>1, ScheduleLatest
<1>3. changes' \in Changes /\ known'[g] \in SUBSET Changes
  <2>1. changes' \in 1 .. MaxChanges
    BY <1>1, StoreAssumption DEF Types, NewChange, UserReset
  <2>2. QED  BY <1>1, <2>1 DEF Types, NewChange, UserReset, Changes
<1>4. changes' \in Tickets
  BY <1>3, TicketFacts
<1>5. store' = [store EXCEPT ![g] = t]
  BY DEF UserReset
<1> HIDE DEF s
<1>6. /\ t \in Stores /\ StoreOK(t) /\ t.fixed = {known'[g]}
      /\ t.waiting = Append(s.waiting, changes') /\ t.writing = s.writing /\ t.owner = s.owner
  BY <1>2, <1>3, <1>4, FlushFixes
<1>7. Queued(Append(s.waiting, changes')) = Queued(s.waiting) \union {changes'}
  BY <1>2, <1>4, AppendQueue DEF Stores
<1> HIDE DEF t
<1>8. HasData(t)
  BY <1>6 DEF HasData
<1>9. /\ NewChange(g) /\ UNCHANGED <<live, loads, unloading, file, confirmed, outlived>>
      /\ live = g /\ outlived \in BOOLEAN
  BY <1>1 DEF UserReset, Types
<1>10. Queued(t.waiting) \subseteq Queued(store[g].waiting) \union {changes'}
  BY <1>2, <1>6, <1>7
<1>11. t.writing = store[g].writing /\ t.owner = store[g].owner /\ t.fixed \in {{}, {known'[g]}}
  BY <1>2, <1>6
<1>12. QED  BY <1>5, <1>6, <1>8, <1>9, <1>10, <1>11, ChangeInv

-----------------------------------------------------------------------------
LEMMA TimerFiresInv ==
    ASSUME IInv, NEW g \in Loads, TimerFires(g)
    PROVE  IInv'
<1> DEFINE s == store[g]
           t == [s EXCEPT !.armed = FALSE, !.waiting = Append(s.waiting, Timer)]
<1>1. Basic /\ Types /\ s \in Stores /\ StoreOK(s)
  BY DEF IInv, Basic, Types
<1>2. /\ Append(s.waiting, Timer) \in Seq(Tickets) /\ Append(s.waiting, Timer) # << >>
      /\ Queued(Append(s.waiting, Timer)) = Queued(s.waiting) \union {Timer}
      /\ LastTicket(s.waiting) => LastTicket(Append(s.waiting, Timer))
  BY <1>1, TicketFacts, AppendQueue DEF Stores
<1>3. /\ t \in Stores /\ t.waiting = Append(s.waiting, Timer) /\ t.latest = s.latest
      /\ t.fixed = s.fixed /\ t.writing = s.writing /\ t.owner = s.owner /\ t.pending = s.pending
  BY <1>1, <1>2 DEF Stores
<1>4. store' = [store EXCEPT ![g] = t]
  BY DEF TimerFires
<1> HIDE DEF t
<1>5. StoreOK(t)
  BY <1>1, <1>2, <1>3 DEF StoreOK, HasData
<1>6. store'[g] = t /\ \A h \in Loads \ {g} : store'[h] = store[h]
  BY <1>1, <1>3, <1>4, <1>5, OneStore
<1>7. Basic'
  BY <1>1, <1>3, <1>4, <1>5, OneStore DEF Basic, Types, TimerFires
<1>8. ASSUME ~outlived' PROVE Calm'
  <2>1. Calm
    BY <1>8 DEF IInv, TimerFires
  <2>2. HasData(t) = HasData(s)
    BY <1>3 DEF HasData
  <2>3. Quiet(s) => Quiet(t)
    BY <1>2, <1>3, <2>2 DEF Quiet
  <2>4. Staying(s) => Staying(t)
    BY <1>2, <1>3, TicketFacts DEF Staying
  <2>5. Leaving(s) => Leaving(t)
    BY <1>2, <1>3, <2>2 DEF Leaving
  <2>6. KnownOK(s, known[g]) => KnownOK(t, known[g])
    BY <1>2, <1>3, <2>2, TicketFacts DEF KnownOK
  <2>7. ConfirmedOK(s, known[g]) => ConfirmedOK(t, known[g])
    BY <1>3 DEF ConfirmedOK
  <2>8. UNCHANGED <<live, loads, unloading, known, file, confirmed, failure>>
    BY DEF TimerFires
  <2>9. \A h \in Loads : ~Active(h)' => Quiet(store'[h])
    BY <1>6, <2>1, <2>3, <2>8 DEF Calm, Active
  <2>10. CASE g = loads
    <3>1. \A r, k : (KnownOK(r, k)' <=> KnownOK(r, k)) /\ (ConfirmedOK(r, k)' <=> ConfirmedOK(r, k))
      BY <2>8 DEF KnownOK, ConfirmedOK
    <3>2. QED  BY <1>6, <2>1, <2>4, <2>5, <2>6, <2>7, <2>8, <2>9, <2>10, <3>1 DEF Calm
  <2>11. CASE g # loads
    BY <1>1, <1>6, <2>1, <2>8, <2>9, <2>11, LoadsFacts DEF Calm, KnownOK, ConfirmedOK
  <2>12. QED  BY <2>10, <2>11
<1>9. QED  BY <1>7, <1>8 DEF IInv

-----------------------------------------------------------------------------
\* A step on the last coordinator's Store keeps the rest as it is.
LEMMA LastStore ==
    ASSUME Basic, Calm, NEW t \in Stores, StoreOK(t), NEW k, k = known[loads],
           store' = [store EXCEPT ![loads] = t],
           UNCHANGED <<live, loads, known>>, unloading' => unloading,
           live = 0 /\ ~unloading' => Quiet(t),
           live # 0 => Staying(t),
           unloading' => Leaving(t),
           live # 0 \/ unloading' => KnownOK(t, k)',
           (live # 0 \/ unloading') /\ failure' # "lost" => ConfirmedOK(t, k)',
           failure' \in {"none", "healed"} => confirmed' \subseteq file'
    PROVE  Calm'
<1>1. Types /\ loads \in Loads /\ known'[loads] = k
  BY DEF Basic, Types
<1>2. store'[loads] = t /\ \A h \in Loads \ {loads} : store'[h] = store[h]
  BY <1>1, OneStore
<1>3. \A h \in Loads : ~Active(h)' => Quiet(store'[h])
  <2>1. CASE live = loads \/ unloading'
    BY <1>1, <1>2, <2>1 DEF Calm, Active
  <2>2. CASE ~(live = loads \/ unloading')
    <3>1. Quiet(t)
      BY <1>1, <2>2, LoadsFacts
    <3>2. \A h \in Loads \ {loads} : Quiet(store[h])
      BY DEF Calm, Active
    <3>3. QED  BY <1>2, <3>1, <3>2
  <2>3. QED  BY <2>1, <2>2
<1>4. QED  BY <1>1, <1>2, <1>3 DEF Calm

\* A quiet Store of an earlier coordinator may change, staying quiet.
LEMMA EarlierStore ==
    ASSUME Basic, Calm, NEW g \in Loads, g # loads, NEW t \in Stores, StoreOK(t), Quiet(t),
           store' = [store EXCEPT ![g] = t],
           UNCHANGED <<live, loads, unloading, known, file, confirmed, failure>>
    PROVE  Calm'
<1>1. Types /\ loads \in Loads
  BY DEF Basic, Types
<1>2. store'[g] = t /\ \A h \in Loads \ {g} : store'[h] = store[h]
  BY OneStore
<1>3. \A h \in Loads : ~Active(h)' => Quiet(store'[h])
  BY <1>2 DEF Calm, Active
<1>4. store'[loads] = store[loads]
  BY <1>1, <1>2
<1>5. QED  BY <1>3, <1>4 DEF Calm, KnownOK, ConfirmedOK

LEMMA BeginWriteInv ==
    ASSUME IInv, NEW g \in Loads, BeginWrite(g)
    PROVE  IInv'
<1> DEFINE s == store[g]
           h == Head(s.waiting)
           after == IF HasData(s)
                    THEN [s EXCEPT !.pending = s.pending /\ ~s.latest,
                                   !.latest = FALSE, !.fixed = {}, !.armed = FALSE,
                                   !.waiting = Tail(s.waiting), !.owner = h,
                                   !.writing = IF s.latest THEN {known[g]} ELSE s.fixed]
                    ELSE [s EXCEPT !.armed = FALSE, !.waiting = Tail(s.waiting)]
<1>1. Basic /\ Types /\ s \in Stores /\ StoreOK(s) /\ known[g] \in SUBSET Changes
  BY DEF IInv, Basic, Types
<1>2. /\ Tail(s.waiting) \in Seq(Tickets) /\ h \in Tickets
      /\ Queued(s.waiting) = {h} \union Queued(Tail(s.waiting))
      /\ LastTicket(s.waiting) => LastTicket(Tail(s.waiting))
      /\ LastTicket(s.waiting) /\ h = Unloading => Queued(Tail(s.waiting)) \subseteq {Timer}
  BY <1>1, TailQueue DEF Stores, BeginWrite
<1> PICK t : t = after
  OBVIOUS
<1>3. store' = [store EXCEPT ![g] = t]
  BY DEF BeginWrite
<1>4. /\ t \in Stores /\ t.waiting = Tail(s.waiting)
      /\ HasData(s) => /\ t.pending = FALSE /\ t.latest = FALSE /\ t.fixed = {} /\ t.owner = h
                       /\ t.writing = IF s.latest THEN {known[g]} ELSE s.fixed
      /\ ~HasData(s) => /\ t.pending = s.pending /\ t.latest = s.latest /\ t.fixed = s.fixed
                        /\ t.owner = s.owner /\ t.writing = s.writing
  <2>1. CASE HasData(s)
    BY <1>1, <1>2, <2>1 DEF Stores, StoreOK
  <2>2. CASE ~HasData(s)
    BY <1>1, <1>2, <2>2 DEF Stores
  <2>3. QED  BY <2>1, <2>2
<1>5. UNCHANGED <<live, loads, known, file, outlived, failure, changes>> /\ s.writing = {}
  BY DEF BeginWrite
<1>6. ~HasData(t) /\ StoreOK(t)
  BY <1>1, <1>4 DEF StoreOK, HasData
<1>7. /\ HasData(s) => UNCHANGED <<unloading, confirmed>>
      /\ ~HasData(s) => /\ confirmed' = confirmed \union ({h} \intersect Changes)
                        /\ unloading' = (unloading /\ h # Unloading)
  BY DEF BeginWrite, Returns
<1> HIDE DEF h, after
<1>8. confirmed' \in SUBSET Changes /\ unloading' \in BOOLEAN /\ (unloading' => unloading)
  <2>1. CASE HasData(s)
    BY <1>1, <1>7, <2>1 DEF Types
  <2>2. CASE ~HasData(s)
    <3>1. confirmed' \in SUBSET Changes
      BY <1>1, <1>7, <2>2 DEF Types
    <3>2. unloading' \in BOOLEAN /\ (unloading' => unloading)
      BY <1>1, <1>7, <2>2 DEF Types
    <3>3. QED  BY <3>1, <3>2
  <2>3. QED  BY <2>1, <2>2
<1>9. Basic'
  BY <1>1, <1>3, <1>4, <1>5, <1>6, <1>8, OneStore DEF Basic, Types
<1>10. ASSUME ~outlived' PROVE Calm'
  <2>1. Calm
    BY <1>5, <1>10 DEF IInv
  <2>2. CASE g # loads
    <3>1. Quiet(s)
      BY <1>1, <2>1, <2>2, BusyIsActive
    <3>2. ~HasData(s) /\ h = Timer
      BY <1>2, <3>1 DEF Quiet
    <3>3. Quiet(t)
      BY <1>2, <1>4, <1>6, <3>1, <3>2 DEF Quiet
    <3>4. UNCHANGED <<unloading, confirmed>>
      BY <1>1, <1>7, <3>2, TicketFacts DEF Types
    <3>5. QED  BY <1>1, <1>3, <1>4, <1>5, <1>6, <2>1, <2>2, <3>3, <3>4, EarlierStore
  <2>3. CASE g = loads
    <3> PICK k : k = known[g]
      OBVIOUS
    <3>1. live = 0 /\ ~unloading => Quiet(s)
      BY <1>1, <2>1, <2>3, BusyIsActive
    <3>2. live # 0 => Staying(s) /\ ~unloading
      BY <1>1, <2>1, <2>3 DEF Calm, Basic
    <3>3. unloading => Leaving(s)
      BY <2>1, <2>3 DEF Calm
    <3>4. live # 0 \/ unloading => KnownOK(s, k) /\ (failure # "lost" => ConfirmedOK(s, k))
      BY <2>1, <2>3 DEF Calm
    <3>5. failure \in {"none", "healed"} => confirmed \subseteq file
      BY <2>1 DEF Calm
    <3>6. CASE HasData(s)
      <4>1. ~Quiet(s)
        BY <3>6 DEF Quiet
      <4>2. (live # 0 \/ unloading) /\ unloading' = unloading /\ confirmed' = confirmed
        BY <1>7, <3>1, <3>6, <4>1
      <4>3. t.writing = {k}
        BY <1>1, <1>4, <3>4, <3>6, <4>2 DEF KnownOK, HasData
      <4>4. live # 0 => Staying(t)
        BY <1>2, <1>4, <3>2, <3>6 DEF Staying
      <4>5. unloading => Leaving(t)
        BY <1>2, <1>4, <1>6, <3>3, <3>6 DEF Leaving
      <4>6. KnownOK(t, k)'
        BY <1>2, <1>4, <1>5, <1>6, <3>4, <3>6, <4>2, <4>3 DEF KnownOK
      <4>7. failure' # "lost" => ConfirmedOK(t, k)'
        BY <1>5, <3>4, <4>2, <4>3 DEF ConfirmedOK
      <4>8. QED
        BY <1>1, <1>3, <1>4, <1>5, <1>6, <2>1, <2>3, <3>5, <4>2, <4>4, <4>5, <4>6, <4>7, LastStore
    <3>7. CASE ~HasData(s)
      <4>1. t.writing = {}
        BY <1>4, <1>5, <3>7
      <4>2. live # 0 => Staying(t)
        BY <1>2, <1>4, <3>2, <4>1 DEF Staying
      <4>3. unloading' => Leaving(t)
        BY <1>2, <1>4, <1>8, <3>3, <4>1 DEF Leaving
      <4>4. live = 0 /\ ~unloading' => Quiet(t)
        <5>1. CASE unloading
          <6>1. ASSUME ~unloading' PROVE h = Unloading
            BY <1>1, <1>7, <3>7, <5>1, <6>1 DEF Types
          <6>2. QED  BY <1>2, <1>4, <1>6, <3>3, <4>1, <5>1, <6>1 DEF Leaving, Quiet
        <5>2. CASE ~unloading
          BY <1>2, <1>4, <1>6, <3>1, <4>1, <5>2 DEF Quiet
        <5>3. QED  BY <5>1, <5>2
      <4>5. CASE live # 0 \/ unloading
        <5>1. {h} \intersect Changes \subseteq k
          BY <1>2, <3>4, <4>5 DEF KnownOK
        <5>2. failure # "open" => file = k
          BY <1>5, <3>4, <3>7, <4>5 DEF KnownOK
        <5>3. KnownOK(t, k)'
          BY <1>2, <1>4, <1>5, <1>6, <3>4, <3>7, <4>1, <4>5 DEF KnownOK
        <5>4. failure' # "lost" => ConfirmedOK(t, k)'
          BY <1>5, <1>7, <3>4, <3>7, <4>1, <4>5, <5>1 DEF ConfirmedOK
        <5>5. failure' \in {"none", "healed"} => confirmed' \subseteq file'
          BY <1>5, <1>7, <3>5, <3>7, <5>1, <5>2
        <5>6. QED
          BY <1>1, <1>3, <1>4, <1>5, <1>6, <1>8, <2>1, <2>3, <4>2, <4>3, <4>4, <5>3, <5>4, <5>5,
             LastStore
      <4>6. CASE live = 0 /\ ~unloading
        <5>1. h = Timer
          BY <1>2, <3>1, <4>6 DEF Quiet
        <5>2. confirmed' = confirmed /\ ~unloading'
          BY <1>7, <1>8, <3>7, <4>6, <5>1, TicketFacts
        <5>3. failure' \in {"none", "healed"} => confirmed' \subseteq file'
          BY <1>5, <3>5, <5>2
        <5>4. QED
          BY <1>1, <1>3, <1>4, <1>5, <1>6, <2>1, <2>3, <4>4, <4>6, <5>2, <5>3, LastStore
      <4>7. QED  BY <4>5, <4>6
    <3>8. QED  BY <3>6, <3>7
  <2>4. QED  BY <2>2, <2>3
<1>11. QED  BY <1>9, <1>10 DEF IInv

-----------------------------------------------------------------------------
(* The write under way on a Store ends, well or not: whoever waited for it   *)
(* returns.  When it ends well its data is in the file, when it does not     *)
(* only what is still to be written makes up for it.                         *)
LEMMA WriteOverInv ==
    ASSUME IInv, NEW g \in Loads, store[g].writing # {}, Returns(store[g].owner),
           store' = [store EXCEPT ![g].writing = {}],
           UNCHANGED <<live, loads, changes, known, outlived>>,
           \/ /\ file' = UNION store[g].writing
              /\ failure' = IF failure = "retried" THEN "healed" ELSE failure
           \/ /\ file' = file /\ failure = "none"
              /\ failure' = IF HasData(store[g]) THEN "retried" ELSE "open"
    PROVE  IInv'
<1> DEFINE s == store[g]
           h == s.owner
<1>1. Basic /\ Types /\ s \in Stores /\ StoreOK(s) /\ known[g] \in SUBSET Changes /\ h \in Tickets
  BY DEF IInv, Basic, Types, Stores
<1> PICK t : t = [s EXCEPT !.writing = {}]
  OBVIOUS
<1>2. store' = [store EXCEPT ![g] = t]
  BY <1>1 DEF Types
<1>3. /\ t \in Stores /\ t.pending = s.pending /\ t.latest = s.latest /\ t.fixed = s.fixed
      /\ t.armed = s.armed /\ t.waiting = s.waiting /\ t.writing = {} /\ t.owner = h
  BY <1>1 DEF Stores
<1>4. StoreOK(t) /\ HasData(t) = HasData(s)
  BY <1>1, <1>3 DEF StoreOK, HasData
<1>5. /\ confirmed' = confirmed \union ({h} \intersect Changes)
      /\ unloading' = (unloading /\ h # Unloading)
  BY DEF Returns
<1> HIDE DEF s, h
<1>6. confirmed' \in SUBSET Changes
  BY <1>1, <1>5 DEF Types
<1>7. unloading' \in BOOLEAN /\ (unloading' => unloading)
  BY <1>1, <1>5 DEF Types
<1>8. file' \in SUBSET Changes
  BY <1>1 DEF Types, Stores, s
<1>9. failure' \in {"none", "open", "retried", "healed", "lost"}
  BY <1>1 DEF Types
<1>10. Basic'
  BY <1>1, <1>2, <1>3, <1>4, <1>6, <1>7, <1>8, <1>9, OneStore DEF Basic, Types
<1>11. ASSUME ~outlived' PROVE Calm'
  <2>1. Calm
    BY <1>11 DEF IInv
  <2>2. g = loads /\ (live # 0 \/ unloading)
    BY <1>1, <2>1, BusyIsActive DEF Quiet
  <2> PICK k : k = known[g]
    OBVIOUS
  <2>3. KnownOK(s, k) /\ (failure # "lost" => ConfirmedOK(s, k))
    BY <2>1, <2>2 DEF Calm, s
  <2> PICK w \in SUBSET k : s.writing = {w} /\ (h \in Changes => h \in w) /\ (~HasData(s) => w = k)
    BY <2>3 DEF KnownOK, s, h
  <2>4. failure # "open"
    BY <2>3 DEF KnownOK, s
  <2>5. UNION s.writing = w
    OBVIOUS
  <2>6. live # 0 => Staying(t)
    BY <1>3, <2>1, <2>2 DEF Calm, Staying, s
  <2>7. unloading' => Leaving(t)
    BY <1>3, <1>7, <2>1, <2>2 DEF Calm, Leaving, s
  <2>8. live = 0 /\ ~unloading' => Quiet(t)
    <3>1. ASSUME live = 0, ~unloading' PROVE h = Unloading /\ unloading
      BY <1>1, <1>5, <2>2, <3>1 DEF Types
    <3>2. unloading => Leaving(s)
      BY <2>1, <2>2 DEF Calm, s
    <3>3. QED  BY <1>3, <1>4, <3>1, <3>2 DEF Leaving, Quiet, s, h
  <2>9. {h} \intersect Changes \subseteq w
    OBVIOUS
  <2>10. KnownOK(t, k)'
    <3>1. ~HasData(t) /\ failure' # "open" => file' = k
      BY <1>4, <2>4, <2>5 DEF s
    <3>2. failure' = "open" => ~HasData(t)
      BY <1>4, <2>4 DEF s
    <3>3. QED  BY <1>3, <2>3, <3>1, <3>2 DEF KnownOK
  <2>11. failure' # "lost" => ConfirmedOK(t, k)'
    BY <1>3, <1>5, <2>3, <2>9 DEF ConfirmedOK
  <2>12. failure' \in {"none", "healed"} => confirmed' \subseteq file'
    <3>1. ASSUME failure' \in {"none", "healed"}
          PROVE  failure # "lost" /\ file' = w
      BY <2>5, <3>1 DEF s
    <3>2. QED  BY <1>5, <2>3, <2>9, <3>1 DEF ConfirmedOK
  <2>13. QED
    BY <1>1, <1>2, <1>3, <1>4, <1>7, <2>1, <2>2, <2>6, <2>7, <2>8, <2>10, <2>11, <2>12, LastStore
<1>12. QED  BY <1>10, <1>11 DEF IInv

LEMMA UnloadInv ==
    ASSUME IInv, NEW g \in Loads, Unload(g)
    PROVE  IInv'
<1> DEFINE s == store[g]
<1> PICK k : k = known[g]
  OBVIOUS
<1>1. Basic /\ Types /\ s \in Stores /\ StoreOK(s) /\ k \in SUBSET Changes
  BY DEF IInv, Basic, Types
<1>2. /\ live = g /\ live' = 0 /\ unloading' = TRUE /\ failure' = Retried
      /\ UNCHANGED <<loads, changes, known, file, confirmed, outlived>>
  BY DEF Unload
<1> PICK t : t = Flush(s, k, Unloading)
  OBVIOUS
<1>3. store' = [store EXCEPT ![g] = t]
  BY DEF Unload
<1>4. /\ t \in Stores /\ StoreOK(t) /\ t.latest = FALSE /\ t.fixed = {k}
      /\ t.waiting = Append(s.waiting, Unloading) /\ t.writing = s.writing /\ t.owner = s.owner
  <2>1. Unloading \in Tickets
    BY TicketFacts
  <2> HIDE DEF s
  <2>2. QED  BY <1>1, <2>1, FlushFixes
<1>5. /\ failure' \in {"none", "retried", "healed", "lost"}
      /\ failure = "lost" => failure' = "lost"
      /\ failure' \in {"none", "healed"} => failure' = failure
  BY <1>1, <1>2 DEF Types, Retried
<1>6. store'[g] = t /\ \A h \in Loads \ {g} : store'[h] = store[h]
  BY <1>1, <1>3, <1>4, OneStore
<1>7. Basic'
  BY <1>1, <1>2, <1>3, <1>4, <1>5, OneStore DEF Basic, Types
<1>8. ASSUME ~outlived' PROVE Calm'
  <2>1. Calm /\ g = loads /\ live # 0
    BY <1>1, <1>2, <1>8, LoadsFacts DEF IInv
  <2>2. Staying(s) /\ KnownOK(s, k) /\ (failure # "lost" => ConfirmedOK(s, k))
    BY <2>1 DEF Calm
  <2>3. HasData(t)
    BY <1>4 DEF HasData
  <2>4. Queued(t.waiting) = Queued(s.waiting) \union {Unloading}
    BY <1>1, <1>4, TicketFacts, AppendQueue DEF Stores
  <2>5. LastTicket(s.waiting)
    BY <2>2 DEF Staying, LastTicket, Queued
  <2>6. LastTicket(t.waiting)
    BY <1>1, <1>4, <2>2, <2>5, TicketFacts, AppendQueue DEF Stores, Staying
  <2>7. Leaving(t)
    BY <1>4, <2>2, <2>6 DEF Leaving, Staying
  <2>8. KnownOK(t, k)'
    BY <1>2, <1>4, <1>5, <2>2, <2>3, <2>4, TicketFacts DEF KnownOK
  <2>9. failure' # "lost" => ConfirmedOK(t, k)'
    BY <1>2, <1>4, <1>5, <2>2 DEF ConfirmedOK
  <2>10. failure' \in {"none", "healed"} => confirmed' \subseteq file'
    BY <1>2, <1>5, <2>1 DEF Calm
  <2>11. \A h \in Loads : ~Active(h)' => Quiet(store'[h])
    BY <1>2, <1>6, <2>1 DEF Calm, Active
  <2>12. QED  BY <1>2, <1>6, <2>1, <2>7, <2>8, <2>9, <2>10, <2>11 DEF Calm
<1>9. QED  BY <1>7, <1>8 DEF IInv

LEMMA LoadInv ==
    ASSUME IInv, Load
    PROVE  IInv'
<1>1. Basic /\ Types
  BY DEF IInv, Basic
<1> PICK g : g = loads + 1
  OBVIOUS
<1>2. g \in Loads /\ g # 0
  <2>1. loads \in 1 .. MaxLoads /\ loads < MaxLoads /\ MaxLoads \in Nat
    BY <1>1, StoreAssumption DEF Types, Loads, Load
  <2>2. QED  BY <2>1 DEF Loads
<1>3. /\ live = 0 /\ ~unloading /\ loads' = g /\ live' = g
      /\ known' = [known EXCEPT ![g] = file]
      /\ UNCHANGED <<unloading, changes, store, file, confirmed, outlived>>
      /\ failure' = IF failure \in {"open", "retried"} THEN "lost" ELSE failure
  BY DEF Load
<1>4. failure' \in {"none", "healed", "lost"} /\ (failure' # "lost" => failure' = failure)
  BY <1>1, <1>3 DEF Types
<1>5. Basic'
  BY <1>1, <1>2, <1>3, <1>4 DEF Basic, Types
<1>6. ASSUME ~outlived' PROVE Calm'
  <2>1. Calm /\ \A h \in Loads : Quiet(store[h])
    <3>1. Calm
      BY <1>3, <1>6 DEF IInv
    <3>2. QED  BY <1>1, <1>3, <3>1, BusyIsActive
  <2> PICK s : s = store[g]
    OBVIOUS
  <2> PICK k : k = file
    OBVIOUS
  <2>2. Quiet(s) /\ s.fixed = {}
    BY <1>2, <2>1 DEF Quiet, HasData
  <2>3. known'[g] = k
    BY <1>1, <1>2, <1>3 DEF Types
  <2>4. Staying(s)
    BY <2>2, TicketFacts DEF Quiet, Staying
  <2>5. KnownOK(s, k)'
    BY <1>3, <1>4, <2>2, TicketFacts DEF Quiet, KnownOK
  <2>6. failure' \in {"none", "healed"} => confirmed' \subseteq file'
    BY <1>3, <1>4, <2>1 DEF Calm
  <2>7. failure' # "lost" => ConfirmedOK(s, k)'
    BY <1>3, <1>4, <2>2, <2>6 DEF Quiet, ConfirmedOK
  <2>8. QED  BY <1>2, <1>3, <2>1, <2>3, <2>4, <2>5, <2>6, <2>7 DEF Calm
<1>7. QED  BY <1>5, <1>6 DEF IInv

-----------------------------------------------------------------------------
\* What a regular stop leaves in the file.
LEMMA LastDataFacts ==
    ASSUME Types, NEW g \in Loads
    PROVE  /\ LastData(g) \in SUBSET Changes
           /\ KnownOK(store[g], known[g]) /\ (HasData(store[g]) \/ store[g].writing # {})
                 => LastData(g) = known[g] \/ store[g].writing = {LastData(g)}
<1>1. store[g] \in Stores /\ known[g] \in SUBSET Changes
  BY DEF Types
<1>2. LastData(g) \in SUBSET Changes
  BY <1>1 DEF LastData, Stores
<1>3. ASSUME KnownOK(store[g], known[g]), HasData(store[g]) \/ store[g].writing # {}
      PROVE  LastData(g) = known[g] \/ store[g].writing = {LastData(g)}
  <2>1. CASE store[g].latest
    BY <2>1 DEF LastData
  <2>2. CASE ~store[g].latest /\ store[g].fixed # {}
    BY <1>3, <2>2 DEF LastData, KnownOK
  <2>3. CASE ~store[g].latest /\ store[g].fixed = {}
    <3>1. store[g].writing # {}
      BY <1>3, <2>3 DEF HasData
    <3>2. PICK w : store[g].writing = {w}
      BY <1>3, <3>1 DEF KnownOK
    <3>3. LastData(g) = w
      BY <2>3, <3>2 DEF LastData
    <3>4. QED  BY <3>2, <3>3
  <2>4. QED  BY <2>1, <2>2, <2>3
<1>4. QED  BY <1>2, <1>3

LEMMA DownInv ==
    ASSUME IInv, Down, file' \in SUBSET Changes,
           Calm /\ failure \in {"none", "healed"} => confirmed \subseteq file'
    PROVE  IInv'
<1>1. Basic /\ Types
  BY DEF IInv, Basic
<1>2. /\ live' = 0 /\ unloading' = FALSE /\ store' = [g \in Loads |-> IdleStore]
      /\ UNCHANGED <<loads, changes, known, confirmed, outlived, failure>>
  BY DEF Down
<1>3. Basic'
  BY <1>1, <1>2, IdleFacts DEF Basic, Types
<1>4. ASSUME ~outlived' PROVE Calm'
  <2>1. Calm
    BY <1>2, <1>4 DEF IInv
  <2>2. QED  BY <1>2, <2>1, IdleFacts DEF Calm
<1>5. QED  BY <1>3, <1>4 DEF IInv

LEMMA CrashInv ==
    ASSUME IInv, Crash
    PROVE  IInv'
BY DownInv DEF IInv, Basic, Types, Calm, Crash

LEMMA StopInv ==
    ASSUME IInv, Stop
    PROVE  IInv'
<1>1. Types
  BY DEF IInv, Basic
<1>2. CASE Busy = {}
  BY <1>1, <1>2, DownInv DEF Stop, Types, Calm
<1>3. CASE Busy # {}
  <2>1. PICK g \in Busy : file' = LastData(g)
    BY <1>3 DEF Stop
  <2>2. g \in Loads /\ (HasData(store[g]) \/ store[g].writing # {})
    BY <2>1 DEF Busy
  <2>3. file' \in SUBSET Changes
    BY <1>1, <2>1, <2>2, LastDataFacts
  <2>4. ASSUME Calm, failure \in {"none", "healed"} PROVE confirmed \subseteq file'
    <3>1. g = loads /\ (live # 0 \/ unloading)
      BY <1>1, <2>2, <2>4, BusyIsActive DEF Quiet
    <3>2. KnownOK(store[g], known[g]) /\ ConfirmedOK(store[g], known[g])
      BY <2>4, <3>1 DEF Calm
    <3>3. LastData(g) = known[g] \/ store[g].writing = {LastData(g)}
      BY <1>1, <2>2, <3>2, LastDataFacts
    <3>4. QED  BY <2>1, <3>2, <3>3 DEF ConfirmedOK
  <2>5. QED  BY <2>3, <2>4, DownInv DEF Stop
<1>4. QED  BY <1>2, <1>3

\* A step that leaves alone what the invariant speaks of.
LEMMA SameInv ==
    ASSUME IInv,
           UNCHANGED <<live, loads, unloading, changes, known, store, file, confirmed, failure>>,
           outlived' \in BOOLEAN, ~outlived' => ~outlived
    PROVE  IInv'
<1>1. Basic'
  BY DEF IInv, Basic, Types
<1>2. Calm => Calm'
  BY DEF Calm, Active, KnownOK, ConfirmedOK
<1>3. QED  BY <1>1, <1>2 DEF IInv

LEMMA StepInv == IInv /\ [Next]_vars => IInv'
<1> SUFFICES ASSUME IInv, [Next]_vars PROVE IInv'
  OBVIOUS
<1>1. outlived \in BOOLEAN
  BY DEF IInv, Basic, Types
<1>2. ASSUME NEW g \in Loads, Read(g) PROVE IInv'
  <2>1. CASE UNCHANGED <<changes, known, store, failure>>
    BY <1>1, <1>2, <2>1, SameInv DEF Read
  <2>2. CASE NewChange(g) /\ store' = [store EXCEPT ![g] = Schedule(@)]
    BY <1>1, <1>2, <2>2, LatestInv DEF Read
  <2>3. QED  BY <1>2, <2>1, <2>2 DEF Read
<1>3. ASSUME NEW g \in Loads, DailyRollover(g) PROVE IInv'
  BY <1>1, <1>3, LatestInv DEF DailyRollover
<1>4. ASSUME NEW g \in Loads, UserReset(g) PROVE IInv'
  BY <1>4, UserResetInv
<1>5. ASSUME NEW g \in Loads, WorkdayTick(g) PROVE IInv'
  BY <1>1, <1>5, SameInv DEF WorkdayTick
<1>6. ASSUME NEW g \in Loads, WorkdayAnswer(g) PROVE IInv'
  <2>1. outlived' \in BOOLEAN /\ (~outlived' => ~outlived /\ live = g)
    BY <1>1, <1>6 DEF WorkdayAnswer
  <2>2. CASE UNCHANGED <<changes, known, store, failure>>
    BY <1>6, <2>1, <2>2, SameInv DEF WorkdayAnswer
  <2>3. CASE NewChange(g) /\ store' = [store EXCEPT ![g] = Schedule(@)]
    BY <1>6, <2>1, <2>3, LatestInv DEF WorkdayAnswer
  <2>4. QED  BY <1>6, <2>2, <2>3 DEF WorkdayAnswer
<1>7. ASSUME NEW g \in Loads, TimerFires(g) PROVE IInv'
  BY <1>7, TimerFiresInv
<1>8. ASSUME NEW g \in Loads, BeginWrite(g) PROVE IInv'
  BY <1>8, BeginWriteInv
<1>9. ASSUME NEW g \in Loads, EndWrite(g) PROVE IInv'
  BY <1>9, WriteOverInv DEF EndWrite
<1>10. ASSUME NEW g \in Loads, WriteFails(g) PROVE IInv'
  BY <1>10, WriteOverInv DEF WriteFails
<1>11. ASSUME NEW g \in Loads, Unload(g) PROVE IInv'
  BY <1>11, UnloadInv
<1>12. CASE UNCHANGED vars
  BY <1>1, <1>12, SameInv DEF vars
<1>13. QED
  BY <1>2, <1>3, <1>4, <1>5, <1>6, <1>7, <1>8, <1>9, <1>10, <1>11, <1>12,
     LoadInv, CrashInv, StopInv DEF Next

-----------------------------------------------------------------------------
(* For every number of changes and loads: what the loaded coordinator knows   *)
(* is in the file or will be written by a write that is certain to come, as   *)
(* long as no Workday tick has outlived its coordinator and no failed write   *)
(* waits for the next change.                                                 *)
THEOREM NothingUnsaved == Spec => []NothingLeftUnsaved
<1>1. IInv => NothingLeftUnsaved
  <2> SUFFICES ASSUME IInv, live # 0, ~outlived, failure # "open"
               PROVE  LET s == store[live]
                      IN  /\ HasData(s) => s.armed \/ s.waiting # << >>
                          /\ IF HasData(s) \/ s.writing # {} THEN LastData(live) = known[live]
                                                            ELSE file = known[live]
    BY DEF NothingLeftUnsaved
  <2>1. Types /\ Calm /\ live = loads /\ loads \in Loads
    BY LoadsFacts DEF IInv, Basic
  <2>2. StoreOK(store[loads]) /\ KnownOK(store[loads], known[loads])
    BY <2>1 DEF IInv, Basic, Calm
  <2>3. ASSUME HasData(store[loads]) PROVE LastData(loads) = known[loads]
    BY <2>2, <2>3 DEF LastData, HasData, KnownOK
  <2>4. ASSUME ~HasData(store[loads]), store[loads].writing # {} PROVE LastData(loads) = known[loads]
    <3>1. store[loads].writing = {known[loads]}
      BY <2>2, <2>4 DEF KnownOK
    <3>2. QED  BY <2>4, <3>1 DEF LastData, HasData
  <2>5. ASSUME ~HasData(store[loads]), store[loads].writing = {} PROVE file = known[loads]
    BY <2>2, <2>5 DEF KnownOK
  <2>6. QED  BY <2>1, <2>2, <2>3, <2>4, <2>5 DEF StoreOK
<1>2. QED  BY <1>1, InitInv, StepInv, PTL DEF Spec

(* And no reload, crash or stop leaves a coordinator that does not know of a  *)
(* reset whose action has returned, as long as no Workday tick has outlived   *)
(* its coordinator and none of them came between a failed write and the next. *)
THEOREM ResetSurvives == Spec => []ResetSurvivesUnlessOutlived
<1>1. IInv => ResetSurvivesUnlessOutlived
  <2> SUFFICES ASSUME IInv, ~outlived, failure # "lost", live # 0
               PROVE  confirmed \subseteq known[live]
    BY DEF ResetSurvivesUnlessOutlived, ConfirmedResetSurvives
  <2>1. Calm /\ live = loads
    BY LoadsFacts DEF IInv, Basic
  <2>2. QED  BY <2>1 DEF Calm, ConfirmedOK
<1>2. QED  BY <1>1, InitInv, StepInv, PTL DEF Spec
=================================================================================
