-------------------------- MODULE StatisticsStore --------------------------
(***************************************************************************)
(* How the statistics reach their file, over reloads, crashes and stops.    *)
(*                                                                         *)
(* Each load of the entry makes a coordinator with its own Store for the    *)
(* same file.  What a coordinator knows is the set of changes its           *)
(* statistics include.  A Store holds at most one piece of data to write,   *)
(* fixed or to be captured when written, a timer, and a lock whose waiters  *)
(* it serves in order.                                                      *)
(***************************************************************************)
EXTENDS Integers, Sequences, FiniteSets

CONSTANTS
    MaxChanges,  \* bound: changes of the statistics
    MaxLoads,    \* bound: loads of the entry
    Workday,     \* a Workday entity is configured: its tick awaits a service call
    Crashes,     \* Home Assistant may crash
    WriteErrors  \* one write may fail

ASSUME StoreAssumption ==
    /\ MaxChanges \in Nat /\ MaxLoads \in Nat \ {0} /\ Workday \in BOOLEAN /\ Crashes \in BOOLEAN
    /\ WriteErrors \in BOOLEAN

Changes == 1 .. MaxChanges
Loads   == 1 .. MaxLoads

\* Who waits for a lock: a user action (its change), an unload, or a timer.
Unloading == 0
Timer     == -1
Tickets   == Changes \union {Unloading, Timer}

VARIABLES
    live,       \* the loaded coordinator, 0 for none
    loads,      \* coordinators made so far
    up,         \* Home Assistant runs
    unloading,  \* the unload waits for its save
    changes,    \* changes made so far
    known,      \* for each coordinator, the changes in its statistics
    store,      \* for each coordinator, its Store and pending flag
    awaiting,   \* for each coordinator, whether a Workday tick is suspended
    file,       \* the changes in the file
    confirmed,  \* history: changes whose user action has returned
    outlived,   \* history: a Workday tick has resumed on an unloaded coordinator
    failure     \* history: "none" of a write, "open", "retried", "healed" or "lost"

vars == <<live, loads, up, unloading, changes, known, store, awaiting, file, confirmed, outlived, failure>>

IdleStore ==
    [pending |-> FALSE,   \* _statistics_save_pending
     latest  |-> FALSE,   \* the data to write is captured when it is written
     fixed   |-> {},      \* or it is this one (a set of at most one)
     armed   |-> FALSE,   \* the write timer
     waiting |-> << >>,   \* tickets waiting for the lock
     writing |-> {},      \* the data being written (a set of at most one)
     owner   |-> Timer]   \* the ticket that writes it

HasData(s) == s.latest \/ s.fixed # {}

-----------------------------------------------------------------------------
\* _schedule_statistics_save: the first pending deadline is kept.
Schedule(s) ==
    IF s.pending THEN s
    ELSE [s EXCEPT !.pending = TRUE, !.latest = TRUE, !.fixed = {}, !.armed = TRUE]

\* _schedule_statistics_save(immediate=True).
ScheduleNow(s) == [s EXCEPT !.pending = TRUE, !.latest = TRUE, !.fixed = {}, !.armed = TRUE]

(* _async_save_statistics up to its first await: capture the data, clear the *)
(* flag, queue for the lock.                                                 *)
Flush(s, data, ticket) ==
    [s EXCEPT !.pending = FALSE, !.latest = FALSE, !.fixed = {data},
              !.waiting = Append(@, ticket)]

Init ==
    /\ live = 1 /\ loads = 1 /\ up = TRUE /\ unloading = FALSE
    /\ changes = 0
    /\ known = [g \in Loads |-> {}]
    /\ store = [g \in Loads |-> IdleStore]
    /\ awaiting = [g \in Loads |-> FALSE]
    /\ file = {} /\ confirmed = {} /\ outlived = FALSE /\ failure = "none"

\* What a failed write did not save is in the data to be written again.
Retried == IF failure = "open" THEN "retried" ELSE failure

NewChange(g) ==
    /\ changes < MaxChanges
    /\ changes' = changes + 1
    /\ known' = [known EXCEPT ![g] = @ \union {changes'}]
    /\ failure' = Retried

\* A source event or tick; its reading may change the statistics.
Read(g) ==
    /\ live = g
    /\ \/ UNCHANGED <<changes, known, store, failure>>
       \/ /\ NewChange(g)
          /\ store' = [store EXCEPT ![g] = Schedule(@)]
    /\ UNCHANGED <<live, loads, up, unloading, awaiting, file, confirmed, outlived>>

DailyRollover(g) ==
    /\ live = g
    /\ NewChange(g)
    /\ store' = [store EXCEPT ![g] = ScheduleNow(@)]
    /\ UNCHANGED <<live, loads, up, unloading, awaiting, file, confirmed, outlived>>

\* A reset whose action returns once its save is scheduled.
UserResetUnawaited(g) ==
    /\ live = g
    /\ NewChange(g)
    /\ store' = [store EXCEPT ![g] = ScheduleNow(@)]
    /\ confirmed' = confirmed \union {changes'}
    /\ UNCHANGED <<live, loads, up, unloading, awaiting, file, outlived>>

(* A confirmed reset (meter, flow or month): it changes the statistics, its  *)
(* read may already have scheduled a save, and it waits for its own.         *)
UserReset(g) ==
    /\ live = g
    /\ NewChange(g)
    /\ store' = [store EXCEPT ![g] = Flush(Schedule(@), known'[g], changes')]
    /\ UNCHANGED <<live, loads, up, unloading, awaiting, file, confirmed, outlived>>

\* The Workday tick awaits the calendar; unloading does not cancel it.
WorkdayTick(g) ==
    /\ Workday /\ live = g /\ ~awaiting[g]
    /\ awaiting' = [awaiting EXCEPT ![g] = TRUE]
    /\ UNCHANGED <<live, loads, up, unloading, changes, known, store, file, confirmed, outlived, failure>>

\* It resumes with a read, whichever coordinator is loaded by then.
WorkdayAnswer(g) ==
    /\ up /\ awaiting[g]
    /\ awaiting' = [awaiting EXCEPT ![g] = FALSE]
    /\ outlived' = (outlived \/ live # g)
    /\ \/ UNCHANGED <<changes, known, store, failure>>
       \/ /\ NewChange(g)
          /\ store' = [store EXCEPT ![g] = Schedule(@)]
    /\ UNCHANGED <<live, loads, up, unloading, file, confirmed>>

-----------------------------------------------------------------------------
TimerFires(g) ==
    /\ up /\ store[g].armed
    /\ store' = [store EXCEPT ![g].armed = FALSE, ![g].waiting = Append(@, Timer)]
    /\ UNCHANGED <<live, loads, up, unloading, changes, known, awaiting, file, confirmed, outlived,
                   failure>>

\* A user action or unload that waited for a write returns.
Returns(ticket) ==
    /\ confirmed' = confirmed \union ({ticket} \intersect Changes)
    /\ unloading' = (unloading /\ ticket # Unloading)

\* A write that forgets to clear the pending flag.
BeginWriteKeepingFlag(g) ==
    LET s == store[g]
        t == Head(s.waiting)
    IN  /\ up /\ s.writing = {} /\ s.waiting # << >>
        /\ IF HasData(s)
           THEN /\ store' = [store EXCEPT ![g] =
                       [@ EXCEPT !.latest = FALSE, !.fixed = {}, !.armed = FALSE,
                                 !.waiting = Tail(@), !.owner = t,
                                 !.writing = IF s.latest THEN {known[g]} ELSE s.fixed]]
                /\ UNCHANGED <<unloading, confirmed>>
           ELSE /\ store' = [store EXCEPT ![g] =
                                [@ EXCEPT !.armed = FALSE, !.waiting = Tail(@)]]
                /\ Returns(t)
        /\ UNCHANGED <<live, loads, up, changes, known, awaiting, file, outlived, failure>>

(* The lock is granted: the timer is cancelled and the data taken, the       *)
(* latest captured now (_statistics_data_for_save); if another write has     *)
(* taken it already there is nothing left to do.                             *)
BeginWrite(g) ==
    LET s == store[g]
        t == Head(s.waiting)
    IN  /\ up /\ s.writing = {} /\ s.waiting # << >>
        /\ IF HasData(s)
           THEN /\ store' = [store EXCEPT ![g] =
                       [s EXCEPT !.pending = s.pending /\ ~s.latest,
                                 !.latest = FALSE, !.fixed = {}, !.armed = FALSE,
                                 !.waiting = Tail(s.waiting), !.owner = t,
                                 !.writing = IF s.latest THEN {known[g]} ELSE s.fixed]]
                /\ UNCHANGED <<unloading, confirmed>>
           ELSE /\ store' = [store EXCEPT ![g] =
                                [s EXCEPT !.armed = FALSE, !.waiting = Tail(s.waiting)]]
                /\ Returns(t)
        /\ UNCHANGED <<live, loads, up, changes, known, awaiting, file, outlived, failure>>

EndWrite(g) ==
    /\ up /\ store[g].writing # {}
    /\ file' = UNION store[g].writing
    /\ store' = [store EXCEPT ![g].writing = {}]
    /\ failure' = IF failure = "retried" THEN "healed" ELSE failure
    /\ Returns(store[g].owner)
    /\ UNCHANGED <<live, loads, up, changes, known, awaiting, outlived>>

\* The Store logs an error of the write; who waited for it is not told.
WriteFails(g) ==
    /\ WriteErrors /\ failure = "none"
    /\ up /\ store[g].writing # {}
    /\ store' = [store EXCEPT ![g].writing = {}]
    /\ failure' = IF HasData(store[g]) THEN "retried" ELSE "open"
    /\ Returns(store[g].owner)
    /\ UNCHANGED <<live, loads, up, changes, known, awaiting, file, outlived>>

\* Unloading removes the listeners, then saves and waits for it.
Unload(g) ==
    /\ live = g /\ loads < MaxLoads
    /\ live' = 0 /\ unloading' = TRUE
    /\ store' = [store EXCEPT ![g] = Flush(@, known[g], Unloading)]
    /\ failure' = Retried
    /\ UNCHANGED <<loads, up, changes, known, awaiting, file, confirmed, outlived>>

\* Loading again restores what the file holds.
Load ==
    /\ live = 0 /\ ~unloading /\ loads < MaxLoads
    /\ loads' = loads + 1 /\ live' = loads'
    /\ up' = TRUE
    /\ known' = [known EXCEPT ![loads'] = file]
    /\ failure' = IF failure \in {"open", "retried"} THEN "lost" ELSE failure
    /\ UNCHANGED <<unloading, changes, store, awaiting, file, confirmed, outlived>>

\* Everything in memory is gone.
Down ==
    /\ up /\ loads < MaxLoads
    /\ up' = FALSE /\ live' = 0 /\ unloading' = FALSE
    /\ store' = [g \in Loads |-> IdleStore]
    /\ awaiting' = [g \in Loads |-> FALSE]
    /\ UNCHANGED <<loads, changes, known, confirmed, outlived, failure>>

Crash == Crashes /\ Down /\ UNCHANGED file

LastData(g) ==
    IF store[g].latest THEN known[g]
    ELSE UNION (IF store[g].fixed # {} THEN store[g].fixed ELSE store[g].writing)

Busy == {g \in Loads : HasData(store[g]) \/ store[g].writing # {}}

\* On a regular stop every Store with data makes its final write, in any order.
Stop ==
    /\ Down
    /\ IF Busy = {} THEN file' = file ELSE \E g \in Busy : file' = LastData(g)

Next ==
    \/ \E g \in Loads :
          \/ Read(g) \/ DailyRollover(g) \/ UserReset(g)
          \/ WorkdayTick(g) \/ WorkdayAnswer(g)
          \/ TimerFires(g) \/ BeginWrite(g) \/ EndWrite(g) \/ WriteFails(g) \/ Unload(g)
    \/ Load \/ Crash \/ Stop

(* The event loop runs timers, grants locks and finishes writes; nothing     *)
(* makes the user, the sources or a stop do anything.                        *)
Fairness == \A g \in Loads : WF_vars(TimerFires(g)) /\ WF_vars(BeginWrite(g)) /\ WF_vars(EndWrite(g))

Spec == Init /\ [][Next]_vars /\ Fairness

-----------------------------------------------------------------------------
(* Whatever the loaded coordinator knows is in the file or will be written   *)
(* by a write that is certain to come, as long as no Workday tick has        *)
(* resumed on an unloaded coordinator; what a failed write did not save is   *)
(* again so from the next change on.                                         *)
NothingLeftUnsaved ==
    live # 0 /\ ~outlived /\ failure # "open" =>
        LET s == store[live]
        IN  /\ HasData(s) => s.armed \/ s.waiting # << >>
            /\ IF HasData(s) \/ s.writing # {} THEN LastData(live) = known[live]
                                              ELSE file = known[live]

(* A confirmed reset "survives midnight, missing readings and restarts"      *)
(* (meter-reading-protection.md:6): once its action has returned, no reload, *)
(* crash or stop leaves a coordinator that does not know of it.              *)
ConfirmedResetSurvives == live # 0 => confirmed \subseteq known[live]

(* The same, as long as no Workday tick has resumed on an unloaded           *)
(* coordinator and no reload or crash came between a failed write and the    *)
(* next one.                                                                 *)
ResetSurvivesUnlessOutlived == ~outlived /\ failure # "lost" => ConfirmedResetSurvives

(* While Home Assistant runs, every change reaches the file in the end, again *)
(* unless a Workday tick has outlived its coordinator, or a write has failed  *)
(* with no change since.                                                     *)
EventuallySaved ==
    \A c \in Changes : (live # 0 /\ c \in known[live]) ~> (c \in file \/ ~up \/ outlived \/ failure = "open")
=============================================================================
