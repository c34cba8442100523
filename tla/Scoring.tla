-------------------------------- MODULE Scoring --------------------------------
(***************************************************************************)
(* How one user's risk score comes about: the event consumers score the    *)
(* user's events (ScoringEngine.process_event, services/scoring.py), each  *)
(* in the database session of its batch, over the user's guard_users row   *)
(* and abuse_events entries.  The sweep's and the admins' status changes   *)
(* matter here only because they touch the row's updated_at.               *)
(*                                                                         *)
(* A tick of the clock is one half-life of the decay.  A weight that is a  *)
(* multiple of 2^MaxTime keeps every score a whole number.                 *)
(***************************************************************************)
EXTENDS Integers, FiniteSets, FiniteSetsExt, Functions

CONSTANTS
    Consumers,      \* EventConsumer tasks, over all worker processes
    DeviceWeight,   \* weights.device_limit_exceeded
    OtherWeight,    \* the weight of any other detector
    RepeatWeight,   \* weights.repeated_suspicious_behavior
    MinGap,         \* repeat_offense_min_gap_seconds, in ticks
    Limits,         \* the device limits the user is given over time
    MaxDevices,     \* bound: devices seen at once
    MaxLag,         \* bound: age of an event when it is scored
    MaxTime,        \* bound: the clock stops here
    MaxWork,        \* bound: scored events
    MaxChanges,     \* bound: status changes by the sweep and by admins
    NoSession,      \* the holder of the free lock
    NoRow           \* a row that a session has not loaded or not written

ASSUME ScoringAssumption ==
    /\ DeviceWeight \in Nat \ {0} /\ OtherWeight \in Nat \ {0} /\ RepeatWeight \in Nat
    /\ MinGap \in Nat
    /\ Limits # {} /\ Limits \subseteq Nat
    /\ MaxDevices \in Nat /\ MaxLag \in Nat /\ MaxTime \in Nat
    /\ MaxWork \in Nat /\ MaxChanges \in Nat
    /\ NoSession \notin Consumers

Never == -1                         \* last_abuse_event_at is NULL

Times == 0..MaxTime

Rows == [score : Nat, updated : Times, lastAbuse : Times \cup {Never}]

\* abuse_events; the id is created_at, at is the time of the scored event.
Entries == [id : Nat, detector : {"device_limit", "other", "repeat"},
            points : Nat, devices : 0..MaxDevices, at : Times]

ASSUME NoRowAssumption == NoRow \notin Rows

\* What detectors made of a connection: how many devices against which limit,
\* and whether any other detector triggered.
Events == [at : Times, devices : 0..MaxDevices, limit : Limits, other : BOOLEAN]

VARIABLES
    \* committed tables
    row,            \* the user's row in guard_users
    log,            \* the user's rows in abuse_events
    lock,           \* the session that holds the row's lock
    \* sessions
    pc,
    event,          \* the event being scored
    points,         \* its device_limit points, after _apply_device_limit_delta
    view,           \* the ORM's in-memory copy of the row
    staged,         \* the row as the session has updated it
    newLog,         \* entries inserted and not committed
    \* clock and bounded counters
    now, work, made, changes,
    \* history, read by the properties only
    overlapped      \* two sessions that score the user have been open at the same
                    \* time, or one that changes the status and one that scores

database == <<row, log>>
session  == <<pc, event, points, view, staged, newLog>>
counters == <<now, work, made, changes>>
vars     == <<database, lock, session, counters, overlapped>>

NoEvent == CHOOSE e \in Events : TRUE

Positive(n) == IF n > 0 THEN n ELSE 0

Decay(score, elapsed) ==
    IF score <= 0 \/ elapsed <= 0 THEN Positive(score) ELSE score \div 2^elapsed

\* effective_score()
Effective(r, time) == Decay(r.score, time - r.updated)

-------------------------------------------------------------------------------
(* process_event() *)

\* Slips to compare with: every device over the limit counts every time; fewer
\* devices than before give points back.
OverNow(devices, limit, last) == Positive(devices - limit)

DeltaEitherWay(devices, limit, last) == Positive(devices - limit) - Positive(last - limit)

\* How many more devices are over the limit than when it was last scored.
NewlyOver(devices, limit, last) ==
    Positive(Positive(devices - limit) - Positive(last - limit))

\* last_for_detector(): the session sees the committed entries and its own.
LastDevices(c, limit) ==
    LET scored == {e \in log \cup newLog[c] : e.detector = "device_limit"}
    IN  IF scored = {} THEN limit
        ELSE (CHOOSE e \in scored : \A f \in scored : f.id <= e.id).devices

\* Detectors have triggered: _apply_device_limit_delta() drops device_limit
\* from them unless there are new devices over the limit.  If nothing is left,
\* the event is done with.
Begin(c, e) ==
    LET over == NewlyOver(e.devices, e.limit, LastDevices(c, e.limit))
    IN  /\ pc[c] \in {"idle", "open"}
        /\ work < MaxWork
        /\ now - MaxLag <= e.at /\ e.at <= now
        /\ e.devices > e.limit \/ e.other
        /\ IF over # 0 \/ e.other
           THEN /\ event' = [event EXCEPT ![c] = e]
                /\ points' = [points EXCEPT ![c] = over * DeviceWeight]
                /\ pc' = [pc EXCEPT ![c] = "loading"]
           ELSE /\ pc' = [pc EXCEPT ![c] = "open"]
                /\ UNCHANGED <<event, points>>
        /\ work' = work + 1
        /\ overlapped' = (overlapped \/ \E d \in Consumers \ {c} : pc[d] # "idle")
        /\ UNCHANGED <<database, lock, view, staged, newLog, now, made, changes>>

\* The row as session c sees it.
Visible(c) == IF staged[c] # NoRow THEN staged[c] ELSE row

\* get_or_create(): the row is read, or is still in the session's memory, which
\* keeps a row it has flushed only as long as somebody refers to it.
Load(c) ==
    /\ pc[c] = "loading"
    /\ \/ view' = [view EXCEPT ![c] = Visible(c)]
       \/ view[c] # NoRow /\ UNCHANGED view
    /\ pc' = [pc EXCEPT ![c] = "scoring"]
    /\ UNCHANGED <<database, lock, event, points, staged, newLog, counters,
                   overlapped>>

\* A slip to compare with: any earlier offence makes this one a repetition.
AnyEarlier(c) == Effective(view[c], event[c].at) > 0 /\ view[c].lastAbuse # Never

\* The user still has points, and the last offence is some time ago.
Repeated(c) ==
    /\ Effective(view[c], event[c].at) > 0
    /\ view[c].lastAbuse # Never
    /\ event[c].at - view[c].lastAbuse >= MinGap

Bonus(c) == IF Repeated(c) THEN RepeatWeight ELSE 0

OtherPoints(c) == IF event[c].other THEN OtherWeight ELSE 0

\* A slip to compare with: the points replace the score.
TotalOfThisEvent(c) == points[c] + OtherPoints(c) + Bonus(c)

Total(c) ==
    Effective(view[c], event[c].at) + points[c] + OtherPoints(c) + Bonus(c)

Entry(c, i, detector, score) ==
    [id |-> made + i, detector |-> detector, points |-> score,
     devices |-> IF detector = "device_limit" THEN event[c].devices ELSE 0,
     at |-> event[c].at]

\* A slip to compare with: the bonus is not recorded.
EntriesWithoutBonus(c) ==
    (IF points[c] # 0 THEN {Entry(c, 1, "device_limit", points[c])} ELSE {})
    \cup (IF event[c].other THEN {Entry(c, 2, "other", OtherWeight)} ELSE {})

\* One entry per triggered detector, and one for the bonus.
NewEntries(c) ==
    (IF points[c] # 0 THEN {Entry(c, 1, "device_limit", points[c])} ELSE {})
    \cup (IF event[c].other THEN {Entry(c, 2, "other", OtherWeight)} ELSE {})
    \cup (IF Repeated(c) THEN {Entry(c, 3, "repeat", RepeatWeight)} ELSE {})

\* process_event()'s variables go out of scope.
EndEvent(c) ==
    /\ event' = [event EXCEPT ![c] = NoEvent]
    /\ points' = [points EXCEPT ![c] = 0]

\* The entries are inserted and the row is updated, under its lock: a column
\* that keeps the value the session loaded is not part of the UPDATE, and
\* updated_at is the time of the UPDATE.
Score(c) ==
    LET new == [score |-> Total(c), updated |-> now, lastAbuse |-> event[c].at]
    IN  /\ pc[c] = "scoring"
        /\ lock \in {NoSession, c}
        /\ lock' = c
        /\ staged' = [staged EXCEPT ![c] =
              [score     |-> IF new.score = view[c].score
                             THEN Visible(c).score ELSE new.score,
               updated   |-> now,
               lastAbuse |-> IF new.lastAbuse = view[c].lastAbuse
                             THEN Visible(c).lastAbuse ELSE new.lastAbuse]]
        /\ view' = [view EXCEPT ![c] = new]
        /\ newLog' = [newLog EXCEPT ![c] = @ \cup NewEntries(c)]
        /\ made' = made + 3
        /\ EndEvent(c)
        /\ pc' = [pc EXCEPT ![c] = "open"]
        /\ UNCHANGED <<database, now, work, changes, overlapped>>

Close(c) ==
    /\ lock' = IF lock = c THEN NoSession ELSE lock
    /\ pc' = [pc EXCEPT ![c] = "idle"]
    /\ view' = [view EXCEPT ![c] = NoRow]
    /\ staged' = [staged EXCEPT ![c] = NoRow]
    /\ newLog' = [newLog EXCEPT ![c] = {}]
    /\ EndEvent(c)
    /\ UNCHANGED <<counters, overlapped>>

\* The end of the batch.
Commit(c) ==
    /\ pc[c] = "open"
    /\ row' = Visible(c)
    /\ log' = log \cup newLog[c]
    /\ Close(c)

\* The process dies or a later event of the batch raises: the stream delivers
\* the events again, in another batch.
RollBack(c) ==
    /\ pc[c] # "idle"
    /\ Close(c)
    /\ UNCHANGED database

-------------------------------------------------------------------------------
\* The sweep or an admin commits a status: the row's updated_at changes with it.
\* It is the time at which the UPDATE was made, before it waited for the row's
\* lock: if a session that scores the user has held the lock meanwhile, the row
\* is dated back.  (That the date of a session's own UPDATE precedes such a wait,
\* too, Score leaves out: it only waits for sessions that overlap it.)
StatusChange ==
    /\ changes < MaxChanges
    /\ lock = NoSession
    /\ changes' = changes + 1
    /\ \E asked \in Times :
          /\ asked <= now
          /\ row' = [row EXCEPT !.updated = asked]
          /\ overlapped' = (overlapped \/ asked < row.updated)
    /\ UNCHANGED <<log, lock, session, now, work, made>>

Tick ==
    /\ now < MaxTime
    /\ now' = now + 1
    /\ UNCHANGED <<database, lock, session, work, made, changes, overlapped>>

\* The bounds are used up and nobody is at work.
Quiet ==
    /\ now = MaxTime /\ work = MaxWork
    /\ \A c \in Consumers : pc[c] = "idle"
    /\ UNCHANGED vars

Init ==
    /\ row = [score |-> 0, updated |-> 0, lastAbuse |-> Never]
    /\ log = {}
    /\ lock = NoSession
    /\ pc = [c \in Consumers |-> "idle"]
    /\ event = [c \in Consumers |-> NoEvent]
    /\ points = [c \in Consumers |-> 0]
    /\ view = [c \in Consumers |-> NoRow]
    /\ staged = [c \in Consumers |-> NoRow]
    /\ newLog = [c \in Consumers |-> {}]
    /\ now = 0 /\ work = 0 /\ made = 0 /\ changes = 0
    /\ overlapped = FALSE

Next ==
    \/ \E c \in Consumers :
          \/ \E e \in Events : Begin(c, e)
          \/ Load(c) \/ Score(c) \/ Commit(c) \/ RollBack(c)
    \/ StatusChange
    \/ Tick
    \/ Quiet

Spec == Init /\ [][Next]_vars

-------------------------------------------------------------------------------
(* Properties *)

TypeOK ==
    /\ row \in Rows
    /\ log \subseteq Entries
    /\ lock \in Consumers \cup {NoSession}
    /\ pc \in [Consumers -> {"idle", "loading", "scoring", "open"}]
    /\ event \in [Consumers -> Events]
    /\ points \in [Consumers -> Nat]
    /\ view \in [Consumers -> Rows \cup {NoRow}]
    /\ staged \in [Consumers -> Rows \cup {NoRow}]
    /\ newLog \in [Consumers -> SUBSET Entries]
    /\ now \in Times /\ work \in 0..MaxWork /\ made \in Nat /\ changes \in 0..MaxChanges
    /\ overlapped \in BOOLEAN

PointsOf(entries) == SumFunction([e \in entries |-> e.points])

DecayedPointsOf(entries, time) ==
    SumFunction([e \in entries |-> Decay(e.points, time - e.at)])

\* What the recorded offences come to when each one decays from the moment it
\* happened.
Decayed == DecayedPointsOf(log, now)

\* No offence is forgiven early: the score, which is decayed lazily from one
\* offence to the next and restarted with every update of the row, is never
\* less than the recorded offences decayed one by one, whatever rolls back,
\* arrives late or touches the row, while no two sessions score the user at
\* the same time and none that changes the status waits for one that does.
NothingForgivenEarly == overlapped \/ Effective(row, now) >= Decayed

\* "Every triggered detector's score is summed" (docs/ARCHITECTURE.md): the
\* same whatever sessions overlap.  The score is read before the row is
\* locked, and the later UPDATE erases the points of the earlier one.
NoPointsLost == Effective(row, now) >= Decayed

\* abuse_events is "the audit trail behind every risk_score change": the score
\* never exceeds the points recorded, whatever sessions race or roll back.
ScoreIsExplained == row.score <= PointsOf(log)

DeviceEntries == {e \in log : e.detector = "device_limit"}

\* A device over the limit is scored once: however often the devices connect,
\* whatever limits the user is given in between and whatever batches are rolled
\* back and delivered again, the points of device_limit add up to no more than
\* one weight for each device beyond the lowest limit.  (Sessions that overlap
\* both read the entries before the row is locked, and may score one twice.)
DeviceScoredOnce ==
    LET most == Max({Min(Limits)} \cup {e.devices : e \in DeviceEntries})
    IN  overlapped \/ PointsOf(DeviceEntries) <= DeviceWeight * (most - Min(Limits))

\* "Repeated" means again after a gap: no offence that was recorded before a
\* bonus happened less than the gap before the offence that earned it, while
\* sessions do not overlap and events are scored in order (a late event sets
\* last_abuse_event_at back, and the burst seems to resume after a gap).
InTimeOrder == \A e, f \in log : e.id < f.id => e.at <= f.at

BonusOnlyAfterGap ==
    \A bonus, e \in log :
        bonus.detector = "repeat" /\ e.id < bonus.id /\ e.at < bonus.at
            => bonus.at - e.at >= MinGap \/ overlapped \/ ~InTimeOrder

================================================================================
