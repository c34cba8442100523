------------------------------ MODULE Enforcement ------------------------------
(***************************************************************************)
(* How the status of an account is decided, stored and enforced: the       *)
(* worker's event consumers (apply/_escalate), its expiry sweep            *)
(* (reinstate_expired) and the admin API (manual_override, blacklist       *)
(* review), each in a database session of its own, over one guard_users    *)
(* table, one blacklist_entries table, and two external systems that hold  *)
(* a copy of the decision: Marzban (the account is on or off) and the shop *)
(* (the account is shown as banned or not).                                *)
(*                                                                         *)
(* Sessions run at READ COMMITTED.  A SELECT sees the committed row, takes *)
(* no lock, and its answer stays in the session's memory.  An UPDATE takes *)
(* the row's lock until the session ends and, as the ORM emits it, sets    *)
(* only the columns whose value differs from the one the session loaded.   *)
(* A call to Marzban or to the shop takes effect at once and no rollback   *)
(* undoes it.                                                              *)
(***************************************************************************)
EXTENDS MitigationPolicy, FiniteSets

CONSTANTS
    Users,          \* accounts, each with a row in guard_users
    Consumers,      \* EventConsumer tasks, over all worker processes
    Sweepers,       \* expiry sweeps, one per worker process
    Admins,         \* concurrent requests to the admin API
    Refused,        \* users whose Marzban call always fails
    Duration,       \* auto_block.duration, in ticks of the clock
    MaxTime,        \* bound: the clock stops here
    MaxWork,        \* bound: scored events and admin requests
    MaxFaults,      \* bound: crashes, failed and 404 calls, lost callbacks
    NoSession,      \* the holder of a free lock
    NoRow           \* a row that a session has not loaded or not written

Sessions == Consumers \cup Sweepers \cup Admins

ASSUME EnforcementAssumption ==
    /\ Consumers \cap Sweepers = {}
    /\ Consumers \cap Admins = {}
    /\ Sweepers \cap Admins = {}
    /\ NoSession \notin Sessions
    /\ Users # {}
    /\ Refused \subseteq Users
    /\ AutoBlockEnabled \in BOOLEAN
    /\ MinLevel \in 3..5
    /\ DeviceLimitWarnOnly \in BOOLEAN
    /\ Duration \in Nat
    /\ MaxTime \in Nat
    /\ MaxWork \in Nat
    /\ MaxFaults \in Nat

NoExpiry == -1                      \* status_expires_at is NULL

Rows == [status : Statuses, expires : Nat \cup {NoExpiry}]

ASSUME NoRowAssumption == NoRow \notin Rows

VARIABLES
    \* committed tables
    row,            \* guard_users: status and status_expires_at
    entries,        \* blacklist_entries: [id, user]
    reviewed,       \* ids of the entries whose reviewed flag is set
    lock,           \* the session that holds the lock of a user's row
    \* external systems
    account,        \* Marzban's status of the account
    shop,           \* TRUE when the shop shows the account as banned
    \* sessions
    pc,             \* where the session's handler stands
    current,        \* the user the handler is at work on
    goal,           \* the status and expiry it is about to set
    view,           \* the ORM's in-memory copy of the rows it loaded
    staged,         \* the rows it has updated and not committed
    asked,          \* the users it has successfully called Marzban for
    todo,           \* users the sweep has still to reinstate
    newEntries,     \* blacklist entries inserted and not committed
    reviewing,      \* entries marked reviewed and not committed
    \* clock and bounded counters
    now, work, faults, made,
    \* history, read by the properties only
    overlap,        \* kinds of session that have been in flight together on a user
    leftOn,         \* users that a failed or rolled-back session may have switched on
    leftOff,        \* users that a failed or rolled-back session may have switched off
    shopMissed,     \* users the shop was told of wrongly, or not at all
    unlocked,       \* users a consumer escalated without holding the row's lock
    unknown         \* users the last call that returned was answered 404 for

database == <<row, entries, reviewed>>
session  == <<pc, current, goal, view, staged, asked, todo, newEntries, reviewing>>
counters == <<work, faults, made>>
history  == <<overlap, leftOn, leftOff, shopMissed, unlocked, unknown>>
vars     == <<database, lock, account, shop, session, now, counters, history>>

Clean == [status |-> "active", expires |-> NoExpiry]

Blacklisted == [status |-> "blacklisted", expires |-> NoExpiry]

Restricted(r) == r.status # "active"

\* expired_suspensions: the rows the sweep selects.
Expired(u) ==
    /\ row[u].status = "suspended"
    /\ row[u].expires # NoExpiry
    /\ row[u].expires <= now

Kind(s) == IF s \in Consumers THEN "consumer"
           ELSE IF s \in Sweepers THEN "sweeper" ELSE "admin"

InFlight(s, u) == view[s][u] # NoRow

-------------------------------------------------------------------------------
(* What sessions share *)

\* The row an SQL statement of session s sees: its own update, or the
\* committed one.
Visible(s, u) == IF staged[s][u] # NoRow THEN staged[s][u] ELSE row[u]

\* The row after the UPDATE that set_status leads to: a column that the new
\* value leaves as the session loaded it is not part of the statement.
Updated(s, u, new) ==
    [status  |-> IF new.status = view[s][u].status
                 THEN Visible(s, u).status ELSE new.status,
     expires |-> IF new.expires = view[s][u].expires
                 THEN Visible(s, u).expires ELSE new.expires]

\* An UPDATE waits for the row's lock and keeps it until the session closes.
Takes(s, u) ==
    /\ lock[u] \in {NoSession, s}
    /\ lock' = [lock EXCEPT ![u] = s]

\* set_status followed by the flush: the caller holds or takes the row's lock.
SetStatus(s, u, new) ==
    /\ Takes(s, u)
    /\ staged' = [staged EXCEPT ![s][u] = Updated(s, u, new)]
    /\ view' = [view EXCEPT ![s][u] = new]

\* set_user_status() returns normally when Marzban has done what it was asked,
\* and also when Marzban does not know the account: a 404 is logged and raises
\* nothing.
SetUserStatus(u, status) ==
    \/ /\ account' = [account EXCEPT ![u] = status]
       /\ unknown' = unknown \ {u}
       /\ UNCHANGED faults
    \/ /\ faults < MaxFaults
       /\ faults' = faults + 1
       /\ unknown' = unknown \cup {u}
       /\ UNCHANGED account

\* A slip to compare with: the flag's sense is inverted.
TellShopInverted(u, banned) ==
    shop' = [shop EXCEPT ![u] = ~banned] /\ UNCHANGED <<faults, shopMissed>>

\* notify_status is best effort: it swallows its failures.
TellShop(u, banned) ==
    \/ shop' = [shop EXCEPT ![u] = banned] /\ UNCHANGED <<faults, shopMissed>>
    \/ /\ faults < MaxFaults
       /\ faults' = faults + 1
       /\ shopMissed' = shopMissed \cup {u}
       /\ UNCHANGED shop

Load(s, users) ==
    /\ view' = [view EXCEPT ![s] =
                    [u \in Users |-> IF u \in users THEN Visible(s, u) ELSE @[u]]]
    /\ overlap' = [u \in Users |->
                    LET others == {t \in Sessions \ {s} : InFlight(t, u)}
                    IN  IF u \in users /\ others # {}
                        THEN overlap[u] \cup {Kind(t) : t \in others \cup {s}}
                        ELSE overlap[u]]

\* The session is closed and gives up its locks, after a commit or not.
Close(s) ==
    /\ lock' = [u \in Users |-> IF lock[u] = s THEN NoSession ELSE lock[u]]
    /\ pc' = [pc EXCEPT ![s] = "idle"]
    /\ view' = [view EXCEPT ![s] = [u \in Users |-> NoRow]]
    /\ staged' = [staged EXCEPT ![s] = [u \in Users |-> NoRow]]
    /\ asked' = [asked EXCEPT ![s] = {}]
    /\ todo' = [todo EXCEPT ![s] = {}]
    /\ newEntries' = [newEntries EXCEPT ![s] = {}]
    /\ reviewing' = [reviewing EXCEPT ![s] = {}]
    /\ UNCHANGED <<current, goal>>

Commit(s) ==
    /\ row' = [u \in Users |-> Visible(s, u)]
    /\ entries' = entries \cup newEntries[s]
    /\ reviewed' = reviewed \cup reviewing[s]
    /\ Close(s)
    /\ UNCHANGED <<account, shop, now, counters, history>>

\* Whether the session's Marzban calls switch accounts on.
SwitchesOn(s) == s \in Sweepers \/ (s \in Admins /\ goal[s] = Clean)

\* The session ends without a commit; what it asked of Marzban and of the
\* shop stays done.  called: the users Marzban may have heard of.
RollBack(s, called) ==
    /\ Close(s)
    /\ leftOn' = IF SwitchesOn(s) THEN leftOn \cup called ELSE leftOn
    /\ leftOff' = IF SwitchesOn(s) THEN leftOff ELSE leftOff \cup called
    /\ shopMissed' = shopMissed \cup {u \in Users : staged[s][u] # NoRow}
    /\ UNCHANGED <<database, shop, now, work, made, overlap, unlocked, unknown>>

\* A worker or API process dies, or the database connection does.
Crash(s) ==
    /\ pc[s] # "idle"
    /\ faults < MaxFaults
    /\ faults' = faults + 1
    /\ RollBack(s, asked[s])
    /\ UNCHANGED account

\* s is about to update a row that another session has locked.
WaitsFor(s) ==
    IF /\ pc[s] \in {"loaded", "called"}
       /\ lock[current[s]] \notin {NoSession, s}
    THEN lock[current[s]] ELSE NoSession

\* PostgreSQL breaks a cycle of waiting sessions by failing one of them.
DeadlockVictim(s) ==
    /\ WaitsFor(s) # NoSession
    /\ \E cycle \in SUBSET Sessions :
          /\ s \in cycle
          /\ {WaitsFor(t) : t \in cycle} = cycle
    /\ RollBack(s, asked[s])
    /\ UNCHANGED <<account, faults>>

-------------------------------------------------------------------------------
(* Event consumer: one database session per batch of stream entries *)

\* A slip to compare with: the expiry is left out.
TargetWithoutExpiry(level) == [status |-> LevelStatus[level], expires |-> NoExpiry]

\* What _escalate() sets: only a suspension expires.
Target(level) ==
    [status  |-> LevelStatus[level],
     expires |-> IF LevelStatus[level] = "suspended" THEN now + Duration ELSE NoExpiry]

\* process_event() up to get_or_create: the row is read, or is still in the
\* session's memory from an earlier event of the batch.
ConsumerLoad(c, u) ==
    /\ pc[c] \in {"idle", "open"}
    /\ work < MaxWork
    /\ \/ Load(c, {u})
       \/ InFlight(c, u) /\ UNCHANGED <<view, overlap>>
    /\ pc' = [pc EXCEPT ![c] = "loaded"]
    /\ current' = [current EXCEPT ![c] = u]
    /\ work' = work + 1
    /\ UNCHANGED <<database, lock, account, shop, goal, staged, asked, todo,
                   newEntries, reviewing, now, faults, made, leftOn, leftOff,
                   shopMissed, unlocked, unknown>>

\* A slip to compare with: the counters are flushed with the decision, so the
\* call to Marzban comes before the row's lock.
ConsumerScoreUnflushed(c) ==
    LET u == current[c]
    IN  /\ pc[c] = "loaded"
        /\ \E level \in Levels, deviceOnly \in BOOLEAN :
              IF Escalates(level, view[c][u].status, deviceOnly)
              THEN /\ goal' = [goal EXCEPT ![c] = Target(level)]
                   /\ pc' = [pc EXCEPT ![c] = "calling"]
              ELSE pc' = [pc EXCEPT ![c] = "open"] /\ UNCHANGED goal
        /\ UNCHANGED <<database, lock, account, shop, current, view, staged,
                       asked, todo, newEntries, reviewing, now, counters, history>>

\* The rest of process_event() and the decision apply() takes from the status
\* in memory.  The first flush updates last_abuse_event_at, hence the lock,
\* unless the event carries the time of the last one scored (it is delivered
\* again, or falls in the same instant): then nothing is written before
\* _escalate() has called Marzban.
ConsumerScore(c) ==
    LET u == current[c]
    IN  /\ pc[c] = "loaded"
        /\ \E level \in Levels, deviceOnly \in BOOLEAN :
              \/ /\ Escalates(level, view[c][u].status, deviceOnly)
                 /\ goal' = [goal EXCEPT ![c] = Target(level)]
                 /\ pc' = [pc EXCEPT ![c] = "calling"]
                 /\ \/ Takes(c, u) /\ UNCHANGED unlocked
                    \/ lock[u] # c /\ unlocked' = unlocked \cup {u} /\ UNCHANGED lock
              \/ /\ ~Escalates(level, view[c][u].status, deviceOnly)
                 /\ Takes(c, u)
                 /\ pc' = [pc EXCEPT ![c] = "open"]
                 /\ UNCHANGED <<goal, unlocked>>
        /\ UNCHANGED <<database, account, shop, current, view, staged, asked,
                       todo, newEntries, reviewing, now, counters, overlap,
                       leftOn, leftOff, shopMissed, unknown>>

\* _escalate() calls Marzban before it writes anything.
EscalateCall(c) ==
    LET u == current[c]
    IN  /\ pc[c] = "calling"
        /\ u \notin Refused
        /\ SetUserStatus(u, "disabled")
        /\ asked' = [asked EXCEPT ![c] = @ \cup {u}]
        /\ pc' = [pc EXCEPT ![c] = "called"]
        /\ UNCHANGED <<database, lock, shop, current, goal, view, staged, todo,
                       newEntries, reviewing, now, work, made, overlap, leftOn,
                       leftOff, shopMissed, unlocked>>

\* The call raises after its retries, whether or not Marzban acted on it;
\* _handle_event swallows the exception and the batch goes on.
EscalateCallFails(c) ==
    LET u == current[c]
    IN  /\ pc[c] = "calling"
        /\ \/ u \in Refused /\ UNCHANGED <<account, faults, leftOff>>
           \/ /\ faults < MaxFaults
              /\ faults' = faults + 1
              /\ \/ UNCHANGED <<account, leftOff>>
                 \/ /\ account' = [account EXCEPT ![u] = "disabled"]
                    /\ leftOff' = leftOff \cup {u}
        /\ pc' = [pc EXCEPT ![c] = "open"]
        /\ UNCHANGED <<database, lock, shop, current, goal, view, staged, asked,
                       todo, newEntries, reviewing, now, work, made, overlap,
                       leftOn, shopMissed, unlocked, unknown>>

\* A slip to compare with: a user who has an entry already gets no other.
EntryOnce(c, u) ==
    IF \E entry \in entries : entry.user = u
    THEN UNCHANGED <<made, newEntries>>
    ELSE /\ made' = made + 1
         /\ newEntries' = [newEntries EXCEPT ![c] = @ \cup {[id |-> made', user |-> u]}]

AddBlacklistEntry(c, u) ==
    /\ made' = made + 1
    /\ newEntries' = [newEntries EXCEPT ![c] = @ \cup {[id |-> made', user |-> u]}]

\* The rest of _escalate(): the status, the blacklist entry, the shop.
EscalateStage(c) ==
    LET u == current[c]
    IN  /\ pc[c] = "called"
        /\ SetStatus(c, u, goal[c])
        /\ IF goal[c].status = "blacklisted"
           THEN AddBlacklistEntry(c, u)
           ELSE UNCHANGED <<made, newEntries>>
        /\ TellShop(u, TRUE)
        /\ pc' = [pc EXCEPT ![c] = "open"]
        /\ UNCHANGED <<database, account, current, goal, asked, todo, reviewing,
                       now, work, overlap, leftOn, leftOff, unlocked, unknown>>

ConsumerCommit(c) == pc[c] = "open" /\ Commit(c)

-------------------------------------------------------------------------------
(* Expiry sweep: one session for all the users it finds expired *)

SweepSelect(w) ==
    LET expired == {u \in Users : Expired(u)}
    IN  /\ pc[w] = "idle"
        /\ expired # {}
        /\ Load(w, expired)
        /\ todo' = [todo EXCEPT ![w] = expired]
        /\ pc' = [pc EXCEPT ![w] = "open"]
        /\ UNCHANGED <<database, lock, account, shop, current, goal, staged,
                       asked, newEntries, reviewing, now, counters, leftOn,
                       leftOff, shopMissed, unlocked, unknown>>

\* A slip to compare with: the row is reinstated and Marzban is not told.
SweepCallSkipped(w, u) ==
    /\ pc[w] = "open"
    /\ u \in todo[w]
    /\ current' = [current EXCEPT ![w] = u]
    /\ pc' = [pc EXCEPT ![w] = "called"]
    /\ UNCHANGED <<database, lock, account, shop, goal, view, staged, asked,
                   todo, newEntries, reviewing, now, counters, history>>

\* reinstate_expired() calls Marzban before it has touched the row, so
\* without the row's lock.
SweepCall(w, u) ==
    /\ pc[w] = "open"
    /\ u \in todo[w] \ Refused
    /\ SetUserStatus(u, "active")
    /\ asked' = [asked EXCEPT ![w] = @ \cup {u}]
    /\ current' = [current EXCEPT ![w] = u]
    /\ pc' = [pc EXCEPT ![w] = "called"]
    /\ UNCHANGED <<database, lock, shop, goal, view, staged, todo, newEntries,
                   reviewing, now, work, made, overlap, leftOn, leftOff,
                   shopMissed, unlocked>>

\* Any exception ends the sweep's session: users reinstated before this one
\* are rolled back with it.
SweepCallFails(w, u) ==
    /\ pc[w] = "open"
    /\ u \in todo[w]
    /\ \/ /\ u \in Refused
          /\ RollBack(w, asked[w])
          /\ UNCHANGED <<account, faults>>
       \/ /\ faults < MaxFaults
          /\ faults' = faults + 1
          /\ \/ RollBack(w, asked[w]) /\ UNCHANGED account
             \/ /\ RollBack(w, asked[w] \cup {u})
                /\ account' = [account EXCEPT ![u] = "active"]

\* A slip to compare with: the sweep's loop does not advance.
SweepStageAgain(w) ==
    LET u == current[w]
    IN  /\ pc[w] = "called"
        /\ SetStatus(w, u, Clean)
        /\ TellShop(u, FALSE)
        /\ pc' = [pc EXCEPT ![w] = "open"]
        /\ UNCHANGED <<database, account, current, goal, asked, todo, newEntries,
                       reviewing, now, work, made, overlap, leftOn, leftOff,
                       unlocked, unknown>>

SweepStage(w) ==
    LET u == current[w]
    IN  /\ pc[w] = "called"
        /\ SetStatus(w, u, Clean)
        /\ TellShop(u, FALSE)
        /\ todo' = [todo EXCEPT ![w] = @ \ {u}]
        /\ pc' = [pc EXCEPT ![w] = "open"]
        /\ UNCHANGED <<database, account, current, goal, asked, newEntries,
                       reviewing, now, work, made, overlap, leftOn, leftOff,
                       unlocked, unknown>>

\* A slip to compare with: the session is closed without a commit.
SweepCommitForgotten(w) ==
    pc[w] = "open" /\ todo[w] = {} /\ RollBack(w, {}) /\ UNCHANGED <<account, faults>>

SweepCommit(w) == pc[w] = "open" /\ todo[w] = {} /\ Commit(w)

-------------------------------------------------------------------------------
(* Admin API: one session per request *)

Override(a, u, status) ==
    /\ pc[a] = "idle"
    /\ work < MaxWork
    /\ Load(a, {u})
    /\ goal' = [goal EXCEPT ![a] = [status |-> status, expires |-> NoExpiry]]
    /\ current' = [current EXCEPT ![a] = u]
    /\ pc' = [pc EXCEPT ![a] = "calling"]
    /\ work' = work + 1
    /\ UNCHANGED <<lock, database, account, shop, staged, asked, todo,
                   newEntries, now, faults, made, leftOn, leftOff, shopMissed,
                   unlocked, unknown>>

\* POST /users/{username}/override
AdminOverride(a, u, status) ==
    Override(a, u, status) /\ UNCHANGED reviewing

\* POST /blacklist/{entry_id}/review with reinstate = true
ReviewAndReinstate(a, entry) ==
    /\ Override(a, entry.user, "active")
    /\ reviewing' = [reviewing EXCEPT ![a] = {entry.id}]

\* POST /blacklist/{entry_id}/review with reinstate = false
ReviewOnly(a, entry) ==
    /\ pc[a] = "idle"
    /\ work < MaxWork
    /\ work' = work + 1
    /\ reviewing' = [reviewing EXCEPT ![a] = {entry.id}]
    /\ pc' = [pc EXCEPT ![a] = "open"]
    /\ UNCHANGED <<lock, database, account, shop, current, goal, view, staged,
                   asked, todo, newEntries, now, faults, made, history>>

\* A slip to compare with: every override switches the account on.
AdminCallSwitchesOn(a) ==
    /\ pc[a] = "calling"
    /\ account' = [account EXCEPT ![current[a]] = "active"]
    /\ asked' = [asked EXCEPT ![a] = @ \cup {current[a]}]
    /\ pc' = [pc EXCEPT ![a] = "called"]
    /\ UNCHANGED <<database, lock, shop, current, goal, view, staged, todo,
                   newEntries, reviewing, now, counters, history>>

\* What manual_override() asks of Marzban.
Wanted(a) == IF Restricted(goal[a]) THEN "disabled" ELSE "active"

\* manual_override() calls Marzban first, without the row's lock.
AdminCall(a) ==
    LET u == current[a]
    IN  /\ pc[a] = "calling"
        /\ u \notin Refused
        /\ SetUserStatus(u, Wanted(a))
        /\ asked' = [asked EXCEPT ![a] = @ \cup {u}]
        /\ pc' = [pc EXCEPT ![a] = "called"]
        /\ UNCHANGED <<database, lock, shop, current, goal, view, staged, todo,
                       newEntries, reviewing, now, work, made, overlap, leftOn,
                       leftOff, shopMissed, unlocked>>

AdminCallFails(a) ==
    LET u == current[a]
    IN  /\ pc[a] = "calling"
        /\ \/ /\ u \in Refused
              /\ RollBack(a, {})
              /\ UNCHANGED <<account, faults>>
           \/ /\ faults < MaxFaults
              /\ faults' = faults + 1
              /\ \/ RollBack(a, {}) /\ UNCHANGED account
                 \/ /\ RollBack(a, {u})
                    /\ account' = [account EXCEPT ![u] = Wanted(a)]

\* An override that repeats what the session loaded, its reason included,
\* leads to no UPDATE.
AdminStage(a) ==
    LET u == current[a]
    IN  /\ pc[a] = "called"
        /\ \/ SetStatus(a, u, goal[a])
           \/ goal[a] = view[a][u] /\ UNCHANGED <<lock, staged, view>>
        /\ TellShop(u, Restricted(goal[a]))
        /\ pc' = [pc EXCEPT ![a] = "open"]
        /\ UNCHANGED <<database, account, current, goal, asked, todo, newEntries,
                       reviewing, now, work, made, overlap, leftOn, leftOff,
                       unlocked, unknown>>

AdminCommit(a) == pc[a] = "open" /\ Commit(a)

-------------------------------------------------------------------------------
Tick ==
    /\ now < MaxTime
    /\ now' = now + 1
    /\ UNCHANGED <<database, lock, account, shop, session, counters, history>>

\* The bounds are used up and nobody is at work.
Quiet ==
    /\ \A s \in Sessions : pc[s] = "idle"
    /\ now = MaxTime /\ work = MaxWork
    /\ \A u \in Users : ~Expired(u)
    /\ UNCHANGED vars

\* The tables outlive the worker: it starts with users that are clean, whose
\* suspension ran out while it was down, or one who was blacklisted before and
\* has an entry that nobody has reviewed.
Init ==
    /\ \E listed \in {{}} \cup {{u} : u \in Users} :
          /\ row \in [Users -> {Clean, [status |-> "suspended", expires |-> 0],
                                Blacklisted}]
          /\ \A u \in Users : row[u] = Blacklisted <=> u \in listed
          /\ entries = {[id |-> 0, user |-> u] : u \in listed}
    /\ reviewed = {}
    /\ lock = [u \in Users |-> NoSession]
    /\ account = [u \in Users |-> IF Restricted(row[u]) THEN "disabled" ELSE "active"]
    /\ shop = [u \in Users |-> Restricted(row[u])]
    /\ pc = [s \in Sessions |-> "idle"]
    /\ current = [s \in Sessions |-> CHOOSE u \in Users : TRUE]
    /\ goal = [s \in Sessions |-> Clean]
    /\ view = [s \in Sessions |-> [u \in Users |-> NoRow]]
    /\ staged = [s \in Sessions |-> [u \in Users |-> NoRow]]
    /\ asked = [s \in Sessions |-> {}]
    /\ todo = [s \in Sessions |-> {}]
    /\ newEntries = [s \in Sessions |-> {}]
    /\ reviewing = [s \in Sessions |-> {}]
    /\ now = 0 /\ work = 0 /\ faults = 0 /\ made = 0
    /\ overlap = [u \in Users |-> {}]
    /\ leftOn = {} /\ leftOff = {} /\ shopMissed = {} /\ unlocked = {} /\ unknown = {}

ConsumerStep(c) ==
    \/ ConsumerScore(c)
    \/ EscalateCall(c)
    \/ EscalateCallFails(c)
    \/ EscalateStage(c)
    \/ ConsumerCommit(c)

SweepStep(w) ==
    \/ SweepSelect(w)
    \/ \E u \in Users : SweepCall(w, u) \/ SweepCallFails(w, u)
    \/ SweepStage(w)
    \/ SweepCommit(w)

AdminStep(a) ==
    \/ AdminCall(a)
    \/ AdminCallFails(a)
    \/ AdminStage(a)
    \/ AdminCommit(a)

AdminRequest(a) ==
    \/ \E u \in Users, status \in Statuses : AdminOverride(a, u, status)
    \/ \E entry \in entries : ReviewAndReinstate(a, entry) \/ ReviewOnly(a, entry)

Next ==
    \/ \E c \in Consumers : ConsumerStep(c) \/ \E u \in Users : ConsumerLoad(c, u)
    \/ \E w \in Sweepers : SweepStep(w)
    \/ \E a \in Admins : AdminStep(a) \/ AdminRequest(a)
    \/ \E s \in Sessions : Crash(s) \/ DeadlockVictim(s)
    \/ Tick
    \/ Quiet

Spec == Init /\ [][Next]_vars

\* The event loop resumes every handler whose await is over, the sweep is
\* periodic, PostgreSQL resolves deadlocks, and time passes.  An UPDATE that
\* waits for a row's lock is strongly fair: PostgreSQL grants the lock in the
\* order of the requests.  Nothing obliges a user to connect, an admin to act
\* or a fault to happen.
Fairness ==
    /\ \A c \in Consumers : /\ WF_vars(ConsumerStep(c))
                            /\ SF_vars(ConsumerScore(c))
                            /\ SF_vars(EscalateStage(c))
    /\ \A w \in Sweepers : WF_vars(SweepStep(w)) /\ SF_vars(SweepStage(w))
    /\ \A a \in Admins : WF_vars(AdminStep(a)) /\ SF_vars(AdminStage(a))
    /\ \A s \in Sessions : WF_vars(DeadlockVictim(s))
    /\ WF_vars(Tick)

FairSpec == Spec /\ Fairness

-------------------------------------------------------------------------------
(* Properties *)

Entries == [id : Nat, user : Users]

\* Every variable holds a value of its kind.
TypeOK ==
    /\ row \in [Users -> Rows]
    /\ entries \subseteq Entries
    /\ reviewed \subseteq Nat
    /\ lock \in [Users -> Sessions \cup {NoSession}]
    /\ account \in [Users -> {"active", "disabled"}]
    /\ shop \in [Users -> BOOLEAN]
    /\ pc \in [Sessions -> {"idle", "open", "loaded", "calling", "called"}]
    /\ current \in [Sessions -> Users]
    /\ goal \in [Sessions -> Rows]
    /\ view \in [Sessions -> [Users -> Rows \cup {NoRow}]]
    /\ staged \in [Sessions -> [Users -> Rows \cup {NoRow}]]
    /\ asked \in [Sessions -> SUBSET Users]
    /\ todo \in [Sessions -> SUBSET Users]
    /\ newEntries \in [Sessions -> SUBSET Entries]
    /\ reviewing \in [Sessions -> SUBSET Nat]
    /\ now \in Nat /\ work \in Nat /\ faults \in Nat /\ made \in Nat
    /\ overlap \in [Users -> SUBSET {"consumer", "sweeper", "admin"}]
    /\ leftOn \subseteq Users /\ leftOff \subseteq Users
    /\ shopMissed \subseteq Users /\ unlocked \subseteq Users /\ unknown \subseteq Users

\* A session that has asked Marzban to switch the account on and has not
\* finished.
Reviving(s, u) == SwitchesOn(s) /\ u \in asked[s]

\* A user the database restricts is switched off at Marzban, whatever the
\* interleaving of consumers and sweeps: what makes it true is that the
\* consumer calls Marzban under the row's lock and before the row is written
\* (process_event's flush, then _escalate).  The exceptions are a session that
\* is switching the account on at this moment, one that did and was rolled
\* back, an admin request that overlapped another session, an event that
\* leaves the consumer without the lock, and an account that Marzban did not
\* know when it was last told: set_user_status logs the 404 and returns, so
\* the row says restricted and nothing was switched off.
RestrictedMeansOff ==
    \A u \in Users :
        /\ Restricted(row[u])
        /\ \A s \in Sessions : ~Reviving(s, u)
        /\ u \notin leftOn \cup unlocked \cup unknown
        /\ "admin" \notin overlap[u]
        => account[u] = "disabled"

\* Nobody is left switched off without a restriction in the database (that
\* the sweep or an admin could lift): with no session at work on the user, an
\* account is off only if its row is restricted.  The exceptions are a batch or
\* an override that was rolled back after it had switched the account off, a
\* call that failed although Marzban had acted on it, a sweep or an admin
\* request that overlapped another session, and an account that Marzban did not
\* know when it was last told (the 404 of a reinstatement looks like success).
OffMeansRestricted ==
    \A u \in Users :
        /\ account[u] = "disabled"
        /\ \A s \in Sessions : ~InFlight(s, u)
        /\ u \notin leftOff \cup unknown
        /\ overlap[u] \subseteq {"consumer"}
        => Restricted(row[u])

\* The shop's ban flag is the row's restriction whenever no session holds the
\* row: both notify_status calls are made under the row's lock, so unlike the
\* account at Marzban the flag cannot be overtaken by an overlapping sweep.
\* Lost callbacks, rollbacks and overlapping admin requests are excepted.
ShopFollowsRow ==
    \A u \in Users :
        /\ lock[u] = NoSession
        /\ u \notin shopMissed
        /\ "admin" \notin overlap[u]
        => (shop[u] <=> Restricted(row[u]))

\* Whom a batch blacklists has an entry for the admin to review as of the same
\* commit, one of its own that is not reviewed: whatever batch, sweep or admin
\* request the batch has raced with, whatever reviewed entries an earlier
\* blacklisting has left, and although only a batch that is not rolled back
\* keeps what it has inserted.  (An admin who blacklists someone leaves no
\* entry.)
BlacklistedHasEntry ==
    [][\A u \in Users :
          lock[u] \in Consumers /\ row'[u] # row[u] /\ row'[u].status = "blacklisted" =>
              \E entry \in entries' \ entries :
                  entry.user = u /\ entry.id \notin reviewed']_vars

\* A suspension by a batch says when it ends, although the expiry is written
\* only when it differs from what the session loaded: no interleaving of
\* batches and sweeps commits a suspended row without the expiry the sweep
\* looks for.  (An admin's suspension has none: only an admin ends it.  And an
\* override that overlaps batches may leave an active row an expiry; a batch
\* that has loaded it and suspends until the same instant writes the status
\* alone, over what another override has made of the expiry meanwhile.)
SuspensionHasExpiry ==
    [][\A u \in Users :
          /\ lock[u] \in Consumers /\ "admin" \notin overlap[u]
          /\ row'[u] # row[u] /\ row'[u].status = "suspended"
          => row'[u].expires # NoExpiry]_vars

\* A suspension that has run out ends: the sweep gets to it whatever batches
\* lock the row before it, roll it back in a deadlock or suspend the user anew.
\* (With a user whose call Marzban always refuses this is false for the others,
\* too: every sweep may meet that user first, and the exception ends its
\* session.)
SuspensionEnds == \A u \in Users \ Refused : Expired(u) ~> ~Expired(u)

\* No session waits for ever: whatever rows batches, sweeps and admin requests
\* lock and in whatever order, each one is committed or rolled back.
SessionsClose == \A s \in Sessions : pc[s] # "idle" ~> pc[s] = "idle"

-------------------------------------------------------------------------------
(* Why RestrictedMeansOff and ShopFollowsRow hold: an inductive invariant *)

\* The account is off, or RestrictedMeansOff excuses it.
Off(u) ==
    \/ account[u] = "disabled"
    \/ \E s \in Sessions : Reviving(s, u)
    \/ u \in leftOn \cup unlocked \cup unknown
    \/ "admin" \in overlap[u]

ClosedWhenIdle(s) ==
    pc[s] = "idle" =>
        /\ asked[s] = {}
        /\ \A u \in Users : view[s][u] = NoRow /\ staged[s][u] = NoRow

\* A session locks only rows it has loaded and writes only rows it has locked.
WritesUnderLock(s) ==
    \A u \in Users :
        /\ lock[u] = s => view[s][u] # NoRow
        /\ staged[s][u] # NoRow => lock[u] = s

\* A reinstatement that has reached Marzban is about to be, or has been,
\* written; so is an override, unless it changes nothing.
AskedThenStaged(s) ==
    \A u \in asked[s] :
        /\ view[s][u] # NoRow
        /\ \/ staged[s][u] # NoRow
           \/ pc[s] = "called" /\ current[s] = u
           \/ s \in Admins /\ "admin" \in overlap[u]
           \/ s \in Admins /\ row[u].status = goal[s].status

\* A consumer calls Marzban under the lock, to restrict, and writes afterwards.
ConsumerRestricts(c) ==
    \A u \in Users :
        /\ current[c] = u /\ pc[c] \in {"loaded", "calling", "called"} =>
              view[c][u] # NoRow
        /\ current[c] = u /\ pc[c] \in {"calling", "called"} =>
              /\ lock[u] = c \/ u \in unlocked
              /\ Restricted(goal[c]) /\ goal[c].status # view[c][u].status
        /\ current[c] = u /\ pc[c] = "called" => Off(u)
        /\ staged[c][u] # NoRow => Restricted(staged[c][u]) /\ Off(u)

SweeperReinstates(w) ==
    /\ pc[w] = "called" => current[w] \in todo[w]
    /\ \A u \in todo[w] : view[w][u] # NoRow /\ view[w][u].status = "suspended"
    /\ \A u \in Users : staged[w][u] # NoRow => ~Restricted(staged[w][u])

\* An admin request that nothing overlaps sees the committed row, and writes
\* what it asked Marzban for.
AdminSerial(a) ==
    /\ goal[a].expires = NoExpiry
    /\ pc[a] = "calling" => asked[a] = {}
    /\ \A u \in Users :
          /\ pc[a] \in {"calling", "called"} => staged[a][u] = NoRow
          /\ current[a] = u /\ pc[a] \in {"calling", "called"} => view[a][u] # NoRow
          /\ current[a] = u /\ pc[a] = "called" /\ Restricted(goal[a]) => Off(u)
          /\ InFlight(a, u) /\ "admin" \notin overlap[u] =>
                /\ \A t \in Sessions \ {a} : ~InFlight(t, u)
                /\ staged[a][u] = NoRow => view[a][u] = row[u]
                /\ staged[a][u] # NoRow =>
                      /\ staged[a][u].status = goal[a].status
                      /\ Restricted(goal[a]) => Off(u)

SessionInv(s) ==
    /\ ClosedWhenIdle(s)
    /\ WritesUnderLock(s)
    /\ s \in Sweepers \cup Admins => AskedThenStaged(s)
    /\ s \in Consumers => ConsumerRestricts(s)
    /\ s \in Sweepers => SweeperReinstates(s)
    /\ s \in Admins => AdminSerial(s)

RestrictedOff == \A u \in Users : Restricted(row[u]) => Off(u)

\* What the lock's holder has written, or else the committed row, is what the
\* shop was told.
Held(u) == IF lock[u] = NoSession THEN row[u] ELSE Visible(lock[u], u)

ShopToldUnderLock ==
    \A u \in Users :
        u \notin shopMissed /\ "admin" \notin overlap[u] =>
            (shop[u] <=> Restricted(Held(u)))

IndInv ==
    /\ TypeOK
    /\ \A s \in Sessions : SessionInv(s)
    /\ RestrictedOff
    /\ ShopToldUnderLock

-------------------------------------------------------------------------------
(* What the documentation says and the code does not do *)

\* Without admins, no step lowers a level 4 or 5 status ("requires manual
\* review", services/mitigation.py).
AutomationNeverLowers ==
    [][\A u \in Users : row[u].status \in {"disabled", "blacklisted"} =>
            Severity[row'[u].status] >= Severity[row[u].status]]_vars

===============================================================================
