--------------------------------- MODULE Alerts ---------------------------------
(***************************************************************************)
(* Who hears of an account's score and when: the alerts to the admin and   *)
(* the device-limit warnings to the shop that MitigationService.apply()    *)
(* sends, each at most once per cooldown, except that an account going     *)
(* dark is always announced (services/mitigation.py).  The cooldown is     *)
(* kept in mitigation_actions, the table that concurrent batches write in  *)
(* transactions of their own; a message that is sent stays sent when its   *)
(* batch is rolled back.                                                   *)
(*                                                                         *)
(* One account.  What Enforcement says of sessions, locks and the calls to *)
(* Marzban holds here too; the expiry sweep and the admins' requests are   *)
(* sessions that set some status of it.  The stream delivers as in         *)
(* EventStream: at least once, also to two consumers at a time.  Notifier  *)
(* and ShopNotifier swallow their failures, so what is sent may still not  *)
(* arrive.                                                                 *)
(***************************************************************************)
EXTENDS MitigationPolicy, FiniteSets, FiniteSetsExt

CONSTANTS
    Consumers,          \* EventConsumer tasks
    Overriders,         \* sessions of the expiry sweep and of the admin API
    Scores,             \* what scoring an event may answer: [level, deviceOnly]
    NewStatuses,        \* statuses that overriders set
    NotifyCooldown,     \* mitigation.notify_cooldown_seconds
    WarnCooldown,       \* mitigation.device_limit_warn_cooldown_seconds
    MaxTime,            \* bound: the clock stops here
    MaxEvents,          \* bound: scored events
    MaxOverrides,       \* bound: sessions of overriders
    MaxFaults,          \* bound: crashes, failed calls, lost acknowledgements and
                        \* entries, accounts that Marzban does not know
    Nobody,             \* the holder of the free lock
    NoRow               \* a row that a session has not loaded or not written

ASSUME AlertsAssumption ==
    /\ Scores \subseteq [level : Levels, deviceOnly : BOOLEAN]
    /\ NewStatuses \subseteq Statuses
    /\ {NotifyCooldown, WarnCooldown, MaxTime, MaxEvents, MaxOverrides, MaxFaults} \subseteq Nat
    /\ Consumers \cap Overriders = {} /\ Nobody \notin Consumers \cup Overriders
    /\ NoRow \notin Statuses

Messages == {"notify_admin", "device_limit_warn"}

Cooldown(action) ==
    IF action = "notify_admin" THEN NotifyCooldown ELSE WarnCooldown

VARIABLES
    row,        \* guard_users.status
    log,        \* the committed mitigation_actions that stand for a message
    lock,       \* the session that holds the row's lock
    dark,       \* the account is switched off at Marzban
    ses,        \* the consumers' sessions
    over,       \* the overriders' sessions
    pending,    \* events read and not acknowledged
    now, events, overrides, made, faults,
    \* history, read by the properties only
    sent,       \* the messages
    elevated,   \* when events of level 2 and above were applied
    told,       \* the admin knows that the account went dark
    failed,     \* a call that failed made it go dark
    owed,       \* events whose batch was rolled back after the call to Marzban,
                \* when nobody had been told yet
    lapsed      \* one of those was acknowledged or lost, and still nobody was told

database == <<row, log>>
counters == <<events, overrides, made, faults>>
debt     == <<told, failed, owed, lapsed>>
history  == <<sent, elevated, debt>>
vars     == <<database, lock, dark, ses, over, pending, now, counters, history>>

\* An EventConsumer's database session, one per batch.
Closed == [pc      |-> "idle",
           todo    |-> {},      \* claimed events it has still to process
           batch   |-> {},      \* the events it has read
           event   |-> NoRow,   \* the one it is at work on
           score   |-> NoRow,   \* what scoring it has answered
           view    |-> NoRow,   \* the status in the session's memory
           staged  |-> NoRow,   \* the status it has written and not committed
           rows    |-> {},      \* the actions it has added and not committed
           applied |-> 0]       \* apply()'s now

\* A session of the sweep or of the admin API.
NoOverride == [pc |-> "idle", goal |-> NoRow, view |-> NoRow, staged |-> NoRow]

-------------------------------------------------------------------------------
(* What sessions share *)

\* The row as a session sees that has written this, or NoRow.
VisibleTo(staged) == IF staged # NoRow THEN staged ELSE row

Visible(c) == VisibleTo(ses[c].staged)

Takes(s) == lock \in {Nobody, s} /\ lock' = s

Frees(s) == lock' = IF lock = s THEN Nobody ELSE lock

\* Messages to anyone of a kind, newest first: last_action() returns the first
\* that the session can see.
LastAt(rows) == Max({r.at : r \in rows})

\* A slip to compare with: the action is left out of the query.
RecentlyOfAnyKind(c, action) ==
    LET rows == log \cup ses[c].rows
    IN  rows # {} /\ ses[c].applied - LastAt(rows) < Cooldown(action)

\* last_action() and the comparison with apply()'s now, which was taken before
\* the row's lock was waited for.
Recently(c, action) ==
    LET rows == {r \in log \cup ses[c].rows : r.action = action}
    IN  rows # {} /\ ses[c].applied - LastAt(rows) < Cooldown(action)

\* action_repo.add() and the message.
Send(c, action, forced, pc) ==
    LET message == [id |-> made + 1, action |-> action, forced |-> forced, at |-> now]
    IN  /\ made' = made + 1
        /\ ses' = [ses EXCEPT ![c].rows = @ \cup {message}, ![c].pc = pc]
        /\ sent' = sent \cup {message}

\* A routine message, unless there was one a short while ago.  last_action()'s
\* query flushes the new risk_score first: it waits for the row's lock, and
\* then sees what the lock's last holder has committed.
Routine(c, action, pc) ==
    \/ ~Recently(c, action) /\ Send(c, action, FALSE, pc)
    \/ /\ Recently(c, action)
       /\ ses' = [ses EXCEPT ![c].pc = pc]
       /\ UNCHANGED <<made, sent>>

-------------------------------------------------------------------------------
(* Event consumer *)

\* _process_once() up to its session: entries that were not acknowledged are
\* claimed, some of them or all, also those of a consumer that is still at work
\* on them, but slowly.
Open(c) ==
    /\ ses[c].pc = "idle"
    /\ \E claimed \in SUBSET pending :
          /\ claimed # {} \/ events < MaxEvents
          /\ ses' = [ses EXCEPT ![c].pc = "open", ![c].todo = claimed,
                                ![c].batch = claimed]
    /\ UNCHANGED <<database, lock, dark, over, pending, now, counters, history>>

\* get_or_create(): the row is read, or still in the session's memory.
Begin(c, e) ==
    /\ ses[c].pc = "open"
    /\ \E view \in {Visible(c)} \cup ({ses[c].view} \ {NoRow}) :
          ses' = [ses EXCEPT ![c].pc = "loaded", ![c].event = e, ![c].view = view,
                             ![c].todo = @ \ {e}, ![c].batch = @ \cup {e}]
    /\ UNCHANGED <<database, lock, dark, over, now, overrides, made, faults, history>>

\* A claimed event, whatever has become of it before.
Again(c, e) == e \in ses[c].todo /\ Begin(c, e) /\ UNCHANGED <<pending, events>>

\* New entries come after those that were claimed.
New(c) ==
    /\ ses[c].todo = {}
    /\ events < MaxEvents
    /\ events' = events + 1
    /\ pending' = pending \cup {events'}
    /\ Begin(c, events')

\* The rest of process_event(), and apply() up to its first wait.  An event is
\* scored afresh each time: others have added to the score, and it has decayed.
\* Whether the row is locked by now depends on what was there to flush (as in
\* Enforcement); level 1 adds a row to mitigation_actions, which flushes the rest.
Apply(c) ==
    \E score \in Scores :
        LET escalates == Escalates(score.level, ses[c].view, score.deviceOnly)
            warns == WarnsOnly(score.level, ses[c].view, score.deviceOnly)
        IN  /\ ses[c].pc = "loaded"
            /\ Takes(c) \/ (score.level # 1 /\ lock # c /\ UNCHANGED lock)
            /\ ses' = [ses EXCEPT ![c].applied = now, ![c].score = score,
                                  ![c].pc = IF score.level <= 1 THEN "open"
                                            ELSE IF escalates THEN "calling"
                                            ELSE IF warns THEN "warning"
                                            ELSE "notifying"]
            /\ UNCHANGED <<database, dark, over, pending, now, counters, history>>

\* _warn_device_limit()
Warn(c) ==
    /\ ses[c].pc = "warning"
    /\ Takes(c)
    /\ Routine(c, "device_limit_warn", "notifying")
    /\ UNCHANGED <<database, dark, over, pending, now, events, overrides, faults,
                   elevated, debt>>

\* A slip to compare with: the query does not flush (autoflush is off), so it
\* does not wait for the row's lock.
NotifyUnlocked(c) ==
    /\ ses[c].pc = "notifying"
    /\ Routine(c, "notify_admin", "open")
    /\ elevated' = elevated \cup {ses[c].applied}
    /\ UNCHANGED <<database, lock, dark, over, pending, now, events, overrides, faults,
                   debt>>

\* _should_notify() and the alert, when there was no escalation.
Notify(c) ==
    /\ ses[c].pc = "notifying"
    /\ Takes(c)
    /\ Routine(c, "notify_admin", "open")
    /\ elevated' = elevated \cup {ses[c].applied}
    /\ UNCHANGED <<database, dark, over, pending, now, events, overrides, faults, debt>>

\* The call returns: Marzban has switched the account off, or does not know it.
EscalateCall(c) ==
    /\ ses[c].pc = "calling"
    /\ \/ dark' = TRUE /\ UNCHANGED faults
       \/ faults < MaxFaults /\ faults' = faults + 1 /\ UNCHANGED dark
    /\ ses' = [ses EXCEPT ![c].pc = "called"]
    /\ UNCHANGED <<database, lock, over, pending, now, events, overrides, made, history>>

\* The call raises, whether or not Marzban has acted on it; _handle_event()
\* swallows the exception: no alert, and the event is done with.
EscalateCallFails(c) ==
    /\ ses[c].pc = "calling"
    /\ faults < MaxFaults
    /\ faults' = faults + 1
    /\ dark' \in {dark, TRUE}
    /\ failed' = (failed \/ dark' # dark)
    /\ ses' = [ses EXCEPT ![c].pc = "open"]
    /\ UNCHANGED <<database, lock, over, pending, now, events, overrides, made, sent,
                   elevated, told, owed, lapsed>>

\* The rest of _escalate().
EscalateStage(c) ==
    /\ ses[c].pc = "called"
    /\ Takes(c)
    /\ LET status == LevelStatus[ses[c].score.level]
       IN  ses' = [ses EXCEPT ![c].staged = status, ![c].view = status,
                              ![c].pc = "announcing"]
    /\ UNCHANGED <<database, dark, over, pending, now, counters, history>>

\* The admin hears of an account that is dark.
Hears == told' = dark /\ owed' = IF dark THEN {} ELSE owed

\* A slip to compare with: the cooldown applies here, too.
AnnounceRoutinely(c) ==
    /\ ses[c].pc = "announcing"
    /\ Routine(c, "notify_admin", "open")
    /\ IF made' > made THEN Hears ELSE UNCHANGED <<told, owed>>
    /\ UNCHANGED <<database, lock, dark, over, pending, now, events, overrides, faults,
                   elevated, failed, lapsed>>

\* The alert that the cooldown does not hold back.
Announce(c) ==
    /\ ses[c].pc = "announcing"
    /\ Send(c, "notify_admin", TRUE, "open")
    /\ Hears
    /\ elevated' = elevated \cup {ses[c].applied}
    /\ UNCHANGED <<database, lock, dark, over, pending, now, events, overrides, faults,
                   failed, lapsed>>

\* Entries that will not be delivered again: what they owe, nobody will be told.
Leave(entries) ==
    /\ pending' = pending \ entries
    /\ owed' = owed \ entries
    /\ lapsed' = (lapsed \/ owed \cap entries # {})

\* The acknowledgement follows the commit, or is lost, and the entries are
\* delivered again although they are processed.
Commit(c) ==
    /\ ses[c].pc = "open" /\ ses[c].todo = {}
    /\ row' = Visible(c)
    /\ log' = log \cup ses[c].rows
    /\ \/ Leave(ses[c].batch) /\ UNCHANGED faults
       \/ /\ faults < MaxFaults
          /\ faults' = faults + 1
          /\ UNCHANGED <<pending, owed, lapsed>>
    /\ ses' = [ses EXCEPT ![c] = Closed]
    /\ Frees(c)
    /\ UNCHANGED <<dark, over, now, events, overrides, made, sent, elevated, told, failed>>

\* The process dies, or the session does; what was sent stays sent, what Marzban
\* was asked stays done.
RollBack(c) ==
    LET unannounced == ses[c].pc \in {"called", "announcing"} /\ dark /\ ~told
    IN  /\ ses[c].pc # "idle"
        /\ faults < MaxFaults
        /\ faults' = faults + 1
        /\ owed' = owed \cup {e \in pending : unannounced /\ e = ses[c].event}
        /\ lapsed' = (lapsed \/ (unannounced /\ ses[c].event \notin pending))
        /\ ses' = [ses EXCEPT ![c] = Closed]
        /\ Frees(c)
        /\ UNCHANGED <<database, dark, over, pending, now, events, overrides, made, sent,
                       elevated, told, failed>>

\* An entry that was not acknowledged is trimmed from the stream.
Trim(e) ==
    /\ e \in pending
    /\ faults < MaxFaults
    /\ faults' = faults + 1
    /\ Leave({e})
    /\ UNCHANGED <<database, lock, dark, ses, over, now, events, overrides, made, sent,
                   elevated, told, failed>>

-------------------------------------------------------------------------------
(* The expiry sweep (reinstate_expired) and the admin API (manual_override) *)

Override(o, status) ==
    /\ over[o].pc = "idle"
    /\ overrides < MaxOverrides
    /\ overrides' = overrides + 1
    /\ over' = [over EXCEPT ![o] = [pc |-> "loaded", goal |-> status, view |-> row,
                                    staged |-> NoRow]]
    /\ UNCHANGED <<database, lock, dark, ses, pending, now, events, made, faults, history>>

\* Marzban does what an overrider asks.  Who switches an account off by hand
\* knows that it is; a new life begins with the account switched on.
Obeys(o) ==
    /\ dark' = (over[o].goal # "active")
    /\ told' = dark'
    /\ owed' = {}
    /\ failed' = (failed /\ dark') /\ lapsed' = (lapsed /\ dark')

\* The call comes first, without the row's lock; it returns when Marzban has
\* acted on it, or does not know the account.
OverrideCall(o) ==
    /\ over[o].pc = "loaded"
    /\ \/ Obeys(o) /\ UNCHANGED faults
       \/ faults < MaxFaults /\ faults' = faults + 1 /\ UNCHANGED <<dark, debt>>
    /\ over' = [over EXCEPT ![o].pc = "called"]
    /\ UNCHANGED <<database, lock, ses, pending, now, events, overrides, made, sent,
                   elevated>>

\* It raises, whether or not Marzban has acted on it: the session is rolled back.
OverrideCallFails(o) ==
    /\ over[o].pc = "loaded"
    /\ faults < MaxFaults
    /\ faults' = faults + 1
    /\ Obeys(o) \/ UNCHANGED <<dark, debt>>
    /\ over' = [over EXCEPT ![o] = NoOverride]
    /\ UNCHANGED <<database, lock, ses, pending, now, events, overrides, made, sent,
                   elevated>>

\* set_status(): a status that the session has loaded is not written again.
OverrideStage(o) ==
    /\ over[o].pc = "called"
    /\ Takes(o)
    /\ over' = [over EXCEPT ![o].pc = "staged",
                            ![o].staged = IF over[o].goal = over[o].view
                                          THEN row ELSE over[o].goal]
    /\ UNCHANGED <<database, dark, ses, pending, now, counters, history>>

OverrideCommit(o) ==
    /\ over[o].pc = "staged"
    /\ row' = over[o].staged
    /\ over' = [over EXCEPT ![o] = NoOverride]
    /\ Frees(o)
    /\ UNCHANGED <<log, dark, ses, pending, now, counters, history>>

OverrideRollBack(o) ==
    /\ over[o].pc # "idle"
    /\ faults < MaxFaults
    /\ faults' = faults + 1
    /\ over' = [over EXCEPT ![o] = NoOverride]
    /\ Frees(o)
    /\ UNCHANGED <<database, dark, ses, pending, now, events, overrides, made, history>>

-------------------------------------------------------------------------------
Tick ==
    /\ now < MaxTime
    /\ now' = now + 1
    /\ UNCHANGED <<database, lock, dark, ses, over, pending, counters, history>>

\* Nothing is under way, and nothing is to be delivered again.
Settled ==
    /\ pending = {}
    /\ \A c \in Consumers : ses[c].pc = "idle"
    /\ \A o \in Overriders : over[o].pc = "idle"

\* The bounds are used up.
Quiet ==
    /\ Settled /\ now = MaxTime /\ events = MaxEvents /\ overrides = MaxOverrides
    /\ UNCHANGED vars

Init ==
    /\ row = "active" /\ log = {} /\ lock = Nobody /\ dark = FALSE
    /\ ses = [c \in Consumers |-> Closed]
    /\ over = [o \in Overriders |-> NoOverride]
    /\ pending = {}
    /\ now = 0 /\ events = 0 /\ overrides = 0 /\ made = 0 /\ faults = 0
    /\ sent = {} /\ elevated = {}
    /\ told = FALSE /\ failed = FALSE /\ owed = {} /\ lapsed = FALSE

Next ==
    \/ \E c \in Consumers :
          \/ Open(c) \/ New(c) \/ Apply(c) \/ Warn(c) \/ Notify(c)
          \/ \E e \in ses[c].todo : Again(c, e)
          \/ EscalateCall(c) \/ EscalateCallFails(c) \/ EscalateStage(c) \/ Announce(c)
          \/ Commit(c) \/ RollBack(c)
    \/ \E e \in pending : Trim(e)
    \/ \E o \in Overriders :
          \/ \E status \in NewStatuses : Override(o, status)
          \/ OverrideCall(o) \/ OverrideCallFails(o) \/ OverrideStage(o)
          \/ OverrideCommit(o) \/ OverrideRollBack(o)
    \/ Tick
    \/ Quiet

Spec == Init /\ [][Next]_vars

-------------------------------------------------------------------------------
(* Properties *)

Events  == 1..MaxEvents
Actions == [id : Nat, action : Messages, forced : BOOLEAN, at : 0..MaxTime]

Sessions == [pc      : {"idle", "open", "loaded", "warning", "notifying",
                        "calling", "called", "announcing"},
             todo    : SUBSET Events,
             batch   : SUBSET Events,
             event   : Events \cup {NoRow},
             score   : Scores \cup {NoRow},
             view    : Statuses \cup {NoRow},
             staged  : Statuses \cup {NoRow},
             rows    : SUBSET Actions,
             applied : 0..MaxTime]

OverrideSessions ==
    {NoOverride} \cup [pc     : {"loaded", "called", "staged"},
                      goal   : Statuses,
                      view   : Statuses,
                      staged : Statuses \cup {NoRow}]

\* What a session has written it holds the row's lock for.
SessionOK(c) ==
    LET s == ses[c]
    IN  /\ s.todo \subseteq s.batch /\ s.rows \subseteq sent /\ s.applied <= now
        /\ s.staged # NoRow \/ s.rows # {} => lock = c

VariablesOK ==
    /\ row \in Statuses /\ dark \in BOOLEAN
    /\ log \subseteq sent /\ sent \subseteq Actions
    /\ lock \in Consumers \cup Overriders \cup {Nobody}
    /\ ses \in [Consumers -> Sessions]
    /\ over \in [Overriders -> OverrideSessions]
    /\ \A o \in Overriders : over[o].pc = "staged" => lock = o /\ over[o].staged # NoRow
    /\ pending \subseteq 1..events
    /\ now \in 0..MaxTime /\ events \in 0..MaxEvents /\ overrides \in 0..MaxOverrides
    /\ made = Cardinality(sent) /\ faults \in 0..MaxFaults
    /\ elevated \subseteq 0..MaxTime
    /\ told \in BOOLEAN /\ failed \in BOOLEAN /\ lapsed \in BOOLEAN
    /\ owed \subseteq pending

\* Every variable holds a value of its kind, the sessions are as above, and what
\* is owed is still to be delivered again.
TypeOK == VariablesOK /\ \A c \in Consumers : SessionOK(c)

\* Routine messages of a kind are a cooldown apart from the message before,
\* whichever consumers send them and however their batches overlap.  A message
\* whose batch was rolled back has left no trace, and may be followed by the
\* next at once.
RoutineAlertsAreApart ==
    \A first, second \in sent :
        /\ first.id < second.id /\ first.action = second.action
        /\ ~second.forced
        /\ first \in log \/ \E c \in Consumers : first \in ses[c].rows
        => second.at - first.at >= Cooldown(first.action)

\* The cooldown swallows no more than it should: whenever an event of level 2
\* or above was applied, the admin had an alert of this account less than a
\* cooldown before, or has got one for it; a warning to the shop does not
\* count, nor does a row that nobody was alerted for.
ElevatedIsHeard ==
    \A at \in elevated :
        \E message \in sent :
            /\ message.action = "notify_admin"
            /\ at <= message.at \/ at - message.at < NotifyCooldown

\* "The admin must never miss an account actually going dark": once everything
\* is processed, an account that is off was announced after it went dark,
\* although batches are rolled back after Marzban was called, entries are at work
\* with two consumers, and sweeps and admins switch the account meanwhile.  Not
\* so if a call failed that Marzban acted on (the exception skips the alert), or
\* if the batch was rolled back between the call and the alert, and its event was
\* not delivered again, or no longer scored high enough.
DarkIsAnnounced == Settled /\ dark /\ ~failed /\ ~lapsed => told

===============================================================================
