------------------------------ MODULE LiveDevices ------------------------------
(***************************************************************************)
(* How many devices one user has connected from lately: LiveSetTracker, a  *)
(* capped Redis sorted set from client addresses to the time they were     *)
(* last seen (services/rate_limiter.py), the device limit that the admin   *)
(* API overrides (get/set_device_limit_override), and DeviceLimitDetector, *)
(* which compares the two (detectors/device_limit.py).                     *)
(***************************************************************************)
EXTENDS Integers, FiniteSets

CONSTANTS
    Consumers,      \* EventConsumer tasks
    Devices,        \* client addresses
    Cap,            \* max(device_limit.max_devices * 10, 50)
    DefaultLimit,   \* device_limit.max_devices, or the user's own in the YAML
    Overrides,      \* limits that the shop sets over the admin API
    Window,         \* device_limit.window_minutes, in ticks
    MaxLag,         \* bound: ticks from the connection to its processing
    MaxTime,        \* bound: the clock stops here
    MaxEvents,      \* bound: connections
    MaxOverrides,   \* bound: changes of the override
    NoOverride      \* the override's key does not exist

ASSUME LiveDevicesAssumption ==
    /\ IsFiniteSet(Devices) /\ Devices # {}
    /\ Cap \in Nat \ {0} /\ DefaultLimit \in Nat
    /\ Overrides \subseteq Nat /\ NoOverride \notin Overrides
    /\ Window \in Nat \ {0} /\ MaxLag \in 0..Window /\ MaxTime \in Nat
    /\ MaxEvents \in Nat /\ MaxOverrides \in Nat

Times == 0..MaxTime
Never == -1                         \* the device is not in the sorted set

Events == [device : Devices, at : Times]
None   == CHOOSE event \in Events : TRUE            \* in hand when idle

VARIABLES
    now,
    override,       \* the override's key in Redis
    lastSeen,       \* the sorted set: when each device was last seen, or Never
    pc,
    hand,           \* the event a consumer is adding
    stats,          \* what it has counted, and is about to judge
    \* history, read by the properties only
    recorded,       \* the events that have been counted
    answer,         \* the last count: [event, count]
    verdict,        \* the last judgement: [active, limits, limit, triggered]
    happened,       \* what has disturbed the count: subset of Disturbances
    events, changes \* bounded counters

vars == <<now, override, lastSeen, pc, hand, stats, recorded, answer, verdict, happened,
          events, changes>>

\* An event was handled after a later one, met a full set, or was handled while
\* another one was.
Disturbances == {"late", "full", "overlap"}

\* The count, and, as history, how many devices were active then and which limits
\* have been in force since.
NoStats   == [count |-> 0, active |-> 0, limits |-> {}]
NoAnswer  == [event |-> None, count |-> 0]
NoVerdict == [active |-> 0, limits |-> {}, limit |-> 0, triggered |-> FALSE]

Size(seen) == Cardinality({d \in Devices : seen[d] # Never})

\* The devices with an event in the window that ends at a time.
Active(known, time) == {e.device : e \in {f \in known : f.at > time - Window /\ f.at <= time}}

-------------------------------------------------------------------------------
\* get_device_limit_override() and limits_for(): 0 is a limit like any other.
EffectiveLimit == IF override = NoOverride THEN DefaultLimit ELSE override

\* PUT /users/{username}/device-limit, whatever a consumer is at work on:
\* NoOverride deletes the key.
SetOverride(limit) ==
    /\ changes < MaxOverrides
    /\ changes' = changes + 1
    /\ override' = limit
    /\ stats' = [c \in Consumers |->
                    IF pc[c] = "judging"
                    THEN [stats[c] EXCEPT !.limits = @ \cup {EffectiveLimit'}] ELSE stats[c]]
    /\ UNCHANGED <<now, lastSeen, pc, hand, recorded, answer, verdict, happened, events>>

\* What add_and_count() returns.
Count(c, event, count) ==
    /\ recorded' = recorded \cup {event}
    /\ answer' = [event |-> event, count |-> count]
    /\ stats' = [stats EXCEPT ![c] =
                    [count  |-> count,
                     active |-> Cardinality(Active(recorded', event.at)),
                     limits |-> {EffectiveLimit}]]

Finish(c, limit, triggered) ==
    /\ pc[c] = "judging"
    /\ verdict' = [active |-> stats[c].active, limits |-> stats[c].limits, limit |-> limit,
                   triggered |-> triggered]
    /\ pc' = [pc EXCEPT ![c] = "idle"]
    /\ stats' = [stats EXCEPT ![c] = NoStats]
    /\ UNCHANGED <<now, override, lastSeen, hand, recorded, answer, happened, events, changes>>

\* Slips to compare with: the override is stored and not consulted; the absence
\* of the key is taken for a limit.
JudgeByDefault(c) == Finish(c, EffectiveLimit, stats[c].count > DefaultLimit)

JudgeByKey(c) ==
    Finish(c, override, override # NoOverride /\ stats[c].count > override)

\* The rest of record_connection() asks for the override some round trips after
\* the devices were counted; the detector compares the two.
Judge(c) == Finish(c, EffectiveLimit, stats[c].count > EffectiveLimit)

\* Slips to compare with: nothing is pruned; a device seen exactly one window
\* ago is kept.
PrunedNever(cutoff) == lastSeen

PrunedBelow(cutoff) == [d \in Devices |-> IF lastSeen[d] < cutoff THEN Never ELSE lastSeen[d]]

\* ZREMRANGEBYSCORE -inf cutoff
Pruned(cutoff) == [d \in Devices |-> IF lastSeen[d] <= cutoff THEN Never ELSE lastSeen[d]]

\* History: the disturbances that event c handles now makes known.
Notice(c, event, full) ==
    LET busy  == {d \in Consumers \ {c} : pc[d] = "adding"}
        later == {e \in recorded \cup {hand[d] : d \in busy} : e.at > event.at}
    IN  happened' = happened \cup (IF later # {} THEN {"late"} ELSE {})
                            \cup (IF full THEN {"full"} ELSE {})
                            \cup (IF busy # {} THEN {"overlap"} ELSE {})

\* add_and_count(), the first pipeline: devices not seen for a window are
\* removed, and a full set is left as it is.
Prune(c, event) ==
    /\ pc[c] = "idle"
    /\ events < MaxEvents
    /\ events' = events + 1
    /\ now - MaxLag <= event.at /\ event.at <= now
    /\ lastSeen' = Pruned(event.at - Window)
    /\ Notice(c, event, Size(lastSeen') >= Cap)
    /\ IF Size(lastSeen') >= Cap
       THEN /\ Count(c, event, Size(lastSeen'))
            /\ pc' = [pc EXCEPT ![c] = "judging"]
            /\ UNCHANGED hand
       ELSE /\ pc' = [pc EXCEPT ![c] = "adding"]
            /\ hand' = [hand EXCEPT ![c] = event]
            /\ UNCHANGED <<stats, recorded, answer>>
    /\ UNCHANGED <<now, override, verdict, changes>>

\* The second pipeline: ZADD (the later of two consumers wins, whatever the
\* times), ZCARD.
Add(c) ==
    /\ pc[c] = "adding"
    /\ lastSeen' = [lastSeen EXCEPT ![hand[c].device] = hand[c].at]
    /\ Count(c, hand[c], Size(lastSeen'))
    /\ Notice(c, hand[c], FALSE)
    /\ pc' = [pc EXCEPT ![c] = "judging"]
    /\ hand' = [hand EXCEPT ![c] = None]
    /\ UNCHANGED <<now, override, verdict, events, changes>>

\* The clock runs with the events: the key's own expiry, two windows after the
\* last ZADD, comes after every member was due to be pruned.
Tick ==
    /\ now < MaxTime
    /\ \A c \in Consumers : pc[c] = "idle"
    /\ now' = now + 1
    /\ UNCHANGED <<override, lastSeen, pc, hand, stats, recorded, answer, verdict, happened,
                   events, changes>>

Init ==
    /\ now = 0
    /\ override = NoOverride
    /\ lastSeen = [d \in Devices |-> Never]
    /\ pc = [c \in Consumers |-> "idle"]
    /\ hand = [c \in Consumers |-> None]
    /\ stats = [c \in Consumers |-> NoStats]
    /\ recorded = {} /\ answer = NoAnswer /\ verdict = NoVerdict /\ happened = {}
    /\ events = 0 /\ changes = 0

\* The bounds are used up.
Quiet ==
    /\ events = MaxEvents /\ \A c \in Consumers : pc[c] = "idle"
    /\ now = MaxTime /\ changes = MaxOverrides
    /\ UNCHANGED vars

Next ==
    \/ \E limit \in Overrides \cup {NoOverride} : SetOverride(limit)
    \/ \E c \in Consumers : Add(c) \/ Judge(c) \/ \E event \in Events : Prune(c, event)
    \/ Tick
    \/ Quiet

Spec == Init /\ [][Next]_vars

-------------------------------------------------------------------------------
(* Properties *)

Counts == 0..Cardinality(Devices)
Limits == Overrides \cup {DefaultLimit}

TypeOK ==
    /\ now \in Times
    /\ override \in Overrides \cup {NoOverride}
    /\ lastSeen \in [Devices -> Times \cup {Never}]
    /\ pc \in [Consumers -> {"idle", "adding", "judging"}]
    /\ hand \in [Consumers -> Events]
    /\ stats \in [Consumers -> [count : Counts, active : Counts, limits : SUBSET Limits]]
    /\ recorded \subseteq Events
    /\ answer \in [event : Events, count : Counts]
    /\ verdict \in [active : Counts, limits : SUBSET Limits, limit : Limits \cup {0},
                    triggered : BOOLEAN]
    /\ happened \subseteq Disturbances
    /\ events \in 0..MaxEvents /\ changes \in 0..MaxOverrides

Counted == answer # NoAnswer
Judged  == verdict # NoVerdict

\* The answer is the number of devices active in the window that ends with the
\* event, although the set is pruned only when somebody asks: for events in the
\* order of their times, and while the set has not been full (a member that
\* reconnects to a full set is not refreshed).
CountIsActive ==
    Counted /\ happened \subseteq {"overlap"}
        => answer.count = Cardinality(Active(recorded, answer.event.at))

\* Late, and with a full set, too, a device is only counted if it was seen
\* after the start of the window: no device outlives it in the set.  (Of two
\* events handled at once, one may add a device to the set that the other has
\* pruned and is about to count.)
CountsNoGhosts ==
    Counted /\ "overlap" \notin happened
        => answer.count <=
            Cardinality({e.device : e \in {f \in recorded : f.at > answer.event.at - Window}})

\* A user who had, when they were counted, more active devices than every limit
\* that was in force from then until the verdict is flagged, and one who had no
\* more than any of them is not, although the shop sets and clears the limit
\* between the count and the comparison, and other consumers count and judge
\* meanwhile; the exceptions are those of CountIsActive.  (A limit at or above
\* the cap of the set is never exceeded: the set is full first.)
OverLimitIsFlagged ==
    Judged /\ happened \subseteq {"overlap"} =>
        /\ (\A limit \in verdict.limits : verdict.active > limit) => verdict.triggered
        /\ verdict.triggered => \E limit \in verdict.limits : verdict.active > limit

================================================================================
