----------------------------- MODULE SlidingWindow -----------------------------
(***************************************************************************)
(* The rate of one user's connections: SlidingWindowCounter, which         *)
(* record_connection() increments and then asks for an estimate            *)
(* (services/rate_limiter.py), and ConnectionRateDetector, which compares  *)
(* the estimate with the limit (detectors/connection_rate.py).  The        *)
(* counters are keyed by the time of the event, their expiry runs on       *)
(* Redis's clock, and consumers share them without any lock.               *)
(***************************************************************************)
EXTENDS Integers, FiniteSets

CONSTANTS
    Consumers,          \* EventConsumer tasks
    Window,             \* window_seconds, in ticks
    Limit,              \* e.g. connection_limit_per_minute
    MaxConnections,     \* bound: connections the user opens
    MaxLag,             \* bound: ticks from the connection to its processing
    MaxTime,            \* bound: the clock stops here
    MaxFaults           \* bound: crashes

ASSUME SlidingWindowAssumption ==
    /\ Window \in Nat \ {0} /\ Limit \in Nat
    /\ MaxConnections \in Nat /\ MaxTime \in Nat /\ MaxFaults \in Nat
    /\ MaxLag \in 0..Window

Connections == 1..MaxConnections
Buckets     == -1..(MaxTime \div Window)
None        == 0                    \* a consumer with nothing in hand

VARIABLES
    now,
    at,             \* when each connection was opened, -1 before that
    waiting,        \* connections on the stream
    count,          \* the counter of each bucket
    expires,        \* and when Redis deletes it
    hand,           \* the connection a consumer is at work on
    counted,        \* whether it has incremented the counter
    flagged,        \* connections on which the detector triggered
    faults

vars == <<now, at, waiting, count, expires, hand, counted, flagged, faults>>

Bucket(time) == time \div Window

InHand == {hand[c] : c \in Consumers} \ {None}

\* GET: an expired key is gone.
Get(bucket) == IF expires[bucket] > now THEN count[bucket] ELSE 0

\* A slip to compare with: the key expires with its own window.
TimeToLiveOneWindow == Window

\* "2x window so the previous bucket is still readable".
TimeToLive == 2 * Window

-------------------------------------------------------------------------------
Connect ==
    LET opened == {e \in Connections : at[e] # -1}
        next   == Cardinality(opened) + 1
    IN  /\ next <= MaxConnections
        /\ at' = [at EXCEPT ![next] = now]
        /\ waiting' = waiting \cup {next}
        /\ UNCHANGED <<now, count, expires, hand, counted, flagged, faults>>

\* A consumer gets a connection, in any order: nodes report independently.
Take(c) ==
    /\ hand[c] = None
    /\ \E e \in waiting : hand' = [hand EXCEPT ![c] = e] /\ waiting' = waiting \ {e}
    /\ counted' = [counted EXCEPT ![c] = FALSE]
    /\ UNCHANGED <<now, at, count, expires, flagged, faults>>

\* A slip to compare with: the counter is incremented again by every attempt of
\* a command that was answered late.
IncrementTwice(c) ==
    LET bucket == Bucket(at[hand[c]])
    IN  /\ hand[c] # None /\ ~counted[c]
        /\ count' = [count EXCEPT ![bucket] = Get(bucket) + 2]
        /\ expires' = [expires EXCEPT ![bucket] = now + TimeToLive]
        /\ counted' = [counted EXCEPT ![c] = TRUE]
        /\ UNCHANGED <<now, at, waiting, hand, flagged, faults>>

\* A slip to compare with: the bucket is that of the processing.
IncrementNow(c) ==
    LET bucket == Bucket(now)
    IN  /\ hand[c] # None /\ ~counted[c]
        /\ count' = [count EXCEPT ![bucket] = Get(bucket) + 1]
        /\ expires' = [expires EXCEPT ![bucket] = now + TimeToLive]
        /\ counted' = [counted EXCEPT ![c] = TRUE]
        /\ UNCHANGED <<now, at, waiting, hand, flagged, faults>>

\* increment()
Increment(c) ==
    LET bucket == Bucket(at[hand[c]])
    IN  /\ hand[c] # None /\ ~counted[c]
        /\ count' = [count EXCEPT ![bucket] = Get(bucket) + 1]
        /\ expires' = [expires EXCEPT ![bucket] = now + TimeToLive]
        /\ counted' = [counted EXCEPT ![c] = TRUE]
        /\ UNCHANGED <<now, at, waiting, hand, flagged, faults>>

\* The estimate, previous * (1 - elapsed fraction) + current, is over the limit.
OverLimit(time) ==
    Get(Bucket(time) - 1) * (Window - (time % Window)) + Get(Bucket(time)) * Window
        > Limit * Window

\* estimate(), and the detector's verdict on it.
Estimate(c) ==
    /\ hand[c] # None /\ counted[c]
    /\ flagged' = IF OverLimit(at[hand[c]]) THEN flagged \cup {hand[c]} ELSE flagged
    /\ hand' = [hand EXCEPT ![c] = None]
    /\ counted' = [counted EXCEPT ![c] = FALSE]
    /\ UNCHANGED <<now, at, waiting, count, expires, faults>>

\* The batch fails; its events will be delivered again, its increments stay.
Fail(c) ==
    /\ hand[c] # None
    /\ faults < MaxFaults
    /\ faults' = faults + 1
    /\ waiting' = waiting \cup {hand[c]}
    /\ hand' = [hand EXCEPT ![c] = None]
    /\ counted' = [counted EXCEPT ![c] = FALSE]
    /\ UNCHANGED <<now, at, count, expires, flagged>>

\* Time does not leave a connection more than MaxLag behind.
Tick ==
    /\ now < MaxTime
    /\ \A e \in waiting \cup InHand : now < at[e] + MaxLag
    /\ now' = now + 1
    /\ UNCHANGED <<at, waiting, count, expires, hand, counted, flagged, faults>>

Init ==
    /\ now = 0
    /\ at = [e \in Connections |-> -1]
    /\ waiting = {}
    /\ count = [b \in Buckets |-> 0]
    /\ expires = [b \in Buckets |-> 0]
    /\ hand = [c \in Consumers |-> None]
    /\ counted = [c \in Consumers |-> FALSE]
    /\ flagged = {}
    /\ faults = 0

Settled == waiting = {} /\ InHand = {}

\* The bounds are used up.
Quiet ==
    /\ Settled /\ now = MaxTime /\ at[MaxConnections] # -1
    /\ UNCHANGED vars

Next ==
    \/ Connect
    \/ \E c \in Consumers : Take(c) \/ Increment(c) \/ Estimate(c) \/ Fail(c)
    \/ Tick
    \/ Quiet

Spec == Init /\ [][Next]_vars

-------------------------------------------------------------------------------
(* Properties *)

TypeOK ==
    /\ now \in 0..MaxTime
    /\ at \in [Connections -> -1..now]
    /\ waiting \subseteq Connections /\ flagged \subseteq Connections
    /\ count \in [Buckets -> 0..MaxConnections + MaxFaults]
    /\ expires \in [Buckets -> 0..now + 2 * Window]
    /\ hand \in [Consumers -> Connections \cup {None}]
    /\ counted \in [Consumers -> BOOLEAN]
    /\ faults \in 0..MaxFaults

OpenedWithin(from, to) == {e \in Connections : at[e] # -1 /\ from <= at[e] /\ at[e] <= to}

\* A burst is flagged wherever the bucket boundary falls, in whatever order
\* and by whatever consumers it is processed, and although keys expire: more
\* than twice the limit within any one window, and the detector has triggered
\* on one of them by the time all are processed.
BurstIsFlagged ==
    Settled => \A start \in 0..MaxTime :
        LET burst == OpenedWithin(start, start + Window - 1)
        IN  Cardinality(burst) > 2 * Limit => burst \cap flagged # {}

\* A quiet user is not flagged as long as no batch has failed (a failed one is
\* delivered again, and its connections are counted twice): whoever is flagged
\* has opened more connections than the limit within two windows, and the older
\* ones of them count in proportion: a connection at the end of its bucket
\* weighs the window before less than one at its start.
FlaggedMeansBusy ==
    \A e \in flagged :
        LET start == at[e] - (at[e] % Window)
        IN  faults = 0 =>
              Cardinality(OpenedWithin(start - Window, start - 1)) * (Window - (at[e] % Window))
                + Cardinality(OpenedWithin(start, start + Window - 1)) * Window
                > Limit * Window

================================================================================
