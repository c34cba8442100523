--------------------------- MODULE RecordConnection ---------------------------
(***************************************************************************)
(* What happens to one connection before it is scored: record_connection() *)
(* counts it and adds it to the destination trackers, one round trip to    *)
(* Redis after the other (services/rate_limiter.py), and run_all() puts    *)
(* the answers to the detectors (detectors/*.py).  Consumers share the     *)
(* keys without a lock, connections are processed in any order, and a      *)
(* batch that fails half-way is delivered again.                           *)
(*                                                                         *)
(* One user.  The keys of different windows are different keys, named by   *)
(* the time of the connection.  That they expire, and the weight of the    *)
(* window before, is the matter of SlidingWindow, as the device tracker is *)
(* the matter of LiveDevices.                                              *)
(***************************************************************************)
EXTENDS Integers, FiniteSets

CONSTANTS
    Consumers,          \* EventConsumer tasks
    Connections,        \* those the user may open: [window, host, port, rejected]
    MailPorts,          \* spam_detection.ports
    Cap,                \* max_tracked_destinations
    IpThreshold,        \* scan_detection.ip_threshold
    PortThreshold,      \* scan_detection.port_threshold
    MaxScanIps,         \* scan_detection.port_scan_max_distinct_ips
    SpamThreshold,      \* spam_detection.distinct_ip_threshold
    RateLimit,          \* connection_limit_per_minute
    FailedThreshold,    \* failed_connection_threshold_per_minute
    MaxConnections,     \* bound: connections the user opens
    MaxFaults           \* bound: batches that fail

\* The cap lies above what is compared with the sets' sizes: the code does not
\* check it of its configuration.
ASSUME RecordConnectionAssumption ==
    /\ IsFiniteSet(Consumers)
    /\ IsFiniteSet(Connections) /\ Connections # {}
    /\ \A e \in Connections : e.rejected \in BOOLEAN
    /\ Cap \in Nat /\ {IpThreshold, PortThreshold, SpamThreshold} \subseteq 1..Cap
    /\ MaxScanIps \in 0..(Cap - 1)
    /\ RateLimit \in Nat /\ FailedThreshold \in Nat \ {0}
    /\ MaxConnections \in Nat /\ MaxFaults \in Nat

Windows   == {e.window : e \in Connections}
Trackers  == {"ip", "port", "smtp"}
Counters  == {"accepted", "rejected"}
Detectors == {"connection_rate", "port_scan", "destination_fanout", "spam",
              "failed_connections"}

VARIABLES
    counter,        \* the counters of each window
    members,        \* the Redis sets of each window
    pc,             \* the step of record_connection() a consumer is at
    hand,           \* the connection it is at work on
    heard,          \* what the ip and port trackers have answered it
    waiting,        \* what is to be delivered again: <<n, e>>, e failed in the n-th fault
    flagged,        \* <<window, detector>>: the detector has triggered
    faults, connects,       \* bounded counters
    \* history, read by the properties only
    opened,         \* the user's connections
    made,           \* how many they are, by window and outcome
    reached,        \* the hosts of those that are done
    before          \* how many these were, its own included, when a consumer began

redis   == <<counter, members>>
history == <<opened, made, reached, before>>
vars    == <<redis, pc, hand, heard, waiting, flagged, faults, connects, history>>

Idle     == <<"idle", "idle">>
Judging  == <<"all", "judge">>
Steps    == {Idle, Judging} \cup (Trackers \X {"check", "add"})
NoAnswer == [ip |-> 0, port |-> 0]
Nothing  == CHOOSE e \in Connections : TRUE     \* in hand when idle

Kind(e) == IF e.rejected THEN "rejected" ELSE "accepted"

Size(tracker, window) == Cardinality(members[tracker][window])

\* A slip to compare with: rejected connections are mail, too.
AnyMail(e) == e.port \in MailPorts

IsMail(e) == ~e.rejected /\ e.port \in MailPorts

-------------------------------------------------------------------------------
\* A slip to compare with: every connection is counted as accepted, too.
TakeCountsTwice(c, e) ==
    /\ pc[c] = Idle
    /\ counter' = [counter EXCEPT !["accepted"][e.window] = @ + 1,
                                  ![Kind(e)][e.window] = @ + 1]
    /\ hand' = [hand EXCEPT ![c] = e]
    /\ before' = [before EXCEPT ![c] = Cardinality(reached[e.window] \cup {e.host})]
    /\ pc' = [pc EXCEPT ![c] = <<"ip", "check">>]
    /\ UNCHANGED <<members, heard, flagged, faults, reached>>

\* A consumer takes up a connection and increments its counter (an accepted one
\* has three, which get the same increments).
Take(c, e) ==
    /\ pc[c] = Idle
    /\ counter' = [counter EXCEPT ![Kind(e)][e.window] = @ + 1]
    /\ hand' = [hand EXCEPT ![c] = e]
    /\ before' = [before EXCEPT ![c] = Cardinality(reached[e.window] \cup {e.host})]
    /\ pc' = [pc EXCEPT ![c] = <<"ip", "check">>]
    /\ UNCHANGED <<members, heard, flagged, faults, reached>>

\* A connection that is delivered for the first time.
Connect(c, e) ==
    /\ connects < MaxConnections
    /\ connects' = connects + 1
    /\ Take(c, e)
    /\ opened' = opened \cup {e}
    /\ made' = [made EXCEPT ![Kind(e)][e.window] = @ + 1]
    /\ UNCHANGED waiting

\* One that is delivered again.
Retake(c, delivery) ==
    /\ Take(c, delivery[2])
    /\ waiting' = waiting \ {delivery}
    /\ UNCHANGED <<connects, opened, made>>

\* add_and_count() returns; its answer for mail is not used.
Answer(c, tracker, size) ==
    /\ heard' = IF tracker = "smtp" THEN heard ELSE [heard EXCEPT ![c][tracker] = size]
    /\ pc' = [pc EXCEPT ![c] =
                 CASE tracker = "ip"                      -> <<"port", "check">>
                   [] tracker = "port" /\ IsMail(hand[c]) -> <<"smtp", "check">>
                   [] OTHER                               -> Judging]

\* A slip to compare with: the boundary is one too high.
FullBeyondCap(size) == size > Cap

Full(size) == size >= Cap

\* add_and_count(), up to the first SCARD: a full set is left alone.
Check(c, tracker) ==
    LET size == Size(tracker, hand[c].window)
    IN  /\ pc[c] = <<tracker, "check">>
        /\ \/ Full(size) /\ Answer(c, tracker, size)
           \/ ~Full(size) /\ pc' = [pc EXCEPT ![c] = <<tracker, "add">>] /\ UNCHANGED heard
        /\ UNCHANGED <<redis, hand, waiting, flagged, faults, connects, history>>

Value(tracker, e) == IF tracker = "port" THEN e.port ELSE e.host

\* Slips to compare with: the size is the one before the addition; the host of
\* a rejected connection is not added.
AddCountsFirst(c, tracker) ==
    LET w == hand[c].window
    IN  /\ pc[c] = <<tracker, "add">>
        /\ members' = [members EXCEPT ![tracker][w] = @ \cup {Value(tracker, hand[c])}]
        /\ Answer(c, tracker, Size(tracker, w))
        /\ UNCHANGED <<counter, hand, waiting, flagged, faults, connects, history>>

AddAccepted(c, tracker) ==
    LET w == hand[c].window
    IN  /\ pc[c] = <<tracker, "add">>
        /\ members' = [members EXCEPT ![tracker][w] =
              IF tracker = "ip" /\ hand[c].rejected THEN @ ELSE @ \cup {Value(tracker, hand[c])}]
        /\ Answer(c, tracker, Cardinality(members'[tracker][w]))
        /\ UNCHANGED <<counter, hand, waiting, flagged, faults, connects, history>>

\* SADD and the second SCARD.  They are one step: additions commute, what is
\* added between the two may as well have been added before.
Add(c, tracker) ==
    LET w == hand[c].window
    IN  /\ pc[c] = <<tracker, "add">>
        /\ members' = [members EXCEPT ![tracker][w] = @ \cup {Value(tracker, hand[c])}]
        /\ Answer(c, tracker, Cardinality(members'[tracker][w]))
        /\ UNCHANGED <<counter, hand, waiting, flagged, faults, connects, history>>

Done(c) ==
    /\ pc' = [pc EXCEPT ![c] = Idle]
    /\ hand' = [hand EXCEPT ![c] = Nothing]
    /\ heard' = [heard EXCEPT ![c] = NoAnswer]
    /\ before' = [before EXCEPT ![c] = 0]

PortScan(answer) == answer.port >= PortThreshold /\ answer.ip <= MaxScanIps

DestinationFanout(answer) == answer.ip >= IpThreshold \/ answer.port >= PortThreshold

ConnectionRate(window) == counter["accepted"][window] > RateLimit

FailedConnections(window) == counter["rejected"][window] >= FailedThreshold

Spam(window) == Size("smtp", window) >= SpamThreshold

\* run_all(): the detectors that trigger.
Triggered(answer, window) ==
    {d \in Detectors :
        CASE d = "connection_rate"    -> ConnectionRate(window)
          [] d = "port_scan"          -> PortScan(answer)
          [] d = "destination_fanout" -> DestinationFanout(answer)
          [] d = "spam"               -> Spam(window)
          [] d = "failed_connections" -> FailedConnections(window)}

\* The remaining reads and the verdicts.  They are one step: no verdict needs
\* two of these reads.
Judge(c) ==
    LET w == hand[c].window
    IN  /\ pc[c] = Judging
        /\ flagged' = flagged \cup ({w} \X Triggered(heard[c], w))
        /\ reached' = [reached EXCEPT ![w] = @ \cup {hand[c].host}]
        /\ Done(c)
        /\ UNCHANGED <<redis, waiting, faults, connects, opened, made>>

\* The batch fails; the connection will be delivered again, what it has left in
\* Redis stays.
Fail(c) ==
    /\ pc[c] # Idle
    /\ faults < MaxFaults
    /\ faults' = faults + 1
    /\ waiting' = waiting \cup {<<faults', hand[c]>>}
    /\ Done(c)
    /\ UNCHANGED <<redis, flagged, connects, opened, made, reached>>

Init ==
    /\ counter = [k \in Counters |-> [w \in Windows |-> 0]]
    /\ members = [t \in Trackers |-> [w \in Windows |-> {}]]
    /\ pc = [c \in Consumers |-> Idle]
    /\ hand = [c \in Consumers |-> Nothing]
    /\ heard = [c \in Consumers |-> NoAnswer]
    /\ waiting = {}
    /\ flagged = {}
    /\ faults = 0 /\ connects = 0
    /\ opened = {}
    /\ made = [k \in Counters |-> [w \in Windows |-> 0]]
    /\ reached = [w \in Windows |-> {}]
    /\ before = [c \in Consumers |-> 0]

Settled == waiting = {} /\ \A c \in Consumers : pc[c] = Idle

\* The bounds are used up.
Quiet == Settled /\ connects = MaxConnections /\ UNCHANGED vars

Next ==
    \/ \E c \in Consumers :
          \/ \E e \in Connections : Connect(c, e)
          \/ \E delivery \in waiting : Retake(c, delivery)
          \/ \E tracker \in Trackers : Check(c, tracker) \/ Add(c, tracker)
          \/ Judge(c) \/ Fail(c)
    \/ Quiet

Spec == Init /\ [][Next]_vars

-------------------------------------------------------------------------------
(* Properties *)

Values(tracker) == {Value(tracker, e) : e \in Connections}

TypeOK ==
    /\ counter \in [Counters -> [Windows -> Nat]]
    /\ \A k \in Counters, w \in Windows : counter[k][w] \in 0..made[k][w] + faults
    /\ members \in [Trackers -> [Windows -> SUBSET UNION {Values(t) : t \in Trackers}]]
    /\ \A t \in Trackers, w \in Windows : members[t][w] \subseteq Values(t)
    /\ pc \in [Consumers -> Steps]
    /\ hand \in [Consumers -> Connections]
    /\ heard \in [Consumers -> [ip : Nat, port : Nat]]
    /\ waiting \subseteq (1..faults) \X opened
    /\ flagged \subseteq Windows \X Detectors
    /\ faults \in 0..MaxFaults
    /\ opened \subseteq Connections
    /\ made \in [Counters -> [Windows -> Nat]]
    /\ connects \in 0..MaxConnections
    /\ reached \in [Windows -> SUBSET Values("ip")]
    /\ before \in [Consumers -> Nat]

\* The cap is checked before the value is added, so consumers can overrun it
\* together, each by one value and not more: the sets are bounded all the same.
OvershootIsBounded ==
    \A t \in Trackers, w \in Windows :
        Cardinality(members[t][w]) <= Cap + Cardinality(Consumers) - 1

Distinct(tracker, connections) == Cardinality({Value(tracker, e) : e \in connections})

\* What each detector is to find, in terms of the user's connections; repeated:
\* how many of them may have been counted once more.
Offence(detector, window, repeated) ==
    LET all  == {e \in opened : e.window = window}
        mail == {e \in all : ~e.rejected /\ e.port \in MailPorts}
    IN  CASE detector = "connection_rate"    -> made["accepted"][window] + repeated > RateLimit
          [] detector = "port_scan"          -> /\ Distinct("port", all) >= PortThreshold
                                                /\ Distinct("ip", all) <= MaxScanIps
          [] detector = "destination_fanout" -> \/ Distinct("ip", all) >= IpThreshold
                                                \/ Distinct("port", all) >= PortThreshold
          [] detector = "spam"               -> Distinct("ip", mail) >= SpamThreshold
          [] detector = "failed_connections" -> made["rejected"][window] + repeated >= FailedThreshold

\* Whoever offends in a window is flagged for it by the time all connections
\* are processed, in whatever order consumers take them up and interleave,
\* although sets are capped and batches fail between two trackers.
OffendersAreFlagged ==
    Settled => \A w \in Windows, d \in Detectors :
        Offence(d, w, 0) => <<w, d>> \in flagged

\* Only offenders are flagged: connections that are delivered again add nothing
\* to the sets, and count again no more often than batches have failed; a
\* window is not charged with another one's connections.  (Port scans have a
\* property of their own: what looks like one may be spread over more hosts in
\* the end.)
FlaggedMeansOffence ==
    \A w \in Windows, d \in Detectors \ {"port_scan"} :
        <<w, d>> \in flagged => Offence(d, w, faults)

\* A port scan is concentrated on few hosts.  The hosts are counted before the
\* ports, and other consumers add both in between, so the answer for the hosts
\* is stale; but a user whose connections had reached more hosts by the time
\* this one was taken up is never taken for a scanner.
ScanIsConcentrated ==
    \A c \in Consumers :
        pc[c] = Judging /\ PortScan(heard[c]) => before[c] <= MaxScanIps

===============================================================================
