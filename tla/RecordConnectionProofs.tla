------------------------ MODULE RecordConnectionProofs ------------------------
(***************************************************************************)
(* What the detectors see of the user's connections, for any number of     *)
(* consumers, connections and failed batches, any cap and any thresholds   *)
(* below it: every offender is flagged, and nobody else.                   *)
(***************************************************************************)
EXTENDS RecordConnection, FiniteSetTheorems, TLAPS

-------------------------------------------------------------------------------
(* The inductive invariant *)

\* The connections of a window that a tracker is to see, and what it is to see
\* of them.
Seen(t, w) == {e \in opened : e.window = w /\ (t = "smtp" => IsMail(e))}
SeenValues(t, w) == {Value(t, e) : e \in Seen(t, w)}

\* The trackers that a connection goes through until t has answered.
Until(t) == {"ip"} \cup (IF t = "ip" THEN {} ELSE {"port"})
                   \cup (IF t = "smtp" THEN {"smtp"} ELSE {})

Unanswered(c, t) == pc[c] \in Until(t) \X {"check", "add"}

\* Connections of a window that are not done; and those of them that have yet to
\* hear from tracker t, or have heard that its set is at least n.
Delivered(w) == {d \in waiting : d[2].window = w}
Working(w)   == {c \in Consumers : pc[c] # Idle /\ hand[c].window = w}

Unfinished(w) == Delivered(w) # {} \/ Working(w) # {}

WillHear(t, w, n) ==
    \/ Delivered(w) # {}
    \/ \E c \in Working(w) : Unanswered(c, t) \/ heard[c][t] >= n

HandInv ==
    \A c \in Consumers :
        /\ pc[c] # Idle => hand[c] \in opened
        /\ pc[c] \in {"smtp"} \X {"check", "add"} => IsMail(hand[c])
        /\ pc[c] = Idle => heard[c] = NoAnswer

\* Every connection is counted, and again for a failed delivery that is not
\* outstanding.
Again(k, w) == {d \in waiting : Kind(d[2]) = k /\ d[2].window = w}

CountInv ==
    /\ IsFiniteSet(waiting)
    /\ \A k \in Counters, w \in Windows :
          /\ made[k][w] <= counter[k][w]
          /\ counter[k][w] + Cardinality(Again(k, w)) <= made[k][w] + faults

MembersInv == \A t \in Trackers, w \in Windows : members[t][w] \subseteq SeenValues(t, w)

\* A tracker's set has what it is to have, but for connections still on their
\* way to it, or it is full.
Complete(t, w) ==
    Size(t, w) >= Cap \/
    \A e \in Seen(t, w) :
        \/ Value(t, e) \in members[t][w]
        \/ \E n \in 1..faults : <<n, e>> \in waiting
        \/ \E c \in Consumers : Unanswered(c, t) /\ hand[c] = e

HeardInv ==
    \A c \in Consumers, t \in {"ip", "port"} : heard[c][t] <= Size(t, hand[c].window)

Adders(t, w) == {c \in Consumers : pc[c] = <<t, "add">> /\ hand[c].window = w}

OvershootInv ==
    \A t \in Trackers, w \in Windows :
        Size(t, w) + Cardinality(Adders(t, w)) <= Cap + Cardinality(Consumers) - 1

\* What was known of the hosts when a consumer began is in the set, or will be
\* with its own, or the set is full.
HostKept(c) ==
    LET w == hand[c].window
        h == hand[c].host
    IN  /\ Unanswered(c, "ip") =>
              \/ before[c] <= Cardinality(members["ip"][w] \cup {h})
              \/ Size("ip", w) >= Cap
        /\ pc[c] # Idle /\ ~Unanswered(c, "ip") =>
              /\ h \in members["ip"][w] \/ Size("ip", w) >= Cap
              /\ before[c] <= heard[c].ip \/ heard[c].ip >= Cap

HostsInv ==
    /\ \A w \in Windows : reached[w] \subseteq members["ip"][w] \/ Size("ip", w) >= Cap
    /\ \A c \in Consumers : HostKept(c)

\* What is in Redis is flagged or will be judged.
Threshold(t) == IF t = "ip" THEN IpThreshold ELSE PortThreshold

DueInv ==
    \A w \in Windows :
        /\ ConnectionRate(w) => <<w, "connection_rate">> \in flagged \/ Unfinished(w)
        /\ FailedConnections(w) => <<w, "failed_connections">> \in flagged \/ Unfinished(w)
        /\ Spam(w) => <<w, "spam">> \in flagged \/ Unfinished(w)
        /\ \A t \in {"ip", "port"} :
             Size(t, w) >= Threshold(t) =>
                 <<w, "destination_fanout">> \in flagged \/ WillHear(t, w, Threshold(t))
        /\ Size("port", w) >= PortThreshold =>
               \/ <<w, "port_scan">> \in flagged
               \/ WillHear("port", w, PortThreshold)
               \/ Cardinality(SeenValues("ip", w)) > MaxScanIps

RecordInv ==
    /\ TypeOK
    /\ HandInv /\ CountInv /\ MembersInv /\ HeardInv /\ OvershootInv /\ HostsInv /\ DueInv
    /\ \A t \in Trackers, w \in Windows : Complete(t, w)
    /\ FlaggedMeansOffence

-------------------------------------------------------------------------------
(* Sets and their sizes *)

LEMMA ValuesAreFinite ==
    ASSUME NEW t, NEW S \in SUBSET Connections
    PROVE  IsFiniteSet({Value(t, e) : e \in S})
<1> DEFINE T == {Value(t, e) : e \in S}
           f == [e \in S |-> Value(t, e)]
<1>1. IsFiniteSet(S)
  BY RecordConnectionAssumption, FS_Subset
<1>2. f \in [S -> T] /\ \A v \in T : \E e \in S : f[e] = v
  OBVIOUS
<1>3. f \in Surjection(S, T)
  BY <1>2 DEF Surjection
<1> QED BY <1>1, <1>3, FS_Surjection

\* Sets of hosts or ports are no smaller than their parts, and one value more
\* makes them one larger at most.
LEMMA ValuesCount ==
    ASSUME NEW t, NEW T \in SUBSET Values(t), NEW S \in SUBSET T
    PROVE  Cardinality(S) \in Nat /\ Cardinality(T) \in Nat /\ Cardinality(S) <= Cardinality(T)
<1>1. IsFiniteSet(Values(t))
  BY ValuesAreFinite DEF Values
<1>2. IsFiniteSet(T)
  BY <1>1, FS_Subset
<1>3. IsFiniteSet(S) /\ Cardinality(S) <= Cardinality(T)
  BY <1>2, FS_Subset
<1> QED BY <1>2, <1>3, FS_CardinalityType

LEMMA OneValueMore ==
    ASSUME NEW t, NEW S \in SUBSET Values(t), NEW v
    PROVE  Cardinality(S \cup {v}) <= Cardinality(S) + 1
<1>1. IsFiniteSet(S)
  <2>1. IsFiniteSet(Values(t))
    BY ValuesAreFinite DEF Values
  <2> QED BY <2>1, FS_Subset
<1>2. Cardinality(S \cup {v}) = IF v \in S THEN Cardinality(S) ELSE Cardinality(S) + 1
  BY <1>1, FS_AddElement
<1>3. Cardinality(S) \in Nat
  BY <1>1, FS_CardinalityType
<1> QED BY <1>2, <1>3

\* The trackers' sets, and how they compare with what is to be in them.
LEMMA SizeFacts ==
    ASSUME TypeOK, MembersInv, NEW t \in Trackers, NEW w \in Windows
    PROVE  /\ Size(t, w) \in Nat
           /\ SeenValues(t, w) \subseteq Values(t) /\ Cardinality(SeenValues(t, w)) \in Nat
           /\ Size(t, w) <= Cardinality(SeenValues(t, w))
<1>1. SeenValues(t, w) \subseteq Values(t)
  BY DEF SeenValues, Seen, Values, TypeOK
<1>2. members[t][w] \subseteq SeenValues(t, w)
  BY DEF MembersInv
<1> QED BY <1>1, <1>2, ValuesCount DEF Size

LEMMA ConsumersCount ==
    ASSUME NEW S \in SUBSET Consumers
    PROVE  /\ IsFiniteSet(S) /\ Cardinality(S) \in Nat
           /\ Cardinality(Consumers) \in Nat /\ Cardinality(S) <= Cardinality(Consumers)
BY RecordConnectionAssumption, FS_Subset, FS_CardinalityType

LEMMA Numbers ==
    /\ Cap \in Nat \ {0} /\ MaxScanIps \in Nat /\ MaxScanIps < Cap
    /\ IpThreshold \in 1..Cap /\ PortThreshold \in 1..Cap /\ SpamThreshold \in 1..Cap
    /\ RateLimit \in Nat /\ FailedThreshold \in Nat \ {0} /\ MaxFaults \in Nat
    /\ MaxConnections \in Nat
BY RecordConnectionAssumption

LEMMA ConnectionFacts ==
    /\ Nothing \in Connections
    /\ \A e \in Connections : e.window \in Windows /\ Kind(e) \in Counters
BY RecordConnectionAssumption DEF Nothing, Windows, Kind, Counters

\* What the offences count is what the trackers are to see.
LEMMA SeenDistinct ==
    ASSUME NEW w
    PROVE  /\ Distinct("ip", {e \in opened : e.window = w}) = Cardinality(SeenValues("ip", w))
           /\ Distinct("port", {e \in opened : e.window = w}) = Cardinality(SeenValues("port", w))
           /\ Distinct("ip", {e \in {f \in opened : f.window = w} : ~e.rejected /\ e.port \in MailPorts})
                 = Cardinality(SeenValues("smtp", w))
<1>1. {Value("ip", e) : e \in {e \in opened : e.window = w}} = SeenValues("ip", w)
  BY DEF SeenValues, Seen
<1>2. {Value("port", e) : e \in {e \in opened : e.window = w}} = SeenValues("port", w)
  BY DEF SeenValues, Seen
<1>3. {Value("ip", e) : e \in {e \in {f \in opened : f.window = w} :
                                ~e.rejected /\ e.port \in MailPorts}} = SeenValues("smtp", w)
  BY DEF SeenValues, Seen, IsMail, Value
<1> QED BY <1>1, <1>2, <1>3 DEF Distinct

\* More connections, counts and faults make no offence good.
LEMMA OffenceGrows ==
    ASSUME TypeOK, NEW w \in Windows, NEW d \in Detectors \ {"port_scan"}, Offence(d, w, faults),
           opened \subseteq opened', opened' \subseteq Connections,
           faults' \in Nat, faults <= faults',
           made' \in [Counters -> [Windows -> Nat]],
           \A k \in Counters : made[k][w] <= made'[k][w]
    PROVE  Offence(d, w, faults)'
<1> DEFINE all == {e \in opened : e.window = w}
           mail == {e \in all : ~e.rejected /\ e.port \in MailPorts}
           Nall == {e \in opened' : e.window = w}
           Nmail == {e \in Nall : ~e.rejected /\ e.port \in MailPorts}
<1>1. ASSUME NEW t, NEW T \in SUBSET Connections, NEW S \in SUBSET T
      PROVE  Distinct(t, S) \in Nat /\ Distinct(t, T) \in Nat /\ Distinct(t, S) <= Distinct(t, T)
  <2>1. {Value(t, e) : e \in S} \subseteq {Value(t, e) : e \in T}
    OBVIOUS
  <2>2. {Value(t, e) : e \in T} \subseteq Values(t)
    BY DEF Values
  <2> QED BY <2>1, <2>2, ValuesCount DEF Distinct
<1>2. /\ all \subseteq Nall /\ Nall \subseteq Connections
      /\ mail \subseteq Nmail /\ Nmail \subseteq Connections
  OBVIOUS
<1>3. CASE d = "connection_rate"
  <2>1. made["accepted"][w] + faults > RateLimit
    BY <1>3 DEF Offence
  <2>2. made'["accepted"][w] + faults' > RateLimit
    BY <2>1, Numbers DEF TypeOK, Counters
  <2> QED BY <1>3, <2>2 DEF Offence
<1>4. CASE d = "failed_connections"
  <2>1. made["rejected"][w] + faults >= FailedThreshold
    BY <1>4 DEF Offence
  <2>2. made'["rejected"][w] + faults' >= FailedThreshold
    BY <2>1, Numbers DEF TypeOK, Counters
  <2> QED BY <1>4, <2>2 DEF Offence
<1>5. CASE d = "destination_fanout"
  <2>1. Distinct("ip", all) >= IpThreshold \/ Distinct("port", all) >= PortThreshold
    BY <1>5 DEF Offence
  <2>2. Distinct("ip", all) <= Distinct("ip", Nall) /\ Distinct("port", all) <= Distinct("port", Nall)
    BY <1>1, <1>2
  <2>3. /\ Distinct("ip", all) \in Nat /\ Distinct("ip", Nall) \in Nat
        /\ Distinct("port", all) \in Nat /\ Distinct("port", Nall) \in Nat
    BY <1>1, <1>2
  <2>4. Distinct("ip", Nall) >= IpThreshold \/ Distinct("port", Nall) >= PortThreshold
    BY <2>1, <2>2, <2>3, Numbers
  <2> QED BY <1>5, <2>4 DEF Offence, Distinct
<1>6. CASE d = "spam"
  <2>1. Distinct("ip", mail) >= SpamThreshold
    BY <1>6 DEF Offence
  <2>2. /\ Distinct("ip", mail) <= Distinct("ip", Nmail)
        /\ Distinct("ip", mail) \in Nat /\ Distinct("ip", Nmail) \in Nat
    BY <1>1, <1>2
  <2>3. Distinct("ip", Nmail) >= SpamThreshold
    BY <2>1, <2>2, Numbers
  <2> QED BY <1>6, <2>3 DEF Offence, Distinct
<1> QED BY <1>3, <1>4, <1>5, <1>6 DEF Detectors

-------------------------------------------------------------------------------
(* The initial states *)

LEMMA InitRecord == ASSUME Init PROVE RecordInv
<1>1. TypeOK
  <2>1. /\ counter \in [Counters -> [Windows -> Nat]] /\ made \in [Counters -> [Windows -> Nat]]
        /\ \A k \in Counters, w \in Windows : counter[k][w] = 0 /\ made[k][w] = 0
    BY DEF Init
  <2>2. \A k \in Counters, w \in Windows : counter[k][w] \in 0..made[k][w] + faults
    BY <2>1 DEF Init
  <2> QED BY <2>1, <2>2, ConnectionFacts, Numbers
          DEF Init, TypeOK, Steps, NoAnswer
<1>2. HandInv
  BY DEF Init, HandInv, Idle
<1>3. MembersInv
  BY DEF Init, MembersInv
<1>4. /\ \A t \in Trackers, w \in Windows : Size(t, w) = 0
      /\ Cardinality({}) = 0 /\ IsFiniteSet({})
  <2>1. Cardinality({}) = 0 /\ IsFiniteSet({})
    BY FS_EmptySet, Zenon
  <2> QED BY <2>1 DEF Init, Size
<1>5. CountInv
  <2>1. SUFFICES ASSUME NEW k \in Counters, NEW w \in Windows
                 PROVE  /\ made[k][w] <= counter[k][w]
                        /\ counter[k][w] + Cardinality(Again(k, w)) <= made[k][w] + faults
    BY <1>4 DEF Init, CountInv
  <2>2. Again(k, w) = {}
    BY DEF Init, Again
  <2>3. Cardinality(Again(k, w)) = 0
    BY <1>4, <2>2
  <2>4. made[k][w] = 0 /\ counter[k][w] = 0 /\ faults = 0
    BY DEF Init
  <2> QED BY <2>3, <2>4
<1>6. HeardInv
  BY <1>4, ConnectionFacts DEF Init, HeardInv, NoAnswer, Trackers
<1>7. OvershootInv
  <2>1. \A t, w : Adders(t, w) = {}
    BY DEF Init, Adders, Idle
  <2> QED BY <1>4, <2>1, Numbers, ConsumersCount DEF OvershootInv
<1>8. HostsInv
  <2>1. \A c \in Consumers, t \in Trackers : pc[c] = Idle /\ ~Unanswered(c, t)
    BY DEF Init, Unanswered, Until, Idle
  <2>2. \A w \in Windows : reached[w] = {}
    BY DEF Init
  <2> QED BY <2>1, <2>2 DEF HostsInv, HostKept, Trackers
<1>9. DueInv
  <2>1. \A w \in Windows : counter["accepted"][w] = 0 /\ counter["rejected"][w] = 0
    BY DEF Init, Counters
  <2> QED BY <1>4, <2>1, Numbers
          DEF DueInv, ConnectionRate, FailedConnections, Spam, Threshold, Trackers
<1>10. \A t \in Trackers, w \in Windows : Complete(t, w)
  BY DEF Init, Complete, Seen
<1>11. FlaggedMeansOffence
  BY DEF Init, FlaggedMeansOffence
<1> QED BY <1>1, <1>2, <1>3, <1>5, <1>6, <1>7, <1>8, <1>9, <1>10, <1>11 DEF RecordInv

-------------------------------------------------------------------------------
(* What steps have in common *)

\* Nobody comes to add who was not already about to.
LEMMA NoNewAdders ==
    ASSUME OvershootInv, TypeOK, MembersInv, UNCHANGED members,
           \A t \in Trackers, w \in Windows : Adders(t, w)' \subseteq Adders(t, w)
    PROVE  OvershootInv'
<1>1. SUFFICES ASSUME NEW t \in Trackers, NEW w \in Windows
               PROVE  Size(t, w) + Cardinality(Adders(t, w)')
                          <= Cap + Cardinality(Consumers) - 1
  BY DEF OvershootInv, Size
<1>2. Adders(t, w) \in SUBSET Consumers
  BY DEF Adders
<1>3. IsFiniteSet(Adders(t, w)) /\ Cardinality(Adders(t, w)) \in Nat
  BY <1>2, ConsumersCount
<1>4. /\ Cardinality(Adders(t, w)') <= Cardinality(Adders(t, w))
      /\ Cardinality(Adders(t, w)') \in Nat
  BY <1>3, FS_Subset, FS_CardinalityType
<1>5. Size(t, w) + Cardinality(Adders(t, w)) <= Cap + Cardinality(Consumers) - 1
  BY DEF OvershootInv
<1>6. Size(t, w) \in Nat /\ Cardinality(Consumers) \in Nat
  BY SizeFacts, ConsumersCount
<1> QED BY <1>3, <1>4, <1>5, <1>6, Numbers

\* Where a consumer goes when a tracker has answered it: the trackers before
\* have answered, those behind that are to see its connection have not.
LEMMA AnswerFacts ==
    ASSUME TypeOK, NEW c \in Consumers, NEW t \in Trackers, NEW size \in Nat,
           pc[c] \in {<<t, "check">>, <<t, "add">>}, Answer(c, t, size)
    PROVE  /\ pc' \in [Consumers -> Steps] /\ heard' \in [Consumers -> [ip : Nat, port : Nat]]
           /\ \A d \in Consumers \ {c} : pc'[d] = pc[d] /\ heard'[d] = heard[d]
           /\ t # "smtp" => heard'[c][t] = size
           /\ \A r \in {"ip", "port"} \ {t} : heard'[c][r] = heard[c][r]
           /\ pc[c] # Idle /\ Unanswered(c, t)
           /\ pc'[c] # Idle /\ ~Unanswered(c, t)'
           /\ \A r \in Trackers : pc'[c] # <<r, "add">>
           /\ \A r \in Trackers \ {t} :
                 /\ Unanswered(c, r)' => Unanswered(c, r)
                 /\ Unanswered(c, r) /\ (r = "smtp" => IsMail(hand[c])) => Unanswered(c, r)'
           /\ pc'[c] \in {"smtp"} \X {"check", "add"} => IsMail(hand[c])
<1>1. /\ pc' = [pc EXCEPT ![c] = pc'[c]]
      /\ t = "ip" => pc'[c] = <<"port", "check">>
      /\ t = "port" /\ IsMail(hand[c]) => pc'[c] = <<"smtp", "check">>
      /\ t = "port" /\ ~IsMail(hand[c]) => pc'[c] = Judging
      /\ t = "smtp" => pc'[c] = Judging
  BY DEF Answer, TypeOK, Trackers
<1>2. pc' \in [Consumers -> Steps]
  <2>1. pc'[c] \in Steps
    BY <1>1 DEF Steps, Trackers
  <2> QED BY <1>1, <2>1 DEF TypeOK
<1>3. /\ heard' \in [Consumers -> [ip : Nat, port : Nat]]
      /\ \A d \in Consumers \ {c} : heard'[d] = heard[d]
      /\ t # "smtp" => heard'[c][t] = size
      /\ \A r \in {"ip", "port"} \ {t} : heard'[c][r] = heard[c][r]
  BY DEF Answer, TypeOK, Trackers
<1>4. /\ pc[c] # Idle /\ Unanswered(c, t) /\ pc'[c] # Idle /\ ~Unanswered(c, t)'
      /\ \A r \in Trackers : pc'[c] # <<r, "add">>
      /\ pc'[c] \in {"smtp"} \X {"check", "add"} => IsMail(hand[c])
  BY <1>1 DEF Unanswered, Until, Idle, Judging, Trackers
<1>5. \A r \in Trackers \ {t} :
          /\ Unanswered(c, r)' => Unanswered(c, r)
          /\ Unanswered(c, r) /\ (r = "smtp" => IsMail(hand[c])) => Unanswered(c, r)'
  BY <1>1 DEF Unanswered, Until, Judging, Trackers
<1>6. \A d \in Consumers \ {c} : pc'[d] = pc[d]
  BY <1>1 DEF TypeOK
<1> QED BY <1>2, <1>3, <1>4, <1>5, <1>6

-------------------------------------------------------------------------------
(* add_and_count() *)

\* The set was below its cap when the consumer looked: whoever else is about to
\* add, all of them together leave it below the cap and one value each.
LEMMA LookInv ==
    ASSUME RecordInv, NEW c \in Consumers, NEW t \in Trackers,
           pc[c] = <<t, "check">>, ~Full(Size(t, hand[c].window)),
           pc' = [pc EXCEPT ![c] = <<t, "add">>], UNCHANGED heard,
           UNCHANGED <<redis, hand, waiting, flagged, faults, connects, history>>
    PROVE  RecordInv'
<1> DEFINE w0 == hand[c].window
<1>1. /\ TypeOK /\ HandInv /\ CountInv /\ MembersInv /\ HeardInv /\ OvershootInv /\ HostsInv
      /\ DueInv /\ (\A r \in Trackers, w \in Windows : Complete(r, w)) /\ FlaggedMeansOffence
  BY DEF RecordInv
<1>2. UNCHANGED <<counter, members, hand, heard, waiting, flagged, faults, connects,
                  opened, made, reached, before>>
  BY DEF redis, history
<1>3. /\ pc' \in [Consumers -> Steps] /\ pc'[c] = <<t, "add">>
      /\ \A d \in Consumers \ {c} : pc'[d] = pc[d]
  BY <1>1 DEF TypeOK, Steps
<1>4. /\ \A d \in Consumers : pc'[d] = Idle <=> pc[d] = Idle
      /\ \A d \in Consumers, r \in Trackers : Unanswered(d, r)' <=> Unanswered(d, r)
      /\ \A d \in Consumers : pc'[d] \in {"smtp"} \X {"check", "add"}
                                 => pc[d] \in {"smtp"} \X {"check", "add"}
  <2>1. /\ pc'[c] # Idle /\ pc[c] # Idle
        /\ \A r \in Trackers : Unanswered(c, r)' <=> Unanswered(c, r)
        /\ pc'[c] \in {"smtp"} \X {"check", "add"} => pc[c] \in {"smtp"} \X {"check", "add"}
    BY <1>3 DEF Unanswered, Until, Idle, Trackers
  <2>2. \A d \in Consumers \ {c}, r \in Trackers : Unanswered(d, r)' <=> Unanswered(d, r)
    BY <1>3 DEF Unanswered
  <2> QED BY <1>3, <2>1, <2>2
<1>5. TypeOK'
  BY <1>1, <1>2, <1>3 DEF TypeOK
<1>6. HandInv'
  BY <1>1, <1>2, <1>4 DEF HandInv
<1>7. CountInv' /\ MembersInv' /\ HeardInv' /\ FlaggedMeansOffence'
  <2>1. CountInv'
    BY <1>1, <1>2 DEF CountInv, Again
  <2>2. MembersInv' /\ HeardInv'
    BY <1>1, <1>2 DEF MembersInv, SeenValues, Seen, HeardInv, Size
  <2>3. FlaggedMeansOffence'
    BY <1>1, <1>2 DEF FlaggedMeansOffence, Offence, Distinct
  <2> QED BY <2>1, <2>2, <2>3
<1>8. HostsInv'
  BY <1>1, <1>2, <1>4 DEF HostsInv, HostKept, Size, Trackers
<1>9. DueInv'
  <2>1. \A w \in Windows : Delivered(w)' = Delivered(w) /\ Working(w)' = Working(w)
    BY <1>2, <1>4 DEF Delivered, Working
  <2>2. \A w \in Windows : Unfinished(w)' <=> Unfinished(w)
    BY <2>1 DEF Unfinished
  <2>3. \A r \in Trackers, w \in Windows : \A n : WillHear(r, w, n)' <=> WillHear(r, w, n)
    BY <1>2, <1>4, <2>1 DEF WillHear, Working
  <2> QED BY <1>1, <1>2, <2>2, <2>3
          DEF DueInv, ConnectionRate, FailedConnections, Spam, Size, SeenValues, Seen, Trackers
<1>10. ASSUME NEW r \in Trackers, NEW w \in Windows PROVE Complete(r, w)'
  BY <1>1, <1>2, <1>4 DEF Complete, Seen, Size
<1>11. OvershootInv'
  <2>1. SUFFICES ASSUME NEW r \in Trackers, NEW w \in Windows
                 PROVE  Size(r, w) + Cardinality(Adders(r, w)') <= Cap + Cardinality(Consumers) - 1
    BY <1>2 DEF OvershootInv, Size
  <2>2. /\ Size(r, w) \in Nat /\ Cardinality(Consumers) \in Nat
        /\ Cardinality(Adders(r, w)') \in Nat
        /\ Cardinality(Adders(r, w)') <= Cardinality(Consumers)
    <3>1. Adders(r, w)' \in SUBSET Consumers
      BY DEF Adders
    <3> QED BY <1>1, <3>1, SizeFacts, ConsumersCount
  <2>3. CASE r = t /\ w = w0
    <3>1. Size(r, w) < Cap
      BY <2>2, <2>3, Numbers DEF Full
    <3> QED BY <2>2, <3>1, Numbers
  <2>4. CASE ~(r = t /\ w = w0)
    <3>1. Adders(r, w)' = Adders(r, w)
      BY <1>2, <1>3, <2>4 DEF Adders
    <3> QED BY <1>1, <3>1 DEF OvershootInv
  <2> QED BY <2>3, <2>4
<1> QED BY <1>5, <1>6, <1>7, <1>8, <1>9, <1>10, <1>11 DEF RecordInv

SetsTyped == members \in [Trackers -> [Windows -> SUBSET UNION {Values(t) : t \in Trackers}]]

\* The answer that a consumer hears is the size of the set as it is then; its
\* value is in the set, or the set is full.
LEMMA AnswerInv ==
    ASSUME RecordInv, NEW c \in Consumers, NEW t \in Trackers, NEW S,
           pc[c] \in {<<t, "check">>, <<t, "add">>}, Answer(c, t, Cardinality(S)),
           UNCHANGED <<counter, hand, waiting, flagged, faults, connects, history>>,
           SetsTyped', members'[t][hand[c].window] = S,
           \A r \in Trackers, w \in Windows :
               r # t \/ w # hand[c].window => members'[r][w] = members[r][w],
           \A v \in members[t][hand[c].window] : v \in S,
           \A v \in S : v \in members[t][hand[c].window] \/ v = Value(t, hand[c]),
           Value(t, hand[c]) \in S \/ Cardinality(S) >= Cap,
           OvershootInv'
    PROVE  RecordInv'
<1> DEFINE e0 == hand[c]
           w0 == hand[c].window
           size == Cardinality(S)
<1>1. /\ TypeOK /\ HandInv /\ CountInv /\ MembersInv /\ HeardInv /\ HostsInv
      /\ DueInv /\ (\A r \in Trackers, w \in Windows : Complete(r, w)) /\ FlaggedMeansOffence
  BY DEF RecordInv
<1>2. UNCHANGED <<counter, hand, waiting, flagged, faults, connects,
                  opened, made, reached, before>>
  BY DEF history
<1>3. /\ pc[c] # Idle /\ Unanswered(c, t) /\ e0 \in opened /\ e0 \in Connections /\ w0 \in Windows
      /\ pc[c] \in {"smtp"} \X {"check", "add"} <=> t = "smtp"
  BY <1>1, ConnectionFacts DEF HandInv, TypeOK, Unanswered, Until, Idle, Trackers
<1>4. /\ members'[t][w0] = S /\ members[t][w0] \subseteq S
      /\ S \subseteq members[t][w0] \cup {Value(t, e0)}
      /\ \A r \in Trackers, w \in Windows : r # t \/ w # w0 => members'[r][w] = members[r][w]
  BY <1>1, <1>3 DEF TypeOK
<1>5. t = "smtp" => IsMail(e0)
  BY <1>1, <1>3 DEF HandInv
<1>6. S \subseteq SeenValues(t, w0) /\ S \subseteq Values(t)
  <2>1. e0 \in Seen(t, w0)
    BY <1>3, <1>5 DEF Seen
  <2>2. Value(t, e0) \in SeenValues(t, w0)
    BY <2>1 DEF SeenValues
  <2> QED BY <1>1, <1>3, <1>4, <2>2, SizeFacts DEF MembersInv
<1>7. MembersInv'
  <2>1. \A r, w : SeenValues(r, w)' = SeenValues(r, w)
    BY <1>2 DEF SeenValues, Seen
  <2>2. ASSUME NEW r \in Trackers, NEW w \in Windows
        PROVE  members'[r][w] \subseteq SeenValues(r, w)
    BY <1>1, <1>4, <1>6 DEF MembersInv
  <2> QED BY <2>1, <2>2 DEF MembersInv
<1>8. /\ size \in Nat /\ Size(t, w0)' = size
      /\ \A r \in Trackers, w \in Windows :
            /\ Size(r, w) \in Nat /\ Size(r, w)' \in Nat /\ Size(r, w) <= Size(r, w)'
            /\ r # t \/ w # w0 => Size(r, w)' = Size(r, w)
  <2>1. size \in Nat /\ Size(t, w0)' = size /\ Size(t, w0) <= size
    BY <1>3, <1>4, <1>6, ValuesCount DEF Size
  <2>2. ASSUME NEW r \in Trackers, NEW w \in Windows, r # t \/ w # w0
        PROVE  Size(r, w)' = Size(r, w)
    BY <1>4, <2>2 DEF Size
  <2>3. \A r \in Trackers, w \in Windows : Size(r, w) \in Nat
    BY <1>1, SizeFacts
  <2>4. ASSUME NEW r \in Trackers, NEW w \in Windows
        PROVE  Size(r, w)' \in Nat /\ Size(r, w) <= Size(r, w)'
    <3>1. CASE r = t /\ w = w0
      BY <2>1, <3>1
    <3>2. CASE r # t \/ w # w0
      BY <2>2, <2>3, <3>2
    <3> QED BY <3>1, <3>2
  <2> QED BY <2>1, <2>2, <2>3, <2>4
<1>9. /\ pc' \in [Consumers -> Steps] /\ heard' \in [Consumers -> [ip : Nat, port : Nat]]
      /\ \A d \in Consumers \ {c} : pc'[d] = pc[d] /\ heard'[d] = heard[d]
      /\ t # "smtp" => heard'[c][t] = size
      /\ \A r \in {"ip", "port"} \ {t} : heard'[c][r] = heard[c][r]
      /\ pc'[c] # Idle /\ ~Unanswered(c, t)'
      /\ \A r \in Trackers \ {t} :
            /\ Unanswered(c, r)' => Unanswered(c, r)
            /\ Unanswered(c, r) /\ (r = "smtp" => IsMail(e0)) => Unanswered(c, r)'
      /\ pc'[c] \in {"smtp"} \X {"check", "add"} => IsMail(e0)
  BY <1>1, <1>8, AnswerFacts
<1>10. \A d \in Consumers \ {c}, r \in Trackers : Unanswered(d, r)' <=> Unanswered(d, r)
  BY <1>9 DEF Unanswered
<1>11. TypeOK'
  <2>1. members' \in [Trackers -> [Windows -> SUBSET UNION {Values(r) : r \in Trackers}]]
    BY DEF SetsTyped
  <2>2. \A r \in Trackers, w \in Windows : members'[r][w] \subseteq Values(r)
    BY <1>1, <1>4, <1>6 DEF TypeOK
  <2> QED BY <1>1, <1>2, <1>9, <2>1, <2>2 DEF TypeOK
<1>12. HandInv'
  BY <1>1, <1>2, <1>3, <1>9 DEF HandInv
<1>13. CountInv' /\ FlaggedMeansOffence'
  BY <1>1, <1>2 DEF CountInv, Again, FlaggedMeansOffence, Offence, Distinct
<1>14. HeardInv'
  <2>1. SUFFICES ASSUME NEW d \in Consumers, NEW r \in {"ip", "port"}
                 PROVE  heard'[d][r] <= Size(r, hand[d].window)'
    BY <1>2 DEF HeardInv
  <2>2. r \in Trackers /\ hand[d].window \in Windows /\ heard[d][r] \in Nat
    BY <1>1, ConnectionFacts DEF TypeOK, Trackers
  <2>3. CASE d = c /\ r = t
    BY <1>8, <1>9, <2>3
  <2>4. CASE ~(d = c /\ r = t)
    <3>1. heard'[d][r] = heard[d][r]
      BY <1>9, <2>4
    <3>2. heard[d][r] <= Size(r, hand[d].window)
      BY <1>1 DEF HeardInv
    <3> QED BY <1>8, <2>2, <3>1, <3>2
  <2> QED BY <2>3, <2>4
<1>15. \A r \in Trackers, w \in Windows : members[r][w] \subseteq members'[r][w]
  BY <1>4
<1>16. HostsInv'
  <2>1. ASSUME NEW w \in Windows
        PROVE  reached[w] \subseteq members'["ip"][w] \/ Size("ip", w)' >= Cap
    BY <1>1, <1>8, <1>15, Numbers DEF HostsInv, Trackers
  <2>2. ASSUME NEW d \in Consumers
        PROVE  LET w == hand[d].window
                   h == hand[d].host
               IN  /\ Unanswered(d, "ip")' =>
                         \/ before[d] <= Cardinality(members'["ip"][w] \cup {h})
                         \/ Size("ip", w)' >= Cap
                   /\ pc'[d] # Idle /\ ~Unanswered(d, "ip")' =>
                         /\ h \in members'["ip"][w] \/ Size("ip", w)' >= Cap
                         /\ before[d] <= heard'[d].ip \/ heard'[d].ip >= Cap
    <3> DEFINE w == hand[d].window
               h == hand[d].host
               was == Cardinality(members["ip"][w] \cup {h})
               is == Cardinality(members'["ip"][w] \cup {h})
    <3>1. /\ hand[d] \in Connections /\ w \in Windows /\ h = Value("ip", hand[d])
          /\ before[d] \in Nat /\ heard[d].ip \in Nat /\ "ip" \in Trackers
      BY <1>1, ConnectionFacts DEF TypeOK, Value, Trackers
    <3>2. h \in Values("ip")
      BY <3>1 DEF Values
    <3>3. was \in Nat /\ is \in Nat /\ was <= is
      <4>1. members'["ip"][w] \cup {h} \subseteq Values("ip")
        BY <1>11, <3>1, <3>2 DEF TypeOK
      <4>2. members["ip"][w] \cup {h} \subseteq members'["ip"][w] \cup {h}
        BY <1>15, <3>1
      <4> QED BY <4>1, <4>2, ValuesCount
    <3>4. /\ Size("ip", w) \in Nat /\ Size("ip", w)' \in Nat /\ Size("ip", w) <= Size("ip", w)'
      BY <1>8, <3>1
    <3>5. /\ Unanswered(d, "ip") => before[d] <= was \/ Size("ip", w) >= Cap
          /\ pc[d] # Idle /\ ~Unanswered(d, "ip") =>
                /\ h \in members["ip"][w] \/ Size("ip", w) >= Cap
                /\ before[d] <= heard[d].ip \/ heard[d].ip >= Cap
      BY <1>1 DEF HostsInv, HostKept
    <3>6. ASSUME Unanswered(d, "ip")'
          PROVE  before[d] <= is \/ Size("ip", w)' >= Cap
      <4>1. Unanswered(d, "ip")
        BY <1>3, <1>9, <1>10, <3>1, <3>6
      <4> QED BY <3>1, <3>3, <3>4, <3>5, <4>1, Numbers
    <3>7. ASSUME pc'[d] # Idle, ~Unanswered(d, "ip")'
          PROVE  /\ h \in members'["ip"][w] \/ Size("ip", w)' >= Cap
                 /\ before[d] <= heard'[d].ip \/ heard'[d].ip >= Cap
      <4>1. CASE d = c /\ t = "ip"
        <5>1. /\ members'["ip"][w] = S /\ heard'[d].ip = size /\ Size("ip", w)' = size
              /\ Unanswered(d, "ip") /\ (h \in S \/ size >= Cap)
          BY <1>3, <1>4, <1>8, <1>9, <3>1, <4>1
        <5>2. CASE size >= Cap
          BY <5>1, <5>2
        <5>3. CASE ~(size >= Cap)
          <6>1. h \in S /\ members'["ip"][w] \cup {h} = S
            BY <5>1, <5>3
          <6>2. is = size
            BY <6>1
          <6>3. before[d] <= is
            BY <1>8, <3>1, <3>3, <3>4, <3>5, <5>1, <5>3, Numbers
          <6> QED BY <5>1, <6>1, <6>2, <6>3
        <5> QED BY <5>2, <5>3
      <4>2. CASE ~(d = c /\ t = "ip")
        <5>1. pc[d] # Idle /\ ~Unanswered(d, "ip") /\ heard'[d].ip = heard[d].ip
          BY <1>3, <1>9, <1>10, <3>1, <3>7, <4>2
        <5> QED BY <1>15, <3>1, <3>4, <3>5, <5>1, Numbers
      <4> QED BY <4>1, <4>2
    <3> QED BY <3>6, <3>7
  <2> QED BY <1>2, <2>1, <2>2 DEF HostsInv, HostKept
<1>17. ASSUME NEW r \in Trackers, NEW w \in Windows
       PROVE  Complete(r, w)'
  <2>1. SUFFICES ASSUME ~(Size(r, w)' >= Cap), NEW e \in Seen(r, w)
                 PROVE  \/ Value(r, e) \in members'[r][w]
                        \/ \E n \in 1..faults : <<n, e>> \in waiting
                        \/ \E d \in Consumers : Unanswered(d, r)' /\ hand[d] = e
    BY <1>2 DEF Complete, Seen
  <2>2. \/ Value(r, e) \in members[r][w]
        \/ \E n \in 1..faults : <<n, e>> \in waiting
        \/ \E d \in Consumers : Unanswered(d, r) /\ hand[d] = e
    BY <1>1, <1>8, <2>1, Numbers DEF Complete
  <2>3. ASSUME Unanswered(c, r), e0 = e
        PROVE  Value(r, e) \in members'[r][w] \/ (Unanswered(c, r)' /\ hand[c] = e)
    <3>1. w = w0 /\ (r = "smtp" => IsMail(e0))
      BY <2>1, <2>3 DEF Seen
    <3>2. CASE r = t
      BY <1>4, <1>8, <2>1, <2>3, <3>1, <3>2
    <3>3. CASE r # t
      BY <1>9, <2>3, <3>1, <3>3
    <3> QED BY <3>2, <3>3
  <2> QED BY <1>10, <1>15, <2>2, <2>3
<1>18. DueInv'
  <2>1. \A w \in Windows : Delivered(w)' = Delivered(w) /\ Working(w)' = Working(w)
    BY <1>2, <1>3, <1>9 DEF Delivered, Working
  <2>2. \A w \in Windows :
            /\ Unfinished(w)' <=> Unfinished(w)
            /\ SeenValues("ip", w)' = SeenValues("ip", w)
            /\ ConnectionRate(w)' <=> ConnectionRate(w)
            /\ FailedConnections(w)' <=> FailedConnections(w)
    BY <1>2, <2>1 DEF Unfinished, SeenValues, Seen, ConnectionRate, FailedConnections
  <2>3. c \in Working(w0) /\ Unfinished(w0)
    BY <1>3 DEF Working, Unfinished
  <2>4. ASSUME NEW w \in Windows, NEW r \in {"ip", "port"}, NEW n \in Nat,
               Size(r, w)' >= n, Size(r, w) >= n => WillHear(r, w, n)
        PROVE  WillHear(r, w, n)'
    <3>1. r \in Trackers
      BY DEF Trackers
    <3>2. CASE r = t /\ w = w0
      <4>1. c \in Working(w)' /\ heard'[c][r] >= n
        BY <1>8, <1>9, <2>1, <2>3, <2>4, <3>2
      <4> QED BY <4>1 DEF WillHear
    <3>3. CASE r # t \/ w # w0
      <4>1. WillHear(r, w, n)
        BY <1>8, <2>4, <3>1, <3>3
      <4>2. CASE Delivered(w) # {}
        BY <2>1, <4>2 DEF WillHear
      <4>3. CASE Delivered(w) = {}
        <5>1. PICK d \in Working(w) : Unanswered(d, r) \/ heard[d][r] >= n
          BY <4>1, <4>3 DEF WillHear
        <5>2. d \in Consumers /\ hand[d].window = w
          BY <5>1 DEF Working
        <5>3. Unanswered(d, r)' \/ heard'[d][r] >= n
          <6>1. CASE d = c
            BY <1>9, <3>1, <3>3, <5>1, <5>2, <6>1
          <6>2. CASE d # c
            BY <1>9, <1>10, <3>1, <5>1, <5>2, <6>2
          <6> QED BY <6>1, <6>2
        <5> QED BY <2>1, <5>1, <5>3 DEF WillHear
      <4> QED BY <4>2, <4>3
    <3> QED BY <3>2, <3>3
  <2>5. SUFFICES ASSUME NEW w \in Windows
                 PROVE  /\ ConnectionRate(w)' => <<w, "connection_rate">> \in flagged \/ Unfinished(w)'
                        /\ FailedConnections(w)' => <<w, "failed_connections">> \in flagged \/ Unfinished(w)'
                        /\ Spam(w)' => <<w, "spam">> \in flagged \/ Unfinished(w)'
                        /\ \A r \in {"ip", "port"} :
                             Size(r, w)' >= Threshold(r) =>
                                 <<w, "destination_fanout">> \in flagged \/ WillHear(r, w, Threshold(r))'
                        /\ Size("port", w)' >= PortThreshold =>
                               \/ <<w, "port_scan">> \in flagged
                               \/ WillHear("port", w, PortThreshold)'
                               \/ Cardinality(SeenValues("ip", w)') > MaxScanIps
    BY <1>2 DEF DueInv
  <2>6. /\ ConnectionRate(w)' => <<w, "connection_rate">> \in flagged \/ Unfinished(w)'
        /\ FailedConnections(w)' => <<w, "failed_connections">> \in flagged \/ Unfinished(w)'
    BY <1>1, <2>2 DEF DueInv
  <2>7. Spam(w)' => <<w, "spam">> \in flagged \/ Unfinished(w)'
    <3>1. CASE w = w0
      BY <2>2, <2>3, <3>1
    <3>2. CASE w # w0
      <4>1. Spam(w)' <=> Spam(w)
        BY <1>8, <3>2 DEF Spam, Trackers
      <4> QED BY <1>1, <2>2, <4>1 DEF DueInv
    <3> QED BY <3>1, <3>2
  <2>8. ASSUME NEW r \in {"ip", "port"}, Size(r, w)' >= Threshold(r),
               <<w, "destination_fanout">> \notin flagged
        PROVE  WillHear(r, w, Threshold(r))'
    <3>1. Size(r, w) >= Threshold(r) => WillHear(r, w, Threshold(r))
      BY <1>1, <2>8 DEF DueInv
    <3>2. Threshold(r) \in Nat
      BY Numbers DEF Threshold
    <3> QED BY <2>4, <2>8, <3>1, <3>2
  <2>9. ASSUME Size("port", w)' >= PortThreshold, <<w, "port_scan">> \notin flagged,
               ~(Cardinality(SeenValues("ip", w)') > MaxScanIps)
        PROVE  WillHear("port", w, PortThreshold)'
    <3>1. Size("port", w) >= PortThreshold => WillHear("port", w, PortThreshold)
      BY <1>1, <2>2, <2>9 DEF DueInv
    <3>2. PortThreshold \in Nat
      BY Numbers
    <3> QED BY <2>4, <2>9, <3>1, <3>2
  <2> QED BY <2>6, <2>7, <2>8, <2>9
<1> QED BY <1>7, <1>11, <1>12, <1>13, <1>14, <1>16, <1>17, <1>18 DEF RecordInv

LEMMA CheckInv ==
    ASSUME RecordInv, NEW c \in Consumers, NEW t \in Trackers, Check(c, t)
    PROVE  RecordInv'
<1> DEFINE w0 == hand[c].window
<1>1. /\ pc[c] = <<t, "check">>
      /\ UNCHANGED <<redis, hand, waiting, flagged, faults, connects, history>>
      /\ \/ Full(Size(t, w0)) /\ Answer(c, t, Size(t, w0))
         \/ ~Full(Size(t, w0)) /\ pc' = [pc EXCEPT ![c] = <<t, "add">>] /\ UNCHANGED heard
  BY DEF Check
<1>2. CASE ~Full(Size(t, w0)) /\ pc' = [pc EXCEPT ![c] = <<t, "add">>] /\ UNCHANGED heard
  BY <1>1, <1>2, LookInv
<1>3. CASE Full(Size(t, w0)) /\ Answer(c, t, Size(t, w0))
  <2>1. TypeOK /\ MembersInv /\ OvershootInv /\ w0 \in Windows
    BY ConnectionFacts DEF RecordInv, TypeOK
  <2> PICK S : S = members[t][w0]
    OBVIOUS
  <2>2. UNCHANGED <<counter, members, hand, waiting, flagged, faults, connects, history>>
    BY <1>1 DEF redis
  <2>3. /\ SetsTyped' /\ members'[t][w0] = S
        /\ \A r \in Trackers, w \in Windows : r # t \/ w # w0 => members'[r][w] = members[r][w]
    BY <2>1, <2>2 DEF TypeOK, SetsTyped
  <2>4. Cardinality(S) >= Cap /\ Answer(c, t, Cardinality(S)) /\ Cardinality(S) \in Nat
    BY <1>3, <2>1, SizeFacts DEF Full, Size
  <2>5. OvershootInv'
    <3>1. /\ \A d \in Consumers \ {c} : pc'[d] = pc[d]
          /\ \A r \in Trackers : pc'[c] # <<r, "add">>
      BY <1>1, <2>1, <2>4, AnswerFacts
    <3>2. \A r \in Trackers, w \in Windows : Adders(r, w)' \subseteq Adders(r, w)
      BY <2>2, <3>1 DEF Adders
    <3> QED BY <2>1, <2>2, <3>2, NoNewAdders
  <2>6. pc[c] \in {<<t, "check">>, <<t, "add">>}
    BY <1>1
  <2>7. /\ \A v \in members[t][w0] : v \in S
        /\ \A v \in S : v \in members[t][w0] \/ v = Value(t, hand[c])
    OBVIOUS
  <2>8. UNCHANGED <<counter, hand, waiting, flagged, faults, connects, history>>
    BY <2>2
  <2> QED BY <2>3, <2>4, <2>5, <2>6, <2>7, <2>8, AnswerInv
<1> QED BY <1>1, <1>2, <1>3

LEMMA AddInv ==
    ASSUME RecordInv, NEW c \in Consumers, NEW t \in Trackers, Add(c, t)
    PROVE  RecordInv'
<1> DEFINE w0 == hand[c].window
           v == Value(t, hand[c])
<1>0. PICK S : S = members[t][w0] \cup {v}
  OBVIOUS
<1>1. TypeOK /\ MembersInv /\ OvershootInv /\ w0 \in Windows
  BY ConnectionFacts DEF RecordInv, TypeOK
<1>2. /\ pc[c] = <<t, "add">> /\ members' = [members EXCEPT ![t][w0] = S]
      /\ UNCHANGED <<counter, hand, waiting, flagged, faults, connects, history>>
      /\ Answer(c, t, Cardinality(members'[t][w0]))
  BY <1>0 DEF Add
<1>3. /\ members'[t][w0] = S /\ Answer(c, t, Cardinality(S))
      /\ \A r \in Trackers, w \in Windows : r # t \/ w # w0 => members'[r][w] = members[r][w]
  BY <1>1, <1>2 DEF TypeOK
<1>4. /\ Cardinality(S) \in Nat /\ Size(t, w0) \in Nat
      /\ Cardinality(S) <= Size(t, w0) + 1
  <2>1. members[t][w0] \subseteq Values(t) /\ v \in Values(t)
    BY <1>1 DEF TypeOK, Values
  <2>2. S \subseteq Values(t)
    BY <1>0, <2>1
  <2> QED BY <1>0, <2>1, <2>2, ValuesCount, OneValueMore DEF Size
<1>5. OvershootInv'
  <2>1. /\ \A d \in Consumers \ {c} : pc'[d] = pc[d]
        /\ \A r \in Trackers : pc'[c] # <<r, "add">>
    BY <1>1, <1>2, <1>3, <1>4, AnswerFacts
  <2>2. SUFFICES ASSUME NEW r \in Trackers, NEW w \in Windows
                 PROVE  Size(r, w)' + Cardinality(Adders(r, w)') <= Cap + Cardinality(Consumers) - 1
    BY DEF OvershootInv
  <2>3. /\ Adders(r, w) \in SUBSET Consumers /\ Adders(r, w)' = Adders(r, w) \ {c}
    BY <1>2, <2>1 DEF Adders
  <2>4. /\ IsFiniteSet(Adders(r, w)) /\ Cardinality(Adders(r, w)) \in Nat
        /\ Cardinality(Consumers) \in Nat /\ Cardinality(Adders(r, w)') \in Nat
        /\ Cardinality(Adders(r, w)') =
               IF c \in Adders(r, w) THEN Cardinality(Adders(r, w)) - 1 ELSE Cardinality(Adders(r, w))
    <3>1. Adders(r, w) \ {c} \in SUBSET Consumers
      BY <2>3
    <3>2. /\ IsFiniteSet(Adders(r, w)) /\ Cardinality(Adders(r, w)) \in Nat
          /\ Cardinality(Consumers) \in Nat /\ Cardinality(Adders(r, w) \ {c}) \in Nat
      BY <2>3, <3>1, ConsumersCount
    <3> QED BY <2>3, <3>2, FS_RemoveElement
  <2>5. Size(r, w) + Cardinality(Adders(r, w)) <= Cap + Cardinality(Consumers) - 1
    BY <1>1 DEF OvershootInv
  <2>6. Size(r, w) \in Nat
    BY <1>1, SizeFacts
  <2>7. CASE r = t /\ w = w0
    <3>1. c \in Adders(r, w)
      BY <1>2, <2>7 DEF Adders
    <3>2. Size(r, w)' = Cardinality(S) /\ Cardinality(S) <= Size(r, w) + 1
      BY <1>3, <1>4, <2>7 DEF Size
    <3> QED BY <1>4, <2>4, <2>5, <2>6, <3>1, <3>2, Numbers
  <2>8. CASE ~(r = t /\ w = w0)
    <3>1. Size(r, w)' = Size(r, w)
      BY <1>3, <2>8 DEF Size
    <3> QED BY <2>4, <2>5, <2>6, <3>1, Numbers
  <2> QED BY <2>7, <2>8
<1>6. /\ \A x \in members[t][w0] : x \in S
      /\ \A x \in S : x \in members[t][w0] \/ x = v
      /\ v \in S
  BY <1>0
<1>7. SetsTyped'
  <2>1. S \subseteq UNION {Values(r) : r \in Trackers}
    BY <1>0, <1>1 DEF TypeOK, Values
  <2> QED BY <1>1, <1>2, <2>1 DEF TypeOK, SetsTyped
<1>8. UNCHANGED <<counter, hand, waiting, flagged, faults, connects, history>>
  BY <1>2
<1>9. pc[c] \in {<<t, "check">>, <<t, "add">>}
  BY <1>2
<1> QED BY <1>3, <1>5, <1>6, <1>7, <1>8, <1>9, AnswerInv

-------------------------------------------------------------------------------
(* A connection is taken up, judged, or put back *)

\* A connection that a consumer takes up has yet to hear from every tracker.
LEMMA TakeInv ==
    ASSUME RecordInv, NEW c \in Consumers, NEW e \in opened', Take(c, e),
           opened' \subseteq opened \cup {e},
           opened \subseteq opened', opened' \subseteq Connections,
           waiting' \subseteq waiting, \A d \in waiting \ waiting' : d[2] = e,
           \A k \in Counters, w \in Windows : made[k][w] <= made'[k][w],
           TypeOK', CountInv'
    PROVE  RecordInv'
<1> DEFINE w0 == e.window
<1>1. /\ TypeOK /\ HandInv /\ CountInv /\ MembersInv /\ HeardInv /\ OvershootInv /\ HostsInv
      /\ DueInv /\ (\A r \in Trackers, w \in Windows : Complete(r, w)) /\ FlaggedMeansOffence
  BY DEF RecordInv
<1>2. /\ e \in Connections /\ w0 \in Windows /\ pc[c] = Idle
      /\ UNCHANGED <<members, heard, flagged, faults, reached>>
      /\ pc'[c] = <<"ip", "check">> /\ hand'[c] = e
      /\ before'[c] = Cardinality(reached[w0] \cup {e.host})
      /\ \A d \in Consumers \ {c} : pc'[d] = pc[d] /\ hand'[d] = hand[d] /\ before'[d] = before[d]
      /\ \A k \in Counters, w \in Windows : w # w0 => counter'[k][w] = counter[k][w]
  BY <1>1, ConnectionFacts DEF Take, TypeOK
<1>3. /\ pc'[c] # Idle /\ \A r \in Trackers : Unanswered(c, r)'
      /\ \A r \in Trackers : pc'[c] # <<r, "add">>
      /\ \A d \in Consumers \ {c}, r \in Trackers : Unanswered(d, r)' <=> Unanswered(d, r)
      /\ \A r \in Trackers : ~Unanswered(c, r)
  BY <1>2 DEF Unanswered, Until, Idle, Trackers
<1>4. HandInv'
  BY <1>1, <1>2 DEF HandInv
<1>5. MembersInv'
  <2>1. \A r, w : SeenValues(r, w) \subseteq SeenValues(r, w)'
    BY DEF SeenValues, Seen
  <2> QED BY <1>1, <1>2, <2>1 DEF MembersInv
<1>6. \A r \in Trackers, w \in Windows : Size(r, w) \in Nat /\ Size(r, w)' = Size(r, w)
  BY <1>1, <1>2, SizeFacts DEF Size
<1>7. HeardInv'
  <2>1. heard[c] = NoAnswer
    BY <1>1, <1>2 DEF HandInv
  <2>2. SUFFICES ASSUME NEW d \in Consumers, NEW r \in {"ip", "port"}
                 PROVE  heard[d][r] <= Size(r, hand[d].window)'
    BY <1>2 DEF HeardInv
  <2>3. CASE d = c
    <3>1. heard[d][r] = 0 /\ r \in Trackers
      BY <2>1, <2>3 DEF NoAnswer, Trackers
    <3> QED BY <1>2, <1>6, <2>3, <3>1
  <2>4. CASE d # c
    <3>1. hand'[d] = hand[d] /\ hand[d].window \in Windows /\ r \in Trackers
      BY <1>1, <1>2, <2>4, ConnectionFacts DEF TypeOK, Trackers
    <3> QED BY <1>1, <1>6, <3>1 DEF HeardInv
  <2> QED BY <2>3, <2>4
<1>8. OvershootInv'
  <2>1. \A r \in Trackers, w \in Windows : Adders(r, w)' \subseteq Adders(r, w)
    BY <1>2, <1>3 DEF Adders
  <2> QED BY <1>1, <1>2, <2>1, NoNewAdders
<1>9. HostsInv'
  <2>1. ASSUME ~(Size("ip", w0) >= Cap)
        PROVE  before'[c] <= Cardinality(members["ip"][w0] \cup {e.host})
    <3>1. reached[w0] \subseteq members["ip"][w0]
      BY <1>1, <1>2, <2>1 DEF HostsInv
    <3>2. members["ip"][w0] \subseteq Values("ip") /\ e.host \in Values("ip")
      BY <1>1, <1>2 DEF TypeOK, Trackers, Values, Value
    <3>3. /\ reached[w0] \cup {e.host} \subseteq members["ip"][w0] \cup {e.host}
          /\ members["ip"][w0] \cup {e.host} \subseteq Values("ip")
      BY <3>1, <3>2
    <3> QED BY <1>2, <3>3, ValuesCount
  <2>2. ASSUME NEW d \in Consumers \ {c}
        PROVE  HostKept(d)'
    <3>1. /\ hand'[d] = hand[d] /\ before'[d] = before[d] /\ pc'[d] = pc[d]
          /\ members' = members /\ heard' = heard
          /\ Unanswered(d, "ip")' <=> Unanswered(d, "ip")
      BY <1>2, <1>3 DEF Trackers
    <3>2. HostKept(d)
      BY <1>1 DEF HostsInv
    <3> QED BY <3>1, <3>2 DEF HostKept, Size
  <2>3. \A w \in Windows : reached'[w] \subseteq members'["ip"][w] \/ Size("ip", w)' >= Cap
    BY <1>1, <1>2, <1>6 DEF HostsInv, Trackers
  <2>4. "ip" \in Trackers
    BY DEF Trackers
  <2>5. HostKept(c)'
    BY <1>2, <1>3, <2>1, <2>4 DEF HostKept, Size
  <2> QED BY <2>2, <2>3, <2>5 DEF HostsInv
<1>10. ASSUME NEW r \in Trackers, NEW w \in Windows
       PROVE  Complete(r, w)'
  <2>1. SUFFICES ASSUME ~(Size(r, w) >= Cap), NEW f \in Seen(r, w)'
                 PROVE  \/ Value(r, f) \in members[r][w]
                        \/ \E n \in 1..faults : <<n, f>> \in waiting'
                        \/ \E d \in Consumers : Unanswered(d, r)' /\ hand'[d] = f
    BY <1>2, <1>6 DEF Complete
  <2>2. CASE f = e
    BY <1>2, <1>3, <2>2
  <2>3. CASE f # e
    <3>1. f \in Seen(r, w)
      BY <2>1, <2>3 DEF Seen
    <3>2. \/ Value(r, f) \in members[r][w]
          \/ \E n \in 1..faults : <<n, f>> \in waiting
          \/ \E d \in Consumers : Unanswered(d, r) /\ hand[d] = f
      BY <1>1, <2>1, <3>1 DEF Complete
    <3>3. \A n : <<n, f>> \in waiting => <<n, f>> \in waiting'
      BY <2>3
    <3> QED BY <1>2, <1>3, <3>2, <3>3
  <2> QED BY <2>2, <2>3
<1>11. FlaggedMeansOffence'
  <2>1. /\ faults' \in Nat /\ faults <= faults' /\ made' \in [Counters -> [Windows -> Nat]]
    BY <1>1, <1>2, Numbers DEF TypeOK
  <2> QED BY <1>1, <1>2, <2>1, OffenceGrows DEF FlaggedMeansOffence
<1>12. DueInv'
  <2>1. c \in Working(w0)' /\ Unfinished(w0)'
    BY <1>2, <1>3 DEF Working, Unfinished
  <2>2. ASSUME NEW w \in Windows, w # w0
        PROVE  Delivered(w)' = Delivered(w) /\ Working(w)' = Working(w)
    BY <1>2, <2>2 DEF Delivered, Working
  <2>3. ASSUME NEW w \in Windows, NEW r \in {"ip", "port"}, NEW n, WillHear(r, w, n)
        PROVE  WillHear(r, w, n)'
    <3>1. r \in Trackers
      BY DEF Trackers
    <3>2. CASE w = w0
      BY <1>3, <2>1, <3>1, <3>2 DEF WillHear
    <3>3. CASE w # w0
      <4>1. \A d \in Working(w) : d # c /\ d \in Consumers
        BY <1>2 DEF Working
      <4> QED BY <1>2, <1>3, <2>2, <2>3, <3>1, <3>3, <4>1 DEF WillHear
    <3> QED BY <3>2, <3>3
  <2>4. ASSUME NEW w \in Windows PROVE Unfinished(w) => Unfinished(w)'
    BY <2>1, <2>2 DEF Unfinished
  <2>5. SUFFICES ASSUME NEW w \in Windows
                 PROVE  /\ ConnectionRate(w)' => <<w, "connection_rate">> \in flagged \/ Unfinished(w)'
                        /\ FailedConnections(w)' => <<w, "failed_connections">> \in flagged \/ Unfinished(w)'
                        /\ Spam(w)' => <<w, "spam">> \in flagged \/ Unfinished(w)'
                        /\ \A r \in {"ip", "port"} :
                             Size(r, w)' >= Threshold(r) =>
                                 <<w, "destination_fanout">> \in flagged \/ WillHear(r, w, Threshold(r))'
                        /\ Size("port", w)' >= PortThreshold =>
                               \/ <<w, "port_scan">> \in flagged
                               \/ WillHear("port", w, PortThreshold)'
                               \/ Cardinality(SeenValues("ip", w)') > MaxScanIps
    BY <1>2 DEF DueInv
  <2>6. /\ ConnectionRate(w)' => <<w, "connection_rate">> \in flagged \/ Unfinished(w)'
        /\ FailedConnections(w)' => <<w, "failed_connections">> \in flagged \/ Unfinished(w)'
        /\ Spam(w)' => <<w, "spam">> \in flagged \/ Unfinished(w)'
    <3>1. CASE w = w0
      BY <2>1, <3>1
    <3>2. CASE w # w0
      <4>1. /\ ConnectionRate(w)' <=> ConnectionRate(w)
            /\ FailedConnections(w)' <=> FailedConnections(w)
            /\ Spam(w)' <=> Spam(w)
        BY <1>2, <1>6, <3>2 DEF ConnectionRate, FailedConnections, Spam, Trackers, Counters
      <4> QED BY <1>1, <2>4, <4>1 DEF DueInv
    <3> QED BY <3>1, <3>2
  <2>7. ASSUME NEW r \in {"ip", "port"}, Size(r, w)' >= Threshold(r),
               <<w, "destination_fanout">> \notin flagged
        PROVE  WillHear(r, w, Threshold(r))'
    <3>1. Size(r, w)' = Size(r, w)
      BY <1>6 DEF Trackers
    <3>2. WillHear(r, w, Threshold(r))
      BY <1>1, <2>7, <3>1 DEF DueInv
    <3> QED BY <2>3, <3>2
  <2>8. ASSUME Size("port", w)' >= PortThreshold, <<w, "port_scan">> \notin flagged,
               ~(Cardinality(SeenValues("ip", w)') > MaxScanIps)
        PROVE  WillHear("port", w, PortThreshold)'
    <3>1. Size("port", w)' = Size("port", w) /\ "ip" \in Trackers
      BY <1>6 DEF Trackers
    <3>2. SeenValues("ip", w)' \subseteq Values("ip")
      BY DEF SeenValues, Seen, Values
    <3>3. SeenValues("ip", w) \subseteq SeenValues("ip", w)'
      BY DEF SeenValues, Seen
    <3>4. ~(Cardinality(SeenValues("ip", w)) > MaxScanIps)
      BY <2>8, <3>2, <3>3, ValuesCount, Numbers
    <3>5. WillHear("port", w, PortThreshold)
      BY <1>1, <2>8, <3>1, <3>4 DEF DueInv
    <3> QED BY <2>3, <3>5
  <2> QED BY <2>6, <2>7, <2>8
<1> QED BY <1>4, <1>5, <1>7, <1>8, <1>9, <1>10, <1>11, <1>12 DEF RecordInv

\* The outstanding deliveries of a kind and a window are finitely many.
LEMMA AgainIsFinite ==
    ASSUME CountInv, NEW k, NEW w
    PROVE  IsFiniteSet(Again(k, w)) /\ Cardinality(Again(k, w)) \in Nat
<1>1. Again(k, w) \subseteq waiting /\ IsFiniteSet(waiting)
  BY DEF CountInv, Again
<1> QED BY <1>1, FS_Subset, FS_CardinalityType

LEMMA TakeTypes ==
    ASSUME TypeOK, NEW c \in Consumers, NEW e \in Connections, Take(c, e)
    PROVE  /\ counter' \in [Counters -> [Windows -> Nat]]
           /\ counter'[Kind(e)][e.window] = counter[Kind(e)][e.window] + 1
           /\ \A k \in Counters, w \in Windows :
                 k # Kind(e) \/ w # e.window => counter'[k][w] = counter[k][w]
           /\ pc' \in [Consumers -> Steps] /\ hand' \in [Consumers -> Connections]
           /\ before' \in [Consumers -> Nat]
           /\ UNCHANGED <<members, heard, flagged, faults, reached>>
<1>1. e.window \in Windows /\ Kind(e) \in Counters
  BY ConnectionFacts
<1>2. UNCHANGED <<members, heard, flagged, faults, reached>>
  BY DEF Take
<1>3. /\ counter' \in [Counters -> [Windows -> Nat]]
      /\ counter'[Kind(e)][e.window] = counter[Kind(e)][e.window] + 1
      /\ \A k \in Counters, w \in Windows :
            k # Kind(e) \/ w # e.window => counter'[k][w] = counter[k][w]
  BY <1>1 DEF Take, TypeOK
<1>4. pc' \in [Consumers -> Steps] /\ hand' \in [Consumers -> Connections]
  <2>1. <<"ip", "check">> \in Steps
    BY DEF Steps, Trackers
  <2> QED BY <2>1 DEF Take, TypeOK
<1>5. before' \in [Consumers -> Nat]
  <2>1. reached[e.window] \cup {e.host} \subseteq Values("ip")
    BY <1>1 DEF TypeOK, Values, Value
  <2>2. Cardinality(reached[e.window] \cup {e.host}) \in Nat
    BY <2>1, ValuesCount
  <2> QED BY <2>2 DEF Take, TypeOK
<1> QED BY <1>2, <1>3, <1>4, <1>5

LEMMA ConnectInv ==
    ASSUME RecordInv, NEW c \in Consumers, NEW e \in Connections, Connect(c, e)
    PROVE  RecordInv'
<1>1. TypeOK /\ CountInv
  BY DEF RecordInv
<1>2. /\ Take(c, e) /\ opened' = opened \cup {e} /\ waiting' = waiting
      /\ connects' \in 0..MaxConnections
      /\ made' = [made EXCEPT ![Kind(e)][e.window] = @ + 1]
  BY <1>1, Numbers DEF Connect, TypeOK
<1>3. e.window \in Windows /\ Kind(e) \in Counters
  BY ConnectionFacts
<1>4. /\ made' \in [Counters -> [Windows -> Nat]]
      /\ made'[Kind(e)][e.window] = made[Kind(e)][e.window] + 1
      /\ \A k \in Counters, w \in Windows :
            k # Kind(e) \/ w # e.window => made'[k][w] = made[k][w]
  BY <1>1, <1>2, <1>3 DEF TypeOK
<1>5. /\ counter' \in [Counters -> [Windows -> Nat]]
      /\ counter'[Kind(e)][e.window] = counter[Kind(e)][e.window] + 1
      /\ \A k \in Counters, w \in Windows :
            k # Kind(e) \/ w # e.window => counter'[k][w] = counter[k][w]
      /\ pc' \in [Consumers -> Steps] /\ hand' \in [Consumers -> Connections]
      /\ before' \in [Consumers -> Nat]
      /\ UNCHANGED <<members, heard, flagged, faults, reached>>
  BY <1>1, <1>2, TakeTypes
<1>6. ASSUME NEW k \in Counters, NEW w \in Windows
      PROVE  /\ made[k][w] <= made'[k][w]
             /\ made'[k][w] <= counter'[k][w]
             /\ counter'[k][w] + Cardinality(Again(k, w)) <= made'[k][w] + faults
             /\ counter'[k][w] \in 0..made'[k][w] + faults
  <2>1. /\ made[k][w] \in Nat /\ counter[k][w] \in Nat /\ faults \in Nat
        /\ made[k][w] <= counter[k][w]
        /\ counter[k][w] + Cardinality(Again(k, w)) <= made[k][w] + faults
        /\ Cardinality(Again(k, w)) \in Nat
    BY <1>1, Numbers, AgainIsFinite DEF TypeOK, CountInv
  <2>2. CASE k = Kind(e) /\ w = e.window
    BY <1>4, <1>5, <2>1, <2>2
  <2>3. CASE k # Kind(e) \/ w # e.window
    BY <1>4, <1>5, <2>1, <2>3
  <2> QED BY <2>2, <2>3
<1>7. CountInv'
  BY <1>1, <1>2, <1>5, <1>6 DEF CountInv, Again
<1>8. TypeOK'
  BY <1>1, <1>2, <1>4, <1>5, <1>6 DEF TypeOK
<1> QED BY <1>1, <1>2, <1>6, <1>7, <1>8, TakeInv DEF TypeOK

LEMMA RetakeInv ==
    ASSUME RecordInv, NEW c \in Consumers, NEW delivery \in waiting, Retake(c, delivery)
    PROVE  RecordInv'
<1> PICK e : e = delivery[2]
  OBVIOUS
<1>1. TypeOK /\ CountInv
  BY DEF RecordInv
<1>2. /\ Take(c, e) /\ UNCHANGED <<opened, connects, made>>
      /\ waiting' = waiting \ {delivery}
  BY DEF Retake
<1>3. e \in opened /\ e \in Connections /\ e.window \in Windows /\ Kind(e) \in Counters
  BY <1>1, ConnectionFacts DEF TypeOK
<1>4. /\ counter' \in [Counters -> [Windows -> Nat]]
      /\ counter'[Kind(e)][e.window] = counter[Kind(e)][e.window] + 1
      /\ \A k \in Counters, w \in Windows :
            k # Kind(e) \/ w # e.window => counter'[k][w] = counter[k][w]
      /\ pc' \in [Consumers -> Steps] /\ hand' \in [Consumers -> Connections]
      /\ before' \in [Consumers -> Nat]
      /\ UNCHANGED <<members, heard, flagged, faults, reached>>
  BY <1>1, <1>2, <1>3, TakeTypes
<1>5. ASSUME NEW k \in Counters, NEW w \in Windows
      PROVE  /\ made[k][w] <= counter'[k][w]
             /\ counter'[k][w] + Cardinality(Again(k, w)') <= made[k][w] + faults
             /\ counter'[k][w] \in 0..made[k][w] + faults
  <2>1. /\ made[k][w] \in Nat /\ counter[k][w] \in Nat /\ faults \in Nat
        /\ made[k][w] <= counter[k][w]
        /\ counter[k][w] + Cardinality(Again(k, w)) <= made[k][w] + faults
        /\ IsFiniteSet(Again(k, w)) /\ Cardinality(Again(k, w)) \in Nat
    BY <1>1, Numbers, AgainIsFinite DEF TypeOK, CountInv
  <2>2. Again(k, w)' = Again(k, w) \ {delivery}
    BY <1>2 DEF Again
  <2>3. CASE k = Kind(e) /\ w = e.window
    <3>1. delivery \in Again(k, w)
      BY <2>3 DEF Again
    <3>2. /\ Cardinality(Again(k, w)') = Cardinality(Again(k, w)) - 1
          /\ Cardinality(Again(k, w)') \in Nat
      BY <2>1, <2>2, <3>1, FS_RemoveElement, FS_CardinalityType
    <3> QED BY <1>4, <2>1, <2>3, <3>2
  <2>4. CASE k # Kind(e) \/ w # e.window
    <3>1. delivery \notin Again(k, w)
      BY <2>4 DEF Again
    <3>2. Again(k, w)' = Again(k, w)
      BY <2>2, <3>1
    <3> QED BY <1>4, <2>1, <2>4, <3>2
  <2> QED BY <2>3, <2>4
<1>6. CountInv'
  <2>1. IsFiniteSet(waiting')
    BY <1>1, <1>2, FS_RemoveElement DEF CountInv
  <2> QED BY <1>2, <1>4, <1>5, <2>1 DEF CountInv
<1>7. TypeOK'
  BY <1>1, <1>2, <1>4, <1>5 DEF TypeOK
<1>8. /\ e \in opened' /\ opened' \subseteq opened \cup {e} /\ opened \subseteq opened'
      /\ opened' \subseteq Connections /\ waiting' \subseteq waiting
      /\ \A d \in waiting \ waiting' : d[2] = e
      /\ \A k \in Counters, w \in Windows : made[k][w] <= made'[k][w]
  BY <1>1, <1>2, <1>3 DEF TypeOK
<1> QED BY <1>2, <1>6, <1>7, <1>8, TakeInv

\* What Judge and Fail have in common: a consumer has nothing in hand any more.
LEMMA DoneFacts ==
    ASSUME RecordInv, NEW c \in Consumers, pc[c] # Idle, Done(c), UNCHANGED members
    PROVE  /\ pc' \in [Consumers -> Steps] /\ hand' \in [Consumers -> Connections]
           /\ heard' \in [Consumers -> [ip : Nat, port : Nat]] /\ before' \in [Consumers -> Nat]
           /\ pc'[c] = Idle /\ heard'[c] = NoAnswer
           /\ \A d \in Consumers \ {c} :
                 pc'[d] = pc[d] /\ hand'[d] = hand[d] /\ heard'[d] = heard[d] /\ before'[d] = before[d]
           /\ \A r \in Trackers : ~Unanswered(c, r)'
           /\ \A d \in Consumers \ {c}, r \in Trackers : Unanswered(d, r)' <=> Unanswered(d, r)
           /\ \A w \in Windows : Working(w)' = Working(w) \ {c}
           /\ HeardInv' /\ OvershootInv'
           /\ \A d \in Consumers : HostKept(d)'
<1>1. TypeOK /\ HeardInv /\ OvershootInv /\ MembersInv /\ HostsInv
  BY DEF RecordInv
<1>2. /\ pc' \in [Consumers -> Steps] /\ hand' \in [Consumers -> Connections]
      /\ heard' \in [Consumers -> [ip : Nat, port : Nat]] /\ before' \in [Consumers -> Nat]
      /\ pc'[c] = Idle /\ heard'[c] = NoAnswer /\ hand'[c] = Nothing
      /\ \A d \in Consumers \ {c} :
            pc'[d] = pc[d] /\ hand'[d] = hand[d] /\ heard'[d] = heard[d] /\ before'[d] = before[d]
  <2>1. Idle \in Steps /\ NoAnswer \in [ip : Nat, port : Nat]
    BY DEF Steps, NoAnswer
  <2> QED BY <1>1, <2>1, ConnectionFacts DEF Done, TypeOK
<1>3. /\ \A r \in Trackers : ~Unanswered(c, r)' /\ pc'[c] # <<r, "add">>
      /\ \A d \in Consumers \ {c}, r \in Trackers : Unanswered(d, r)' <=> Unanswered(d, r)
  BY <1>2 DEF Unanswered, Until, Idle, Trackers
<1>4. \A w \in Windows : Working(w)' = Working(w) \ {c}
  BY <1>2 DEF Working
<1>5. HeardInv'
  <2>1. SUFFICES ASSUME NEW d \in Consumers, NEW r \in {"ip", "port"}
                 PROVE  heard'[d][r] <= Size(r, hand[d].window)'
    BY DEF HeardInv
  <2>2. hand'[d].window \in Windows /\ r \in Trackers
    BY <1>2, ConnectionFacts DEF Trackers
  <2>3. CASE d = c
    <3>1. heard'[d][r] = 0
      BY <1>2, <2>3 DEF NoAnswer
    <3>2. Cardinality(members[r][hand'[d].window]) \in Nat
      BY <1>1, <2>2, SizeFacts DEF Size
    <3> QED BY <3>1, <3>2 DEF Size
  <2>4. CASE d # c
    <3>1. heard'[d] = heard[d] /\ hand'[d] = hand[d]
      BY <1>2, <2>4
    <3>2. heard[d][r] <= Size(r, hand[d].window)
      BY <1>1 DEF HeardInv
    <3> QED BY <3>1, <3>2 DEF Size
  <2> QED BY <2>3, <2>4
<1>6. OvershootInv'
  <2>1. \A r \in Trackers, w \in Windows : Adders(r, w)' \subseteq Adders(r, w)
    BY <1>2, <1>3 DEF Adders
  <2> QED BY <1>1, <2>1, NoNewAdders
<1>7. ASSUME NEW d \in Consumers PROVE HostKept(d)'
  <2>1. CASE d = c
    BY <1>2, <1>3, <2>1 DEF HostKept, Trackers
  <2>2. CASE d # c
    <3>1. /\ hand'[d] = hand[d] /\ before'[d] = before[d] /\ pc'[d] = pc[d] /\ heard'[d] = heard[d]
          /\ Unanswered(d, "ip")' <=> Unanswered(d, "ip")
      BY <1>2, <1>3, <2>2 DEF Trackers
    <3>2. HostKept(d)
      BY <1>1 DEF HostsInv
    <3> QED BY <3>1, <3>2 DEF HostKept, Size
  <2> QED BY <2>1, <2>2
<1> QED BY <1>2, <1>3, <1>4, <1>5, <1>6, <1>7

LEMMA FailInv ==
    ASSUME RecordInv, NEW c \in Consumers, Fail(c)
    PROVE  RecordInv'
<1> DEFINE e0 == hand[c]
           again == <<faults', hand[c]>>
<1>1. /\ TypeOK /\ HandInv /\ CountInv /\ MembersInv /\ HostsInv
      /\ DueInv /\ (\A r \in Trackers, w \in Windows : Complete(r, w)) /\ FlaggedMeansOffence
  BY DEF RecordInv
<1>2. /\ pc[c] # Idle /\ Done(c) /\ faults' = faults + 1 /\ faults' \in 0..MaxFaults
      /\ waiting' = waiting \cup {again} /\ faults \in Nat
      /\ UNCHANGED <<counter, members, flagged, connects, opened, made, reached>>
  BY <1>1, Numbers DEF Fail, redis, TypeOK
<1>3. e0 \in opened /\ e0 \in Connections /\ e0.window \in Windows
  BY <1>1, <1>2, ConnectionFacts DEF HandInv, TypeOK
<1>4. /\ pc' \in [Consumers -> Steps] /\ hand' \in [Consumers -> Connections]
      /\ heard' \in [Consumers -> [ip : Nat, port : Nat]] /\ before' \in [Consumers -> Nat]
      /\ pc'[c] = Idle /\ heard'[c] = NoAnswer
      /\ \A d \in Consumers \ {c} :
            pc'[d] = pc[d] /\ hand'[d] = hand[d] /\ heard'[d] = heard[d] /\ before'[d] = before[d]
      /\ \A r \in Trackers : ~Unanswered(c, r)'
      /\ \A d \in Consumers \ {c}, r \in Trackers : Unanswered(d, r)' <=> Unanswered(d, r)
      /\ \A w \in Windows : Working(w)' = Working(w) \ {c}
      /\ HeardInv' /\ OvershootInv'
      /\ \A d \in Consumers : HostKept(d)'
  BY <1>2, DoneFacts
<1>5. /\ \A r \in Trackers, w \in Windows : Size(r, w)' = Size(r, w)
      /\ \A r, w : Seen(r, w)' = Seen(r, w) /\ SeenValues(r, w)' = SeenValues(r, w)
  BY <1>2 DEF Size, Seen, SeenValues
<1>6. waiting \subseteq (1..faults) \X opened /\ again \notin waiting
  BY <1>1, <1>2 DEF TypeOK
<1>7. TypeOK'
  <2>1. waiting' \subseteq (1..faults') \X opened
    BY <1>2, <1>3, <1>6
  <2>2. \A k \in Counters, w \in Windows : counter[k][w] \in 0..made[k][w] + faults'
    BY <1>1, <1>2 DEF TypeOK
  <2> QED BY <1>1, <1>2, <1>4, <2>1, <2>2 DEF TypeOK
<1>8. HandInv'
  BY <1>1, <1>2, <1>4 DEF HandInv, Idle
<1>9. CountInv'
  <2>1. ASSUME NEW k \in Counters, NEW w \in Windows
        PROVE  counter[k][w] + Cardinality(Again(k, w)') <= made[k][w] + faults'
    <3>1. /\ made[k][w] \in Nat /\ counter[k][w] \in Nat
          /\ counter[k][w] + Cardinality(Again(k, w)) <= made[k][w] + faults
          /\ IsFiniteSet(Again(k, w)) /\ Cardinality(Again(k, w)) \in Nat
      BY <1>1, AgainIsFinite DEF TypeOK, CountInv
    <3>2. Again(k, w)' = Again(k, w) \/ Again(k, w)' = Again(k, w) \cup {again}
      BY <1>2 DEF Again
    <3>3. CASE Again(k, w)' = Again(k, w)
      BY <1>2, <3>1, <3>3
    <3>4. CASE Again(k, w)' = Again(k, w) \cup {again}
      <4>1. again \notin Again(k, w)
        BY <1>6 DEF Again
      <4>2. Cardinality(Again(k, w)') = Cardinality(Again(k, w)) + 1
        BY <3>1, <3>4, <4>1, FS_AddElement
      <4> QED BY <1>2, <3>1, <4>2
    <3> QED BY <3>2, <3>3, <3>4
  <2>2. IsFiniteSet(waiting')
    BY <1>1, <1>2, FS_AddElement DEF CountInv
  <2> QED BY <1>1, <1>2, <2>1, <2>2 DEF CountInv
<1>10. MembersInv'
  BY <1>1, <1>2, <1>5 DEF MembersInv
<1>11. HostsInv'
  BY <1>1, <1>2, <1>4, <1>5 DEF HostsInv, Trackers
<1>12. ASSUME NEW r \in Trackers, NEW w \in Windows
       PROVE  Complete(r, w)'
  <2>1. SUFFICES ASSUME ~(Size(r, w) >= Cap), NEW e \in Seen(r, w)
                 PROVE  \/ Value(r, e) \in members[r][w]
                        \/ \E n \in 1..faults' : <<n, e>> \in waiting'
                        \/ \E d \in Consumers : Unanswered(d, r)' /\ hand'[d] = e
    BY <1>2, <1>5 DEF Complete
  <2>2. \/ Value(r, e) \in members[r][w]
        \/ \E n \in 1..faults : <<n, e>> \in waiting
        \/ \E d \in Consumers : Unanswered(d, r) /\ hand[d] = e
    BY <1>1, <2>1 DEF Complete
  <2>3. CASE \E n \in 1..faults : <<n, e>> \in waiting
    BY <1>2, <2>3
  <2>4. ASSUME NEW d \in Consumers, Unanswered(d, r), hand[d] = e
        PROVE  \/ \E n \in 1..faults' : <<n, e>> \in waiting'
               \/ \E b \in Consumers : Unanswered(b, r)' /\ hand'[b] = e
    <3>1. CASE d = c
      BY <1>2, <2>4, <3>1
    <3>2. CASE d # c
      BY <1>4, <2>4, <3>2
    <3> QED BY <3>1, <3>2
  <2> QED BY <2>2, <2>3, <2>4
<1>13. FlaggedMeansOffence'
  <2>1. /\ faults' \in Nat /\ faults <= faults' /\ made' \in [Counters -> [Windows -> Nat]]
        /\ opened \subseteq opened' /\ opened' \subseteq Connections
        /\ \A k \in Counters, w \in Windows : made[k][w] <= made'[k][w]
    BY <1>1, <1>2 DEF TypeOK
  <2> QED BY <1>1, <1>2, <2>1, OffenceGrows DEF FlaggedMeansOffence
<1>14. DueInv'
  <2> PICK w0 : w0 = hand[c].window
    OBVIOUS
  <2>1. /\ \A w \in Windows : Delivered(w) \subseteq Delivered(w)'
        /\ again \in Delivered(w0)'
    BY <1>2 DEF Delivered
  <2>2. \A w \in Windows : c \in Working(w) => w = w0
    BY DEF Working
  <2>3. ASSUME NEW w \in Windows PROVE Unfinished(w) => Unfinished(w)'
    BY <1>4, <2>1, <2>2 DEF Unfinished
  <2>4. ASSUME NEW w \in Windows, NEW r \in {"ip", "port"}, NEW n, WillHear(r, w, n)
        PROVE  WillHear(r, w, n)'
    <3>1. CASE Delivered(w)' # {}
      BY <3>1 DEF WillHear
    <3>2. CASE Delivered(w)' = {}
      <4>1. Delivered(w) = {} /\ w # w0
        BY <2>1, <3>2
      <4>2. PICK d \in Working(w) : Unanswered(d, r) \/ heard[d][r] >= n
        BY <2>4, <4>1 DEF WillHear
      <4>3. d # c /\ d \in Consumers /\ d \in Working(w)'
        BY <1>4, <2>2, <4>1, <4>2 DEF Working
      <4> QED BY <1>4, <4>2, <4>3 DEF WillHear, Trackers
    <3> QED BY <3>1, <3>2
  <2>5. ASSUME NEW w \in Windows
        PROVE  /\ ConnectionRate(w)' <=> ConnectionRate(w)
               /\ FailedConnections(w)' <=> FailedConnections(w)
               /\ Spam(w)' <=> Spam(w)
    BY <1>2, <1>5 DEF ConnectionRate, FailedConnections, Spam, Trackers
  <2> QED BY <1>1, <1>2, <1>5, <2>3, <2>4, <2>5 DEF DueInv, Trackers
<1> QED BY <1>4, <1>7, <1>8, <1>9, <1>10, <1>11, <1>12, <1>13, <1>14 DEF RecordInv

\* Whoever judges finds what is in Redis then; what was there when its trackers
\* answered is there still.
LEMMA JudgeInv ==
    ASSUME RecordInv, NEW c \in Consumers, Judge(c)
    PROVE  RecordInv'
<1> DEFINE e0 == hand[c]
<1> PICK w0 : w0 = hand[c].window
  OBVIOUS
<1>1. /\ TypeOK /\ HandInv /\ CountInv /\ MembersInv /\ HostsInv /\ HeardInv
      /\ DueInv /\ (\A r \in Trackers, w \in Windows : Complete(r, w)) /\ FlaggedMeansOffence
  BY DEF RecordInv
<1>2. /\ pc[c] = Judging /\ pc[c] # Idle /\ Done(c)
      /\ flagged' = flagged \cup ({w0} \X Triggered(heard[c], w0))
      /\ reached' = [reached EXCEPT ![w0] = @ \cup {hand[c].host}]
      /\ UNCHANGED <<counter, members, waiting, faults, connects, opened, made>>
  <2>1. /\ pc[c] = Judging /\ Done(c)
        /\ UNCHANGED <<counter, members, waiting, faults, connects, opened, made>>
    BY DEF Judge, redis
  <2>2. pc[c] # Idle
    BY <2>1 DEF Judging, Idle
  <2>3. flagged' = flagged \cup ({w0} \X Triggered(heard[c], w0))
    BY DEF Judge
  <2>4. reached' = [reached EXCEPT ![w0] = @ \cup {hand[c].host}]
    BY DEF Judge
  <2> QED BY <2>1, <2>2, <2>3, <2>4
<1>3. /\ e0 \in opened /\ e0 \in Connections /\ w0 \in Windows /\ e0.host = Value("ip", e0)
      /\ \A r \in Trackers : ~Unanswered(c, r)
  <2>1. e0 \in opened
    BY <1>1, <1>2 DEF HandInv
  <2>2. e0 \in Connections /\ w0 \in Windows
    BY <1>1, <2>1, ConnectionFacts DEF TypeOK
  <2>3. e0.host = Value("ip", e0)
    BY DEF Value
  <2>4. pc[c][1] = "all"
    BY <1>2 DEF Judging
  <2>5. \A r \in Trackers : "all" \notin Until(r)
    BY DEF Until
  <2>6. \A r \in Trackers : ~Unanswered(c, r)
    BY <2>4, <2>5 DEF Unanswered
  <2> QED BY <2>1, <2>2, <2>3, <2>6
<1>4. /\ pc' \in [Consumers -> Steps] /\ hand' \in [Consumers -> Connections]
      /\ heard' \in [Consumers -> [ip : Nat, port : Nat]] /\ before' \in [Consumers -> Nat]
      /\ pc'[c] = Idle /\ heard'[c] = NoAnswer
      /\ \A d \in Consumers \ {c} :
            pc'[d] = pc[d] /\ hand'[d] = hand[d] /\ heard'[d] = heard[d] /\ before'[d] = before[d]
      /\ \A r \in Trackers : ~Unanswered(c, r)'
      /\ \A d \in Consumers \ {c}, r \in Trackers : Unanswered(d, r)' <=> Unanswered(d, r)
      /\ \A w \in Windows : Working(w)' = Working(w) \ {c}
      /\ HeardInv' /\ OvershootInv'
      /\ \A d \in Consumers : HostKept(d)'
  BY <1>2, DoneFacts
<1>5. /\ \A r \in Trackers, w \in Windows : Size(r, w)' = Size(r, w) /\ Size(r, w) \in Nat
      /\ \A r, w : Seen(r, w)' = Seen(r, w) /\ SeenValues(r, w)' = SeenValues(r, w)
  BY <1>1, <1>2, SizeFacts DEF Size, Seen, SeenValues
<1>6. /\ flagged \subseteq flagged' /\ flagged' \subseteq Windows \X Detectors
      /\ \A w \in Windows, d \in Detectors :
            <<w, d>> \in flagged' <=> <<w, d>> \in flagged \/ (w = w0 /\ d \in Triggered(heard[c], w0))
  BY <1>1, <1>2, <1>3 DEF TypeOK, Triggered
<1>7. /\ "connection_rate" \in Triggered(heard[c], w0) <=> ConnectionRate(w0)
      /\ "failed_connections" \in Triggered(heard[c], w0) <=> FailedConnections(w0)
      /\ "spam" \in Triggered(heard[c], w0) <=> Spam(w0)
      /\ "destination_fanout" \in Triggered(heard[c], w0) <=> DestinationFanout(heard[c])
      /\ "port_scan" \in Triggered(heard[c], w0) <=> PortScan(heard[c])
  BY DEF Triggered, Detectors
<1>8. \A r \in {"ip", "port"} : heard[c][r] <= Size(r, w0) /\ heard[c][r] \in Nat
  BY <1>1 DEF HeardInv, TypeOK
<1>9. TypeOK'
  <2>1. reached' \in [Windows -> SUBSET Values("ip")]
    BY <1>1, <1>2, <1>3 DEF TypeOK, Values
  <2> QED BY <1>1, <1>2, <1>4, <1>6, <2>1 DEF TypeOK
<1>10. HandInv'
  BY <1>1, <1>2, <1>4 DEF HandInv, Idle
<1>11. CountInv' /\ MembersInv'
  BY <1>1, <1>2, <1>5 DEF CountInv, Again, MembersInv
<1>12. HostsInv'
  <2>1. e0.host \in members["ip"][w0] \/ Size("ip", w0) >= Cap
    BY <1>1, <1>2, <1>3 DEF HostsInv, HostKept, Trackers
  <2>2. ASSUME NEW w \in Windows
        PROVE  reached'[w] \subseteq members["ip"][w] \/ Size("ip", w) >= Cap
    BY <1>1, <1>2, <2>1 DEF HostsInv, TypeOK
  <2> QED BY <1>2, <1>4, <1>5, <2>2 DEF HostsInv, Trackers
<1>13. ASSUME NEW r \in Trackers, NEW w \in Windows
       PROVE  Complete(r, w)'
  <2>1. \A d \in Consumers : \A e : Unanswered(d, r) /\ hand[d] = e
                                => d # c /\ Unanswered(d, r)' /\ hand'[d] = e
    BY <1>3, <1>4
  <2> QED BY <1>1, <1>2, <1>5, <2>1 DEF Complete
<1>14. ASSUME NEW w \in Windows, NEW d \in Detectors \ {"port_scan"}, <<w, d>> \in flagged'
       PROVE  Offence(d, w, faults)
  <2>1. CASE <<w, d>> \in flagged
    BY <1>1, <2>1 DEF FlaggedMeansOffence
  <2>2. CASE <<w, d>> \notin flagged
    <3>1. w = w0 /\ d \in Triggered(heard[c], w0)
      BY <1>6, <1>14, <2>2
    <3>2. \A k \in Counters : counter[k][w] \in Nat /\ made[k][w] \in Nat /\ faults \in Nat
                             /\ counter[k][w] <= made[k][w] + faults
      BY <1>1 DEF TypeOK
    <3>3. \A r \in Trackers : /\ Size(r, w) \in Nat /\ Cardinality(SeenValues(r, w)) \in Nat
                             /\ Size(r, w) <= Cardinality(SeenValues(r, w))
      BY <1>1, SizeFacts
    <3>4. /\ Distinct("ip", {e \in opened : e.window = w}) = Cardinality(SeenValues("ip", w))
          /\ Distinct("port", {e \in opened : e.window = w}) = Cardinality(SeenValues("port", w))
          /\ Distinct("ip", {e \in {f \in opened : f.window = w} : ~e.rejected /\ e.port \in MailPorts})
                = Cardinality(SeenValues("smtp", w))
      BY SeenDistinct
    <3>5. CASE d = "connection_rate"
      <4>1. made["accepted"][w] + faults > RateLimit
        BY <1>7, <3>1, <3>2, <3>5, Numbers DEF ConnectionRate, Counters
      <4> QED BY <3>5, <4>1 DEF Offence
    <3>6. CASE d = "failed_connections"
      <4>1. made["rejected"][w] + faults >= FailedThreshold
        BY <1>7, <3>1, <3>2, <3>6, Numbers DEF FailedConnections, Counters
      <4> QED BY <3>6, <4>1 DEF Offence
    <3>7. CASE d = "destination_fanout"
      <4>1. \/ Cardinality(SeenValues("ip", w)) >= IpThreshold
            \/ Cardinality(SeenValues("port", w)) >= PortThreshold
        BY <1>7, <1>8, <3>1, <3>3, <3>7, Numbers DEF DestinationFanout, Trackers
      <4> QED BY <3>4, <3>7, <4>1 DEF Offence
    <3>8. CASE d = "spam"
      <4>1. Cardinality(SeenValues("smtp", w)) >= SpamThreshold
        BY <1>7, <3>1, <3>3, <3>8, Numbers DEF Spam, Trackers
      <4> QED BY <3>4, <3>8, <4>1 DEF Offence
    <3> QED BY <3>5, <3>6, <3>7, <3>8 DEF Detectors
  <2> QED BY <2>1, <2>2
<1>15. FlaggedMeansOffence'
  BY <1>2, <1>14 DEF FlaggedMeansOffence, Offence, Distinct
<1>16. DueInv'
  <2>1. \A w \in Windows : Delivered(w)' = Delivered(w)
    BY <1>2 DEF Delivered
  <2>2. ASSUME NEW w \in Windows, w # w0
        PROVE  Working(w)' = Working(w) /\ c \notin Working(w)
    BY <1>4, <2>2 DEF Working
  <2>3. ASSUME NEW w \in Windows, w # w0 PROVE Unfinished(w)' <=> Unfinished(w)
    BY <2>1, <2>2, <2>3 DEF Unfinished
  <2>4. ASSUME NEW w \in Windows, NEW r \in {"ip", "port"}, NEW n, WillHear(r, w, n),
               w = w0 => ~(heard[c][r] >= n)
        PROVE  WillHear(r, w, n)'
    <3>1. CASE Delivered(w) # {}
      BY <2>1, <3>1 DEF WillHear
    <3>2. CASE Delivered(w) = {}
      <4>1. PICK d \in Working(w) : Unanswered(d, r) \/ heard[d][r] >= n
        BY <2>4, <3>2 DEF WillHear
      <4>2. r \in Trackers
        BY DEF Trackers
      <4>3. d # c /\ d \in Consumers
        BY <1>3, <2>2, <2>4, <4>1, <4>2 DEF Working
      <4> QED BY <1>4, <4>1, <4>2, <4>3 DEF WillHear
    <3> QED BY <3>1, <3>2
  <2>5. ASSUME NEW w \in Windows
        PROVE  /\ ConnectionRate(w)' <=> ConnectionRate(w)
               /\ FailedConnections(w)' <=> FailedConnections(w)
               /\ Spam(w)' <=> Spam(w)
    BY <1>2, <1>5 DEF ConnectionRate, FailedConnections, Spam, Trackers
  <2>6. SUFFICES ASSUME NEW w \in Windows
                 PROVE  /\ ConnectionRate(w) => <<w, "connection_rate">> \in flagged' \/ Unfinished(w)'
                        /\ FailedConnections(w) => <<w, "failed_connections">> \in flagged' \/ Unfinished(w)'
                        /\ Spam(w) => <<w, "spam">> \in flagged' \/ Unfinished(w)'
                        /\ \A r \in {"ip", "port"} :
                             Size(r, w) >= Threshold(r) =>
                                 <<w, "destination_fanout">> \in flagged' \/ WillHear(r, w, Threshold(r))'
                        /\ Size("port", w) >= PortThreshold =>
                               \/ <<w, "port_scan">> \in flagged'
                               \/ WillHear("port", w, PortThreshold)'
                               \/ Cardinality(SeenValues("ip", w)) > MaxScanIps
    BY <1>5, <2>5 DEF DueInv, Trackers
  <2>7. /\ ConnectionRate(w) => <<w, "connection_rate">> \in flagged' \/ Unfinished(w)'
        /\ FailedConnections(w) => <<w, "failed_connections">> \in flagged' \/ Unfinished(w)'
        /\ Spam(w) => <<w, "spam">> \in flagged' \/ Unfinished(w)'
    <3>1. CASE w = w0
      BY <1>6, <1>7, <3>1 DEF Detectors
    <3>2. CASE w # w0
      BY <1>1, <1>6, <2>3, <3>2 DEF DueInv
    <3> QED BY <3>1, <3>2
  <2>8. ASSUME NEW r \in {"ip", "port"}, Size(r, w) >= Threshold(r),
               <<w, "destination_fanout">> \notin flagged'
        PROVE  WillHear(r, w, Threshold(r))'
    <3>1. WillHear(r, w, Threshold(r))
      BY <1>1, <1>6, <2>8 DEF DueInv
    <3>2. w = w0 => ~(heard[c][r] >= Threshold(r))
      BY <1>6, <1>7, <2>8 DEF DestinationFanout, Threshold, Detectors
    <3> QED BY <2>4, <3>1, <3>2
  <2>9. ASSUME Size("port", w) >= PortThreshold, <<w, "port_scan">> \notin flagged',
               ~(Cardinality(SeenValues("ip", w)) > MaxScanIps)
        PROVE  WillHear("port", w, PortThreshold)'
    <3>1. WillHear("port", w, PortThreshold)
      BY <1>1, <1>6, <2>9 DEF DueInv
    <3>2. ASSUME w = w0 PROVE ~(heard[c]["port"] >= PortThreshold)
      <4>1. /\ Size("ip", w) <= Cardinality(SeenValues("ip", w)) /\ Size("ip", w) \in Nat
            /\ Cardinality(SeenValues("ip", w)) \in Nat
        BY <1>1, SizeFacts DEF Trackers
      <4>2. heard[c].ip <= MaxScanIps
        BY <1>8, <2>9, <3>2, <4>1, Numbers
      <4>3. ~PortScan(heard[c])
        BY <1>6, <1>7, <2>9, <3>2 DEF Detectors
      <4> QED BY <4>2, <4>3 DEF PortScan
    <3> QED BY <2>4, <3>1, <3>2
  <2> QED BY <2>7, <2>8, <2>9
<1> QED BY <1>4, <1>9, <1>10, <1>11, <1>12, <1>13, <1>15, <1>16 DEF RecordInv

LEMMA RecordStep == ASSUME RecordInv, [Next]_vars PROVE RecordInv'
<1>1. ASSUME NEW c \in Consumers, NEW e \in Connections, Connect(c, e)
      PROVE  RecordInv'
  BY <1>1, ConnectInv
<1>2. ASSUME NEW c \in Consumers, NEW delivery \in waiting, Retake(c, delivery)
      PROVE  RecordInv'
  BY <1>2, RetakeInv
<1>3. ASSUME NEW c \in Consumers, NEW t \in Trackers, Check(c, t) \/ Add(c, t)
      PROVE  RecordInv'
  BY <1>3, CheckInv, AddInv
<1>4. ASSUME NEW c \in Consumers, Judge(c) \/ Fail(c)
      PROVE  RecordInv'
  BY <1>4, JudgeInv, FailInv
<1>5. CASE UNCHANGED vars
  <2>1. UNCHANGED <<counter, members, pc, hand, heard, waiting, flagged, faults, connects,
                    opened, made, reached, before>>
    BY <1>5 DEF vars, redis, history
  <2>2. TypeOK' /\ HandInv' /\ CountInv' /\ FlaggedMeansOffence'
    BY <2>1 DEF RecordInv, TypeOK, HandInv, CountInv, Again, FlaggedMeansOffence, Offence, Distinct
  <2>3. MembersInv' /\ HeardInv' /\ OvershootInv' /\ HostsInv'
    BY <2>1 DEF RecordInv, MembersInv, SeenValues, Seen, HeardInv, OvershootInv, Adders,
                HostsInv, HostKept, Unanswered, Size
  <2>4. DueInv'
    BY <2>1 DEF RecordInv, DueInv, ConnectionRate, FailedConnections, Spam, Size, Unfinished,
                WillHear, Delivered, Working, Unanswered, SeenValues, Seen
  <2>5. \A r \in Trackers, w \in Windows : Complete(r, w)'
    BY <2>1 DEF RecordInv, Complete, Size, Seen, Unanswered
  <2> QED BY <2>2, <2>3, <2>4, <2>5 DEF RecordInv
<1> QED BY <1>1, <1>2, <1>3, <1>4, <1>5 DEF Next, Quiet

-------------------------------------------------------------------------------
(* The theorems *)

\* The invariant holds in every state that RecordConnection reaches.
THEOREM RecordInductive == Spec => []RecordInv
BY InitRecord, RecordStep, PTL DEF Spec

\* Every variable keeps its type; a connection is counted once, and once more
\* for a batch that failed with it.
THEOREM RecordTypes == Spec => []TypeOK
<1>1. RecordInv => TypeOK
  BY DEF RecordInv
<1> QED BY <1>1, RecordInductive, PTL

\* A capped set outgrows its cap by the consumers that have looked at it below
\* the cap and not added yet, however many connections there are.
THEOREM CapsHoldButForConsumers == Spec => []OvershootIsBounded
<1>1. ASSUME RecordInv PROVE OvershootIsBounded
  <2>1. SUFFICES ASSUME NEW t \in Trackers, NEW w \in Windows
                 PROVE  Size(t, w) <= Cap + Cardinality(Consumers) - 1
    BY DEF OvershootIsBounded, Size
  <2>2. /\ Size(t, w) \in Nat /\ Cardinality(Consumers) \in Nat
        /\ Cardinality(Adders(t, w)) \in Nat
    <3>1. Adders(t, w) \in SUBSET Consumers
      BY DEF Adders
    <3> QED BY <1>1, <3>1, SizeFacts, ConsumersCount DEF RecordInv
  <2>3. Size(t, w) + Cardinality(Adders(t, w)) <= Cap + Cardinality(Consumers) - 1
    BY <1>1 DEF RecordInv, OvershootInv
  <2> QED BY <2>2, <2>3, Numbers
<1> QED BY <1>1, RecordInductive, PTL

\* Only offenders are flagged, whatever is delivered again.
THEOREM OnlyOffendersAreFlagged == Spec => []FlaggedMeansOffence
<1>1. RecordInv => FlaggedMeansOffence
  BY DEF RecordInv
<1> QED BY <1>1, RecordInductive, PTL

\* A user whose connections had reached more hosts when one was taken up is not
\* taken for a scanner by it, although the count of the hosts may be stale.
THEOREM StaleCountsMakeNoScanner == Spec => []ScanIsConcentrated
<1>1. ASSUME RecordInv PROVE ScanIsConcentrated
  <2>1. SUFFICES ASSUME NEW c \in Consumers, pc[c] = Judging, PortScan(heard[c])
                 PROVE  before[c] <= MaxScanIps
    BY DEF ScanIsConcentrated
  <2>2. pc[c] # Idle /\ ~Unanswered(c, "ip")
    BY <2>1 DEF Judging, Idle, Unanswered, Until
  <2>3. before[c] <= heard[c].ip \/ heard[c].ip >= Cap
    BY <1>1, <2>2 DEF RecordInv, HostsInv, HostKept
  <2>4. before[c] \in Nat /\ heard[c].ip \in Nat /\ heard[c].ip <= MaxScanIps
    BY <1>1, <2>1 DEF RecordInv, TypeOK, PortScan
  <2> QED BY <2>3, <2>4, Numbers
<1> QED BY <1>1, RecordInductive, PTL

\* Once all of a user's connections are processed, every offence is flagged:
\* neither the caps nor the order of the steps nor a failed batch hides one.
THEOREM EveryOffenderIsFlagged == Spec => []OffendersAreFlagged
<1>1. ASSUME RecordInv PROVE OffendersAreFlagged
  <2>1. SUFFICES ASSUME Settled, NEW w \in Windows, NEW d \in Detectors, Offence(d, w, 0)
                 PROVE  <<w, d>> \in flagged
    BY DEF OffendersAreFlagged
  <2>2. TypeOK /\ CountInv /\ MembersInv /\ DueInv /\ \A t \in Trackers : Complete(t, w)
    BY <1>1 DEF RecordInv
  <2>3. waiting = {} /\ \A c \in Consumers : pc[c] = Idle
    BY <2>1 DEF Settled
  <2>4. ~Unfinished(w) /\ \A t, n : ~WillHear(t, w, n)
    BY <2>3 DEF Unfinished, WillHear, Delivered, Working
  <2>5. ASSUME NEW t \in Trackers
        PROVE  /\ Size(t, w) \in Nat /\ Cardinality(SeenValues(t, w)) \in Nat
               /\ Size(t, w) >= Cap \/ Size(t, w) = Cardinality(SeenValues(t, w))
    <3>1. /\ Size(t, w) \in Nat /\ Cardinality(SeenValues(t, w)) \in Nat
          /\ SeenValues(t, w) \subseteq Values(t)
      BY <2>2, SizeFacts
    <3>2. CASE ~(Size(t, w) >= Cap)
      <4>1. \A c \in Consumers : ~Unanswered(c, t)
        BY <2>3 DEF Unanswered, Until, Idle
      <4>2. \A e \in Seen(t, w) : Value(t, e) \in members[t][w]
        BY <2>2, <2>3, <3>2, <4>1 DEF Complete
      <4>3. SeenValues(t, w) = members[t][w]
        BY <2>2, <4>2 DEF SeenValues, MembersInv
      <4> QED BY <3>1, <4>3 DEF Size
    <3> QED BY <3>1, <3>2
  <2>6. /\ Distinct("ip", {e \in opened : e.window = w}) = Cardinality(SeenValues("ip", w))
        /\ Distinct("port", {e \in opened : e.window = w}) = Cardinality(SeenValues("port", w))
        /\ Distinct("ip", {e \in {f \in opened : f.window = w} : ~e.rejected /\ e.port \in MailPorts})
              = Cardinality(SeenValues("smtp", w))
    BY SeenDistinct
  <2>7. \A k \in Counters : /\ made[k][w] \in Nat /\ counter[k][w] \in Nat
                           /\ made[k][w] <= counter[k][w]
    BY <2>2 DEF TypeOK, CountInv
  <2>8. CASE d = "connection_rate"
    <3>1. made["accepted"][w] + 0 > RateLimit
      BY <2>1, <2>8 DEF Offence
    <3>2. ConnectionRate(w)
      BY <2>7, <3>1, Numbers DEF ConnectionRate, Counters
    <3> QED BY <2>2, <2>4, <2>8, <3>2 DEF DueInv
  <2>9. CASE d = "failed_connections"
    <3>1. made["rejected"][w] + 0 >= FailedThreshold
      BY <2>1, <2>9 DEF Offence
    <3>2. FailedConnections(w)
      BY <2>7, <3>1, Numbers DEF FailedConnections, Counters
    <3> QED BY <2>2, <2>4, <2>9, <3>2 DEF DueInv
  <2>10. CASE d = "spam"
    <3>1. Cardinality(SeenValues("smtp", w)) >= SpamThreshold
      BY <2>1, <2>6, <2>10 DEF Offence
    <3>2. Spam(w)
      BY <2>5, <3>1, Numbers DEF Spam, Trackers
    <3> QED BY <2>2, <2>4, <2>10, <3>2 DEF DueInv
  <2>11. CASE d = "destination_fanout"
    <3>1. \/ Cardinality(SeenValues("ip", w)) >= IpThreshold
          \/ Cardinality(SeenValues("port", w)) >= PortThreshold
      BY <2>1, <2>6, <2>11 DEF Offence
    <3>2. \E t \in {"ip", "port"} : Size(t, w) >= Threshold(t)
      BY <2>5, <3>1, Numbers DEF Threshold, Trackers
    <3> QED BY <2>2, <2>4, <2>11, <3>2 DEF DueInv
  <2>12. CASE d = "port_scan"
    <3>1. /\ Cardinality(SeenValues("port", w)) >= PortThreshold
          /\ Cardinality(SeenValues("ip", w)) <= MaxScanIps
      BY <2>1, <2>6, <2>12 DEF Offence
    <3>2. Size("port", w) >= PortThreshold /\ ~(Cardinality(SeenValues("ip", w)) > MaxScanIps)
      BY <2>5, <3>1, Numbers DEF Trackers
    <3> QED BY <2>2, <2>4, <2>12, <3>2 DEF DueInv
  <2> QED BY <2>8, <2>9, <2>10, <2>11, <2>12 DEF Detectors
<1> QED BY <1>1, RecordInductive, PTL

================================================================================
