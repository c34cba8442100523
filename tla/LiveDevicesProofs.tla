--------------------------- MODULE LiveDevicesProofs ---------------------------
(***************************************************************************)
(* What a device count is worth, for any number of consumers, of devices   *)
(* and of connections, any cap, window and limits: it counts no device     *)
(* that was not seen in the window, and all that were if events come in    *)
(* order and the set was never full.                                       *)
(***************************************************************************)
EXTENDS LiveDevices, FiniteSetTheorems, TLAPS

-------------------------------------------------------------------------------
(* The inductive invariant *)

Busy == {c \in Consumers : pc[c] = "adding"}

\* The events that are counted or being handled.
Known == recorded \cup {hand[c] : c \in Busy}

InOrder == happened \subseteq {"overlap"}
Alone   == "overlap" \notin happened

\* ZADD writes the time of an event that the same step counts.
SeenIsRecorded ==
    \A d \in Devices : lastSeen[d] # Never =>
        \E e \in recorded : e.device = d /\ e.at = lastSeen[d]

\* Between a consumer's two pipelines nothing comes back that the first removed.
StillPruned ==
    Alone \/ InOrder =>
        \A c \in Busy, d \in Devices :
            lastSeen[d] # Never => lastSeen[d] > hand[c].at - Window

\* A device that was seen is in the set, or a later event has outdated it.
SeenOrOutdated ==
    InOrder => \A e \in recorded :
        lastSeen[e.device] >= e.at \/ \E f \in Known : e.at <= f.at - Window

OneAtATime == Alone => \A c, d \in Busy : c = d

\* What is about to be judged: the limit in force is one of those since the count.
StatsOK ==
    \A c \in Consumers : pc[c] = "judging" =>
        /\ EffectiveLimit \in stats[c].limits
        /\ InOrder => stats[c].count = stats[c].active

Threshold ==
    Judged /\ InOrder =>
        /\ verdict.limit \in verdict.limits
        /\ verdict.triggered <=> verdict.active > verdict.limit

DevicesInv ==
    /\ TypeOK
    /\ SeenIsRecorded /\ StillPruned /\ SeenOrOutdated /\ OneAtATime
    /\ StatsOK /\ Threshold /\ CountIsActive /\ CountsNoGhosts

-------------------------------------------------------------------------------
(* Counts *)

\* A set of devices is no smaller than its parts.
LEMMA DevicesCount ==
    ASSUME NEW T \in SUBSET Devices, NEW S \in SUBSET T
    PROVE  Cardinality(S) \in Nat /\ Cardinality(T) \in Nat /\ Cardinality(S) <= Cardinality(T)
<1>1. IsFiniteSet(T)
  BY LiveDevicesAssumption, FS_Subset
<1>2. IsFiniteSet(S) /\ Cardinality(S) <= Cardinality(T)
  BY <1>1, FS_Subset
<1> QED BY <1>1, <1>2, FS_CardinalityType

LEMMA SizeType ==
    ASSUME NEW seen
    PROVE  Size(seen) \in 0..Cardinality(Devices)
<1>1. {d \in Devices : seen[d] # Never} \subseteq Devices
  OBVIOUS
<1>2. /\ Size(seen) \in Nat /\ Cardinality(Devices) \in Nat
      /\ Size(seen) <= Cardinality(Devices)
  BY <1>1, DevicesCount DEF Size
<1> QED BY <1>2

LEMMA NoneIsAnEvent == None \in Events
<1>1. Devices # {} /\ 0 \in Times
  BY LiveDevicesAssumption DEF Times
<1>2. \E event : event \in Events
  <2>1. PICK d \in Devices : TRUE
    BY <1>1
  <2>2. [device |-> d, at |-> 0] \in Events
    BY <1>1, <2>1 DEF Events
  <2> QED BY <2>2
<1> QED BY <1>2 DEF None

LEMMA EventType ==
    ASSUME NEW e \in Events
    PROVE  e.device \in Devices /\ e.at \in Nat
BY LiveDevicesAssumption DEF Events, Times

LEMMA LimitType ==
    ASSUME TypeOK
    PROVE  EffectiveLimit \in Limits /\ EffectiveLimit \in Nat
BY LiveDevicesAssumption DEF TypeOK, EffectiveLimit, Limits

LEMMA CountsType == 0 \in Counts /\ Counts \subseteq Nat
BY DevicesCount DEF Counts

LEMMA ActiveType ==
    ASSUME NEW known \in SUBSET Events, NEW time
    PROVE  Cardinality(Active(known, time)) \in Counts
<1>1. Active(known, time) \subseteq Devices
  BY EventType DEF Active
<1> HIDE DEF Active
<1>2. /\ Cardinality(Active(known, time)) \in Nat /\ Cardinality(Devices) \in Nat
      /\ Cardinality(Active(known, time)) <= Cardinality(Devices)
  BY <1>1, DevicesCount
<1> QED BY <1>2 DEF Counts

-------------------------------------------------------------------------------
(* Answers *)

AnswerInv == CountIsActive /\ CountsNoGhosts

\* Without a new answer, the last one stays as good as it was.
LEMMA OldAnswer ==
    ASSUME AnswerInv, UNCHANGED <<recorded, answer>>, happened \subseteq happened'
    PROVE  AnswerInv'
<1>1. CountIsActive'
  BY DEF AnswerInv, CountIsActive, Counted
<1>2. CountsNoGhosts'
  BY DEF AnswerInv, CountsNoGhosts, Counted
<1> QED BY <1>1, <1>2 DEF AnswerInv

\* Nor do the judgements change with what happens later.
LEMMA OldVerdict ==
    ASSUME Threshold, verdict' = verdict, happened \subseteq happened'
    PROVE  Threshold'
BY DEF Threshold, Judged, InOrder

\* An answer is right if the set is, from which it was counted, and so is what
\* is about to be judged.
LEMMA NewAnswer ==
    ASSUME TypeOK, StatsOK, NEW c \in Consumers, NEW event \in Events,
           Count(c, event, Size(lastSeen')), pc' = [pc EXCEPT ![c] = "judging"],
           override' = override, happened \subseteq happened',
           "overlap" \notin happened' =>
               {d \in Devices : lastSeen'[d] # Never}
                   \subseteq {e.device : e \in {f \in recorded' : f.at > event.at - Window}},
           happened' \subseteq {"overlap"} =>
               {d \in Devices : lastSeen'[d] # Never}
                   = {e.device : e \in {f \in recorded' : f.at > event.at - Window
                                                         /\ f.at <= event.at}}
    PROVE  /\ AnswerInv' /\ recorded' = recorded \cup {event} /\ recorded' \subseteq Events
           /\ StatsOK' /\ answer' \in [event : Events, count : Counts]
           /\ stats' \in [Consumers -> [count : Counts, active : Counts, limits : SUBSET Limits]]
<1> DEFINE size == Size(lastSeen')
           active == Cardinality(Active(recorded', event.at))
           counted == {d \in Devices : lastSeen'[d] # Never}
           seen == {e.device : e \in {f \in recorded' : f.at > event.at - Window}}
<1>1. /\ recorded' = recorded \cup {event}
      /\ answer' = [event |-> event, count |-> size]
      /\ stats' = [stats EXCEPT ![c] = [count |-> size, active |-> active,
                                        limits |-> {EffectiveLimit}]]
  BY DEF Count
<1>2. recorded' \subseteq Events
  BY <1>1 DEF TypeOK
<1>3. answer'.event = event /\ answer'.count = size
  BY <1>1
<1>4. happened' \subseteq {"overlap"} => size = active
  BY DEF Active, Size
<1>5. CountIsActive'
  BY <1>3, <1>4 DEF CountIsActive
<1>6. CountsNoGhosts'
  <2>1. SUFFICES ASSUME "overlap" \notin happened'
                 PROVE  size <= Cardinality(seen)
    BY <1>3 DEF CountsNoGhosts
  <2>2. seen \in SUBSET Devices
    BY <1>2, EventType
  <2>3. counted \in SUBSET seen
    BY <2>1
  <2>4. Cardinality(counted) <= Cardinality(seen)
    BY <2>2, <2>3, DevicesCount
  <2> QED BY <2>4 DEF Size
<1>7. size \in Counts /\ active \in Counts /\ EffectiveLimit \in Limits
  BY <1>2, SizeType, ActiveType, LimitType DEF Counts
<1> HIDE DEF size, active, counted, seen
<1>8. /\ answer' \in [event : Events, count : Counts]
      /\ stats' \in [Consumers -> [count : Counts, active : Counts, limits : SUBSET Limits]]
  BY <1>1, <1>7 DEF TypeOK
<1>9. StatsOK'
  <2>1. SUFFICES ASSUME NEW d \in Consumers, pc'[d] = "judging"
                 PROVE  /\ EffectiveLimit' \in stats'[d].limits
                        /\ InOrder' => stats'[d].count = stats'[d].active
    BY DEF StatsOK
  <2>2. EffectiveLimit' = EffectiveLimit /\ (InOrder' => InOrder)
    BY DEF EffectiveLimit, InOrder
  <2>3. CASE d = c
    <3>1. stats'[d] = [count |-> size, active |-> active, limits |-> {EffectiveLimit}]
      BY <1>1, <2>3 DEF TypeOK
    <3> QED BY <1>4, <2>2, <3>1 DEF InOrder
  <2>4. CASE d # c
    <3>1. stats'[d] = stats[d] /\ pc[d] = "judging"
      BY <1>1, <2>1, <2>4 DEF TypeOK
    <3> QED BY <2>2, <3>1 DEF StatsOK
  <2> QED BY <2>3, <2>4
<1> QED BY <1>1, <1>2, <1>5, <1>6, <1>8, <1>9 DEF AnswerInv

-------------------------------------------------------------------------------
(* The steps *)

LEMMA InitDevices == ASSUME Init PROVE DevicesInv
<1>1. now \in Times /\ Never \in Times \cup {Never} /\ 0 \in 0..Cardinality(Devices)
  <2>1. 0 \in Times
    BY LiveDevicesAssumption DEF Times
  <2>2. Cardinality(Devices) \in Nat
    BY DevicesCount
  <2> QED BY <2>1, <2>2 DEF Init
<1>2. /\ NoStats \in [count : Counts, active : Counts, limits : SUBSET Limits]
      /\ NoAnswer \in [event : Events, count : Counts]
      /\ NoVerdict \in [active : Counts, limits : SUBSET Limits, limit : Limits \cup {0},
                        triggered : BOOLEAN]
  BY NoneIsAnEvent, CountsType DEF NoStats, NoAnswer, NoVerdict
<1>3. TypeOK
  BY <1>1, <1>2, NoneIsAnEvent, LiveDevicesAssumption DEF Init, TypeOK
<1>4. AnswerInv /\ Threshold
  BY DEF Init, AnswerInv, Threshold, CountIsActive, CountsNoGhosts, Counted, Judged
<1>5. SeenIsRecorded /\ StillPruned /\ SeenOrOutdated /\ OneAtATime /\ StatsOK
  BY DEF Init, SeenIsRecorded, StillPruned, SeenOrOutdated, OneAtATime, StatsOK, Busy
<1> QED BY <1>3, <1>4, <1>5 DEF DevicesInv, AnswerInv

LEMMA NoticeFacts ==
    ASSUME TypeOK, NEW c \in Consumers, NEW event \in Events, NEW full \in BOOLEAN,
           Notice(c, event, full)
    PROVE  /\ happened \subseteq happened' /\ happened' \subseteq Disturbances
           /\ full => "full" \in happened'
           /\ InOrder' => /\ \A e \in recorded : e.at <= event.at
                          /\ \A d \in Busy \ {c} : hand[d].at <= event.at
           /\ Alone' => Busy \subseteq {c}
<1> DEFINE busy  == {d \in Consumers \ {c} : pc[d] = "adding"}
           later == {e \in recorded \cup {hand[d] : d \in busy} : e.at > event.at}
<1>1. happened' = happened \cup (IF later # {} THEN {"late"} ELSE {})
                           \cup (IF full THEN {"full"} ELSE {})
                           \cup (IF busy # {} THEN {"overlap"} ELSE {})
  BY DEF Notice
<1> HIDE DEF busy, later
<1>2. happened \subseteq happened' /\ happened' \subseteq Disturbances /\ (full => "full" \in happened')
  BY <1>1 DEF TypeOK, Disturbances
<1>3. ASSUME InOrder'
      PROVE  /\ \A e \in recorded : e.at <= event.at
             /\ \A d \in Busy \ {c} : hand[d].at <= event.at
  <2>1. later = {}
    BY <1>1, <1>3 DEF InOrder
  <2>2. \A e \in recorded \cup {hand[d] : d \in busy} : ~(e.at > event.at)
    BY <2>1 DEF later
  <2>3. Busy \ {c} = busy /\ (\A d \in busy : hand[d] \in Events) /\ recorded \subseteq Events
    BY DEF Busy, busy, TypeOK
  <2> QED BY <2>2, <2>3, EventType
<1>4. Alone' => Busy \subseteq {c}
  <2>1. Alone' => busy = {}
    BY <1>1 DEF Alone
  <2> QED BY <2>1 DEF busy, Busy
<1> QED BY <1>2, <1>3, <1>4

LEMMA PrunedFacts ==
    ASSUME TypeOK, NEW cutoff \in Int, lastSeen' = Pruned(cutoff)
    PROVE  /\ lastSeen' \in [Devices -> Times \cup {Never}]
           /\ \A d \in Devices :
                 /\ lastSeen'[d] # Never => lastSeen'[d] = lastSeen[d] /\ lastSeen[d] > cutoff
                 /\ lastSeen'[d] = lastSeen[d] \/ lastSeen[d] <= cutoff
<1>1. \A d \in Devices : lastSeen[d] \in Int
  BY LiveDevicesAssumption DEF TypeOK, Times, Never
<1> QED BY <1>1 DEF Pruned, TypeOK

\* SetOverride, Judge and Tick change nothing that a set or an answer depends on.
LEMMA ElsewhereInv ==
    ASSUME DevicesInv, TypeOK', StatsOK', Threshold', Busy' = Busy,
           UNCHANGED <<lastSeen, hand, recorded, answer, happened>>
    PROVE  DevicesInv'
<1>1. AnswerInv'
  BY OldAnswer DEF DevicesInv, AnswerInv
<1>2. SeenIsRecorded'
  BY DEF DevicesInv, SeenIsRecorded
<1>3. StillPruned'
  BY DEF DevicesInv, StillPruned, InOrder, Alone
<1>4. SeenOrOutdated'
  BY DEF DevicesInv, SeenOrOutdated, InOrder, Known
<1>5. OneAtATime'
  BY DEF DevicesInv, OneAtATime, Alone
<1> QED BY <1>1, <1>2, <1>3, <1>4, <1>5 DEF DevicesInv, AnswerInv

LEMMA SetOverrideInv ==
    ASSUME DevicesInv, NEW limit \in Overrides \cup {NoOverride}, SetOverride(limit)
    PROVE  DevicesInv'
<1>1. /\ TypeOK /\ override' = limit
      /\ stats' = [c \in Consumers |->
                     IF pc[c] = "judging"
                     THEN [stats[c] EXCEPT !.limits = @ \cup {EffectiveLimit'}] ELSE stats[c]]
      /\ UNCHANGED <<now, lastSeen, pc, hand, recorded, answer, verdict, happened, events>>
  BY DEF DevicesInv, SetOverride
<1>2. EffectiveLimit' \in Limits
  BY <1>1 DEF EffectiveLimit, Limits
<1> HIDE DEF EffectiveLimit
<1>3. stats' \in [Consumers -> [count : Counts, active : Counts, limits : SUBSET Limits]]
  BY <1>1, <1>2 DEF TypeOK
<1>4. changes' \in 0..MaxOverrides
  BY <1>1, LiveDevicesAssumption DEF SetOverride, TypeOK
<1>5. TypeOK'
  BY <1>1, <1>3, <1>4 DEF TypeOK
<1>6. StatsOK'
  <2>1. \A c \in Consumers : pc[c] = "judging" =>
            /\ stats'[c].limits = stats[c].limits \cup {EffectiveLimit'}
            /\ stats'[c].count = stats[c].count /\ stats'[c].active = stats[c].active
    BY <1>1 DEF TypeOK
  <2> QED BY <1>1, <2>1 DEF DevicesInv, StatsOK, InOrder
<1>7. Threshold' /\ Busy' = Busy
  BY <1>1, OldVerdict DEF DevicesInv, Busy
<1> QED BY <1>1, <1>5, <1>6, <1>7, ElsewhereInv

LEMMA JudgeInv ==
    ASSUME DevicesInv, NEW c \in Consumers, Judge(c)
    PROVE  DevicesInv'
<1> DEFINE answered == [active |-> stats[c].active, limits |-> stats[c].limits,
                        limit |-> EffectiveLimit,
                        triggered |-> (stats[c].count > EffectiveLimit)]
<1>1. /\ TypeOK /\ pc[c] = "judging" /\ verdict' = answered
      /\ pc' = [pc EXCEPT ![c] = "idle"] /\ stats' = [stats EXCEPT ![c] = NoStats]
      /\ UNCHANGED <<now, override, lastSeen, hand, recorded, answer, happened, events,
                     changes>>
  BY DEF DevicesInv, Judge, Finish
<1>2. EffectiveLimit \in Limits /\ EffectiveLimit' = EffectiveLimit
  BY <1>1, LimitType DEF EffectiveLimit
<1> HIDE DEF EffectiveLimit
<1>3. NoStats \in [count : Counts, active : Counts, limits : SUBSET Limits]
  BY CountsType DEF NoStats
<1>4. stats[c] \in [count : Counts, active : Counts, limits : SUBSET Limits]
  BY <1>1 DEF TypeOK
<1>5. answered \in [active : Counts, limits : SUBSET Limits, limit : Limits \cup {0},
                    triggered : BOOLEAN]
  BY <1>2, <1>4
<1>6. TypeOK'
  BY <1>1, <1>3, <1>5 DEF TypeOK
<1>7. StatsOK'
  <2>1. \A d \in Consumers : pc'[d] = "judging" => pc[d] = "judging" /\ stats'[d] = stats[d]
    BY <1>1 DEF TypeOK
  <2> QED BY <1>1, <1>2, <2>1 DEF DevicesInv, StatsOK, InOrder
<1>8. Threshold'
  <2>1. InOrder' => EffectiveLimit \in stats[c].limits /\ stats[c].count = stats[c].active
    BY <1>1 DEF DevicesInv, StatsOK, InOrder
  <2> QED BY <1>1, <2>1 DEF Threshold
<1>9. Busy' = Busy
  BY <1>1 DEF Busy, TypeOK
<1> QED BY <1>1, <1>6, <1>7, <1>8, <1>9, ElsewhereInv

LEMMA PruneInv ==
    ASSUME DevicesInv, NEW c \in Consumers, NEW event \in Events, Prune(c, event)
    PROVE  DevicesInv'
<1> DEFINE full == Size(lastSeen') >= Cap
<1>1. TypeOK /\ lastSeen' = Pruned(event.at - Window) /\ Notice(c, event, full)
  BY DEF Prune, DevicesInv
<1>2. event.device \in Devices /\ event.at \in Nat /\ Window \in Nat \ {0} /\ MaxEvents \in Nat
  BY EventType, LiveDevicesAssumption
<1>3. /\ lastSeen' \in [Devices -> Times \cup {Never}]
      /\ \A d \in Devices :
            /\ lastSeen'[d] # Never => lastSeen'[d] = lastSeen[d] /\ lastSeen[d] > event.at - Window
            /\ lastSeen'[d] = lastSeen[d] \/ lastSeen[d] <= event.at - Window
  BY <1>1, <1>2, PrunedFacts
<1>4. full \in BOOLEAN
  OBVIOUS
<1>5. /\ happened \subseteq happened' /\ happened' \subseteq Disturbances
      /\ full => "full" \in happened'
      /\ InOrder' => /\ \A e \in recorded : e.at <= event.at
                     /\ \A d \in Busy \ {c} : hand[d].at <= event.at
      /\ Alone' => Busy \subseteq {c}
  <2> HIDE DEF full
  <2> QED BY <1>1, <1>4, NoticeFacts
<1>6. /\ UNCHANGED <<now, override, verdict, changes>> /\ events' \in 0..MaxEvents
      /\ pc[c] = "idle"
  BY <1>1, <1>2 DEF Prune, TypeOK
<1>7. (InOrder' => InOrder) /\ (Alone' => Alone)
  BY <1>5 DEF InOrder, Alone
<1>8. CASE full
  <2>1. /\ Count(c, event, Size(lastSeen')) /\ pc' = [pc EXCEPT ![c] = "judging"]
        /\ hand' = hand /\ ~InOrder'
    BY <1>5, <1>8 DEF Prune, InOrder
  <2>a. Busy' = Busy
    BY <1>1, <1>6, <2>1 DEF Busy, TypeOK
  <2>2. ASSUME NEW d \in Devices, lastSeen'[d] # Never
        PROVE  \E e \in recorded : e.device = d /\ e.at = lastSeen'[d] /\ e.at > event.at - Window
    BY <1>3, <2>2 DEF DevicesInv, SeenIsRecorded
  <2>3. recorded' = recorded \cup {event}
    BY <2>1 DEF Count
  <2>4. /\ AnswerInv' /\ recorded' \subseteq Events /\ StatsOK'
        /\ answer' \in [event : Events, count : Counts]
        /\ stats' \in [Consumers -> [count : Counts, active : Counts, limits : SUBSET Limits]]
    <3>1. {d \in Devices : lastSeen'[d] # Never}
             \subseteq {e.device : e \in {f \in recorded' : f.at > event.at - Window}}
      BY <2>2, <2>3
    <3>2. ~(happened' \subseteq {"overlap"})
      BY <2>1 DEF InOrder
    <3> HIDE DEF full
    <3> QED BY <1>1, <1>5, <1>6, <2>1, <3>1, <3>2, NewAnswer DEF DevicesInv
  <2>5. SeenIsRecorded'
    BY <2>2, <2>3 DEF SeenIsRecorded
  <2>6. StillPruned'
    BY <1>3, <1>7, <2>1, <2>a DEF DevicesInv, StillPruned
  <2>7. SeenOrOutdated'
    BY <2>1 DEF SeenOrOutdated
  <2>8. OneAtATime'
    BY <1>7, <2>a DEF DevicesInv, OneAtATime
  <2>9. TypeOK'
    <3>1. pc' \in [Consumers -> {"idle", "adding", "judging"}]
      BY <1>1, <2>1 DEF TypeOK
    <3> HIDE DEF full
    <3> QED BY <1>1, <1>3, <1>5, <1>6, <2>1, <2>4, <3>1 DEF TypeOK
  <2>10. Threshold'
    BY <1>5, <1>6, OldVerdict DEF DevicesInv
  <2> QED BY <2>4, <2>5, <2>6, <2>7, <2>8, <2>9, <2>10 DEF DevicesInv, AnswerInv
<1>9. CASE ~full
  <2>1. /\ pc' = [pc EXCEPT ![c] = "adding"] /\ hand' = [hand EXCEPT ![c] = event]
        /\ UNCHANGED <<stats, recorded, answer>>
    BY <1>9 DEF Prune
  <2>2. /\ Busy' = Busy \cup {c} /\ hand'[c] = event
        /\ \A d \in Busy : d # c /\ hand'[d] = hand[d] /\ hand[d] \in Events
    BY <1>1, <1>6, <2>1 DEF Busy, TypeOK
  <2>3. TypeOK'
    BY <1>1, <1>3, <1>5, <1>6, <2>1 DEF TypeOK
  <2>4. AnswerInv'
    BY <1>5, <2>1, OldAnswer DEF DevicesInv, AnswerInv
  <2>5. SeenIsRecorded'
    BY <1>3, <2>1 DEF DevicesInv, SeenIsRecorded
  <2>6. StillPruned'
    BY <1>3, <1>7, <2>2 DEF DevicesInv, StillPruned
  <2>7. SeenOrOutdated'
    <3>1. SUFFICES ASSUME InOrder', NEW e \in recorded
                   PROVE  lastSeen'[e.device] >= e.at \/ \E f \in Known' : e.at <= f.at - Window
      BY <2>1 DEF SeenOrOutdated
    <3>2. event \in Known' /\ Known \subseteq Known'
      BY <2>1, <2>2 DEF Known
    <3>3. e \in Events /\ e.at \in Nat /\ e.device \in Devices /\ lastSeen[e.device] \in Int
      BY <1>1, EventType, LiveDevicesAssumption DEF TypeOK, Times, Never
    <3>4. lastSeen[e.device] >= e.at \/ \E f \in Known : e.at <= f.at - Window
      BY <1>7, <3>1 DEF DevicesInv, SeenOrOutdated
    <3>5. CASE lastSeen[e.device] >= e.at
      <4>1. lastSeen'[e.device] = lastSeen[e.device] \/ e.at <= event.at - Window
        BY <1>2, <1>3, <3>3, <3>5
      <4> QED BY <3>2, <3>5, <4>1
    <3> QED BY <3>2, <3>4, <3>5
  <2>8. OneAtATime'
    BY <1>5, <2>2 DEF OneAtATime
  <2>9. Threshold'
    BY <1>5, <1>6, OldVerdict DEF DevicesInv
  <2>10. StatsOK'
    <3>1. \A d \in Consumers : pc'[d] = "judging" => pc[d] = "judging"
      BY <1>1, <2>1 DEF TypeOK
    <3>2. EffectiveLimit' = EffectiveLimit
      BY <1>6 DEF EffectiveLimit
    <3> QED BY <1>7, <2>1, <3>1, <3>2 DEF DevicesInv, StatsOK
  <2> QED BY <2>3, <2>4, <2>5, <2>6, <2>7, <2>8, <2>9, <2>10 DEF DevicesInv, AnswerInv
<1> QED BY <1>8, <1>9

LEMMA AddInv ==
    ASSUME DevicesInv, NEW c \in Consumers, Add(c)
    PROVE  DevicesInv'
<1> DEFINE event == hand[c]
<1>1. /\ TypeOK /\ pc[c] = "adding"
      /\ lastSeen' = [lastSeen EXCEPT ![event.device] = event.at]
      /\ Count(c, event, Size(lastSeen')) /\ Notice(c, event, FALSE)
      /\ pc' = [pc EXCEPT ![c] = "judging"] /\ hand' = [hand EXCEPT ![c] = None]
      /\ UNCHANGED <<now, override, verdict, events, changes>>
  BY DEF Add, DevicesInv
<1>2. event \in Events
  BY <1>1 DEF TypeOK
<1>3. /\ event.device \in Devices /\ event.at \in Times /\ event.at \in Nat
      /\ Window \in Nat \ {0} /\ Never \notin Times
  BY <1>2, EventType, LiveDevicesAssumption DEF Events, Times, Never
<1>4. /\ lastSeen' \in [Devices -> Times \cup {Never}] /\ lastSeen'[event.device] = event.at
      /\ \A d \in Devices \ {event.device} : lastSeen'[d] = lastSeen[d]
  BY <1>1, <1>3 DEF TypeOK
<1>5. /\ happened \subseteq happened' /\ happened' \subseteq Disturbances
      /\ InOrder' => /\ \A e \in recorded : e.at <= event.at
                     /\ \A d \in Busy \ {c} : hand[d].at <= event.at
      /\ Alone' => Busy \subseteq {c}
  <2> HIDE DEF event
  <2> QED BY <1>1, <1>2, NoticeFacts
<1>6. (InOrder' => InOrder) /\ (Alone' => Alone)
  BY <1>5 DEF InOrder, Alone
<1>7. /\ c \in Busy /\ Busy' = Busy \ {c} /\ \A d \in Busy' : hand'[d] = hand[d]
  BY <1>1 DEF Busy, TypeOK
<1>8. recorded' = recorded \cup {event}
  BY <1>1 DEF Count
<1>9. Known' \subseteq Known /\ Known \subseteq Known'
  BY <1>7, <1>8 DEF Known
<1>10. SeenIsRecorded'
  BY <1>4, <1>8 DEF DevicesInv, SeenIsRecorded
<1>11. StillPruned'
  <2>1. SUFFICES ASSUME Alone' \/ InOrder', NEW b \in Busy', NEW d \in Devices, lastSeen'[d] # Never
                 PROVE  lastSeen'[d] > hand'[b].at - Window
    BY DEF StillPruned
  <2>2. b \in Busy \ {c} /\ hand'[b] = hand[b] /\ hand[b] \in Events
    BY <1>1, <1>7 DEF Busy, TypeOK
  <2>3. InOrder'
    BY <1>5, <2>1, <2>2
  <2>4. hand[b].at <= event.at /\ hand[b].at \in Nat
    BY <1>5, <2>2, <2>3, EventType
  <2>5. CASE d = event.device
    BY <1>3, <1>4, <2>2, <2>4, <2>5
  <2>6. CASE d # event.device
    BY <1>4, <1>6, <2>1, <2>2, <2>3, <2>6 DEF DevicesInv, StillPruned
  <2> QED BY <2>5, <2>6
<1>12. ASSUME InOrder', NEW e \in recorded'
       PROVE  lastSeen'[e.device] >= e.at \/ \E f \in Known' : e.at <= f.at - Window
  <2>1. e.at \in Nat /\ e.device \in Devices /\ e.at <= event.at
    BY <1>1, <1>2, <1>3, <1>5, <1>8, <1>12, EventType DEF TypeOK
  <2>2. CASE e.device = event.device
    BY <1>4, <2>1, <2>2
  <2>3. CASE e.device # event.device
    <3>1. e \in recorded /\ lastSeen'[e.device] = lastSeen[e.device]
      BY <1>4, <1>8, <2>1, <2>3
    <3> QED BY <1>6, <1>9, <1>12, <3>1 DEF DevicesInv, SeenOrOutdated
  <2> QED BY <2>2, <2>3
<1>13. SeenOrOutdated'
  BY <1>12 DEF SeenOrOutdated
<1>14. OneAtATime'
  BY <1>6, <1>7 DEF DevicesInv, OneAtATime
\* Whatever is in the set is in the window of the event ...
<1>15. ASSUME Alone' \/ InOrder', NEW d \in Devices, lastSeen'[d] # Never
       PROVE  \E e \in recorded' : e.device = d /\ e.at = lastSeen'[d] /\ e.at > event.at - Window
  <2>1. PICK e \in recorded' : e.device = d /\ e.at = lastSeen'[d]
    BY <1>10, <1>15 DEF SeenIsRecorded
  <2>2. CASE d = event.device
    BY <1>3, <1>4, <2>1, <2>2
  <2>3. CASE d # event.device
    <3>1. lastSeen'[d] = lastSeen[d]
      BY <1>4, <2>3
    <3>2. lastSeen[d] > event.at - Window
      BY <1>6, <1>7, <1>15, <3>1 DEF DevicesInv, StillPruned
    <3> QED BY <2>1, <3>1, <3>2
  <2> QED BY <2>2, <2>3
\* ... and, in order, what is in the window is in the set.
<1>16. ASSUME InOrder'
       PROVE  {d \in Devices : lastSeen'[d] # Never}
                 = {e.device : e \in {f \in recorded' : f.at > event.at - Window /\ f.at <= event.at}}
  <2>1. ASSUME NEW e \in recorded'
        PROVE  e \in Events /\ e.at \in Nat /\ e.device \in Devices /\ e.at <= event.at
    BY <1>1, <1>2, <1>3, <1>5, <1>8, <1>16, EventType DEF TypeOK
  <2>2. ASSUME NEW f \in Known' PROVE f.at \in Nat /\ f.at <= event.at
    <3>1. CASE f \in recorded'
      BY <2>1, <3>1
    <3>2. CASE f \notin recorded'
      <4>1. PICK b \in Busy' : f = hand'[b]
        BY <2>2, <3>2 DEF Known
      <4>2. b \in Busy \ {c} /\ f = hand[b] /\ hand[b] \in Events
        BY <1>1, <1>7, <4>1 DEF Busy, TypeOK
      <4> QED BY <1>5, <1>16, <4>2, EventType
    <3> QED BY <3>1, <3>2
  <2>3. ASSUME NEW e \in recorded', e.at > event.at - Window
        PROVE  lastSeen'[e.device] # Never
    <3>1. lastSeen'[e.device] >= e.at
      <4>1. ASSUME NEW f \in Known' PROVE ~(e.at <= f.at - Window)
        BY <1>3, <2>1, <2>2, <2>3
      <4> QED BY <1>12, <1>16, <4>1
    <3> QED BY <2>1, <3>1 DEF Never
  <2>4. ASSUME NEW d \in Devices, lastSeen'[d] # Never
        PROVE  \E e \in recorded' : e.device = d /\ e.at > event.at - Window /\ e.at <= event.at
    BY <1>15, <1>16, <2>1, <2>4
  <2> QED BY <2>1, <2>3, <2>4
<1>17. /\ AnswerInv' /\ recorded' \subseteq Events /\ StatsOK'
       /\ answer' \in [event : Events, count : Counts]
       /\ stats' \in [Consumers -> [count : Counts, active : Counts, limits : SUBSET Limits]]
  <2>1. "overlap" \notin happened' =>
            {d \in Devices : lastSeen'[d] # Never}
                \subseteq {e.device : e \in {f \in recorded' : f.at > event.at - Window}}
    BY <1>15 DEF Alone
  <2>2. happened' \subseteq {"overlap"} =>
            {d \in Devices : lastSeen'[d] # Never}
               = {e.device : e \in {f \in recorded' : f.at > event.at - Window /\ f.at <= event.at}}
    BY <1>16 DEF InOrder
  <2> HIDE DEF event
  <2> QED BY <1>1, <1>2, <1>5, <2>1, <2>2, NewAnswer DEF DevicesInv
<1>18. TypeOK'
  <2>1. pc' \in [Consumers -> {"idle", "adding", "judging"}] /\ hand' \in [Consumers -> Events]
    BY <1>1, NoneIsAnEvent DEF TypeOK
  <2> QED BY <1>1, <1>4, <1>5, <1>17, <2>1 DEF TypeOK
<1>19. Threshold'
  BY <1>1, <1>5, OldVerdict DEF DevicesInv
<1> QED BY <1>10, <1>11, <1>13, <1>14, <1>17, <1>18, <1>19 DEF DevicesInv, AnswerInv

LEMMA DevicesStep == ASSUME DevicesInv, [Next]_vars PROVE DevicesInv'
<1>1. ASSUME UNCHANGED <<override, lastSeen, pc, hand, stats, recorded, answer, verdict,
                         happened>>, TypeOK'
      PROVE  DevicesInv'
  <2>1. StatsOK' /\ Threshold' /\ Busy' = Busy
    BY <1>1, OldVerdict DEF DevicesInv, StatsOK, InOrder, EffectiveLimit, Busy
  <2> QED BY <1>1, <2>1, ElsewhereInv
<1>2. CASE Tick
  <2>1. TypeOK'
    BY <1>2, LiveDevicesAssumption DEF Tick, DevicesInv, TypeOK, Times
  <2> QED BY <1>1, <1>2, <2>1 DEF Tick
<1>3. CASE UNCHANGED vars
  <2>1. TypeOK'
    BY <1>3 DEF vars, DevicesInv, TypeOK
  <2> QED BY <1>1, <1>3, <2>1 DEF vars
<1> QED BY <1>2, <1>3, SetOverrideInv, PruneInv, AddInv, JudgeInv DEF Next, Quiet

-------------------------------------------------------------------------------
(* The theorems *)

\* The invariant holds in every state that LiveDevices reaches.
THEOREM DevicesInductive == Spec => []DevicesInv
BY InitDevices, DevicesStep, PTL DEF Spec

\* Every variable keeps its type; no count exceeds the number of devices.
THEOREM DevicesTypes == Spec => []TypeOK
<1>1. DevicesInv => TypeOK
  BY DEF DevicesInv
<1> QED BY <1>1, DevicesInductive, PTL

\* The pruning that only a lookup does is enough: in order, and below the cap,
\* the answer is exactly the number of devices active in the window.
THEOREM AnswersCountTheActive == Spec => []CountIsActive
<1>1. DevicesInv => CountIsActive
  BY DEF DevicesInv
<1> QED BY <1>1, DevicesInductive, PTL

\* Events late or a set full: still no device is counted that was last seen
\* before the window.
THEOREM NoGhostIsCounted == Spec => []CountsNoGhosts
<1>1. DevicesInv => CountsNoGhosts
  BY DEF DevicesInv
<1> QED BY <1>1, DevicesInductive, PTL

\* Whoever has more active devices, when they are counted, than every limit that
\* is in force from then until the verdict does not pass the detector, and whoever
\* is within all of them does, although the API changes the limit in between.
THEOREM NobodyOverTheLimitPasses == Spec => []OverLimitIsFlagged
<1>1. ASSUME DevicesInv PROVE OverLimitIsFlagged
  BY <1>1 DEF DevicesInv, Threshold, InOrder, OverLimitIsFlagged
<1> QED BY <1>1, DevicesInductive, PTL

================================================================================
