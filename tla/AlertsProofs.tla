------------------------------ MODULE AlertsProofs ------------------------------
(***************************************************************************)
(* What Alerts promises, for every set of consumers, every configuration   *)
(* of the policy and every bound: the types, the cooldown of the routine   *)
(* messages, that it swallows no more than it should, and that an account  *)
(* going dark is announced.                                                *)
(***************************************************************************)
EXTENDS Alerts, FiniteSetTheorems, WellFoundedInduction, TLAPS

-------------------------------------------------------------------------------
(* Sets of numbers *)

\* A bounded set of numbers has a largest element: its least bound.
LEMMA MaxOfBounded ==
    ASSUME NEW S \in SUBSET Nat, S # {}, NEW n \in Nat, \A k \in S : k <= n
    PROVE  Max(S) \in S /\ \A k \in S : Max(S) >= k
<1> DEFINE bounds == {b \in Nat : \A k \in S : b >= k}
<1>1. n \in bounds
  OBVIOUS
<1>2. PICK m \in bounds : \A b \in bounds : ~(<<b, m>> \in OpToRel(<, Nat))
  <2>1. bounds \subseteq Nat /\ bounds # {}
    BY <1>1
  <2> HIDE DEF bounds
  <2> QED BY <2>1, NatLessThanWellFounded, WFMin, Zenon
<1>3. \A b \in bounds : ~(b < m)
  BY <1>2 DEF OpToRel
<1>4. m \in S
  <2>1. SUFFICES ASSUME m \notin S PROVE FALSE
    OBVIOUS
  <2>2. \A k \in S : k < m /\ k <= m - 1
    BY <2>1
  <2>3. PICK k \in S : k < m
    BY <2>2
  <2>4. m - 1 \in Nat
    BY <2>3
  <2>5. m - 1 \in bounds
    BY <2>2, <2>4
  <2> QED BY <1>3, <2>5
<1>5. \A k \in S : m >= k
  OBVIOUS
<1> HIDE DEF bounds
<1> QED BY <1>4, <1>5 DEF Max

-------------------------------------------------------------------------------
(* The inductive invariant *)

\* The messages are numbered as they are sent, and none is of the future.
SentInv ==
    /\ IsFiniteSet(sent)
    /\ \A message \in sent : message.id \in 1..made /\ message.at <= now

\* Whoever calls Marzban has scored an event of a level that restricts, and
\* whoever announces has written it.
SessionInv(s) ==
    /\ s.pc \in {"calling", "called"} => s.score \in Scores /\ s.score.level \in 3..5
    /\ s.pc = "announcing" => s.staged # NoRow

Escalating == \E c \in Consumers : ses[c].pc \in {"called", "announcing"}

\* An alert that is due is on its way, or its event is to be delivered again.
DarkInv == dark /\ ~told /\ ~failed /\ ~lapsed => owed # {} \/ Escalating

AlertsInv ==
    /\ TypeOK
    /\ SentInv
    /\ \A c \in Consumers : SessionInv(ses[c])
    /\ DarkInv
    /\ RoutineAlertsAreApart
    /\ ElevatedIsHeard

\* What the invariant says of the session that takes a step.
LEMMA Facts ==
    ASSUME AlertsInv
    PROVE  /\ VariablesOK /\ SentInv /\ DarkInv
           /\ RoutineAlertsAreApart /\ ElevatedIsHeard
           /\ \A c \in Consumers : /\ SessionOK(c) /\ SessionInv(ses[c])
                                   /\ ses[c] \in Sessions
           /\ now \in Nat /\ now <= MaxTime /\ events \in Nat /\ made \in Nat
           /\ row \in Statuses /\ faults \in 0..MaxFaults
           /\ MaxFaults \in Nat /\ MaxTime \in Nat /\ MaxEvents \in Nat
           /\ NoRow \notin Statuses /\ Nobody \notin Consumers \cup Overriders
           /\ Consumers \cap Overriders = {}
           /\ pending \subseteq 1..events /\ owed \subseteq pending
<1>1. VariablesOK /\ \A c \in Consumers : SessionOK(c)
  BY DEF AlertsInv, TypeOK
<1>2. made \in Nat
  BY <1>1, FS_CardinalityType DEF AlertsInv, SentInv, VariablesOK
<1> QED BY <1>1, <1>2, AlertsAssumption DEF AlertsInv, VariablesOK

\* A step of the session that is c's: it becomes s, the others stay as they are.
LEMMA ConsumerStep ==
    ASSUME AlertsInv, NEW c \in Consumers, NEW s \in Sessions,
           ses' = [ses EXCEPT ![c] = s], over' = over, now' = now,
           overrides' = overrides, SessionInv(s),
           lock' \in {lock, IF lock = Nobody THEN c ELSE lock,
                            IF lock = c THEN Nobody ELSE lock},
           s.todo \subseteq s.batch, s.rows \subseteq sent', s.applied <= now,
           s.staged # NoRow \/ s.rows # {} => lock' = c,
           row' \in Statuses, dark' \in BOOLEAN, log' \subseteq sent',
           sent \subseteq sent', sent' \subseteq Actions, made' = Cardinality(sent'),
           events' \in 0..MaxEvents, pending' \subseteq 1..events', owed' \subseteq pending',
           faults' \in 0..MaxFaults, elevated' \subseteq 0..MaxTime,
           told' \in BOOLEAN, failed' \in BOOLEAN, lapsed' \in BOOLEAN,
           SentInv', DarkInv', RoutineAlertsAreApart', ElevatedIsHeard'
    PROVE  AlertsInv'
<1>1. /\ VariablesOK /\ \A d \in Consumers : SessionOK(d) /\ SessionInv(ses[d])
      /\ Nobody \notin Consumers \cup Overriders /\ Consumers \cap Overriders = {}
  BY Facts
<1>2. ses'[c] = s /\ \A d \in Consumers \ {c} : ses'[d] = ses[d]
  BY <1>1 DEF VariablesOK
<1>3. /\ lock' \in Consumers \cup Overriders \cup {Nobody}
      /\ \A x \in Consumers \cup Overriders : x # c /\ lock = x => lock' = x
  BY <1>1 DEF VariablesOK
<1>4. VariablesOK'
  <2>1. ses' \in [Consumers -> Sessions]
    BY <1>1 DEF VariablesOK
  <2>2. \A o \in Overriders : over'[o].pc = "staged" => lock' = o /\ over'[o].staged # NoRow
    BY <1>1, <1>3 DEF VariablesOK
  <2>3. over' \in [Overriders -> OverrideSessions] /\ now' \in 0..MaxTime
        /\ overrides' \in 0..MaxOverrides
    BY <1>1 DEF VariablesOK
  <2> QED BY <1>3, <2>1, <2>2, <2>3 DEF VariablesOK
<1>5. ASSUME NEW d \in Consumers PROVE SessionOK(d)' /\ SessionInv(ses'[d])
  <2>1. CASE d = c
    BY <1>2, <2>1 DEF SessionOK
  <2>2. CASE d # c
    BY <1>1, <1>2, <1>3, <2>2 DEF SessionOK
  <2> QED BY <2>1, <2>2
<1> QED BY <1>4, <1>5 DEF AlertsInv, TypeOK

\* A step of an overrider, or of the clock: no consumer's session changes.
LEMMA OutsideStep ==
    ASSUME AlertsInv, ses' = ses, log' = log, UNCHANGED <<events, made, sent, elevated>>,
           now' \in 0..MaxTime, now <= now',
           \A c \in Consumers : lock = c => lock' = c,
           lock' \in Consumers \cup Overriders \cup {Nobody},
           over' \in [Overriders -> OverrideSessions],
           \A o \in Overriders : over'[o].pc = "staged" => lock' = o /\ over'[o].staged # NoRow,
           row' \in Statuses, dark' \in BOOLEAN, overrides' \in 0..MaxOverrides,
           pending' \subseteq pending, owed' \subseteq pending', faults' \in 0..MaxFaults,
           told' \in BOOLEAN, failed' \in BOOLEAN, lapsed' \in BOOLEAN, DarkInv'
    PROVE  AlertsInv'
<1>1. /\ VariablesOK /\ SentInv /\ RoutineAlertsAreApart /\ ElevatedIsHeard
      /\ \A c \in Consumers : SessionOK(c) /\ SessionInv(ses[c]) /\ ses[c] \in Sessions
      /\ now \in Nat /\ \A message \in sent : message.at \in Nat
  BY Facts DEF VariablesOK, Actions
<1>2. VariablesOK'
  BY <1>1 DEF VariablesOK
<1>3. ASSUME NEW c \in Consumers PROVE SessionOK(c)'
  <2>1. ses[c].applied <= now'
    BY <1>1 DEF SessionOK, Sessions
  <2> QED BY <1>1, <2>1 DEF SessionOK
<1>4. SentInv'
  BY <1>1 DEF SentInv
<1>5. RoutineAlertsAreApart'
  BY <1>1 DEF RoutineAlertsAreApart
<1>6. ElevatedIsHeard'
  BY <1>1 DEF ElevatedIsHeard
<1> QED BY <1>1, <1>2, <1>3, <1>4, <1>5, <1>6 DEF AlertsInv, TypeOK

\* A step of a consumer that sends nothing.
LEMMA NothingSent ==
    ASSUME AlertsInv, NEW c \in Consumers, NEW s \in Sessions,
           ses' = [ses EXCEPT ![c] = s], sent' = sent, elevated' = elevated,
           made' = made, now' = now,
           log' \cup s.rows \subseteq log \cup ses[c].rows
    PROVE  SentInv' /\ RoutineAlertsAreApart' /\ ElevatedIsHeard'
<1>1. /\ SentInv /\ RoutineAlertsAreApart /\ ElevatedIsHeard /\ VariablesOK
  BY Facts
<1>2. \A message : message \in log' \/ (\E d \in Consumers : message \in ses'[d].rows)
                   => message \in log \/ \E d \in Consumers : message \in ses[d].rows
  BY <1>1 DEF VariablesOK
<1>3. SentInv'
  BY <1>1 DEF SentInv
<1>4. RoutineAlertsAreApart'
  BY <1>1, <1>2 DEF RoutineAlertsAreApart
<1>5. ElevatedIsHeard'
  BY <1>1 DEF ElevatedIsHeard
<1> QED BY <1>3, <1>4, <1>5

\* An alert that is on its way stays so while c does not leave the escalation.
LEMMA StillEscalating ==
    ASSUME AlertsInv, NEW c \in Consumers, NEW s \in Sessions,
           ses' = [ses EXCEPT ![c] = s],
           ses[c].pc \in {"called", "announcing"} => s.pc \in {"called", "announcing"}
    PROVE  Escalating => Escalating'
BY Facts DEF Escalating, VariablesOK

-------------------------------------------------------------------------------
(* One lemma per action *)

LEMMA InitInv == Init => AlertsInv
<1> SUFFICES ASSUME Init PROVE AlertsInv
  OBVIOUS
<1>1. \A c \in Consumers : ses[c] = Closed
  BY DEF Init
<1>2. VariablesOK
  <2>1. Closed \in Sessions
    BY AlertsAssumption DEF Closed, Sessions
  <2>2. NoOverride \in OverrideSessions /\ NoOverride.pc = "idle"
    BY DEF NoOverride, OverrideSessions
  <2>3. /\ 0 \in 0..MaxTime /\ 0 \in 0..MaxEvents /\ 0 \in 0..MaxFaults
        /\ 0 \in 0..MaxOverrides /\ made = Cardinality(sent)
    BY AlertsAssumption, FS_EmptySet DEF Init
  <2>4. ses \in [Consumers -> Sessions] /\ over \in [Overriders -> OverrideSessions]
    BY <2>1, <2>2 DEF Init
  <2>5. \A o \in Overriders : over[o].pc # "staged"
    BY <2>2 DEF Init
  <2> QED BY <2>3, <2>4, <2>5 DEF Init, VariablesOK, Statuses
<1>3. \A c \in Consumers : SessionOK(c) /\ SessionInv(ses[c])
  BY <1>1, AlertsAssumption DEF SessionOK, SessionInv, Closed, Init
<1>4. SentInv /\ DarkInv /\ RoutineAlertsAreApart /\ ElevatedIsHeard
  BY FS_EmptySet DEF Init, SentInv, DarkInv, RoutineAlertsAreApart, ElevatedIsHeard
<1> QED BY <1>2, <1>3, <1>4 DEF AlertsInv, TypeOK

LEMMA OpenInv ==
    ASSUME AlertsInv, NEW c \in Consumers, Open(c)
    PROVE  AlertsInv'
<1>1. /\ VariablesOK /\ SessionOK(c) /\ SessionInv(ses[c]) /\ ses[c] \in Sessions
      /\ DarkInv /\ pending \subseteq Events /\ now \in Nat
  BY Facts DEF Events, VariablesOK
<1>2. PICK claimed \in SUBSET pending :
          ses' = [ses EXCEPT ![c].pc = "open", ![c].todo = claimed, ![c].batch = claimed]
  BY DEF Open
<1> DEFINE s == [ses[c] EXCEPT !.pc = "open", !.todo = claimed, !.batch = claimed]
<1>3. /\ ses' = [ses EXCEPT ![c] = s]
      /\ s \in Sessions /\ s.pc = "open" /\ s.todo = claimed /\ s.batch = claimed
      /\ s.staged = ses[c].staged /\ s.rows = ses[c].rows /\ s.applied = ses[c].applied
  BY <1>1, <1>2 DEF VariablesOK, Sessions
<1> HIDE DEF s
<1>4. UNCHANGED <<row, log, lock, dark, over, pending, now, events, overrides, made,
                  faults, sent, elevated, told, failed, owed, lapsed>>
  BY DEF Open, database, counters, history, debt
<1>5. SentInv' /\ RoutineAlertsAreApart' /\ ElevatedIsHeard'
  BY <1>3, <1>4, NothingSent
<1>6. DarkInv'
  <2>1. Escalating => Escalating'
    BY <1>3, StillEscalating DEF Open
  <2> QED BY <1>1, <1>4, <2>1 DEF DarkInv
<1>7. s.rows \subseteq sent' /\ s.applied <= now /\ (s.staged # NoRow \/ s.rows # {} => lock' = c)
      /\ s.todo \subseteq s.batch /\ SessionInv(s)
  BY <1>1, <1>3, <1>4 DEF SessionOK, SessionInv
<1> QED BY <1>1, <1>3, <1>4, <1>5, <1>6, <1>7, ConsumerStep DEF VariablesOK

\* What Again and New share.
LEMMA BeginInv ==
    ASSUME AlertsInv, NEW c \in Consumers, NEW e \in Events, Begin(c, e),
           events' \in 0..MaxEvents, pending \subseteq pending', pending' \subseteq 1..events'
    PROVE  AlertsInv'
<1>1. /\ VariablesOK /\ SessionOK(c) /\ SessionInv(ses[c]) /\ ses[c] \in Sessions
      /\ DarkInv /\ owed \subseteq pending /\ now \in Nat
  BY Facts
<1>2. PICK view \in {Visible(c)} \cup ({ses[c].view} \ {NoRow}) :
          ses' = [ses EXCEPT ![c].pc = "loaded", ![c].event = e, ![c].view = view,
                             ![c].todo = @ \ {e}, ![c].batch = @ \cup {e}]
  BY DEF Begin
<1>3. view \in Statuses \cup {NoRow}
  BY <1>1, <1>2 DEF VariablesOK, Sessions, Visible, VisibleTo
<1> DEFINE s == [ses[c] EXCEPT !.pc = "loaded", !.event = e, !.view = view,
                               !.todo = @ \ {e}, !.batch = @ \cup {e}]
<1>4. /\ ses' = [ses EXCEPT ![c] = s]
      /\ s \in Sessions /\ s.pc = "loaded"
      /\ s.todo = ses[c].todo \ {e} /\ s.batch = ses[c].batch \cup {e}
      /\ s.staged = ses[c].staged /\ s.rows = ses[c].rows /\ s.applied = ses[c].applied
  BY <1>1, <1>2, <1>3 DEF VariablesOK, Sessions
<1> HIDE DEF s
<1>5. UNCHANGED <<row, log, lock, dark, over, now, overrides, made,
                  faults, sent, elevated, told, failed, owed, lapsed>>
  BY DEF Begin, database, history, debt
<1>6. SentInv' /\ RoutineAlertsAreApart' /\ ElevatedIsHeard'
  BY <1>4, <1>5, NothingSent
<1>7. DarkInv'
  <2>1. Escalating => Escalating'
    BY <1>4, StillEscalating DEF Begin
  <2> QED BY <1>1, <1>5, <2>1 DEF DarkInv
<1>8. s.rows \subseteq sent' /\ s.applied <= now /\ (s.staged # NoRow \/ s.rows # {} => lock' = c)
      /\ s.todo \subseteq s.batch /\ SessionInv(s)
  BY <1>1, <1>4, <1>5 DEF SessionOK, SessionInv
<1> QED BY <1>1, <1>4, <1>5, <1>6, <1>7, <1>8, ConsumerStep DEF VariablesOK

LEMMA AgainInv ==
    ASSUME AlertsInv, NEW c \in Consumers, NEW e \in ses[c].todo, Again(c, e)
    PROVE  AlertsInv'
<1>1. /\ e \in Events /\ events' = events /\ pending' = pending /\ Begin(c, e)
      /\ events \in 0..MaxEvents /\ pending \subseteq 1..events
  BY Facts DEF Again, Sessions, VariablesOK
<1> QED BY <1>1, BeginInv

LEMMA NewInv ==
    ASSUME AlertsInv, NEW c \in Consumers, New(c)
    PROVE  AlertsInv'
<1>1. /\ events \in Nat /\ MaxEvents \in Nat /\ pending \subseteq 1..events
      /\ events < MaxEvents /\ events' = events + 1 /\ Begin(c, events + 1)
      /\ pending' = pending \cup {events + 1}
  BY Facts DEF New
<1>2. events + 1 \in Events /\ events' \in 0..MaxEvents /\ pending' \subseteq 1..events'
  BY <1>1 DEF Events
<1> QED BY <1>1, <1>2, BeginInv

LEMMA ApplyInv ==
    ASSUME AlertsInv, NEW c \in Consumers, Apply(c)
    PROVE  AlertsInv'
<1>1. /\ VariablesOK /\ SessionOK(c) /\ SessionInv(ses[c]) /\ ses[c] \in Sessions
      /\ DarkInv /\ now \in Nat /\ now \in 0..MaxTime
      /\ pending \subseteq 1..events /\ owed \subseteq pending
  BY Facts DEF VariablesOK
<1>2. PICK score \in Scores, pc \in {"open", "calling", "warning", "notifying"} :
          /\ ses' = [ses EXCEPT ![c].applied = now, ![c].score = score, ![c].pc = pc]
          /\ pc = "calling" => score.level \in 3..5
          /\ lock' \in {lock, IF lock = Nobody THEN c ELSE lock}
          /\ UNCHANGED <<database, dark, over, pending, now, counters, history>>
          /\ ses[c].pc = "loaded"
  BY DEF Apply, Takes, Escalates, IsEscalation, LevelStatus
<1> DEFINE s == [ses[c] EXCEPT !.applied = now, !.score = score, !.pc = pc]
<1>3. /\ ses' = [ses EXCEPT ![c] = s]
      /\ s \in Sessions /\ s.pc = pc /\ s.score = score
      /\ s.todo = ses[c].todo /\ s.batch = ses[c].batch
      /\ s.staged = ses[c].staged /\ s.rows = ses[c].rows /\ s.applied = now
  BY <1>1, <1>2 DEF VariablesOK, Sessions
<1> HIDE DEF s
<1>4. UNCHANGED <<row, log, dark, over, pending, now, events, overrides, made,
                  faults, sent, elevated, told, failed, owed, lapsed>>
  BY <1>2 DEF database, counters, history, debt
<1>5. SentInv' /\ RoutineAlertsAreApart' /\ ElevatedIsHeard'
  BY <1>3, <1>4, NothingSent
<1>6. DarkInv'
  <2>1. Escalating => Escalating'
    BY <1>2, <1>3, StillEscalating
  <2> QED BY <1>1, <1>4, <2>1 DEF DarkInv
<1>7. /\ s.rows \subseteq sent' /\ s.applied <= now
      /\ s.todo \subseteq s.batch /\ SessionInv(s)
  BY <1>1, <1>2, <1>3, <1>4 DEF SessionOK, SessionInv
<1>8. s.staged # NoRow \/ s.rows # {} => lock' = c
  BY <1>1, <1>2, <1>3, Facts DEF SessionOK
<1>9. lock' \in {lock, IF lock = Nobody THEN c ELSE lock, IF lock = c THEN Nobody ELSE lock}
  BY <1>2
<1> QED BY <1>1, <1>3, <1>4, <1>5, <1>6, <1>7, <1>8, <1>9, ConsumerStep DEF VariablesOK

\* A session at the call goes on to pc, and writes nothing.
LEMMA CallInv ==
    ASSUME AlertsInv, NEW c \in Consumers, ses[c].pc = "calling", NEW pc \in {"called", "open"},
           ses' = [ses EXCEPT ![c].pc = pc],
           dark' \in {dark, TRUE}, faults' \in 0..MaxFaults, failed' \in BOOLEAN,
           failed => failed', pc = "open" /\ dark' # dark => failed',
           UNCHANGED <<database, lock, over, pending, now, events, overrides, made, sent,
                       elevated, told, owed, lapsed>>
    PROVE  AlertsInv'
<1>1. /\ VariablesOK /\ SessionOK(c) /\ SessionInv(ses[c]) /\ ses[c] \in Sessions
      /\ DarkInv /\ now \in Nat /\ pending \subseteq 1..events /\ owed \subseteq pending
  BY Facts
<1> DEFINE s == [ses[c] EXCEPT !.pc = pc]
<1>2. /\ ses' = [ses EXCEPT ![c] = s]
      /\ s \in Sessions /\ s.pc = pc /\ s.score = ses[c].score
      /\ s.todo = ses[c].todo /\ s.batch = ses[c].batch
      /\ s.staged = ses[c].staged /\ s.rows = ses[c].rows /\ s.applied = ses[c].applied
  BY <1>1 DEF VariablesOK, Sessions
<1> HIDE DEF s
<1>3. row' = row /\ log' = log
  BY DEF database
<1>4. SentInv' /\ RoutineAlertsAreApart' /\ ElevatedIsHeard'
  BY <1>2, <1>3, NothingSent
<1>5. DarkInv'
  <2>1. Escalating => Escalating'
    BY <1>2, StillEscalating
  <2>2. pc = "called" => Escalating'
    BY <1>1, <1>2 DEF Escalating, VariablesOK
  <2>3. dark \in BOOLEAN
    BY <1>1 DEF VariablesOK
  <2> QED BY <1>1, <2>1, <2>2, <2>3 DEF DarkInv
<1>6. s.rows \subseteq sent' /\ s.applied <= now /\ (s.staged # NoRow \/ s.rows # {} => lock' = c)
      /\ s.todo \subseteq s.batch /\ SessionInv(s)
  BY <1>1, <1>2 DEF SessionOK, SessionInv
<1> QED BY <1>1, <1>2, <1>3, <1>4, <1>5, <1>6, ConsumerStep DEF VariablesOK

LEMMA EscalateCallInv ==
    ASSUME AlertsInv, NEW c \in Consumers, EscalateCall(c)
    PROVE  AlertsInv'
<1>1. faults \in 0..MaxFaults /\ MaxFaults \in Nat
  BY Facts
<1>2. faults' \in 0..MaxFaults
  BY <1>1 DEF EscalateCall
<1>3. dark' \in {dark, TRUE} /\ failed \in BOOLEAN
  BY Facts, Zenon DEF EscalateCall, VariablesOK
<1> QED BY <1>2, <1>3, CallInv DEF EscalateCall, history, debt

LEMMA EscalateCallFailsInv ==
    ASSUME AlertsInv, NEW c \in Consumers, EscalateCallFails(c)
    PROVE  AlertsInv'
<1>1. faults \in 0..MaxFaults /\ MaxFaults \in Nat
  BY Facts
<1>2. faults' \in 0..MaxFaults
  BY <1>1 DEF EscalateCallFails
<1>3. failed' \in BOOLEAN /\ (failed => failed') /\ (dark' # dark => failed')
  BY Zenon DEF EscalateCallFails
<1> QED BY <1>2, <1>3, CallInv DEF EscalateCallFails

LEMMA EscalateStageInv ==
    ASSUME AlertsInv, NEW c \in Consumers, EscalateStage(c)
    PROVE  AlertsInv'
<1> DEFINE status == LevelStatus[ses[c].score.level]
           s == [ses[c] EXCEPT !.staged = status, !.view = status, !.pc = "announcing"]
<1>1. /\ VariablesOK /\ SessionOK(c) /\ SessionInv(ses[c]) /\ ses[c] \in Sessions
      /\ DarkInv /\ now \in Nat /\ pending \subseteq 1..events /\ owed \subseteq pending
      /\ NoRow \notin Statuses
  BY Facts
<1>2. /\ ses' = [ses EXCEPT ![c].staged = status, ![c].view = status,
                            ![c].pc = "announcing"]
      /\ ses[c].pc = "called" /\ lock' = c /\ lock \in {Nobody, c}
  BY DEF EscalateStage, Takes
<1>3. status \in Statuses
  BY <1>1, <1>2 DEF SessionInv, LevelStatus, Statuses
<1> HIDE DEF status
<1>4. /\ ses' = [ses EXCEPT ![c] = s]
      /\ s \in Sessions /\ s.pc = "announcing" /\ s.staged = status
      /\ s.todo = ses[c].todo /\ s.batch = ses[c].batch
      /\ s.rows = ses[c].rows /\ s.applied = ses[c].applied
  BY <1>1, <1>2, <1>3 DEF VariablesOK, Sessions
<1> HIDE DEF s
<1>5. UNCHANGED <<row, log, dark, over, pending, now, events, overrides, made,
                  faults, sent, elevated, told, failed, owed, lapsed>>
  BY DEF EscalateStage, database, counters, history, debt
<1>6. SentInv' /\ RoutineAlertsAreApart' /\ ElevatedIsHeard'
  BY <1>4, <1>5, NothingSent
<1>7. DarkInv'
  <2>1. Escalating => Escalating'
    BY <1>4, StillEscalating
  <2> QED BY <1>1, <1>5, <2>1 DEF DarkInv
<1>8. /\ s.rows \subseteq sent' /\ s.applied <= now
      /\ s.todo \subseteq s.batch /\ SessionInv(s)
  BY <1>1, <1>3, <1>4, <1>5 DEF SessionOK, SessionInv
<1>9. lock' \in {lock, IF lock = Nobody THEN c ELSE lock, IF lock = c THEN Nobody ELSE lock}
  BY <1>2
<1> QED BY <1>1, <1>2, <1>4, <1>5, <1>6, <1>7, <1>8, <1>9, ConsumerStep DEF VariablesOK

\* What Commit and RollBack share: the session is closed, and the alert that may
\* be on its way from it is owed, or has lapsed.
LEMMA CloseInv ==
    ASSUME AlertsInv, NEW c \in Consumers,
           ses' = [ses EXCEPT ![c] = Closed], Frees(c), row' \in Statuses,
           log' \subseteq log \cup ses[c].rows,
           pending' \subseteq pending, owed' \subseteq pending', lapsed' \in BOOLEAN,
           lapsed => lapsed', owed # {} => owed' # {} \/ lapsed',
           ses[c].pc \in {"called", "announcing"} /\ dark /\ ~told => owed' # {} \/ lapsed',
           faults' \in 0..MaxFaults,
           UNCHANGED <<dark, over, now, events, overrides, made, sent, elevated, told,
                       failed>>
    PROVE  AlertsInv'
<1>1. /\ VariablesOK /\ SessionOK(c) /\ DarkInv /\ now \in Nat
      /\ pending \subseteq 1..events
  BY Facts
<1>2. /\ Closed \in Sessions /\ Closed.pc = "idle" /\ Closed.staged = NoRow
      /\ Closed.todo = {} /\ Closed.batch = {} /\ Closed.rows = {} /\ Closed.applied = 0
  BY AlertsAssumption DEF Closed, Sessions
<1>3. lock' = IF lock = c THEN Nobody ELSE lock
  BY DEF Frees
<1>4. SentInv' /\ RoutineAlertsAreApart' /\ ElevatedIsHeard'
  BY <1>2, NothingSent
<1>5. DarkInv'
  <2>1. ASSUME NEW d \in Consumers, d # c, ses[d].pc \in {"called", "announcing"}
        PROVE  Escalating'
    <3>1. ses'[d] = ses[d]
      BY <1>1, <2>1 DEF VariablesOK
    <3> QED BY <2>1, <3>1 DEF Escalating
  <2> QED BY <1>1, <2>1 DEF DarkInv, Escalating
<1>6. log' \subseteq sent /\ SessionInv(Closed) /\ Closed.applied <= now
  BY <1>1, <1>2 DEF VariablesOK, SessionOK, SessionInv
<1> HIDE DEF Closed
<1> QED BY <1>1, <1>2, <1>3, <1>4, <1>5, <1>6, ConsumerStep DEF VariablesOK

LEMMA LeaveFacts ==
    ASSUME NEW entries, Leave(entries), owed \subseteq pending
    PROVE  /\ pending' \subseteq pending /\ owed' \subseteq pending' /\ lapsed' \in BOOLEAN
           /\ (lapsed => lapsed') /\ (owed # {} => owed' # {} \/ lapsed')
<1>1. /\ pending' = pending \ entries /\ owed' = owed \ entries
      /\ lapsed' = (lapsed \/ owed \cap entries # {})
  BY DEF Leave
<1>2. lapsed' \in BOOLEAN /\ (lapsed => lapsed') /\ (owed \cap entries # {} => lapsed')
  BY <1>1, Zenon
<1> QED BY <1>1, <1>2

LEMMA CommitInv ==
    ASSUME AlertsInv, NEW c \in Consumers, Commit(c)
    PROVE  AlertsInv'
<1>1. /\ VariablesOK /\ ses[c] \in Sessions /\ owed \subseteq pending /\ ses[c].pc = "open"
  BY Facts DEF Commit
<1>2. row' \in Statuses
  BY <1>1 DEF Commit, Visible, VisibleTo, VariablesOK, Sessions
<1>3. /\ pending' \subseteq pending /\ owed' \subseteq pending' /\ lapsed' \in BOOLEAN
      /\ (lapsed => lapsed') /\ (owed # {} => owed' # {} \/ lapsed')
      /\ faults' \in 0..MaxFaults
  <2>1. CASE Leave(ses[c].batch) /\ UNCHANGED faults
    BY <1>1, <2>1, LeaveFacts, Facts
  <2>2. CASE /\ faults < MaxFaults /\ faults' = faults + 1
             /\ UNCHANGED <<pending, owed, lapsed>>
    <3>1. faults' \in 0..MaxFaults
      BY <2>2, Facts
    <3> QED BY <1>1, <2>2, <3>1 DEF VariablesOK
  <2> QED BY <2>1, <2>2, Zenon DEF Commit
<1> QED BY <1>1, <1>2, <1>3, CloseInv DEF Commit

LEMMA RollBackInv ==
    ASSUME AlertsInv, NEW c \in Consumers, RollBack(c)
    PROVE  AlertsInv'
<1>1. /\ VariablesOK /\ owed \subseteq pending /\ row \in Statuses
  BY Facts
<1> DEFINE unannounced == ses[c].pc \in {"called", "announcing"} /\ dark /\ ~told
<1>2. /\ owed' = owed \cup {e \in pending : unannounced /\ e = ses[c].event}
      /\ lapsed' = (lapsed \/ (unannounced /\ ses[c].event \notin pending))
  BY DEF RollBack
<1> HIDE DEF unannounced
<1>3. lapsed' \in BOOLEAN /\ (lapsed => lapsed')
      /\ (unannounced /\ ses[c].event \notin pending => lapsed')
  BY <1>2, Zenon
<1>4. /\ owed' \subseteq pending /\ owed \subseteq owed'
      /\ (unannounced => owed' # {} \/ lapsed')
  BY <1>1, <1>2, <1>3
<1>5. faults' \in 0..MaxFaults /\ row' = row /\ log' = log
  BY Facts DEF RollBack, database
<1> QED BY <1>1, <1>3, <1>4, <1>5, CloseInv DEF RollBack, unannounced

-------------------------------------------------------------------------------
(* The messages *)

LEMMA LastAtFacts ==
    ASSUME NEW rows \in SUBSET Actions, rows # {}
    PROVE  /\ \E r \in rows : r.at = LastAt(rows)
           /\ \A r \in rows : r.at <= LastAt(rows)
           /\ LastAt(rows) \in Nat
<1> DEFINE times == {r.at : r \in rows}
<1>1. times \in SUBSET Nat /\ times # {} /\ \A k \in times : k <= MaxTime
  BY AlertsAssumption DEF Actions
<1>2. Max(times) \in times /\ \A k \in times : Max(times) >= k
  <2> HIDE DEF times
  <2> QED BY <1>1, MaxOfBounded, AlertsAssumption
<1>3. \A r \in rows : Max(times) >= r.at /\ r.at \in Nat
  BY <1>1, <1>2
<1> QED BY <1>1, <1>2, <1>3 DEF LastAt

\* What a message leaves true, when the sender either disregards the cooldown or
\* has the row's lock and has found it over.
LEMMA SendFacts ==
    ASSUME AlertsInv, NEW c \in Consumers, NEW action \in Messages,
           NEW forced \in BOOLEAN, NEW pc, Send(c, action, forced, pc),
           lock \in {Nobody, c}, now' = now, log' = log,
           ~forced => ~Recently(c, action)
    PROVE  /\ SentInv' /\ RoutineAlertsAreApart'
           /\ sent \subseteq sent' /\ sent' \subseteq Actions
           /\ made' = Cardinality(sent')
           /\ ses'[c].rows \subseteq sent' /\ ses'[c].rows \in SUBSET Actions
           /\ \E message \in sent' : message.action = action /\ message.at = now
<1> DEFINE message == [id |-> made + 1, action |-> action, forced |-> forced, at |-> now]
<1>1. /\ VariablesOK /\ SessionOK(c) /\ ses[c] \in Sessions
      /\ now \in Nat /\ made \in Nat
      /\ SentInv /\ RoutineAlertsAreApart
      /\ Nobody \notin Consumers /\ \A d \in Consumers : SessionOK(d)
  BY Facts
<1>2. /\ made' = made + 1 /\ sent' = sent \cup {message}
      /\ ses' = [ses EXCEPT ![c].rows = @ \cup {message}, ![c].pc = pc]
  BY DEF Send
<1>3. /\ message \in Actions /\ message.id = made + 1 /\ message.action = action
      /\ message.forced = forced /\ message.at = now
  BY <1>1 DEF Actions, VariablesOK
<1> HIDE DEF message
<1>4. /\ ses'[c].rows = ses[c].rows \cup {message}
      /\ \A d \in Consumers \ {c} : ses'[d] = ses[d]
  BY <1>1, <1>2 DEF VariablesOK, Sessions
<1>5. sent \subseteq Actions /\ \A m \in sent : m.id \in 1..made /\ m.at \in Nat /\ m.at <= now
  BY <1>1 DEF VariablesOK, SentInv, Actions
<1>6. SentInv'
  <2>1. IsFiniteSet(sent')
    BY <1>1, <1>2, FS_AddElement DEF SentInv
  <2>2. \A m \in sent' : m.id \in 1..made' /\ m.at <= now'
    BY <1>1, <1>2, <1>3, <1>5
  <2> QED BY <2>1, <2>2 DEF SentInv
<1>7. made' = Cardinality(sent')
  <2>1. message \notin sent
    BY <1>1, <1>3, <1>5
  <2> QED BY <1>1, <1>2, <2>1, FS_AddElement DEF SentInv, VariablesOK
<1>8. RoutineAlertsAreApart'
  <2> SUFFICES ASSUME NEW first \in sent', NEW second \in sent',
                      first.id < second.id, first.action = second.action,
                      ~second.forced,
                      first \in log' \/ \E d \in Consumers : first \in ses'[d].rows
               PROVE  second.at - first.at >= Cooldown(first.action)
    BY DEF RoutineAlertsAreApart, Cooldown
  <2>1. first \in sent
    BY <1>1, <1>2, <1>3, <1>5
  <2>2. first # message
    BY <1>1, <1>3, <1>5, <2>1
  <2>3. first \in log \/ \E d \in Consumers : first \in ses[d].rows
    BY <1>4, <2>2
  <2>4. CASE second \in sent
    BY <1>1, <2>1, <2>3, <2>4 DEF RoutineAlertsAreApart
  <2>5. CASE second = message
    <3> DEFINE rows == {r \in log \cup ses[c].rows : r.action = action}
    <3>1. first \in log \cup ses[c].rows
      BY <1>1, <2>3 DEF SessionOK
    <3>2. first \in rows /\ rows \subseteq Actions
      BY <1>1, <1>3, <1>5, <2>5, <3>1 DEF VariablesOK, SessionOK
    <3>3. ses[c].applied - LastAt(rows) >= Cooldown(action)
      <4>1. ~(ses[c].applied - LastAt(rows) < Cooldown(action))
        BY <1>3, <2>5, <3>2 DEF Recently
      <4>2. /\ LastAt(rows) \in Nat /\ ses[c].applied \in Nat
            /\ Cooldown(action) \in Nat
        BY <1>1, <3>2, LastAtFacts, AlertsAssumption DEF Sessions, Cooldown
      <4> HIDE DEF rows
      <4> QED BY <4>1, <4>2
    <3> HIDE DEF rows
    <3>4. /\ first.at <= LastAt(rows) /\ LastAt(rows) \in Nat
          /\ ses[c].applied <= now /\ ses[c].applied \in Nat
          /\ first.at \in Nat /\ Cooldown(action) \in Nat
      BY <1>1, <1>5, <2>1, <3>2, LastAtFacts, AlertsAssumption
         DEF SessionOK, Sessions, Cooldown
    <3> QED BY <1>1, <1>3, <2>5, <3>3, <3>4
  <2> QED BY <1>2, <2>4, <2>5
<1> QED BY <1>1, <1>2, <1>3, <1>4, <1>5, <1>6, <1>7, <1>8 DEF SessionOK

\* A message that the cooldown has swallowed was preceded by one that explains it.
LEMMA RecentlyFacts ==
    ASSUME AlertsInv, NEW c \in Consumers, NEW action \in Messages, Recently(c, action)
    PROVE  \E message \in sent :
              /\ message.action = action
              /\ ses[c].applied - message.at < Cooldown(action)
<1> DEFINE rows == {r \in log \cup ses[c].rows : r.action = action}
<1>1. rows # {} /\ ses[c].applied - LastAt(rows) < Cooldown(action)
  BY DEF Recently
<1>2. rows \subseteq sent /\ rows \subseteq Actions
  BY Facts DEF VariablesOK, SessionOK
<1>3. PICK r \in rows : r.at = LastAt(rows)
  <2> HIDE DEF rows
  <2> QED BY <1>1, <1>2, LastAtFacts
<1> QED BY <1>1, <1>2, <1>3

\* A session that has asked whether to send something: it sends it or not, and
\* goes on.
LEMMA AskedInv ==
    ASSUME AlertsInv, NEW c \in Consumers, NEW action \in Messages,
           NEW forced \in BOOLEAN, NEW pc \in {"open", "notifying"},
           \/ Send(c, action, forced, pc) /\ (~forced => ~Recently(c, action))
           \/ ses' = [ses EXCEPT ![c].pc = pc] /\ made' = made /\ sent' = sent,
           lock \in {Nobody, c}, lock' = c,
           ses[c].pc \in {"called", "announcing"} => (dark => told'),
           told => told' \/ ~dark, told' \in BOOLEAN,
           owed' \subseteq owed, owed' = owed \/ (dark => told'),
           elevated' \subseteq elevated \cup {ses[c].applied}, ElevatedIsHeard',
           UNCHANGED <<database, dark, over, pending, now, events, overrides, faults,
                       failed, lapsed>>
    PROVE  AlertsInv'
<1>1. /\ VariablesOK /\ SessionOK(c) /\ SessionInv(ses[c]) /\ ses[c] \in Sessions
      /\ DarkInv /\ now \in Nat /\ pending \subseteq 1..events /\ owed \subseteq pending
      /\ SentInv /\ RoutineAlertsAreApart
  BY Facts
<1>2. row' = row /\ log' = log
  BY DEF database
<1>3. PICK rows \in SUBSET Actions :
          /\ ses' = [ses EXCEPT ![c].rows = rows, ![c].pc = pc]
          /\ rows \subseteq sent' /\ sent \subseteq sent' /\ sent' \subseteq Actions
          /\ SentInv' /\ RoutineAlertsAreApart' /\ made' = Cardinality(sent')
  <2>1. CASE Send(c, action, forced, pc) /\ (~forced => ~Recently(c, action))
    <3> DEFINE message == [id |-> made + 1, action |-> action, forced |-> forced,
                           at |-> now]
               rows == ses[c].rows \cup {message}
    <3>1. ses' = [ses EXCEPT ![c].rows = rows, ![c].pc = pc]
      BY <2>1 DEF Send
    <3> HIDE DEF rows
    <3>2. ses'[c].rows = rows
      BY <1>1, <3>1 DEF VariablesOK, Sessions
    <3>3. /\ SentInv' /\ RoutineAlertsAreApart'
          /\ sent \subseteq sent' /\ sent' \subseteq Actions
          /\ made' = Cardinality(sent')
          /\ ses'[c].rows \subseteq sent' /\ ses'[c].rows \in SUBSET Actions
      BY <1>2, <2>1, SendFacts
    <3> QED BY <3>1, <3>2, <3>3
  <2>2. CASE ses' = [ses EXCEPT ![c].pc = pc] /\ made' = made /\ sent' = sent
    <3>1. ses' = [ses EXCEPT ![c].rows = ses[c].rows, ![c].pc = pc]
      BY <1>1, <2>2 DEF VariablesOK, Sessions
    <3>2. \A d \in Consumers : ses'[d].rows = ses[d].rows
      BY <1>1, <2>2 DEF VariablesOK, Sessions
    <3>3. SentInv' /\ RoutineAlertsAreApart'
      <4>1. SentInv'
        BY <1>1, <1>2, <2>2 DEF SentInv
      <4>2. RoutineAlertsAreApart'
        BY <1>1, <1>2, <2>2, <3>2 DEF RoutineAlertsAreApart
      <4> QED BY <4>1, <4>2
    <3> QED BY <1>1, <2>2, <3>1, <3>3 DEF VariablesOK, SessionOK, Sessions
  <2> QED BY <2>1, <2>2
<1> DEFINE s == [ses[c] EXCEPT !.rows = rows, !.pc = pc]
<1>4. /\ ses' = [ses EXCEPT ![c] = s]
      /\ s \in Sessions /\ s.pc = pc /\ s.rows = rows
      /\ s.todo = ses[c].todo /\ s.batch = ses[c].batch /\ s.applied = ses[c].applied
  BY <1>1, <1>3 DEF VariablesOK, Sessions
<1> HIDE DEF s
<1>5. DarkInv'
  <2>1. ses[c].pc \notin {"called", "announcing"} => (Escalating => Escalating')
    BY <1>4, StillEscalating
  <2> QED BY <1>1, <2>1 DEF DarkInv
<1>6. /\ s.rows \subseteq sent' /\ s.applied <= now
      /\ s.todo \subseteq s.batch /\ SessionInv(s)
  BY <1>1, <1>3, <1>4 DEF SessionOK, SessionInv
<1>7. /\ lock' \in {lock, IF lock = Nobody THEN c ELSE lock}
      /\ log' \subseteq sent' /\ elevated' \subseteq 0..MaxTime
  BY <1>1, <1>2, <1>3 DEF VariablesOK, Sessions
<1>8. lock' \in {lock, IF lock = Nobody THEN c ELSE lock, IF lock = c THEN Nobody ELSE lock}
  BY <1>7
<1> QED BY <1>1, <1>2, <1>3, <1>4, <1>5, <1>6, <1>7, <1>8, ConsumerStep DEF VariablesOK

LEMMA WarnInv ==
    ASSUME AlertsInv, NEW c \in Consumers, Warn(c)
    PROVE  AlertsInv'
<1>1. /\ lock \in {Nobody, c} /\ lock' = c /\ ses[c].pc = "warning"
      /\ elevated' = elevated /\ told' = told /\ owed' = owed
      /\ UNCHANGED <<database, dark, over, pending, now, events, overrides, faults,
                     failed, lapsed>>
      /\ "device_limit_warn" \in Messages /\ told \in BOOLEAN
  BY Facts DEF Warn, Takes, Messages, VariablesOK, debt
<1>2. \/ Send(c, "device_limit_warn", FALSE, "notifying") /\ ~Recently(c, "device_limit_warn")
      \/ ses' = [ses EXCEPT ![c].pc = "notifying"] /\ made' = made /\ sent' = sent
  BY DEF Warn, Routine
<1>3. ElevatedIsHeard'
  <2>1. sent \subseteq sent'
    BY <1>2 DEF Send
  <2> QED BY <1>1, <2>1, Facts DEF ElevatedIsHeard
<1> QED BY <1>1, <1>2, <1>3, AskedInv

LEMMA NotifyInv ==
    ASSUME AlertsInv, NEW c \in Consumers, Notify(c)
    PROVE  AlertsInv'
<1>1. /\ lock \in {Nobody, c} /\ lock' = c /\ ses[c].pc = "notifying"
      /\ elevated' = elevated \cup {ses[c].applied} /\ told' = told /\ owed' = owed
      /\ UNCHANGED <<database, dark, over, pending, now, events, overrides, faults,
                     failed, lapsed>>
      /\ "notify_admin" \in Messages /\ told \in BOOLEAN
      /\ Cooldown("notify_admin") = NotifyCooldown
  BY Facts DEF Notify, Takes, Messages, Cooldown, VariablesOK, debt
<1>2. \/ Send(c, "notify_admin", FALSE, "open") /\ ~Recently(c, "notify_admin")
      \/ /\ ses' = [ses EXCEPT ![c].pc = "open"] /\ made' = made /\ sent' = sent
         /\ Recently(c, "notify_admin")
  BY DEF Notify, Routine
<1>3. ElevatedIsHeard'
  <2>1. sent \subseteq sent'
    BY <1>2 DEF Send
  <2>2. \E message \in sent' :
           /\ message.action = "notify_admin"
           /\ ses[c].applied <= message.at \/ ses[c].applied - message.at < NotifyCooldown
    <3>1. CASE Send(c, "notify_admin", FALSE, "open") /\ ~Recently(c, "notify_admin")
      <4>1. \E message \in sent' : message.action = "notify_admin" /\ message.at = now
        BY <1>1, <3>1, SendFacts DEF database
      <4> QED BY <4>1, Facts DEF SessionOK
    <3>2. CASE sent' = sent /\ Recently(c, "notify_admin")
      BY <1>1, <3>2, RecentlyFacts
    <3> QED BY <1>2, <3>1, <3>2
  <2> QED BY <1>1, <2>1, <2>2, Facts DEF ElevatedIsHeard
<1> QED BY <1>1, <1>2, <1>3, AskedInv

LEMMA AnnounceInv ==
    ASSUME AlertsInv, NEW c \in Consumers, Announce(c)
    PROVE  AlertsInv'
<1>1. /\ lock = c /\ lock' = c /\ ses[c].pc = "announcing"
      /\ elevated' = elevated \cup {ses[c].applied}
      /\ told' = dark /\ owed' = (IF dark THEN {} ELSE owed) /\ dark \in BOOLEAN
      /\ UNCHANGED <<database, dark, over, pending, now, events, overrides, faults,
                     failed, lapsed>>
      /\ "notify_admin" \in Messages
      /\ Send(c, "notify_admin", TRUE, "open")
  BY Facts DEF Announce, Hears, Messages, SessionInv, SessionOK, VariablesOK
<1>2. ElevatedIsHeard'
  <2>1. sent \subseteq sent'
    BY <1>1 DEF Send
  <2>2. \E message \in sent' : message.action = "notify_admin" /\ message.at = now
    BY <1>1, SendFacts DEF database
  <2>3. ses[c].applied <= now
    BY Facts DEF SessionOK
  <2> QED BY <1>1, <2>1, <2>2, <2>3, Facts DEF ElevatedIsHeard
<1>3. owed' \subseteq owed /\ (owed' = owed \/ (dark => told'))
  BY <1>1
<1> QED BY <1>1, <1>2, <1>3, AskedInv

-------------------------------------------------------------------------------
(* The steps that no consumer takes *)

LEMMA TrimInv ==
    ASSUME AlertsInv, NEW e \in pending, Trim(e)
    PROVE  AlertsInv'
<1>1. /\ VariablesOK /\ DarkInv /\ owed \subseteq pending /\ now <= now
      /\ \A o \in Overriders : over[o].pc = "staged" => lock = o /\ over[o].staged # NoRow
  BY Facts DEF VariablesOK
<1>2. UNCHANGED <<row, log, lock, dark, ses, over, now, events, overrides, made, sent,
                  elevated, told, failed>>
  BY DEF Trim, database
<1>3. /\ pending' \subseteq pending /\ owed' \subseteq pending' /\ lapsed' \in BOOLEAN
      /\ (lapsed => lapsed') /\ (owed # {} => owed' # {} \/ lapsed')
  BY <1>1, LeaveFacts DEF Trim
<1>4. faults' \in 0..MaxFaults
  BY Facts DEF Trim
<1>5. DarkInv'
  BY <1>1, <1>2, <1>3 DEF DarkInv, Escalating
<1> QED BY <1>1, <1>2, <1>3, <1>4, <1>5, OutsideStep DEF VariablesOK

\* A step of an overrider's session: it becomes s.
LEMMA OverriderStep ==
    ASSUME AlertsInv, NEW o \in Overriders, NEW s \in OverrideSessions,
           over' = [over EXCEPT ![o] = s], overrides' \in 0..MaxOverrides,
           s.pc = "staged" => lock' = o /\ s.staged # NoRow,
           lock' \in {lock, IF lock = Nobody THEN o ELSE lock,
                            IF lock = o THEN Nobody ELSE lock},
           row' \in Statuses, faults' \in 0..MaxFaults,
           Obeys(o) \/ UNCHANGED <<dark, debt>>,
           UNCHANGED <<log, ses, pending, now, events, made, sent, elevated>>
    PROVE  AlertsInv'
<1>1. /\ VariablesOK /\ DarkInv /\ owed \subseteq pending /\ now <= now
      /\ \A p \in Overriders : over[p].pc = "staged" => lock = p /\ over[p].staged # NoRow
      /\ Nobody \notin Consumers \cup Overriders /\ Consumers \cap Overriders = {}
  BY Facts DEF VariablesOK
<1>2. /\ over' \in [Overriders -> OverrideSessions] /\ over'[o] = s
      /\ \A p \in Overriders \ {o} : over'[p] = over[p]
  BY <1>1 DEF VariablesOK
<1>3. /\ lock' \in Consumers \cup Overriders \cup {Nobody}
      /\ \A x \in Consumers \cup Overriders : x # o /\ lock = x => lock' = x
  BY <1>1 DEF VariablesOK
<1>4. \A p \in Overriders : over'[p].pc = "staged" => lock' = p /\ over'[p].staged # NoRow
  BY <1>1, <1>2, <1>3
<1>5. /\ dark' \in BOOLEAN /\ told' \in BOOLEAN /\ failed' \in BOOLEAN
      /\ lapsed' \in BOOLEAN /\ owed' \subseteq pending' /\ DarkInv'
  <2>1. CASE Obeys(o)
    <3>1. dark' \in BOOLEAN /\ told' = dark'
      BY <2>1 DEF Obeys
    <3> QED BY <1>1, <2>1, <3>1 DEF Obeys, DarkInv, VariablesOK
  <2>2. CASE UNCHANGED <<dark, debt>>
    BY <1>1, <2>2 DEF debt, DarkInv, Escalating, VariablesOK
  <2> QED BY <2>1, <2>2
<1>6. now' \in 0..MaxTime /\ \A c \in Consumers : lock = c => lock' = c
  BY <1>1, <1>3 DEF VariablesOK
<1> QED BY <1>1, <1>2, <1>3, <1>4, <1>5, <1>6, OutsideStep

LEMMA OverriderInv ==
    ASSUME AlertsInv, NEW o \in Overriders,
           \/ \E status \in NewStatuses : Override(o, status)
           \/ OverrideCall(o) \/ OverrideCallFails(o) \/ OverrideStage(o)
           \/ OverrideCommit(o) \/ OverrideRollBack(o)
    PROVE  AlertsInv'
<1>1. /\ VariablesOK /\ over[o] \in OverrideSessions /\ row \in Statuses
      /\ overrides \in 0..MaxOverrides /\ MaxOverrides \in Nat
      /\ (over[o].pc = "staged" => lock = o /\ over[o].staged # NoRow)
      /\ faults \in 0..MaxFaults /\ MaxFaults \in Nat /\ NoRow \notin Statuses
      /\ over = [over EXCEPT ![o] = over[o]] /\ NewStatuses \subseteq Statuses
  BY Facts, AlertsAssumption DEF VariablesOK
<1>2. NoOverride \in OverrideSessions /\ NoOverride.pc = "idle"
  BY DEF NoOverride, OverrideSessions
<1>3. CASE \E status \in NewStatuses : Override(o, status)
  <2>1. PICK status \in NewStatuses : Override(o, status)
    BY <1>3
  <2> DEFINE s == [pc |-> "loaded", goal |-> status, view |-> row, staged |-> NoRow]
  <2>2. s \in OverrideSessions /\ s.pc = "loaded" /\ over' = [over EXCEPT ![o] = s]
    BY <1>1, <2>1 DEF Override, OverrideSessions
  <2>3. overrides' \in 0..MaxOverrides
    BY <1>1, <2>1 DEF Override
  <2> HIDE DEF s
  <2> QED BY <1>1, <2>1, <2>2, <2>3, OverriderStep DEF Override, database, history
<1>4. CASE OverrideCall(o)
  <2> DEFINE s == [over[o] EXCEPT !.pc = "called"]
  <2>1. s \in OverrideSessions /\ s.pc = "called" /\ over' = [over EXCEPT ![o] = s]
    BY <1>1, <1>2, <1>4 DEF OverrideCall, OverrideSessions
  <2>2. (Obeys(o) \/ UNCHANGED <<dark, debt>>) /\ faults' \in 0..MaxFaults
    BY <1>1, <1>4 DEF OverrideCall
  <2> HIDE DEF s
  <2> QED BY <1>1, <1>4, <2>1, <2>2, OverriderStep DEF OverrideCall, database
<1>5. CASE OverrideCallFails(o)
  <2>1. faults' \in 0..MaxFaults
    BY <1>1, <1>5 DEF OverrideCallFails
  <2>2. Obeys(o) \/ UNCHANGED <<dark, debt>>
    BY <1>5 DEF OverrideCallFails
  <2>3. /\ over' = [over EXCEPT ![o] = NoOverride]
        /\ UNCHANGED <<row, log, lock, ses, pending, now, events, overrides, made, sent,
                       elevated>>
    BY <1>5 DEF OverrideCallFails, database
  <2> QED BY <1>1, <1>2, <2>1, <2>2, <2>3, OverriderStep
<1>6. CASE OverrideStage(o)
  <2> DEFINE staged == IF over[o].goal = over[o].view THEN row ELSE over[o].goal
             s == [over[o] EXCEPT !.pc = "staged", !.staged = staged]
  <2>1. staged \in Statuses
    BY <1>1, <1>2, <1>6 DEF OverrideStage, OverrideSessions
  <2>2. /\ s \in OverrideSessions /\ s.pc = "staged" /\ s.staged = staged
        /\ over' = [over EXCEPT ![o] = s]
    BY <1>1, <1>2, <1>6, <2>1 DEF OverrideStage, OverrideSessions
  <2>3. lock' = o /\ lock \in {Nobody, o}
    BY <1>6 DEF OverrideStage, Takes
  <2>4. lock' \in {lock, IF lock = Nobody THEN o ELSE lock, IF lock = o THEN Nobody ELSE lock}
    BY <2>3
  <2>5. staged # NoRow
    BY <1>1, <2>1
  <2> HIDE DEF s, staged
  <2> QED BY <1>1, <1>6, <2>2, <2>3, <2>4, <2>5, OverriderStep
         DEF OverrideStage, database, counters, history
<1>7. CASE OverrideCommit(o)
  <2>1. row' \in Statuses
    BY <1>1, <1>2, <1>7 DEF OverrideCommit, OverrideSessions
  <2>2. lock' = IF lock = o THEN Nobody ELSE lock
    BY <1>7 DEF OverrideCommit, Frees
  <2> QED BY <1>1, <1>2, <1>7, <2>1, <2>2, OverriderStep
         DEF OverrideCommit, counters, history
<1>8. CASE OverrideRollBack(o)
  <2>1. lock' = IF lock = o THEN Nobody ELSE lock
    BY <1>8 DEF OverrideRollBack, Frees
  <2>2. faults' \in 0..MaxFaults
    BY <1>1, <1>8 DEF OverrideRollBack
  <2> QED BY <1>1, <1>2, <1>8, <2>1, <2>2, OverriderStep
         DEF OverrideRollBack, database, history
<1> QED BY <1>3, <1>4, <1>5, <1>6, <1>7, <1>8

LEMMA ClockInv ==
    ASSUME AlertsInv, Tick \/ UNCHANGED vars
    PROVE  AlertsInv'
<1>1. /\ VariablesOK /\ DarkInv /\ now \in Nat /\ now <= MaxTime /\ MaxTime \in Nat
      /\ \A o \in Overriders : over[o].pc = "staged" => lock = o /\ over[o].staged # NoRow
  BY Facts DEF VariablesOK
<1>2. now' \in 0..MaxTime /\ now <= now'
  BY <1>1 DEF Tick, vars
<1>3. UNCHANGED <<row, log, lock, dark, ses, over, pending, events, overrides, made,
                  faults, sent, elevated, told, failed, owed, lapsed>>
  BY DEF Tick, vars, database, counters, history, debt
<1>4. DarkInv'
  BY <1>1, <1>3 DEF DarkInv, Escalating
<1> QED BY <1>1, <1>2, <1>3, <1>4, OutsideStep DEF VariablesOK

\* The invariant holds in every state that Alerts reaches.
THEOREM AlertsInductive == Spec => []AlertsInv
<1>1. ASSUME AlertsInv, [Next]_vars PROVE AlertsInv'
  <2>1. CASE Next
    BY <1>1, <2>1, OpenInv, AgainInv, NewInv, ApplyInv, WarnInv, NotifyInv,
       EscalateCallInv, EscalateCallFailsInv, EscalateStageInv, AnnounceInv,
       CommitInv, RollBackInv, TrimInv, OverriderInv, ClockInv DEF Next, Quiet
  <2>2. CASE UNCHANGED vars
    BY <1>1, <2>2, ClockInv
  <2> QED BY <1>1, <2>1, <2>2
<1> QED BY <1>1, InitInv, PTL DEF Spec

\* Every variable keeps its type, what a batch has still to process it has read,
\* what is owed is still to be delivered, and only the holder of the row's lock
\* has written anything.
THEOREM AlertsTypes == Spec => []TypeOK
<1>1. AlertsInv => TypeOK
  BY DEF AlertsInv
<1> QED BY <1>1, AlertsInductive, PTL

\* last_action() and the cooldown keep routine messages of a kind apart, however
\* batches overlap: whoever asks holds the row's lock.
THEOREM RoutineMessagesKeepTheirCooldown == Spec => []RoutineAlertsAreApart
<1>1. AlertsInv => RoutineAlertsAreApart
  BY DEF AlertsInv
<1> QED BY <1>1, AlertsInductive, PTL

\* The cooldown swallows no alert that another does not stand for.
THEOREM CooldownSwallowsNoMore == Spec => []ElevatedIsHeard
<1>1. AlertsInv => ElevatedIsHeard
  BY DEF AlertsInv
<1> QED BY <1>1, AlertsInductive, PTL

\* No account goes dark without the admin being told, although sweeps and admins
\* switch it meanwhile and two consumers may have its events, unless a call that
\* failed made it go dark, or the batch was rolled back between the call and the
\* alert and its event was not delivered again or no longer scored high enough.
THEOREM GoingDarkIsAnnounced == Spec => []DarkIsAnnounced
<1>1. ASSUME AlertsInv PROVE DarkIsAnnounced
  <2>1. owed \subseteq pending /\ DarkInv
    BY <1>1, Facts
  <2>2. Settled => owed = {} /\ ~Escalating
    BY <2>1 DEF Settled, Escalating
  <2> QED BY <2>1, <2>2 DEF DarkIsAnnounced, DarkInv
<1> QED BY <1>1, AlertsInductive, PTL

===============================================================================
