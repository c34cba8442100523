-------------------------------- MODULE MCAlerts --------------------------------
(***************************************************************************)
(* An instance of Alerts for TLC.                                          *)
(***************************************************************************)
EXTENDS Alerts, TLC

Score(level, deviceOnly) == [level |-> level, deviceOnly |-> deviceOnly]

\* With auto_block.min_level = 4: nothing to tell, an alert, a device-limit
\* warning with an alert, an account switched off.  (A flagged account or a dry
\* run is alerted of as level 2 is; level 1 sends nothing, too.)
UserScores ==
    {Score(0, FALSE), Score(2, FALSE), Score(3, TRUE), Score(4, FALSE)}

\* What the sweep and the admins set.
SomeStatuses == {"active", "disabled"}

\* Consumers are interchangeable.
ConsumerSymmetry == Permutations(Consumers)

\* When the latest message of each kind was sent.
Latest(rows) ==
    [action \in Messages |->
        LET times == {r.at : r \in {m \in rows : m.action = action}}
        IN  IF times = {} THEN NoRow ELSE Max(times)]

\* The state without what is never read again: the event that a consumer is
\* done with, what it scored, and the time that apply() was at work on it (which
\* an announcement, unlike a routine message, is never compared with); of the
\* messages all but the latest of a kind, which any later one is the
\* closest to, and those whose batch was rolled back, which no query sees.
\* (Whether the messages are as they should be stays in view.)
LiveSession(c) ==
    LET s == ses[c]
    IN  <<s.pc, s.todo, s.batch, s.view, s.staged, Latest(s.rows),
          IF s.pc \in {"loaded", "calling", "called", "announcing"} THEN s.event ELSE 0,
          IF s.pc \in {"calling", "called"} THEN <<s.score>> ELSE <<>>,
          IF s.pc \in {"warning", "notifying"} THEN s.applied ELSE 0>>

LiveView ==
    <<row, lock, dark, [c \in Consumers |-> LiveSession(c)], over, pending, now, events,
      overrides, faults, debt, Latest(log), RoutineAlertsAreApart, ElevatedIsHeard>>

\* One event, with an override and two faults, or two of them with one or the
\* other.
FewAtATime == 2 * events + overrides + faults <= 5

===============================================================================
