----------------------------- MODULE MCEnforcement -----------------------------
(***************************************************************************)
(* Instances of Enforcement for TLC.                                       *)
(***************************************************************************)
EXTENDS Enforcement, TLC

\* Consumers are interchangeable, and so are sweeps.
SessionSymmetry == Permutations(Consumers) \cup Permutations(Sweepers)

\* What a handler has left behind in current and goal and will not read again.
LiveCurrent(s) == IF pc[s] \in {"loaded", "calling", "called"} THEN current[s] ELSE NoSession

LiveGoal(s) ==
    IF pc[s] \in {"calling", "called"} \/ (s \in Admins /\ asked[s] # {})
    THEN goal[s] ELSE NoRow

\* What the properties read of a user's copies and history.  They ask nothing
\* more of a user an admin request has overlapped a session on, nor of the flag
\* of one the shop was told wrongly of; that two batches overlapped is never
\* asked.  No action's guard reads any of it.
Judged(u) ==
    IF "admin" \in overlap[u] THEN [by |-> "admin"]
    ELSE [by |-> overlap[u] \ {"consumer"}, account |-> account[u],
          leftOn |-> u \in leftOn, leftOff |-> u \in leftOff,
          unknown |-> u \in unknown, missed |-> u \in shopMissed,
          shop |-> shop[u] \/ u \in shopMissed]

\* States that differ only in such values are one state to TLC.
SessionView ==
    <<database, lock, pc, view, staged, asked, todo, newEntries, reviewing, now,
      counters, unlocked, [u \in Users |-> Judged(u)],
      [s \in Sessions |-> LiveCurrent(s)], [s \in Sessions |-> LiveGoal(s)]>>

===============================================================================
