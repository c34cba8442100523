--------------------------- MODULE MitigationPolicy ---------------------------
(***************************************************************************)
(* The decision MitigationService.apply() takes for one scored event, as a *)
(* function of the level, the status the service has in memory and the     *)
(* configuration (services/mitigation.py).  A constant module: it has no   *)
(* state, Enforcement extends it.                                          *)
(***************************************************************************)
EXTENDS Integers

CONSTANTS
    AutoBlockEnabled,       \* security.mitigation.auto_block.enabled
    MinLevel,               \* security.mitigation.auto_block.min_level
    DeviceLimitWarnOnly     \* security.mitigation.device_limit_warn_only

Statuses == {"active", "suspended", "disabled", "blacklisted"}

Severity == [active |-> 0, suspended |-> 3, disabled |-> 4, blacklisted |-> 5]

Levels == 0..5

\* Levels 0, 1 and 2 name no status: nothing is blocked below level 3.
LevelStatus == [level \in 3..5 |-> IF level = 3 THEN "suspended"
                                   ELSE IF level = 4 THEN "disabled"
                                   ELSE "blacklisted"]

IsEscalation(level, status) ==
    /\ level \in DOMAIN LevelStatus
    /\ Severity[LevelStatus[level]] > Severity[status]

\* The soft alternative to an escalation: the shop is told, the account stays
\* as it is.  deviceOnly: every detector that triggered is device_limit.
WarnsOnly(level, status, deviceOnly) ==
    IsEscalation(level, status) /\ DeviceLimitWarnOnly /\ deviceOnly

\* The one branch of apply() that reaches Marzban and the user's row.  The
\* other branches (log, notify, dry run, flag, warn) write history and alerts.
Escalates(level, status, deviceOnly) ==
    /\ IsEscalation(level, status)
    /\ ~WarnsOnly(level, status, deviceOnly)
    /\ AutoBlockEnabled
    /\ level >= MinLevel

===============================================================================
