----------------------------- MODULE MCLiveDevices -----------------------------
(***************************************************************************)
(* An instance of LiveDevices for TLC.                                     *)
(***************************************************************************)
EXTENDS LiveDevices, TLC

\* Consumers are interchangeable, and so are devices.
DeviceSymmetry == Permutations(Consumers) \cup Permutations(Devices)

\* The state without what no action reads: the event of a consumer that adds
\* none, the last count and the last verdict.  (Whether they are as they should
\* be stays in view.)
LiveView ==
    <<now, override, lastSeen, pc, stats, recorded, happened, events, changes,
      [c \in Consumers |-> IF pc[c] = "adding" THEN <<hand[c]>> ELSE <<>>],
      TypeOK, CountIsActive, CountsNoGhosts, OverLimitIsFlagged>>

================================================================================
