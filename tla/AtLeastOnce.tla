------------------------------ MODULE AtLeastOnce ------------------------------
(***************************************************************************)
(* What the ingestion pipeline promises, whatever consumers, claims and    *)
(* acknowledgements it is made of: an event that the ingest endpoint has   *)
(* accepted is scored, once or more often, unless the stream has outgrown  *)
(* its limit and dropped it, it has shared a batch with a poison event, or *)
(* such events make up a whole batch.  Only the oldest events are dropped, *)
(* events are scored in whole batches, and no batch with a poison event is.*)
(***************************************************************************)
EXTENDS Integers, FiniteSets

CONSTANTS
    MaxEntries,     \* bound: events accepted
    MaxCount,       \* bound: where the counts stop
    BatchSize

VARIABLES
    added,          \* events 1..added have been accepted
    trimmed,        \* events 1..trimmed have been dropped
    poison,         \* events whose handling always raises
    scored,         \* how often each event has been scored, up to MaxCount
    spoiled         \* events that have shared a batch with a poison event

vars == <<added, trimmed, poison, scored, spoiled>>

Entries == 1..MaxEntries

Once(count) == IF count < MaxCount THEN count + 1 ELSE count

Batches == {batch \in SUBSET (1..added) : batch # {} /\ Cardinality(batch) <= BatchSize}

Init ==
    /\ added = 0 /\ trimmed = 0
    /\ poison \in SUBSET Entries
    /\ scored = [e \in Entries |-> 0] /\ spoiled = {}

Accept ==
    /\ added < MaxEntries
    /\ added' = added + 1
    /\ trimmed' \in trimmed..added'
    /\ UNCHANGED <<poison, scored, spoiled>>

Score ==
    /\ \E batch \in Batches :
          /\ batch \cap poison = {}
          /\ scored' = [e \in Entries |-> IF e \in batch THEN Once(scored[e]) ELSE scored[e]]
    /\ UNCHANGED <<added, trimmed, poison, spoiled>>

Spoil ==
    /\ \E batch \in Batches :
          /\ batch \cap poison # {}
          /\ spoiled' = spoiled \cup batch
    /\ UNCHANGED <<added, trimmed, poison, scored>>

Done(e) == scored[e] > 0 \/ e <= trimmed \/ e \in spoiled

Next == Accept \/ Score \/ Spoil

\* Nothing is scored that was not accepted, and no batch with a poison event is.
SafeSpec == Init /\ [][Next]_vars

\* Every accepted event is scored, dropped or spoiled.  Spoiled events that
\* fill a batch may keep the consumers busy for ever.
Promise == \A e \in Entries : e <= added ~> Done(e) \/ Cardinality(spoiled) >= BatchSize

Spec == SafeSpec /\ Promise

================================================================================
