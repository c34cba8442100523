------------------------------ MODULE EventStream ------------------------------
(***************************************************************************)
(* The ingestion pipeline from the endpoint to the committed score: the    *)
(* endpoint appends events to a Redis stream (api/routes/ingest.py); the   *)
(* consumers of one group claim stale entries, read new ones, handle them  *)
(* in one database session, commit it, and only then acknowledge the batch *)
(* (workers/event_consumer.py).  What handling does to accounts is         *)
(* Enforcement's business; here a batch is scored or it is not.            *)
(*                                                                         *)
(* Redis's part is external: the stream, the group's position and its      *)
(* pending entries.  Which consumer an entry is pending for is left out,   *)
(* nothing reads it: XAUTOCLAIM takes from anybody and XACK acknowledges   *)
(* for anybody.                                                            *)
(***************************************************************************)
EXTENDS Integers, FiniteSets, FiniteSetsExt

CONSTANTS
    Consumers,      \* EventConsumer tasks, over all worker processes
    BatchSize,      \* _BATCH_SIZE
    MaxLen,         \* _STREAM_MAXLEN, approximate
    Poison,         \* entries whose handling may turn out to raise every time
    MaxEntries,     \* bound: events accepted
    MaxCount,       \* bound: where the count of a score stops
    MaxFaults       \* bound: crashes, exceptions and lost commands

ASSUME EventStreamAssumption ==
    /\ BatchSize \in Nat \ {0} /\ MaxLen \in Nat \ {0}
    /\ MaxEntries \in Nat /\ MaxCount \in Nat \ {0} /\ MaxFaults \in Nat
    /\ Poison \subseteq 1..MaxEntries

Entries == 1..MaxEntries

VARIABLES
    \* Redis
    added,          \* the stream has been given entries 1..added
    trimmed,        \* and has dropped 1..trimmed
    poison,         \* those of them whose handling always raises
    position,       \* the group's last delivered entry
    pending,        \* delivered and not acknowledged
    idle,           \* pending for claim_min_idle_seconds or longer
    \* consumers
    pc,
    batch,          \* the entries of the cycle
    handled,        \* those of them that have been handled
    \* the database
    scored,         \* how often each entry's handling has been committed
    \* bounded counter, and histories that only the properties read
    faults,
    claimed,        \* entries that somebody has claimed
    heldBack        \* entries whose batch a poison entry has rolled back

stream   == <<added, trimmed, poison>>
group    == <<position, pending, idle>>
consumer == <<pc, batch, handled>>
history  == <<claimed, heldBack>>
vars     == <<stream, group, consumer, scored, faults, history>>

Once(count) == IF count < MaxCount THEN count + 1 ELSE count

\* The first n elements of a set of entries.
Oldest(entries, n) ==
    {e \in entries : Cardinality({older \in entries : older <= e}) <= n}

-------------------------------------------------------------------------------
(* The endpoint, Redis, time *)

\* One XADD of ingest_events(): the pipeline is no transaction, and an entry
\* that was added stays added when a later command of the request fails.  The
\* stream is cut back to its length limit, or not yet.
Add ==
    /\ added < MaxEntries
    /\ added' = added + 1
    /\ trimmed' \in trimmed..(IF added' - MaxLen > trimmed THEN added' - MaxLen ELSE trimmed)
    /\ UNCHANGED <<poison, group, consumer, scored, faults, history>>

\* An entry has been pending for claim_min_idle_seconds, whether its consumer
\* has died or is slow.
GrowIdle(e) ==
    /\ e \in pending \ idle
    /\ idle' = idle \cup {e}
    /\ UNCHANGED <<stream, position, pending, consumer, scored, faults, history>>

-------------------------------------------------------------------------------
(* A cycle of a consumer: _process_once() *)

\* (A slip of Claim: it deletes what it should take over.)
ClaimForgets(c) ==
    /\ pc[c] = "idle"
    /\ batch' = [batch EXCEPT ![c] = {}]
    /\ pending' = pending \ idle
    /\ idle' = {}
    /\ pc' = [pc EXCEPT ![c] = "reading"]
    /\ UNCHANGED <<stream, position, handled, scored, faults, history>>

\* _claim_stale_pending(): entries that the stream has dropped meanwhile leave
\* the pending list, the oldest idle ones are taken over.
Claim(c) ==
    LET present == {e \in pending : e > trimmed}
        taken   == Oldest(present \cap idle, BatchSize)
    IN  /\ pc[c] = "idle"
        /\ batch' = [batch EXCEPT ![c] = taken]
        /\ pending' = present
        /\ idle' = (idle \cap present) \ taken
        /\ pc' = [pc EXCEPT ![c] = "reading"]
        /\ claimed' = claimed \cup taken
        /\ UNCHANGED <<stream, position, handled, scored, faults, heldBack>>

\* XAUTOCLAIM fails: the cycle goes on without claimed entries.
ClaimFails(c) ==
    /\ pc[c] = "idle"
    /\ faults < MaxFaults
    /\ faults' = faults + 1
    /\ batch' = [batch EXCEPT ![c] = {}]
    /\ pc' = [pc EXCEPT ![c] = "reading"]
    /\ UNCHANGED <<stream, group, handled, scored, history>>

\* What a read leaves behind when it delivers these entries to c.
Deliver(c, new, group_position) ==
    /\ batch' = [batch EXCEPT ![c] = @ \cup new]
    /\ position' = group_position
    /\ pending' = pending \cup new
    /\ pc' = [pc EXCEPT ![c] = IF batch'[c] = {} THEN "idle" ELSE "handling"]
    /\ UNCHANGED <<stream, idle, handled, scored, faults, history>>

Unread == {e \in Entries : e <= added /\ e > trimmed /\ e > position}

\* (Slips of Read: a full batch on top of the claimed entries, and a plain
\* XREAD, whose position no other consumer shares.)
ReadFullBatch(c) ==
    LET new == Oldest(Unread, BatchSize)
    IN  /\ pc[c] = "reading"
        /\ Deliver(c, new, IF new = {} THEN position ELSE Max(new))

ReadOutsideGroup(c) ==
    /\ pc[c] = "reading"
    /\ Deliver(c, Oldest(Unread, BatchSize - Cardinality(batch[c])), position)

\* XREADGROUP fills the batch up with entries the group has not seen.
Read(c) ==
    LET new == Oldest(Unread, BatchSize - Cardinality(batch[c]))
    IN  /\ pc[c] = "reading"
        /\ Deliver(c, new, IF new = {} THEN position ELSE Max(new))

Drop(c) ==
    /\ batch' = [batch EXCEPT ![c] = {}]
    /\ handled' = [handled EXCEPT ![c] = {}]
    /\ pc' = [pc EXCEPT ![c] = "idle"]

\* _handle_event(), in the order of the stream: what was claimed is older than
\* what was read after it.  A poison entry raises, and the session of the whole
\* batch is closed without a commit.
Handle(c) ==
    LET left == batch[c] \ handled[c]
    IN  /\ pc[c] = "handling"
        /\ left # {}
        /\ IF Min(left) \in poison
           THEN /\ Drop(c)
                /\ heldBack' = heldBack \cup batch[c]
           ELSE /\ handled' = [handled EXCEPT ![c] = @ \cup {Min(left)}]
                /\ UNCHANGED <<pc, batch, heldBack>>
        /\ UNCHANGED <<stream, group, scored, faults, claimed>>

\* (A slip of Commit: the acknowledgement goes out first.)
CommitAfterAck(c) ==
    /\ pc[c] = "handling"
    /\ handled[c] = batch[c]
    /\ pending' = pending \ batch[c]
    /\ idle' = idle \ batch[c]
    /\ pc' = [pc EXCEPT ![c] = "acking"]
    /\ UNCHANGED <<stream, position, batch, handled, scored, faults, history>>

\* The session is committed, with the scores and roll-ups of every entry.
Commit(c) ==
    /\ pc[c] = "handling"
    /\ handled[c] = batch[c]
    /\ scored' = [e \in Entries |->
                     IF e \in batch[c] THEN Once(scored[e]) ELSE scored[e]]
    /\ pc' = [pc EXCEPT ![c] = "acking"]
    /\ UNCHANGED <<stream, group, batch, handled, faults, history>>

\* XACK, whoever the entries are pending for by now.
Ack(c) ==
    /\ pc[c] = "acking"
    /\ pending' = pending \ batch[c]
    /\ idle' = idle \ batch[c]
    /\ Drop(c)
    /\ UNCHANGED <<stream, position, scored, faults, history>>

\* The process dies, or a command to Redis or PostgreSQL raises: run_forever()
\* starts the next cycle, here or in the process's successor.
Fail(c) ==
    /\ pc[c] # "idle"
    /\ faults < MaxFaults
    /\ faults' = faults + 1
    /\ Drop(c)
    /\ UNCHANGED <<stream, group, scored, history>>

-------------------------------------------------------------------------------
Init ==
    /\ added = 0 /\ trimmed = 0 /\ poison \in SUBSET Poison
    /\ position = 0 /\ pending = {} /\ idle = {}
    /\ pc = [c \in Consumers |-> "idle"]
    /\ batch = [c \in Consumers |-> {}]
    /\ handled = [c \in Consumers |-> {}]
    /\ scored = [e \in Entries |-> 0]
    /\ faults = 0
    /\ claimed = {}
    /\ heldBack = {}

Cycle(c) == Claim(c) \/ Read(c) \/ Handle(c) \/ Commit(c) \/ Ack(c)

Next ==
    \/ Add
    \/ \E e \in Entries : GrowIdle(e)
    \/ \E c \in Consumers : Cycle(c) \/ ClaimFails(c) \/ Fail(c)

Spec == Init /\ [][Next]_vars

\* run_forever() never stops, and time passes.
Fairness ==
    /\ \A c \in Consumers : WF_vars(Cycle(c))
    /\ \A e \in Entries : WF_vars(GrowIdle(e))

FairSpec == Spec /\ Fairness

-------------------------------------------------------------------------------
(* Properties *)

TypeOK ==
    /\ added \in 0..MaxEntries /\ trimmed \in 0..added /\ poison \subseteq Poison
    /\ position \in 0..added
    /\ pending \subseteq 1..position /\ idle \subseteq pending
    /\ pc \in [Consumers -> {"idle", "reading", "handling", "acking"}]
    /\ batch \in [Consumers -> SUBSET (1..position)]
    /\ \A c \in Consumers : Cardinality(batch[c]) <= BatchSize
    /\ handled \in [Consumers -> SUBSET Entries]
    /\ \A c \in Consumers : handled[c] \subseteq batch[c]
    /\ scored \in [Entries -> 0..MaxCount]
    /\ faults \in 0..MaxFaults
    /\ claimed \subseteq Entries /\ heldBack \subseteq Entries

\* No entry is lost between the endpoint and the score: one that is not yet
\* scored is still to be read, or pending and so to be claimed, or the stream
\* has outgrown its limit and dropped it.
NothingLost ==
    \A e \in 1..added :
        scored[e] > 0 \/ e > position \/ e \in pending \/ e <= trimmed

\* An acknowledgement never precedes the commit, not even that of another
\* consumer which has claimed the entry and is still at it.
AcknowledgedIsScored ==
    [][\A e \in pending \ pending' : scored[e] > 0 \/ e <= trimmed]_vars

\* An entry is scored a second time only after somebody has claimed it: among
\* consumers that read and commit at the same time, no two are given the same
\* new entry, and none commits what it has committed before.
RepeatsNeedClaims == \A e \in Entries : scored[e] > 1 => e \in claimed

\* The pipeline keeps AtLeastOnce's promise.  What a poison event has held back
\* once is not promised: it is claimed together with whatever is read to fill
\* its batch up, again and again; and when these fill a batch alone and are
\* claimed in every cycle, no new entry is read.
Abstract == INSTANCE AtLeastOnce WITH spoiled <- heldBack
Implements == Abstract!Spec

================================================================================
