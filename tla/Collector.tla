------------------------------- MODULE Collector -------------------------------
(***************************************************************************)
(* The node's log collector (collector/xray_log_collector.py): one loop    *)
(* that tails Xray's access log, buffers the parsed events, posts them to  *)
(* the ingest endpoint and, after a post that was accepted, saves how far  *)
(* it has read.  Around it: Xray appends to the log, logrotate renames or  *)
(* truncates it, the endpoint refuses or loses a post, and the collector   *)
(* is killed and started again.                                            *)
(*                                                                         *)
(* A line of the log is a number, in the order of writing, and offsets     *)
(* count lines.  Lines that would not parse are left out, but for the one  *)
(* that Xray has not finished when the collector reads it.                 *)
(***************************************************************************)
EXTENDS Integers, SequencesExt

CONSTANTS
    BatchSize,      \* MG_BATCH_SIZE: a flush is due at this length
    MaxBuffered,    \* MG_MAX_BUFFERED_EVENTS
    MaxPosted,      \* the longest batch the ingest endpoint accepts
    Rotations,      \* how logrotate works: subset of {"rename", "copytruncate"}
    InParts,        \* lines that Xray may write in two parts
    MaxLines,       \* bound: lines written to the log
    MaxFiles,       \* bound: inodes the log has had
    MaxFaults       \* bound: failed posts and saves, restarts

ASSUME CollectorAssumption ==
    /\ BatchSize \in Nat \ {0} /\ MaxBuffered \in Nat \ {0} /\ MaxPosted \in Nat \ {0}
    /\ Rotations \subseteq {"rename", "copytruncate"}
    /\ MaxLines \in Nat /\ MaxFiles \in Nat \ {0} /\ MaxFaults \in Nat
    /\ InParts \subseteq 1..MaxLines

Lines  == 1..MaxLines
Inodes == 1..MaxFiles
None   == 0                         \* no file, no inode, no handle

VARIABLES
    \* the node
    files,          \* the lines of every inode
    path,           \* the inode at the log's path, None between rename and create
    created,        \* inodes used so far
    written,        \* lines written so far
    half,           \* the line that Xray has not finished, or None
    \* the collector's memory
    pc,
    stat,           \* what os.stat answered: [inode, size]
    fh,             \* the inode of the open handle
    tail,           \* TailState: [inode, offset]; the handle stands at the offset
    buffer,         \* EventBuffer
    sent,           \* the events drained for the flush under way
    \* on disk
    saved,          \* the state file: [inode, offset]
    \* the ingest endpoint
    accepted,       \* how often each line was put on the stream
    \* bounded counter and history, read by the properties only
    faults,
    dropped,        \* lines the full buffer dropped
    escaped,        \* lines drained when an exception left the flush
    torn,           \* lines read before they were finished
    looked,         \* os.stat was asked since the log was last truncated
    rewritten,      \* lines of a truncated log that was as long again, at the
                    \* offset of the tail, before os.stat was asked
    overgrown       \* the same at the saved offset, before it was saved anew

node    == <<files, path, created, written, half>>
history == <<dropped, escaped, torn, looked, rewritten, overgrown>>
vars    == <<node, pc, stat, fh, tail, buffer, sent, saved, accepted, faults, history>>

Held == ToSet(buffer) \cup ToSet(sent)

-------------------------------------------------------------------------------
(* Xray and logrotate *)

\* The line to be written makes the file as long as this mark from before a
\* truncation says: its size tells of the truncation no more.
CatchesUp(mark) == mark.inode = path /\ Len(files[path]) + 1 = mark.offset

\* os.stat has shown that the log was truncated: it will be read from the start.
Noticed == pc = "read" /\ stat.inode = tail.inode /\ stat.size < tail.offset

\* A line is appended, or the first part of it.
Write ==
    /\ path # None /\ written < MaxLines /\ half = None
    /\ written' = written + 1
    /\ half' \in {None} \cup ({written'} \cap InParts)
    /\ files' = [files EXCEPT ![path] = Append(@, written')]
    /\ rewritten' = IF CatchesUp(tail) /\ ~looked /\ ~Noticed
                    THEN rewritten \cup ToSet(files'[path]) ELSE rewritten
    /\ overgrown' = IF CatchesUp(saved)
                    THEN overgrown \cup ToSet(files'[path]) ELSE overgrown
    /\ UNCHANGED <<path, created, pc, stat, fh, tail, buffer, sent, saved,
                   accepted, faults, dropped, escaped, torn, looked>>

Finish ==
    /\ half # None
    /\ half' = None
    /\ UNCHANGED <<files, path, created, written, pc, stat, fh, tail, buffer, sent,
                   saved, accepted, faults, history>>

Rename ==
    /\ "rename" \in Rotations
    /\ path # None /\ created < MaxFiles
    /\ path' = None
    /\ UNCHANGED <<files, created, written, half, pc, stat, fh, tail, buffer, sent,
                   saved, accepted, faults, history>>

Create ==
    /\ path = None
    /\ created' = created + 1
    /\ path' = created'
    /\ UNCHANGED <<files, written, half, pc, stat, fh, tail, buffer, sent, saved,
                   accepted, faults, history>>

Truncate ==
    /\ "copytruncate" \in Rotations
    /\ path # None /\ files[path] # <<>>
    /\ files' = [files EXCEPT ![path] = <<>>]
    /\ looked' = FALSE
    /\ UNCHANGED <<path, created, written, half, pc, stat, fh, tail, buffer, sent,
                   saved, accepted, faults, dropped, escaped, torn, rewritten,
                   overgrown>>

-------------------------------------------------------------------------------
(* The collector's loop *)

\* _ensure_open(), up to the answer of os.stat.
Stat ==
    /\ pc = "poll"
    /\ IF path = None
       THEN pc' = "flush" /\ UNCHANGED <<stat, looked>>
       ELSE /\ pc' = "read"
            /\ stat' = [inode |-> path, size |-> Len(files[path])]
            /\ looked' = TRUE
    /\ UNCHANGED <<node, fh, tail, buffer, sent, saved, accepted, faults, dropped,
                   escaped, torn, rewritten, overgrown>>

\* A slip to compare with: rotation is told by the inode only.
TruncationUnseen == FALSE

\* The file is smaller than what was read of it: copytruncate.
Truncated == stat.inode = tail.inode /\ stat.size < tail.offset

\* A slip to compare with: the buffer has no limit.
NoOverflow(events) == 0

\* EventBuffer.add, for each event in turn: the oldest make room.
Overflow(events) == IF Len(events) > MaxBuffered THEN Len(events) - MaxBuffered ELSE 0

Add(events) ==
    LET all == buffer \o events
        over == Overflow(all)
    IN  /\ buffer' = SubSeq(all, over + 1, Len(all))
        /\ dropped' = dropped \cup ToSet(SubSeq(all, 1, over))

\* parse_line() for each line: the one that Xray has not finished is the last.
Parsed(lines) == IF lines # <<>> /\ Last(lines) = half THEN Front(lines) ELSE lines

\* The rest of _ensure_open() and poll_lines(), then parse_line() and the
\* buffer.  The path is opened by name: it may have changed since the stat.
\* readlines() returns what there is of a line; neither that nor the rest, in
\* the next round, parses.  (Cut inside the name, the first part would be taken
\* for another user's connection: left out.)
Read ==
    LET reopen == fh = None \/ stat.inode # tail.inode \/ Truncated
        fresh  == stat.inode # tail.inode \/ Truncated
        file   == IF reopen THEN path ELSE fh
        start  == IF fresh THEN 0 ELSE tail.offset
        lines  == SubSeq(files[file], start + 1, Len(files[file]))
    IN  /\ pc = "read"
        /\ file # None
        /\ fh' = file
        /\ tail' = [inode |-> stat.inode, offset |-> start + Len(lines)]
        /\ Add(Parsed(lines))
        /\ torn' = torn \cup (ToSet(lines) \cap {half})
        /\ pc' = "flush"
        /\ UNCHANGED <<node, stat, sent, saved, accepted, faults, escaped, looked,
                       rewritten, overgrown>>

\* open() finds no file: the exception ends the iteration.
OpenFails ==
    /\ pc = "read"
    /\ fh = None \/ stat.inode # tail.inode \/ Truncated
    /\ path = None
    /\ pc' = "poll"
    /\ UNCHANGED <<node, stat, fh, tail, buffer, sent, saved, accepted, faults, history>>

\* A slip to compare with: the state is saved when the flush starts.
DrainAndSave ==
    /\ pc = "flush"
    /\ buffer # <<>>
    /\ sent' = buffer
    /\ buffer' = <<>>
    /\ saved' = tail
    /\ overgrown' = {}
    /\ pc' = "post"
    /\ UNCHANGED <<node, stat, fh, tail, accepted, faults, dropped, escaped, torn,
                   looked, rewritten>>

\* The batch is full, or the interval since the last flush is over.
Drain ==
    /\ pc = "flush"
    /\ buffer # <<>>
    /\ sent' = buffer
    /\ buffer' = <<>>
    /\ pc' = "post"
    /\ UNCHANGED <<node, stat, fh, tail, saved, accepted, faults, history>>

NotDue ==
    /\ pc = "flush"
    /\ Len(buffer) < BatchSize
    /\ pc' = "poll"
    /\ UNCHANGED <<node, stat, fh, tail, buffer, sent, saved, accepted, faults, history>>

\* ConnectionEventBatch has a max_length: a longer batch is answered with 422.
Refuses(events) == Len(events) > MaxPosted

\* ingest_events() puts the first n events of the batch on the stream.
Accepts(n) ==
    accepted' = [line \in Lines |->
                    accepted[line] + Cardinality({i \in 1..n : sent[i] = line})]

PostSucceeds ==
    /\ pc = "post"
    /\ ~Refuses(sent)
    /\ Accepts(Len(sent))
    /\ pc' = "save"
    /\ UNCHANGED <<node, stat, fh, tail, buffer, sent, saved, faults, history>>

\* A slip to compare with: the drained events are forgotten.
NotPutBack(events) == UNCHANGED <<buffer, dropped>>

\* A slip to compare with: the events go back in the order they come off.
PutBackReversed(events) == Add(Reverse(events))

PutBack(events) == Add(events)

\* post_batch() returns False: refused, a bad status, a timeout, a failed
\* connection.  The endpoint may have put any part of the batch on the stream.
PostFails ==
    /\ pc = "post"
    /\ \/ Refuses(sent) /\ UNCHANGED <<accepted, faults>>
       \/ /\ faults < MaxFaults
          /\ faults' = faults + 1
          /\ ~Refuses(sent)
          /\ \E n \in 0..Len(sent) : Accepts(n)
    /\ PutBack(sent)
    /\ sent' = <<>>
    /\ pc' = "poll"
    /\ UNCHANGED <<node, stat, fh, tail, saved, escaped, torn, looked, rewritten,
                   overgrown>>

\* An exception that post_batch() does not catch (the connection is reset
\* while it waits for the answer) ends the iteration in run()'s handler.
PostEscapes ==
    /\ pc = "post"
    /\ faults < MaxFaults
    /\ faults' = faults + 1
    /\ ~Refuses(sent)
    /\ \E n \in 0..Len(sent) : Accepts(n)
    /\ escaped' = escaped \cup ToSet(sent)
    /\ sent' = <<>>
    /\ pc' = "poll"
    /\ UNCHANGED <<node, stat, fh, tail, buffer, saved, dropped, torn, looked,
                   rewritten, overgrown>>

\* A slip to compare with: the batch stays in the buffer after it was posted.
SaveKeepsBatch ==
    /\ pc = "save"
    /\ saved' = tail
    /\ sent' = <<>>
    /\ buffer' = sent
    /\ overgrown' = {}
    /\ pc' = "poll"
    /\ UNCHANGED <<node, stat, fh, tail, accepted, faults, dropped, escaped, torn,
                   looked, rewritten>>

Save ==
    /\ pc = "save"
    /\ saved' = tail
    /\ sent' = <<>>
    /\ overgrown' = {}
    /\ pc' = "poll"
    /\ UNCHANGED <<node, stat, fh, tail, buffer, accepted, faults, dropped, escaped,
                   torn, looked, rewritten>>

SaveFails ==
    /\ pc = "save"
    /\ faults < MaxFaults
    /\ faults' = faults + 1
    /\ sent' = <<>>
    /\ pc' = "poll"
    /\ UNCHANGED <<node, stat, fh, tail, buffer, saved, accepted, history>>

\* The process dies and systemd starts it again from the state file.  (The
\* lines grown over the saved offset are behind the tail from now on.)
Restart ==
    /\ faults < MaxFaults
    /\ faults' = faults + 1
    /\ tail' = saved
    /\ fh' = None
    /\ buffer' = <<>> /\ sent' = <<>>
    /\ looked' = FALSE
    /\ rewritten' = rewritten \cup overgrown
    /\ pc' = "poll"
    /\ UNCHANGED <<node, stat, saved, accepted, dropped, escaped, torn, overgrown>>

-------------------------------------------------------------------------------
Start == [inode |-> None, offset |-> 0]

Init ==
    /\ files = [inode \in Inodes |-> <<>>]
    /\ path = 1 /\ created = 1 /\ written = 0 /\ half = None
    /\ pc = "poll"
    /\ stat = [inode |-> None, size |-> 0]
    /\ fh = None /\ tail = Start /\ saved = Start
    /\ buffer = <<>> /\ sent = <<>>
    /\ accepted = [line \in Lines |-> 0]
    /\ faults = 0
    /\ dropped = {} /\ escaped = {} /\ torn = {}
    /\ looked = FALSE /\ rewritten = {} /\ overgrown = {}

Loop == \/ Stat \/ Read \/ OpenFails \/ Drain \/ NotDue
        \/ PostSucceeds \/ PostFails \/ PostEscapes \/ Save \/ SaveFails

Environment == Write \/ Finish \/ Rename \/ Create \/ Truncate

Next == Loop \/ Environment \/ Restart

Spec == Init /\ [][Next]_vars

\* The loop goes round and the flush interval elapses; the process answers for
\* a post sooner or later.  A rotation, once begun, creates the new file.
Fairness == WF_vars(Loop) /\ SF_vars(Drain) /\ WF_vars(Create)

FairSpec == Spec /\ Fairness

-------------------------------------------------------------------------------
(* Properties *)

TypeOK ==
    /\ files \in [Inodes -> Seq(Lines)]
    /\ path \in 0..MaxFiles /\ created \in Inodes /\ written \in 0..MaxLines
    /\ half \in 0..written
    /\ pc \in {"poll", "read", "flush", "post", "save"}
    /\ stat \in [inode : 0..MaxFiles, size : 0..MaxLines]
    /\ fh \in 0..MaxFiles
    /\ tail \in [inode : 0..MaxFiles, offset : 0..MaxLines]
    /\ saved \in [inode : 0..MaxFiles, offset : 0..MaxLines]
    /\ buffer \in Seq(Lines) /\ sent \in Seq(Lines)
    /\ Len(buffer) <= MaxBuffered /\ Len(sent) <= MaxBuffered
    /\ accepted \in [Lines -> Nat]
    /\ faults \in 0..MaxFaults
    /\ dropped \cup escaped \cup torn \cup rewritten \cup overgrown \subseteq Lines
    /\ looked \in BOOLEAN

\* Where a state says that reading goes on in the file now at the path.
ResumesAt(state) ==
    IF state.inode = path /\ state.offset <= Len(files[path]) THEN state.offset ELSE 0

\* The lines of the current file that a collector in this state reads again.
ToRead(state) ==
    IF path = None THEN {}
    ELSE {files[path][i] : i \in ResumesAt(state) + 1 .. Len(files[path])}

Current == IF path = None THEN {} ELSE ToSet(files[path])

Accepted == {line \in Lines : accepted[line] > 0}

\* Lines the collector may give up: those the full buffer drops, those an
\* exception takes, those it reads before they are finished, and those of a
\* truncated log that is as long again before the next stat (a truncation shows
\* by the size alone), or that is as long again as the state file says when the
\* collector starts anew from it.
Lost == dropped \cup escaped \cup torn \cup rewritten

\* At least once across restarts: a line of the current log that the state
\* file says is done was accepted by the endpoint, or is one of the lost ones.
\* The state file is written after the batch is accepted and names what was
\* read, not what was posted: nothing may be read between drain and save.  (A
\* truncated log that grows as long again as the state file says stands there
\* as done until the next save.)
AtLeastOnce == Current \subseteq Accepted \cup Lost \cup overgrown \cup ToRead(saved)

\* What the running collector is still to read: all, if it has just noticed that
\* the log was truncated.
StillToRead == IF Noticed /\ tail.inode = path THEN Current ELSE ToRead(tail)

\* The running collector skips no line of the current log, rotated or truncated
\* as it may be: each one is still to be read, held in memory, or accounted for.
NothingSkipped == Current \subseteq Accepted \cup Lost \cup Held \cup StillToRead

\* A line reaches the stream once, and once more for a failed post or save or a
\* restart at most; a rotation between the stat and the open reads it twice.
RepeatsNeedFaults ==
    \A line \in Lines : accepted[line] <= (1 + faults) * created

\* Until the log is rotated to a new file the endpoint gets the lines in the
\* order of the log, through failed posts, restarts and overflow: none is
\* accepted while an earlier one, not lost, never was.  (A rotation between
\* the stat and the open makes the collector start a new file in its middle,
\* and read it again from the start in the next round.)
InOrder ==
    created = 1 =>
        \A later \in Accepted, earlier \in Current \cup Held :
            earlier < later => earlier \in Accepted \cup Lost

\* Every line ends up accepted, unless it is lost, its file is rotated away
\* first, or the collector comes to hold more than the endpoint takes in one
\* post (MG_MAX_BUFFERED_EVENTS may exceed the endpoint's limit).
EventuallyAccepted ==
    \A line \in Lines :
        line \in Current ~> \/ line \notin Current
                            \/ line \in Accepted \cup Lost
                            \/ Refuses(buffer \o sent)

\* "Put them back so a transient outage doesn't lose events" (run): once the
\* endpoint is reachable again, every line of the log that is not lost reaches
\* it.  A flush posts the whole buffer, so after an outage that lets it grow
\* past the endpoint's limit no post is ever accepted again.
OutageIsRecovered ==
    \A line \in Lines :
        line \in Current ~> line \notin Current \/ line \in Accepted \cup Lost

================================================================================
