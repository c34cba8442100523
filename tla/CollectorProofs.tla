---------------------------- MODULE CollectorProofs ----------------------------
(***************************************************************************)
(* The collector skips nothing and gives nothing up across restarts, but   *)
(* for the losses that Collector names; it                                 *)
(* repeats no line without a fault or a rotation, and posts the lines of a *)
(* file in their order: for logs, buffers and batches of any length, any   *)
(* number of rotations and any number of faults.                           *)
(***************************************************************************)
EXTENDS Collector, SequenceTheorems, FiniteSetTheorems, TLAPS

-------------------------------------------------------------------------------
(* The inductive invariant *)

\* The path names the newest file or none, and no file is longer than what was
\* written.
FilesInv ==
    /\ path \in {None, created}
    /\ path = None => created < MaxFiles
    /\ \A i \in Inodes : /\ i > created => files[i] = <<>>
                         /\ Len(files[i]) <= written

\* What is drained stays out of the buffer until the flush is over, and is on
\* the stream once the post has succeeded.
FlushInv ==
    /\ pc \in {"poll", "read", "flush"} => sent = <<>>
    /\ pc \in {"post", "save"} => buffer = <<>>
    /\ pc = "save" => ToSet(sent) \subseteq Accepted

\* A handle of another file than the one that was read is one opened by name
\* after that file was renamed.
HandleInv ==
    /\ stat.inode <= created /\ tail.inode <= created /\ saved.inode <= created
    /\ pc = "read" => stat.inode # None
    /\ fh \in {None, tail.inode} \/ tail.inode < created
    /\ pc = "read" /\ stat.inode = tail.inode => fh \in {None, tail.inode}

\* An offset past the end of the log is from before a truncation: a stat since
\* then has noticed it, and the read to come heeds it.
PastTheEnd(mark) == path # None /\ mark.inode = path /\ mark.offset > Len(files[path])

RewriteInv == PastTheEnd(tail) /\ looked => Noticed

CollectorInv ==
    /\ TypeOK
    /\ FilesInv /\ FlushInv /\ HandleInv /\ RewriteInv
    /\ AtLeastOnce /\ NothingSkipped

-------------------------------------------------------------------------------
(* Sequences *)

LEMMA Elements ==
    ASSUME NEW S, NEW s \in Seq(S)
    PROVE  /\ Len(s) \in Nat /\ (s # <<>> => Len(s) > 0)
           /\ ToSet(s) = {s[i] : i \in 1..Len(s)} /\ ToSet(s) \subseteq S
           /\ \A i \in 1..Len(s) : s[i] \in S
<1>1. Len(s) \in Nat /\ DOMAIN s = 1..Len(s) /\ \A i \in 1..Len(s) : s[i] \in S
  BY LenProperties, ElementOfSeq
<1>2. s # <<>> => Len(s) > 0
  BY EmptySeq
<1> QED BY <1>1, <1>2 DEF ToSet

LEMMA NoElements == ToSet(<<>>) = {} /\ Len(<<>>) = 0 /\ \A S : <<>> \in Seq(S)
<1>1. \A S : <<>> \in Seq(S) /\ Len(<<>>) = 0
  BY EmptySeq
<1>2. <<>> \in Seq({})
  BY <1>1
<1>3. \A s \in Seq({}) : ToSet(s) \subseteq {}
  BY Elements
<1> QED BY <1>1, <1>2, <1>3

LEMMA AppendElements ==
    ASSUME NEW S, NEW s \in Seq(S), NEW e \in S
    PROVE  /\ Append(s, e) \in Seq(S) /\ Len(Append(s, e)) = Len(s) + 1
           /\ \A i \in 1..Len(s) : Append(s, e)[i] = s[i]
           /\ Append(s, e)[Len(s) + 1] = e
           /\ ToSet(Append(s, e)) = ToSet(s) \cup {e}
<1>1. /\ Append(s, e) \in Seq(S) /\ Len(Append(s, e)) = Len(s) + 1
      /\ \A i \in 1..Len(s) : Append(s, e)[i] = s[i]
      /\ Append(s, e)[Len(s) + 1] = e
  BY AppendProperties
<1>2. /\ Len(s) \in Nat /\ ToSet(s) = {s[i] : i \in 1..Len(s)}
      /\ ToSet(Append(s, e)) = {Append(s, e)[i] : i \in 1..Len(s) + 1}
  BY <1>1, Elements
<1>3. 1..Len(s) + 1 = 1..Len(s) \cup {Len(s) + 1}
  BY <1>2
<1> QED BY <1>1, <1>2, <1>3

\* A part of a sequence.
LEMMA PartElements ==
    ASSUME NEW S, NEW s \in Seq(S), NEW m \in Nat \ {0}, NEW n \in Nat, n <= Len(s)
    PROVE  /\ SubSeq(s, m, n) \in Seq(S)
           /\ Len(SubSeq(s, m, n)) = (IF m <= n THEN n - m + 1 ELSE 0)
           /\ ToSet(SubSeq(s, m, n)) = {s[i] : i \in m..n}
<1> DEFINE part == SubSeq(s, m, n)
<1>1. Len(s) \in Nat /\ \A i \in m..n : s[i] \in S
  BY Elements
<1>2. /\ part \in Seq(S) /\ Len(part) = (IF m <= n THEN n - m + 1 ELSE 0)
      /\ \A i \in 1..n - m + 1 : part[i] = s[m + i - 1]
  BY <1>1, SubSeqProperties
<1>3. ToSet(part) = {part[i] : i \in 1..Len(part)}
  BY <1>2, Elements
<1> HIDE DEF part
<1>4. ASSUME NEW i \in m..n
      PROVE  s[i] \in {part[j] : j \in 1..Len(part)}
  <2>1. i - m + 1 \in 1..n - m + 1 /\ i - m + 1 \in 1..Len(part) /\ m + (i - m + 1) - 1 = i
    BY <1>2
  <2> QED BY <1>2, <2>1
<1>5. ASSUME NEW j \in 1..Len(part)
      PROVE  part[j] \in {s[i] : i \in m..n}
  <2>1. j \in 1..n - m + 1 /\ m + j - 1 \in m..n
    BY <1>2
  <2> QED BY <1>2, <2>1
<1>6. {part[j] : j \in 1..Len(part)} = {s[i] : i \in m..n}
  BY <1>4, <1>5
<1> QED BY <1>2, <1>3, <1>6 DEF part

-------------------------------------------------------------------------------
(* Lines *)

\* What is read parses, but for a line that is not finished.
LEMMA ParsedLines ==
    ASSUME NEW lines \in Seq(Lines)
    PROVE  /\ Parsed(lines) \in Seq(Lines)
           /\ ToSet(lines) \subseteq ToSet(Parsed(lines)) \cup (ToSet(lines) \cap {half})
<1>1. CASE lines # <<>> /\ Last(lines) = half
  <2>1. /\ Len(lines) \in Nat /\ Len(lines) > 0
        /\ ToSet(lines) = {lines[i] : i \in 1..Len(lines)}
    BY <1>1, Elements
  <2>2. /\ SubSeq(lines, 1, Len(lines) - 1) \in Seq(Lines)
        /\ ToSet(SubSeq(lines, 1, Len(lines) - 1)) = {lines[i] : i \in 1..Len(lines) - 1}
    BY <2>1, PartElements
  <2>3. Parsed(lines) = SubSeq(lines, 1, Len(lines) - 1) /\ lines[Len(lines)] = half
    BY <1>1 DEF Parsed, Front, Last
  <2>4. 1..Len(lines) = 1..Len(lines) - 1 \cup {Len(lines)}
    BY <2>1
  <2> QED BY <2>1, <2>2, <2>3, <2>4
<1>2. CASE ~(lines # <<>> /\ Last(lines) = half)
  BY <1>2 DEF Parsed
<1> QED BY <1>1, <1>2

\* What the buffer does not keep is dropped.
LEMMA AddedLines ==
    ASSUME TypeOK, NEW events \in Seq(Lines), Add(events)
    PROVE  /\ buffer' \in Seq(Lines) /\ Len(buffer') <= MaxBuffered
           /\ dropped' \subseteq Lines /\ dropped \subseteq dropped'
           /\ ToSet(buffer) \subseteq ToSet(buffer') \cup dropped'
           /\ ToSet(events) \subseteq ToSet(buffer') \cup dropped'
<1>1. PICK all : all = buffer \o events
  OBVIOUS
<1>2. /\ buffer \in Seq(Lines) /\ dropped \subseteq Lines
      /\ MaxBuffered \in Nat
  BY CollectorAssumption DEF TypeOK
<1>3. /\ all \in Seq(Lines) /\ Len(all) = Len(buffer) + Len(events)
      /\ \A i \in 1..Len(buffer) + Len(events) :
            all[i] = IF i <= Len(buffer) THEN buffer[i] ELSE events[i - Len(buffer)]
  BY <1>1, <1>2, ConcatProperties
<1>4. /\ Len(buffer) \in Nat /\ Len(events) \in Nat /\ Len(all) \in Nat
      /\ ToSet(buffer) = {buffer[i] : i \in 1..Len(buffer)}
      /\ ToSet(events) = {events[i] : i \in 1..Len(events)}
      /\ ToSet(all) = {all[i] : i \in 1..Len(all)}
  BY <1>2, <1>3, Elements
<1>5. PICK over : over = Overflow(buffer \o events)
  OBVIOUS
<1>6. over \in Nat /\ over <= Len(all) /\ Len(all) - over <= MaxBuffered
  BY <1>1, <1>2, <1>4, <1>5 DEF Overflow
<1>7. /\ buffer' = SubSeq(all, over + 1, Len(all))
      /\ dropped' = dropped \cup ToSet(SubSeq(all, 1, over))
  BY <1>1, <1>5 DEF Add
<1>8. /\ buffer' \in Seq(Lines)
      /\ Len(buffer') = (IF over + 1 <= Len(all) THEN Len(all) - (over + 1) + 1 ELSE 0)
      /\ ToSet(buffer') = {all[i] : i \in over + 1..Len(all)}
  <2>1. over + 1 \in Nat \ {0} /\ Len(all) \in Nat /\ Len(all) <= Len(all) /\ all \in Seq(Lines)
    BY <1>3, <1>4, <1>6
  <2>2. /\ SubSeq(all, over + 1, Len(all)) \in Seq(Lines)
        /\ Len(SubSeq(all, over + 1, Len(all)))
              = (IF over + 1 <= Len(all) THEN Len(all) - (over + 1) + 1 ELSE 0)
        /\ ToSet(SubSeq(all, over + 1, Len(all))) = {all[i] : i \in over + 1..Len(all)}
    BY <2>1, PartElements
  <2> QED BY <1>7, <2>2
<1>9. ToSet(SubSeq(all, 1, over)) = {all[i] : i \in 1..over}
  <2>1. 1 \in Nat \ {0} /\ over \in Nat /\ over <= Len(all) /\ all \in Seq(Lines)
    BY <1>3, <1>6
  <2> QED BY <2>1, PartElements
<1>10. \A i \in 1..Len(all) : all[i] \in Lines
  BY <1>3, Elements
<1>11. dropped' \subseteq Lines /\ dropped \subseteq dropped'
  BY <1>2, <1>4, <1>6, <1>7, <1>9, <1>10
<1>12. ToSet(all) \subseteq ToSet(buffer') \cup dropped'
  <2>1. \A i \in 1..Len(all) : i \in 1..over \/ i \in over + 1..Len(all)
    BY <1>4, <1>6
  <2> QED BY <1>4, <1>7, <1>8, <1>9, <2>1
<1>13. ToSet(buffer) \subseteq ToSet(all)
  <2>1. \A i \in 1..Len(buffer) : i \in 1..Len(all) /\ all[i] = buffer[i]
    BY <1>3, <1>4
  <2> QED BY <1>4, <2>1
<1>14. ToSet(events) \subseteq ToSet(all)
  <2>1. ASSUME NEW i \in 1..Len(events) PROVE events[i] \in ToSet(all)
    <3>1. i + Len(buffer) \in 1..Len(all) /\ ~(i + Len(buffer) <= Len(buffer))
          /\ (i + Len(buffer)) - Len(buffer) = i
      BY <1>3, <1>4
    <3>2. all[i + Len(buffer)] = events[i]
      BY <1>3, <3>1
    <3> QED BY <1>4, <3>1, <3>2
  <2> QED BY <1>4, <2>1
<1>15. Len(buffer') <= MaxBuffered
  <2>1. (IF over + 1 <= Len(all) THEN Len(all) - (over + 1) + 1 ELSE 0) <= MaxBuffered
    BY <1>2, <1>4, <1>6
  <2> QED BY <1>8, <2>1
<1> QED BY <1>8, <1>11, <1>12, <1>13, <1>14, <1>15

LEMMA SentLines ==
    ASSUME TypeOK
    PROVE  /\ sent \in Seq(Lines) /\ Len(sent) \in Nat
           /\ ToSet(sent) = {sent[i] : i \in 1..Len(sent)} /\ ToSet(sent) \subseteq Lines
<1>1. sent \in Seq(Lines)
  BY DEF TypeOK
<1> QED BY <1>1, Elements

\* A post that puts events on the stream takes none off it.
LEMMA AcceptedLines ==
    ASSUME TypeOK, NEW n \in 0..Len(sent), Accepts(n)
    PROVE  /\ accepted' \in [Lines -> Nat] /\ Accepted \subseteq Accepted'
           /\ n = Len(sent) => ToSet(sent) \subseteq Accepted'
<1> DEFINE at(line) == {i \in 1..n : sent[i] = line}
<1>1. /\ accepted \in [Lines -> Nat] /\ sent \in Seq(Lines) /\ Len(sent) \in Nat
      /\ ToSet(sent) = {sent[i] : i \in 1..Len(sent)} /\ ToSet(sent) \subseteq Lines
  <2>1. accepted \in [Lines -> Nat]
    BY DEF TypeOK
  <2> QED BY <2>1, SentLines
<1>2. \A line \in Lines : IsFiniteSet(at(line)) /\ Cardinality(at(line)) \in Nat
                          /\ (Cardinality(at(line)) = 0 => at(line) = {})
  <2>1. IsFiniteSet(1..n)
    BY <1>1, FS_Interval
  <2>2. \A line \in Lines : IsFiniteSet(at(line))
    BY <2>1, FS_Subset
  <2> QED BY <2>2, FS_CardinalityType, FS_EmptySet
<1>3. accepted' = [line \in Lines |-> accepted[line] + Cardinality(at(line))]
  BY DEF Accepts
<1> HIDE DEF at
<1>4. \A line \in Lines : /\ accepted'[line] \in Nat
                          /\ accepted'[line] >= accepted[line]
                          /\ Cardinality(at(line)) # 0 => accepted'[line] > 0
  BY <1>1, <1>2, <1>3
<1>5. accepted' \in [Lines -> Nat] /\ Accepted \subseteq Accepted'
  BY <1>1, <1>3, <1>4 DEF Accepted
<1>6. ASSUME n = Len(sent), NEW line \in ToSet(sent) PROVE line \in Accepted'
  <2>1. at(line) # {} /\ line \in Lines
    BY <1>1, <1>6 DEF at
  <2> QED BY <1>2, <1>4, <2>1 DEF Accepted
<1> QED BY <1>5, <1>6

\* Where reading goes on is in the file, or at its start.
LEMMA ResumeFacts ==
    ASSUME TypeOK, NEW mark \in [inode : 0..MaxFiles, offset : 0..MaxLines], path # None
    PROVE  /\ path \in Inodes /\ files[path] \in Seq(Lines) /\ Len(files[path]) \in Nat
           /\ Current = {files[path][i] : i \in 1..Len(files[path])}
           /\ ResumesAt(mark) \in Nat
           /\ ToRead(mark) = {files[path][i] : i \in ResumesAt(mark) + 1..Len(files[path])}
<1>1. path \in Inodes /\ files[path] \in Seq(Lines)
  BY CollectorAssumption DEF TypeOK, Inodes, None
<1>2. Len(files[path]) \in Nat /\ ToSet(files[path]) = {files[path][i] : i \in 1..Len(files[path])}
  BY <1>1, Elements
<1> QED BY <1>1, <1>2 DEF Current, ToRead, ResumesAt

-------------------------------------------------------------------------------
(* The steps *)

LEMMA InitCollector == Init => CollectorInv
<1> SUFFICES ASSUME Init PROVE CollectorInv
  OBVIOUS
<1>1. /\ MaxLines \in Nat /\ MaxFiles \in Nat \ {0} /\ MaxFaults \in Nat
      /\ MaxBuffered \in Nat \ {0}
      /\ ToSet(<<>>) = {} /\ Len(<<>>) = 0 /\ \A S : <<>> \in Seq(S)
  BY CollectorAssumption, NoElements
<1>2. 1 \in Inodes /\ \A i \in Inodes : files[i] = <<>>
  BY <1>1 DEF Init, Inodes
<1>3. Current = {}
  BY <1>1, <1>2 DEF Init, Current
<1>4. TypeOK
  <2>1. /\ files \in [Inodes -> Seq(Lines)] /\ buffer \in Seq(Lines) /\ sent \in Seq(Lines)
        /\ Len(buffer) <= MaxBuffered /\ Len(sent) <= MaxBuffered
    BY <1>1 DEF Init
  <2>2. /\ path \in 0..MaxFiles /\ created \in Inodes /\ written \in 0..MaxLines
        /\ half \in 0..written /\ fh \in 0..MaxFiles /\ faults \in 0..MaxFaults
        /\ pc \in {"poll", "read", "flush", "post", "save"}
    BY <1>1, <1>2 DEF Init, None
  <2>3. /\ stat \in [inode : 0..MaxFiles, size : 0..MaxLines]
        /\ tail \in [inode : 0..MaxFiles, offset : 0..MaxLines]
        /\ saved \in [inode : 0..MaxFiles, offset : 0..MaxLines]
        /\ accepted \in [Lines -> Nat]
    BY <1>1 DEF Init, Start, None
  <2>4. /\ dropped \cup escaped \cup torn \cup rewritten \cup overgrown \subseteq Lines
        /\ looked \in BOOLEAN
    BY DEF Init
  <2> QED BY <2>1, <2>2, <2>3, <2>4 DEF TypeOK
<1>5. FilesInv
  BY <1>1, <1>2 DEF FilesInv, Init, None
<1>6. FlushInv /\ HandleInv
  BY <1>1 DEF FlushInv, HandleInv, Init, Start, None
<1>7. RewriteInv
  BY DEF RewriteInv, Init
<1> QED BY <1>3, <1>4, <1>5, <1>6, <1>7 DEF CollectorInv, AtLeastOnce, NothingSkipped

\* Whatever leaves the log and both marks alone, forgets no truncation that was
\* noticed, and accounts for what was held, skips nothing.
LEMMA Accounted ==
    ASSUME CollectorInv, UNCHANGED <<files, path, tail, saved, overgrown>>,
           Accepted \subseteq Accepted', Lost \subseteq Lost',
           Held \subseteq Held' \cup Accepted' \cup Lost',
           path = None \/ (Noticed => Noticed'),
           path = None \/ (PastTheEnd(tail) /\ looked' => looked \/ Noticed')
    PROVE  AtLeastOnce' /\ NothingSkipped' /\ RewriteInv'
<1>1. Current' = Current /\ ToRead(tail)' = ToRead(tail) /\ ToRead(saved)' = ToRead(saved)
  BY DEF Current, ToRead, ResumesAt
<1>2. RewriteInv'
  BY DEF CollectorInv, RewriteInv, PastTheEnd
<1>3. StillToRead' = Current' \/ StillToRead' = StillToRead
  <2>1. CASE path = None
    BY <1>1, <2>1 DEF StillToRead, Current, ToRead
  <2>2. CASE path # None
    BY <1>1, <2>2 DEF StillToRead
  <2> QED BY <2>1, <2>2
<1> QED BY <1>1, <1>2, <1>3 DEF CollectorInv, AtLeastOnce, NothingSkipped

\* A new line is still to be read, or lost with all of a truncated log that has
\* caught up with an old offset.
LEMMA WriteInv ==
    ASSUME CollectorInv, Write
    PROVE  CollectorInv'
<1>1. TypeOK /\ FilesInv /\ FlushInv /\ HandleInv /\ RewriteInv /\ AtLeastOnce /\ NothingSkipped
  BY DEF CollectorInv
<1>2. PICK w : w = written + 1
  OBVIOUS
<1>3. /\ path # None /\ written < MaxLines /\ half = None
      /\ written' = w /\ half' \in {None} \cup ({w} \cap InParts)
      /\ files' = [files EXCEPT ![path] = Append(@, w)]
      /\ rewritten' = IF CatchesUp(tail) /\ ~looked /\ ~Noticed
                       THEN rewritten \cup ToSet(files'[path]) ELSE rewritten
      /\ overgrown' = IF CatchesUp(saved)
                       THEN overgrown \cup ToSet(files'[path]) ELSE overgrown
      /\ UNCHANGED <<path, created, pc, stat, fh, tail, buffer, sent, saved,
                     accepted, faults, dropped, escaped, torn, looked>>
  BY <1>2 DEF Write
<1>4. /\ written \in 0..MaxLines /\ MaxLines \in Nat /\ w \in Lines /\ w \in 0..MaxLines
      /\ path \in Inodes /\ files[path] \in Seq(Lines) /\ Len(files[path]) \in Nat
  <2>1. path \in Inodes /\ files[path] \in Seq(Lines)
    BY <1>1, <1>3 DEF TypeOK, FilesInv
  <2>2. written \in 0..MaxLines /\ MaxLines \in Nat
    BY <1>1, CollectorAssumption DEF TypeOK
  <2> QED BY <1>2, <1>3, <2>1, <2>2, Elements DEF Lines
<1>5. /\ files'[path] \in Seq(Lines) /\ Len(files'[path]) = Len(files[path]) + 1
      /\ \A i \in 1..Len(files[path]) : files'[path][i] = files[path][i]
      /\ files'[path][Len(files[path]) + 1] = w
      /\ ToSet(files'[path]) = ToSet(files[path]) \cup {w}
      /\ \A i \in Inodes \ {path} : files'[i] = files[i]
      /\ files' \in [Inodes -> Seq(Lines)]
  <2>1. /\ Append(files[path], w) \in Seq(Lines)
        /\ Len(Append(files[path], w)) = Len(files[path]) + 1
        /\ \A i \in 1..Len(files[path]) : Append(files[path], w)[i] = files[path][i]
        /\ Append(files[path], w)[Len(files[path]) + 1] = w
        /\ ToSet(Append(files[path], w)) = ToSet(files[path]) \cup {w}
    BY <1>4, AppendElements
  <2>2. files'[path] = Append(files[path], w) /\ \A i \in Inodes \ {path} : files'[i] = files[i]
    BY <1>1, <1>3, <1>4 DEF TypeOK
  <2>3. files' \in [Inodes -> Seq(Lines)]
    BY <1>1, <1>3, <1>4, <2>1 DEF TypeOK
  <2> QED BY <2>1, <2>2, <2>3
<1>6. TypeOK'
  <2>1. /\ half' \in 0..written' /\ written' \in 0..MaxLines
        /\ rewritten' \subseteq Lines /\ overgrown' \subseteq Lines
    <3>1. half' = 0 \/ half' = w
      BY <1>3 DEF None
    <3>2. half' \in 0..w
      BY <1>4, <3>1
    <3>3. rewritten \subseteq Lines /\ overgrown \subseteq Lines
      BY <1>1 DEF TypeOK
    <3>4. ToSet(files'[path]) \subseteq Lines
      BY <1>5, Elements
    <3> QED BY <1>3, <1>4, <3>2, <3>3, <3>4
  <2> QED BY <1>1, <1>3, <1>5, <2>1 DEF TypeOK
<1>7. FilesInv'
  <2>1. \A i \in Inodes : Len(files'[i]) <= written'
    <3>1. Len(files'[path]) <= written'
      BY <1>1, <1>2, <1>3, <1>4, <1>5 DEF FilesInv
    <3>2. ASSUME NEW i \in Inodes \ {path} PROVE Len(files'[i]) <= written'
      <4>1. files[i] \in Seq(Lines) /\ Len(files[i]) <= written
        BY <1>1 DEF TypeOK, FilesInv
      <4>2. Len(files[i]) \in Nat
        BY <4>1, Elements
      <4> QED BY <1>2, <1>3, <1>4, <1>5, <4>1, <4>2
    <3> QED BY <3>1, <3>2
  <2>2. \A i \in Inodes : i > created => files'[i] = <<>>
    <3>1. path = created /\ created \in Int
      BY <1>1, <1>3 DEF FilesInv, TypeOK, Inodes
    <3>2. ~(created > created)
      BY <3>1
    <3> QED BY <1>1, <1>5, <3>1, <3>2 DEF FilesInv
  <2> QED BY <1>1, <1>3, <2>1, <2>2 DEF FilesInv
<1>8. FlushInv' /\ HandleInv'
  BY <1>1, <1>3 DEF FlushInv, HandleInv, Accepted
<1>9. ASSUME NEW mark \in {tail, saved}
      PROVE  \/ CatchesUp(mark)
             \/ ToRead(mark)' = Current'
             \/ ToRead(mark)' = ToRead(mark) \cup {w}
  <2>1. mark \in [inode : 0..MaxFiles, offset : 0..MaxLines] /\ mark.offset \in Nat /\ mark' = mark
    BY <1>1, <1>3, <1>4 DEF TypeOK
  <2>2. CASE PastTheEnd(mark) /\ ~CatchesUp(mark)
    <3>1. ~(mark.offset <= Len(files'[path]))
      BY <1>4, <1>5, <2>1, <2>2 DEF PastTheEnd, CatchesUp
    <3>2. ResumesAt(mark)' = 0 /\ path' # None
      BY <1>3, <2>1, <3>1 DEF ResumesAt
    <3>3. ToRead(mark)' = {files'[path][i] : i \in 1..Len(files'[path])}
      <4>1. 0 + 1 = 1
        OBVIOUS
      <4> QED BY <1>3, <3>2, <4>1 DEF ToRead
    <3> QED BY <1>3, <1>5, <3>3, Elements DEF Current
  <2>3. CASE ~PastTheEnd(mark)
    <3>2. ResumesAt(mark)' = ResumesAt(mark) /\ ResumesAt(mark) \in Nat
          /\ ResumesAt(mark) <= Len(files[path])
      BY <1>3, <1>4, <1>5, <2>1, <2>3 DEF ResumesAt, PastTheEnd
    <3>3. PICK n \in Nat : n = Len(files[path])
      BY <1>4
    <3>4. PICK r \in Nat : r = ResumesAt(mark)
      BY <3>2
    <3>5. r + 1..n + 1 = (r + 1..n) \cup {n + 1} /\ \A i \in r + 1..n : i \in 1..n
      BY <3>2, <3>3, <3>4
    <3>6. ToRead(mark)' = {files'[path][i] : i \in r + 1..n + 1}
      <4>1. path' = path /\ Len(files'[path']) = n + 1 /\ ResumesAt(mark)' = r
        BY <1>3, <1>5, <3>2, <3>3, <3>4
      <4> QED BY <1>3, <4>1 DEF ToRead
    <3>7. ToRead(mark) = {files[path][i] : i \in r + 1..n}
      BY <1>3, <3>3, <3>4 DEF ToRead
    <3>8. files'[path][n + 1] = w /\ \A i \in r + 1..n : files'[path][i] = files[path][i]
      BY <1>5, <3>3, <3>5
    <3>9. ToRead(mark)' = {files'[path][i] : i \in r + 1..n} \cup {files'[path][n + 1]}
      BY <3>5, <3>6
    <3>10. ToRead(mark)' = ToRead(mark) \cup {w}
      BY <3>7, <3>8, <3>9
    <3> QED BY <3>10
  <2> QED BY <2>2, <2>3
<1>10. Current' = Current \cup {w} /\ Accepted' = Accepted /\ Lost \subseteq Lost' /\ Held' = Held
  BY <1>3, <1>5 DEF Current, Accepted, Lost, Held
<1>11. (CatchesUp(tail) => PastTheEnd(tail)) /\ Current' = ToSet(files'[path])
  BY <1>3, <1>4 DEF CatchesUp, PastTheEnd, Current
\* (The marks as they are, not as they will be.)
<1>a. /\ CatchesUp(tail) \/ ToRead(tail)' = Current' \/ ToRead(tail)' = ToRead(tail) \cup {w}
      /\ CatchesUp(saved) \/ ToRead(saved)' = Current' \/ ToRead(saved)' = ToRead(saved) \cup {w}
  <2>1. PICK t \in {tail, saved} : t = tail
    OBVIOUS
  <2>2. PICK s \in {tail, saved} : s = saved
    OBVIOUS
  <2>3. /\ ToRead(tail)' = ToRead(t)' /\ ToRead(tail) = ToRead(t)
        /\ ToRead(saved)' = ToRead(s)' /\ ToRead(saved) = ToRead(s)
        /\ CatchesUp(tail) <=> CatchesUp(t)
        /\ CatchesUp(saved) <=> CatchesUp(s)
    BY <1>3, <2>1, <2>2 DEF ToRead, ResumesAt, CatchesUp
  <2> QED BY <1>9, <2>3
<1>12. NothingSkipped'
  <2>1. CASE Noticed /\ tail.inode = path
    BY <1>3, <2>1 DEF NothingSkipped, StillToRead, Noticed
  <2>2. CASE ~(Noticed /\ tail.inode = path)
    <3>1. StillToRead = ToRead(tail) /\ StillToRead' = ToRead(tail)'
      BY <1>3, <2>2 DEF StillToRead, Noticed
    <3>2. CASE CatchesUp(tail)
      <4>1. ~Noticed /\ ~looked
        BY <1>1, <1>11, <2>2, <3>2 DEF RewriteInv, CatchesUp
      <4>2. rewritten' = rewritten \cup ToSet(files'[path])
        BY <1>3, <3>2, <4>1
      <4> QED BY <1>11, <4>2 DEF NothingSkipped, Lost
    <3>3. CASE ~CatchesUp(tail)
      <4>1. ToRead(tail)' = Current' \/ ToRead(tail)' = ToRead(tail) \cup {w}
        BY <1>a, <3>3
      <4> QED BY <1>1, <1>10, <3>1, <4>1 DEF NothingSkipped
    <3> QED BY <3>2, <3>3
  <2> QED BY <2>1, <2>2
<1>13. AtLeastOnce'
  <2>1. CASE CatchesUp(saved)
    <3>1. overgrown' = overgrown \cup ToSet(files'[path])
      BY <1>3, <2>1
    <3> QED BY <1>11, <3>1 DEF AtLeastOnce
  <2>2. CASE ~CatchesUp(saved)
    <3>1. ToRead(saved)' = Current' \/ ToRead(saved)' = ToRead(saved) \cup {w}
      BY <1>a, <2>2
    <3>2. overgrown' = overgrown
      BY <1>3, <2>2
    <3> QED BY <1>1, <1>10, <3>1, <3>2 DEF AtLeastOnce
  <2> QED BY <2>1, <2>2
<1>14. RewriteInv'
  <2>1. PastTheEnd(tail)' => PastTheEnd(tail)
    BY <1>1, <1>3, <1>4, <1>5 DEF PastTheEnd, TypeOK
  <2> QED BY <1>1, <1>3, <2>1 DEF RewriteInv, Noticed
<1> QED BY <1>6, <1>7, <1>8, <1>12, <1>13, <1>14 DEF CollectorInv

\* What rotation leaves at the path is nothing, or a file with nothing in it.
LEMMA EmptyLog ==
    ASSUME CollectorInv, path' = None \/ files'[path'] = <<>>,
           path' = None \/ tail'.inode # path' \/ ~looked'
    PROVE  AtLeastOnce' /\ NothingSkipped' /\ RewriteInv'
<1>1. Current' = {}
  BY NoElements DEF Current
<1>2. RewriteInv'
  BY DEF RewriteInv, PastTheEnd
<1> QED BY <1>1, <1>2 DEF AtLeastOnce, NothingSkipped

LEMMA RenameInv ==
    ASSUME CollectorInv, Rename
    PROVE  CollectorInv'
<1>1. TypeOK /\ FilesInv /\ FlushInv /\ HandleInv
  BY DEF CollectorInv
<1>2. /\ created < MaxFiles /\ path' = None
      /\ UNCHANGED <<files, created, written, half, pc, stat, fh, tail, buffer, sent,
                     saved, accepted, faults, history>>
  BY DEF Rename
<1>3. TypeOK'
  BY <1>1, <1>2, CollectorAssumption DEF TypeOK, None, history
<1>4. FilesInv' /\ FlushInv' /\ HandleInv'
  BY <1>1, <1>2 DEF FilesInv, FlushInv, HandleInv, Accepted
<1>5. AtLeastOnce' /\ NothingSkipped' /\ RewriteInv'
  BY <1>2, EmptyLog
<1> QED BY <1>3, <1>4, <1>5 DEF CollectorInv

LEMMA CreateInv ==
    ASSUME CollectorInv, Create
    PROVE  CollectorInv'
<1>1. TypeOK /\ FilesInv /\ FlushInv /\ HandleInv
  BY DEF CollectorInv
<1>2. /\ path = None /\ created' = created + 1 /\ path' = created + 1
      /\ UNCHANGED <<files, written, half, pc, stat, fh, tail, buffer, sent, saved,
                     accepted, faults, history>>
  BY DEF Create
<1>3. /\ created \in 1..MaxFiles /\ MaxFiles \in Nat /\ created < MaxFiles
      /\ created + 1 \in Inodes /\ created + 1 > created
      /\ stat.inode \in 0..MaxFiles /\ tail.inode \in 0..MaxFiles /\ saved.inode \in 0..MaxFiles
  BY <1>1, <1>2, CollectorAssumption DEF TypeOK, FilesInv, Inodes
<1>4. TypeOK'
  BY <1>1, <1>2, <1>3 DEF TypeOK, history, Inodes
<1>5. FilesInv'
  <2>1. \A i \in Inodes : i > created + 1 => i > created
    BY <1>3 DEF Inodes
  <2>2. created + 1 # None
    BY <1>3 DEF None
  <2> QED BY <1>1, <1>2, <2>1, <2>2 DEF FilesInv
<1>6. HandleInv'
  BY <1>1, <1>2, <1>3 DEF HandleInv
<1>7. FlushInv'
  BY <1>1, <1>2 DEF FlushInv, Accepted
<1>8. files'[path'] = <<>>
  BY <1>1, <1>2, <1>3 DEF FilesInv
<1>9. tail'.inode # path'
  <2>1. tail.inode <= created
    BY <1>1 DEF HandleInv
  <2> QED BY <1>2, <1>3, <2>1
<1>10. AtLeastOnce' /\ NothingSkipped' /\ RewriteInv'
  BY <1>8, <1>9, EmptyLog
<1> QED BY <1>4, <1>5, <1>6, <1>7, <1>10 DEF CollectorInv

LEMMA TruncateInv ==
    ASSUME CollectorInv, Truncate
    PROVE  CollectorInv'
<1>1. TypeOK /\ FilesInv /\ FlushInv /\ HandleInv
  BY DEF CollectorInv
<1>2. /\ path # None /\ files' = [files EXCEPT ![path] = <<>>] /\ looked' = FALSE
      /\ UNCHANGED <<path, created, written, half, pc, stat, fh, tail, buffer, sent,
                     saved, accepted, faults, dropped, escaped, torn, rewritten, overgrown>>
  BY DEF Truncate
<1>3. /\ path \in Inodes /\ files' \in [Inodes -> Seq(Lines)] /\ files'[path] = <<>>
      /\ \A i \in Inodes \ {path} : files'[i] = files[i]
  BY <1>1, <1>2, NoElements DEF TypeOK, FilesInv
<1>4. TypeOK'
  BY <1>1, <1>2, <1>3 DEF TypeOK
<1>5. FilesInv'
  <2>1. 0 <= written
    BY <1>1, CollectorAssumption DEF TypeOK
  <2>2. \A i \in Inodes : Len(files'[i]) <= written
    BY <1>1, <1>3, <2>1, NoElements DEF FilesInv
  <2> QED BY <1>1, <1>2, <1>3, <2>2 DEF FilesInv
<1>6. FlushInv' /\ HandleInv'
  BY <1>1, <1>2 DEF FlushInv, HandleInv, Accepted
<1>7. AtLeastOnce' /\ NothingSkipped' /\ RewriteInv'
  BY <1>2, <1>3, EmptyLog
<1> QED BY <1>4, <1>5, <1>6, <1>7 DEF CollectorInv

\* Only what the collector has in memory changes: what was held is held, on the
\* stream or lost.
LEMMA QuietInv ==
    ASSUME CollectorInv, Finish \/ Stat \/ OpenFails \/ NotDue
    PROVE  CollectorInv'
<1>1. TypeOK /\ FilesInv /\ FlushInv /\ HandleInv
  BY DEF CollectorInv
<1>2. /\ UNCHANGED <<files, path, created, written, fh, tail, buffer, sent, saved,
                     accepted, faults, dropped, escaped, torn, rewritten, overgrown>>
      /\ looked' \in BOOLEAN
      /\ half' \in {None, half} /\ pc' \in {"poll", "read", "flush", "post", "save"}
      /\ Finish => UNCHANGED <<pc, stat>>
      /\ ~Finish => pc \in {"poll", "read", "flush"} /\ pc' \in {"poll", "read", "flush"}
  BY <1>1 DEF Finish, Stat, OpenFails, NotDue, node, history, TypeOK
<1>3. \/ pc' # "read" /\ stat' = stat
      \/ pc' = pc /\ stat' = stat
      \/ path # None /\ stat' = [inode |-> path, size |-> Len(files[path])]
  BY DEF Finish, Stat, OpenFails, NotDue
<1>4. stat' \in [inode : 0..MaxFiles, size : 0..MaxLines]
  <2>1. CASE stat' = stat
    BY <1>1, <2>1 DEF TypeOK
  <2>2. CASE path # None /\ stat' = [inode |-> path, size |-> Len(files[path])]
    <3>1. path \in Inodes /\ path \in 0..MaxFiles /\ files[path] \in Seq(Lines)
          /\ Len(files[path]) <= written /\ written \in 0..MaxLines
      BY <1>1, <2>2 DEF TypeOK, FilesInv
    <3>2. Len(files[path]) \in 0..MaxLines
      <4>1. Len(files[path]) \in Nat /\ MaxLines \in Nat
        BY <3>1, Elements, CollectorAssumption
      <4> QED BY <3>1, <4>1
    <3> QED BY <2>2, <3>1, <3>2
  <2> QED BY <1>3, <2>1, <2>2
<1>5. TypeOK'
  <2>1. half' \in 0..written' /\ written \in Nat
    BY <1>1, <1>2, CollectorAssumption DEF TypeOK, None
  <2> QED BY <1>1, <1>2, <1>4, <2>1 DEF TypeOK, history
<1>6. FilesInv'
  BY <1>1, <1>2 DEF FilesInv
<1>7. FlushInv'
  BY <1>1, <1>2 DEF FlushInv, Accepted
<1>8. HandleInv'
  <2>1. created \in Int /\ ~(created < created) /\ created <= created
    BY <1>1, CollectorAssumption DEF TypeOK, Inodes
  <2>2. CASE stat' = stat /\ (pc' # "read" \/ pc' = pc)
    BY <1>1, <1>2, <2>2 DEF HandleInv
  <2>3. CASE path # None /\ stat' = [inode |-> path, size |-> Len(files[path])]
    <3>1. stat'.inode = created /\ stat'.inode # None
      BY <1>1, <2>3 DEF FilesInv
    <3> QED BY <1>1, <1>2, <2>1, <3>1 DEF HandleInv
  <2> QED BY <1>3, <2>2, <2>3
\* A stat shows every truncation there has been: the file is shorter than what
\* was read of it.
<1>9. /\ path = None \/ (Noticed => Noticed')
      /\ path = None \/ (PastTheEnd(tail) /\ looked' => looked \/ Noticed')
  BY <1>2 DEF Finish, Stat, OpenFails, NotDue, Noticed, PastTheEnd, history
<1>10. AtLeastOnce' /\ NothingSkipped' /\ RewriteInv'
  BY <1>2, <1>9, Accounted DEF Accepted, Lost, Held
<1> QED BY <1>5, <1>6, <1>7, <1>8, <1>10 DEF CollectorInv

\* What is read of the file at the path is all that was still to be read of it,
\* whatever has been renamed or truncated since the stat.
LEMMA ReadInv ==
    ASSUME CollectorInv, Read
    PROVE  CollectorInv'
<1>1. TypeOK /\ FilesInv /\ FlushInv /\ HandleInv /\ RewriteInv /\ AtLeastOnce /\ NothingSkipped
  BY DEF CollectorInv
<1>2. PICK fresh \in BOOLEAN : fresh = (stat.inode # tail.inode \/ Truncated)
  OBVIOUS
<1>3. PICK file : file = IF fh = None \/ fresh THEN path ELSE fh
  OBVIOUS
<1>4. PICK start : start = IF fresh THEN 0 ELSE tail.offset
  OBVIOUS
<1>5. PICK lines : lines = SubSeq(files[file], start + 1, Len(files[file]))
  OBVIOUS
<1>6. /\ pc = "read" /\ file # None /\ fh' = file
      /\ tail' = [inode |-> stat.inode, offset |-> start + Len(lines)]
      /\ Add(Parsed(lines))
      /\ torn' = torn \cup (ToSet(lines) \cap {half})
      /\ pc' = "flush"
      /\ UNCHANGED <<node, stat, sent, saved, accepted, faults, escaped, looked,
                     rewritten, overgrown>>
  <2>1. fh = None \/ fresh <=> fh = None \/ stat.inode # tail.inode \/ Truncated
    BY <1>2
  <2> QED BY <1>2, <1>3, <1>4, <1>5, <2>1 DEF Read
<1>7. /\ MaxLines \in Nat /\ MaxFiles \in Nat
      /\ stat.inode \in 0..MaxFiles /\ tail.inode \in 0..MaxFiles /\ tail.offset \in 0..MaxLines
      /\ start \in 0..MaxLines /\ created \in Nat /\ path \in 0..MaxFiles
  BY <1>1, <1>4, CollectorAssumption DEF TypeOK, Inodes
<1>8. file \in Inodes /\ file \in 0..MaxFiles /\ files[file] \in Seq(Lines)
  <2>1. file \in 0..MaxFiles
    BY <1>1, <1>3 DEF TypeOK
  <2>2. file \in Inodes
    BY <1>6, <1>7, <2>1 DEF Inodes, None
  <2> QED BY <1>1, <2>1, <2>2 DEF TypeOK
<1>9. PICK n \in 0..MaxLines : n = Len(files[file])
  <2>1. Len(files[file]) <= written /\ written \in 0..MaxLines
    BY <1>1, <1>8 DEF FilesInv, TypeOK
  <2>2. Len(files[file]) \in Nat
    BY <1>8, Elements
  <2> QED BY <1>7, <2>1, <2>2
<1>10. /\ lines \in Seq(Lines) /\ Len(lines) = (IF start + 1 <= n THEN n - (start + 1) + 1 ELSE 0)
       /\ ToSet(lines) = {files[file][i] : i \in start + 1..n}
       /\ ToSet(lines) \subseteq Lines
  <2>1. start + 1 \in Nat \ {0} /\ n \in Nat /\ n <= Len(files[file])
    BY <1>7, <1>9
  <2>2. /\ SubSeq(files[file], start + 1, n) \in Seq(Lines)
        /\ Len(SubSeq(files[file], start + 1, n)) = (IF start + 1 <= n THEN n - (start + 1) + 1 ELSE 0)
        /\ ToSet(SubSeq(files[file], start + 1, n)) = {files[file][i] : i \in start + 1..n}
    BY <1>8, <2>1, PartElements
  <2> QED BY <1>5, <1>9, <2>2, Elements
<1>11. /\ start <= n => start + Len(lines) = n
       /\ start > n => start + Len(lines) = start
       /\ start + Len(lines) \in 0..MaxLines
  BY <1>7, <1>9, <1>10
<1>12. /\ Parsed(lines) \in Seq(Lines)
       /\ ToSet(lines) \subseteq ToSet(Parsed(lines)) \cup (ToSet(lines) \cap {half})
  BY <1>10, ParsedLines
<1>13. /\ buffer' \in Seq(Lines) /\ Len(buffer') <= MaxBuffered
       /\ dropped' \subseteq Lines /\ dropped \subseteq dropped'
       /\ ToSet(buffer) \subseteq ToSet(buffer') \cup dropped'
       /\ ToSet(Parsed(lines)) \subseteq ToSet(buffer') \cup dropped'
  BY <1>1, <1>6, <1>12, AddedLines
<1>14. /\ Accepted' = Accepted /\ Lost \subseteq Lost'
       /\ Held \subseteq Held' \cup Lost' /\ ToSet(lines) \subseteq Held' \cup Lost'
  <2>1. /\ escaped' = escaped /\ rewritten' = rewritten /\ sent' = sent /\ torn \subseteq torn'
        /\ ToSet(lines) \cap {half} \subseteq torn' /\ Accepted' = Accepted
    BY <1>6 DEF Accepted
  <2> QED BY <1>12, <1>13, <2>1 DEF Lost, Held
<1>15. TypeOK'
  <2>1. tail' \in [inode : 0..MaxFiles, offset : 0..MaxLines]
    BY <1>6, <1>7, <1>11
  <2>2. torn' \subseteq Lines
    BY <1>1, <1>6, <1>10 DEF TypeOK
  <2> QED BY <1>1, <1>6, <1>8, <1>13, <2>1, <2>2 DEF TypeOK, node
<1>16. FilesInv' /\ FlushInv'
  BY <1>1, <1>6 DEF FilesInv, FlushInv, node, Accepted
<1>17. HandleInv'
  <2>1. tail'.inode = stat.inode /\ stat' = stat /\ created' = created /\ saved' = saved
    BY <1>6 DEF node
  <2>2. file \in {None, stat.inode} \/ stat.inode < created
    <3>1. CASE fh = None \/ fresh
      <4>1. file = created
        BY <1>1, <1>3, <1>6, <3>1 DEF FilesInv
      <4>2. stat.inode <= created
        BY <1>1 DEF HandleInv
      <4> QED BY <1>7, <4>1, <4>2
    <3>2. CASE ~(fh = None \/ fresh)
      BY <1>1, <1>2, <1>3, <1>6, <3>2 DEF HandleInv
    <3> QED BY <3>1, <3>2
  <2> QED BY <1>1, <1>6, <2>1, <2>2 DEF HandleInv
\* The file that is read is the one at the path if the stat says so.
<1>18. path # None /\ stat.inode = path => file = path
  BY <1>1, <1>2, <1>3, <1>6 DEF HandleInv
\* What was left to read of it is read, but of a log truncated since the stat.
<1>19. ASSUME path # None, stat.inode = path
       PROVE  \/ /\ Current \subseteq Accepted \cup Lost \cup Held \cup ToSet(lines)
                 /\ start + Len(lines) <= Len(files[path])
              \/ start + Len(lines) > Len(files[path]) /\ ~looked
  <2>1. file = path /\ n = Len(files[path])
    BY <1>9, <1>18, <1>19
  <2>2. Current = {files[path][i] : i \in 1..n}
    BY <1>8, <1>19, <2>1, Elements DEF Current
  <2>3. CASE fresh
    <3>1. start = 0 /\ 0 + 1 = 1
      BY <1>4, <2>3
    <3>2. ToSet(lines) = Current
      BY <1>10, <2>1, <2>2, <3>1
    <3>3. start + Len(lines) <= Len(files[path])
      BY <1>9, <1>11, <2>1, <3>1
    <3> QED BY <3>2, <3>3
  <2>4. ~fresh => ~Noticed
    BY <1>2 DEF Noticed, Truncated
  <2>5. CASE ~fresh /\ start <= n
    <3>1. start = tail.offset /\ tail.inode = path
      BY <1>2, <1>4, <1>19, <2>5
    <3>2. ResumesAt(tail) = start
      BY <2>1, <2>5, <3>1 DEF ResumesAt
    <3>3. StillToRead = ToSet(lines)
      BY <1>10, <1>19, <2>1, <2>4, <2>5, <3>2 DEF ToRead, StillToRead
    <3>4. start + Len(lines) <= Len(files[path])
      BY <1>9, <1>11, <2>1, <2>5
    <3> QED BY <1>1, <3>3, <3>4 DEF NothingSkipped
  <2>6. CASE ~fresh /\ start > n
    <3>1. start = tail.offset /\ tail.inode = path
      BY <1>2, <1>4, <1>19, <2>6
    <3>2. PastTheEnd(tail)
      BY <1>19, <2>1, <2>6, <3>1 DEF PastTheEnd
    <3>3. ~looked
      BY <1>1, <2>4, <2>6, <3>2 DEF RewriteInv
    <3>4. start + Len(lines) > Len(files[path])
      BY <1>9, <1>11, <2>1, <2>6
    <3> QED BY <3>3, <3>4
  <2> QED BY <1>7, <1>9, <2>3, <2>5, <2>6
<1>20. /\ Current' = Current /\ files' = files /\ path' = path /\ saved' = saved
       /\ overgrown' = overgrown /\ looked' = looked /\ StillToRead' = ToRead(tail)'
  BY <1>6 DEF Current, node, StillToRead, Noticed
<1>21. NothingSkipped'
  <2>1. CASE path = None
    BY <1>20, <2>1 DEF NothingSkipped, Current
  <2>2. CASE path # None /\ stat.inode = path /\ start + Len(lines) <= Len(files[path])
    <3>1. Current \subseteq Accepted \cup Lost \cup Held \cup ToSet(lines)
      BY <1>7, <1>8, <1>11, <1>18, <1>19, <2>2, Elements
    <3> QED BY <1>14, <1>20, <3>1 DEF NothingSkipped
  <2>3. CASE path # None /\ ~(stat.inode = path /\ start + Len(lines) <= Len(files[path]))
    <3>1. ResumesAt(tail)' = 0
      BY <1>6, <1>20, <2>3 DEF ResumesAt
    <3>2. ToRead(tail)' = {files[path][i] : i \in 1..Len(files[path])}
      <4>1. 0 + 1 = 1
        OBVIOUS
      <4> QED BY <1>20, <2>3, <3>1, <4>1 DEF ToRead
    <3>3. path \in Inodes /\ files[path] \in Seq(Lines)
      BY <1>1, <1>7, <2>3 DEF TypeOK, FilesInv
    <3>4. ToRead(tail)' = Current
      BY <2>3, <3>2, <3>3, Elements DEF Current
    <3> QED BY <1>20, <3>4 DEF NothingSkipped
  <2> QED BY <2>1, <2>2, <2>3
<1>22. AtLeastOnce'
  <2>1. ToRead(saved)' = ToRead(saved)
    BY <1>20 DEF ToRead, ResumesAt
  <2> QED BY <1>1, <1>14, <1>20, <2>1 DEF AtLeastOnce
<1>23. RewriteInv'
  <2>1. SUFFICES ASSUME PastTheEnd(tail)' PROVE ~looked
    BY <1>20 DEF RewriteInv
  <2>2. path # None /\ stat.inode = path /\ start + Len(lines) > Len(files[path])
    BY <1>6, <1>20, <2>1 DEF PastTheEnd
  <2>3. Len(files[path]) \in Nat
    BY <1>8, <1>18, <2>2, Elements
  <2> QED BY <1>11, <1>19, <2>2, <2>3
<1> QED BY <1>15, <1>16, <1>17, <1>21, <1>22, <1>23 DEF CollectorInv

\* The flush leaves nothing in the buffer while the batch is under way.
LEMMA DrainInv ==
    ASSUME CollectorInv, Drain
    PROVE  CollectorInv'
<1>1. TypeOK /\ FilesInv /\ FlushInv /\ HandleInv
  BY DEF CollectorInv
<1>2. /\ sent' = buffer /\ buffer' = <<>> /\ pc = "flush" /\ pc' = "post"
      /\ UNCHANGED <<node, stat, fh, tail, saved, accepted, faults, history>>
  BY DEF Drain
<1>3. TypeOK'
  <2>1. <<>> \in Seq(Lines) /\ Len(<<>>) <= MaxBuffered
    BY NoElements, CollectorAssumption
  <2> QED BY <1>1, <1>2, <2>1 DEF TypeOK, node, history
<1>4. FilesInv' /\ FlushInv' /\ HandleInv'
  BY <1>1, <1>2 DEF FilesInv, FlushInv, HandleInv, node
<1>5. Held \subseteq Held' /\ Accepted' = Accepted /\ Lost' = Lost
  <2>1. sent = <<>>
    BY <1>1, <1>2 DEF FlushInv
  <2> QED BY <1>2, <2>1, NoElements DEF Held, Accepted, Lost, history
<1>6. AtLeastOnce' /\ NothingSkipped' /\ RewriteInv'
  BY <1>2, <1>5, Accounted DEF node, history, Noticed
<1> QED BY <1>3, <1>4, <1>6 DEF CollectorInv

\* After an accepted post the whole batch is on the stream.
LEMMA PostSucceedsInv ==
    ASSUME CollectorInv, PostSucceeds
    PROVE  CollectorInv'
<1>1. TypeOK /\ FilesInv /\ FlushInv /\ HandleInv
  BY DEF CollectorInv
<1>2. /\ Accepts(Len(sent)) /\ pc = "post" /\ pc' = "save"
      /\ UNCHANGED <<node, stat, fh, tail, buffer, sent, saved, faults, history>>
  BY DEF PostSucceeds
<1>3. Len(sent) \in 0..Len(sent)
  <2>1. Len(sent) \in Nat
    BY <1>1, SentLines
  <2> QED BY <2>1
<1>4. /\ accepted' \in [Lines -> Nat] /\ Accepted \subseteq Accepted'
      /\ ToSet(sent) \subseteq Accepted'
  BY <1>1, <1>2, <1>3, AcceptedLines
<1>5. TypeOK'
  BY <1>1, <1>2, <1>4 DEF TypeOK, node, history
<1>6. FilesInv' /\ FlushInv' /\ HandleInv'
  BY <1>1, <1>2, <1>4 DEF FilesInv, FlushInv, HandleInv, node
<1>7. AtLeastOnce' /\ NothingSkipped' /\ RewriteInv'
  BY <1>2, <1>4, Accounted DEF node, history, Lost, Held, Noticed
<1> QED BY <1>5, <1>6, <1>7 DEF CollectorInv

\* After a failed one it is back in the buffer, but for what that drops.
LEMMA PostFailsInv ==
    ASSUME CollectorInv, PostFails
    PROVE  CollectorInv'
<1>1. TypeOK /\ FilesInv /\ FlushInv /\ HandleInv
  BY DEF CollectorInv
<1>2. /\ Add(sent) /\ sent' = <<>> /\ pc = "post" /\ pc' = "poll"
      /\ UNCHANGED <<node, stat, fh, tail, saved, escaped, torn, looked, rewritten, overgrown>>
      /\ \/ UNCHANGED <<accepted, faults>>
         \/ faults < MaxFaults /\ faults' = faults + 1 /\ \E n \in 0..Len(sent) : Accepts(n)
  BY DEF PostFails, PutBack
<1>3. sent \in Seq(Lines)
  BY <1>1 DEF TypeOK
<1>4. /\ buffer' \in Seq(Lines) /\ Len(buffer') <= MaxBuffered
      /\ dropped' \subseteq Lines /\ dropped \subseteq dropped'
      /\ ToSet(buffer) \subseteq ToSet(buffer') \cup dropped'
      /\ ToSet(sent) \subseteq ToSet(buffer') \cup dropped'
  BY <1>1, <1>2, <1>3, AddedLines
<1>5. accepted' \in [Lines -> Nat] /\ Accepted \subseteq Accepted' /\ faults' \in 0..MaxFaults
  <2>1. CASE UNCHANGED <<accepted, faults>>
    BY <1>1, <2>1 DEF TypeOK, Accepted
  <2>2. CASE faults < MaxFaults /\ faults' = faults + 1 /\ \E n \in 0..Len(sent) : Accepts(n)
    BY <1>1, <2>2, AcceptedLines, CollectorAssumption DEF TypeOK
  <2> QED BY <1>2, <2>1, <2>2
<1>6. TypeOK'
  <2>1. <<>> \in Seq(Lines) /\ Len(<<>>) <= MaxBuffered
    BY NoElements, CollectorAssumption
  <2> QED BY <1>1, <1>2, <1>4, <1>5, <2>1 DEF TypeOK, node
<1>7. FilesInv' /\ FlushInv' /\ HandleInv'
  BY <1>1, <1>2 DEF FilesInv, FlushInv, HandleInv, node
<1>8. Lost \subseteq Lost' /\ Held \subseteq Held' \cup Lost'
  BY <1>2, <1>4 DEF Lost, Held
<1>9. AtLeastOnce' /\ NothingSkipped' /\ RewriteInv'
  BY <1>2, <1>5, <1>8, Accounted DEF node, Noticed
<1> QED BY <1>6, <1>7, <1>9 DEF CollectorInv

LEMMA PostEscapesInv ==
    ASSUME CollectorInv, PostEscapes
    PROVE  CollectorInv'
<1>1. TypeOK /\ FilesInv /\ FlushInv /\ HandleInv
  BY DEF CollectorInv
<1>2. /\ sent' = <<>> /\ pc = "post" /\ pc' = "poll" /\ escaped' = escaped \cup ToSet(sent)
      /\ faults < MaxFaults /\ faults' = faults + 1
      /\ UNCHANGED <<node, stat, fh, tail, buffer, saved, dropped, torn, looked, rewritten,
                     overgrown>>
  BY DEF PostEscapes
<1>3. accepted' \in [Lines -> Nat] /\ Accepted \subseteq Accepted'
  <2>1. PICK n \in 0..Len(sent) : Accepts(n)
    BY DEF PostEscapes
  <2> QED BY <1>1, <2>1, AcceptedLines
<1>4. TypeOK'
  <2>1. <<>> \in Seq(Lines) /\ Len(<<>>) <= MaxBuffered
    BY NoElements, CollectorAssumption
  <2>2. ToSet(sent) \subseteq Lines
    BY <1>1, SentLines
  <2>3. faults' \in 0..MaxFaults
    BY <1>1, <1>2, CollectorAssumption DEF TypeOK
  <2> QED BY <1>1, <1>2, <1>3, <2>1, <2>2, <2>3 DEF TypeOK, node
<1>5. FilesInv' /\ FlushInv' /\ HandleInv'
  BY <1>1, <1>2 DEF FilesInv, FlushInv, HandleInv, node
<1>6. Lost \subseteq Lost' /\ Held \subseteq Held' \cup Lost'
  BY <1>2 DEF Lost, Held
<1>7. AtLeastOnce' /\ NothingSkipped' /\ RewriteInv'
  BY <1>2, <1>3, <1>6, Accounted DEF node, Noticed
<1> QED BY <1>4, <1>5, <1>7 DEF CollectorInv

\* The state file names what was read: all of it is accepted or lost by now.
LEMMA SaveInv ==
    ASSUME CollectorInv, Save
    PROVE  CollectorInv'
<1>1. TypeOK /\ FilesInv /\ FlushInv /\ HandleInv /\ NothingSkipped /\ RewriteInv
  BY DEF CollectorInv
<1>2. /\ pc = "save" /\ saved' = tail /\ sent' = <<>> /\ pc' = "poll"
      /\ overgrown' = {}
      /\ UNCHANGED <<node, stat, fh, tail, buffer, accepted, faults, dropped, escaped, torn,
                     looked, rewritten>>
  BY DEF Save
<1>3. TypeOK'
  <2>1. <<>> \in Seq(Lines) /\ Len(<<>>) <= MaxBuffered
    BY NoElements, CollectorAssumption
  <2> QED BY <1>1, <1>2, <2>1 DEF TypeOK, node
<1>4. FilesInv' /\ FlushInv' /\ HandleInv'
  BY <1>1, <1>2 DEF FilesInv, FlushInv, HandleInv, node
<1>5. /\ Current' = Current /\ ToRead(tail)' = ToRead(tail) /\ ToRead(saved)' = ToRead(tail)
      /\ Accepted' = Accepted /\ Lost' = Lost
      /\ StillToRead = ToRead(tail) /\ StillToRead' = ToRead(tail)
  BY <1>2 DEF Current, ToRead, ResumesAt, Accepted, Lost, node, StillToRead, Noticed
<1>6. Held \subseteq Accepted
  <2>1. buffer = <<>> /\ ToSet(sent) \subseteq Accepted
    BY <1>1, <1>2 DEF FlushInv
  <2> QED BY <2>1, NoElements DEF Held
<1>7. RewriteInv'
  BY <1>1, <1>2 DEF RewriteInv, PastTheEnd, Noticed, node
<1>8. AtLeastOnce' /\ NothingSkipped'
  BY <1>1, <1>5, <1>6 DEF AtLeastOnce, NothingSkipped
<1> QED BY <1>3, <1>4, <1>7, <1>8 DEF CollectorInv

LEMMA SaveFailsInv ==
    ASSUME CollectorInv, SaveFails
    PROVE  CollectorInv'
<1>1. TypeOK /\ FilesInv /\ FlushInv /\ HandleInv
  BY DEF CollectorInv
<1>2. /\ pc = "save" /\ sent' = <<>> /\ pc' = "poll"
      /\ faults < MaxFaults /\ faults' = faults + 1
      /\ UNCHANGED <<node, stat, fh, tail, buffer, saved, accepted, history>>
  BY DEF SaveFails
<1>3. TypeOK'
  <2>1. <<>> \in Seq(Lines) /\ Len(<<>>) <= MaxBuffered
    BY NoElements, CollectorAssumption
  <2>2. faults' \in 0..MaxFaults
    BY <1>1, <1>2, CollectorAssumption DEF TypeOK
  <2> QED BY <1>1, <1>2, <2>1, <2>2 DEF TypeOK, node, history
<1>4. FilesInv' /\ FlushInv' /\ HandleInv'
  BY <1>1, <1>2 DEF FilesInv, FlushInv, HandleInv, node
<1>5. Accepted' = Accepted /\ Lost' = Lost /\ Held \subseteq Held' \cup Accepted'
  BY <1>1, <1>2 DEF FlushInv, Held, Accepted, Lost, history
<1>6. AtLeastOnce' /\ NothingSkipped' /\ RewriteInv'
  BY <1>2, <1>5, Accounted DEF node, history, Noticed
<1> QED BY <1>3, <1>4, <1>6 DEF CollectorInv

\* After a restart the collector reads what the state file does not name.
LEMMA RestartInv ==
    ASSUME CollectorInv, Restart
    PROVE  CollectorInv'
<1>1. TypeOK /\ FilesInv /\ FlushInv /\ HandleInv /\ AtLeastOnce /\ RewriteInv
  BY DEF CollectorInv
<1>2. /\ faults < MaxFaults /\ faults' = faults + 1
      /\ tail' = saved /\ fh' = None /\ buffer' = <<>> /\ sent' = <<>> /\ pc' = "poll"
      /\ looked' = FALSE /\ rewritten' = rewritten \cup overgrown
      /\ UNCHANGED <<node, stat, saved, accepted, dropped, escaped, torn, overgrown>>
  BY DEF Restart
<1>3. TypeOK'
  <2>1. <<>> \in Seq(Lines) /\ Len(<<>>) <= MaxBuffered
    BY NoElements, CollectorAssumption
  <2>2. faults' \in 0..MaxFaults /\ None \in 0..MaxFiles
    BY <1>1, <1>2, CollectorAssumption DEF TypeOK, None
  <2> QED BY <1>1, <1>2, <2>1, <2>2 DEF TypeOK, node
<1>4. FilesInv' /\ FlushInv' /\ HandleInv'
  BY <1>1, <1>2 DEF FilesInv, FlushInv, HandleInv, node
<1>5. /\ Current' = Current /\ ToRead(tail)' = ToRead(saved) /\ ToRead(saved)' = ToRead(saved)
      /\ Accepted' = Accepted /\ Lost' = Lost \cup overgrown /\ overgrown' = overgrown
      /\ StillToRead' = ToRead(saved)
  BY <1>2 DEF Current, ToRead, ResumesAt, Accepted, Lost, node, StillToRead, Noticed
<1>6. RewriteInv'
  BY <1>2 DEF RewriteInv
<1>7. AtLeastOnce' /\ NothingSkipped'
  BY <1>1, <1>5 DEF AtLeastOnce, NothingSkipped
<1> QED BY <1>3, <1>4, <1>6, <1>7 DEF CollectorInv

LEMMA CollectorStep == CollectorInv /\ [Next]_vars => CollectorInv'
<1> SUFFICES ASSUME CollectorInv, [Next]_vars PROVE CollectorInv'
  OBVIOUS
<1>1. CASE Environment
  BY <1>1, WriteInv, QuietInv, RenameInv, CreateInv, TruncateInv DEF Environment
<1>2. CASE Loop
  BY <1>2, QuietInv, ReadInv, DrainInv, PostSucceedsInv, PostFailsInv, PostEscapesInv, SaveInv,
     SaveFailsInv DEF Loop
<1>3. CASE Restart
  BY <1>3, RestartInv
<1>4. CASE UNCHANGED vars
  <2>1. TypeOK'
    BY <1>4 DEF vars, node, history, CollectorInv, TypeOK
  <2>2. FilesInv' /\ FlushInv' /\ HandleInv'
    BY <1>4 DEF vars, node, CollectorInv, FilesInv, FlushInv, HandleInv, Accepted
  <2>3. RewriteInv'
    BY <1>4 DEF vars, node, history, CollectorInv, RewriteInv, PastTheEnd, Noticed
  <2>4. AtLeastOnce' /\ NothingSkipped'
    BY <1>4 DEF vars, node, history, CollectorInv, AtLeastOnce, NothingSkipped, Current,
                Accepted, Lost, Held, StillToRead, Noticed, ToRead, ResumesAt
  <2> QED BY <2>1, <2>2, <2>3, <2>4 DEF CollectorInv
<1> QED BY <1>1, <1>2, <1>3, <1>4 DEF Next

-------------------------------------------------------------------------------
(* The theorems *)

\* The invariant holds in every state that Collector reaches, fairness or not.
THEOREM CollectorInductive == Spec => []CollectorInv
BY InitCollector, CollectorStep, PTL DEF Spec

\* Every variable keeps its type, and neither the buffer nor a batch outgrows
\* MG_MAX_BUFFERED_EVENTS.
THEOREM CollectorTypes == Spec => []TypeOK
<1>1. CollectorInv => TypeOK
  BY DEF CollectorInv
<1> QED BY <1>1, CollectorInductive, PTL

\* What the state file says is done was accepted, or given up for one of the
\* reasons that Lost names: a restart at any time loses nothing else, but for a
\* truncated log that is as long again as the state file says.
THEOREM RestartsLoseNothing == Spec => []AtLeastOnce
<1>1. CollectorInv => AtLeastOnce
  BY DEF CollectorInv
<1> QED BY <1>1, CollectorInductive, PTL

\* The running collector has each line of the log before it, in memory, or
\* behind it, whatever logrotate does between a stat and the open: a truncation
\* that a stat can tell costs no line.
THEOREM NoLineIsSkipped == Spec => []NothingSkipped
<1>1. CollectorInv => NothingSkipped
  BY DEF CollectorInv
<1> QED BY <1>1, CollectorInductive, PTL

-------------------------------------------------------------------------------
(* Order and repetition: the invariants *)

\* The lines of a file are in the order of writing; nothing comes before it is
\* written; a stat is never older than the read before it.
LinesInv ==
    /\ \A i \in Inodes : \A p, q \in 1..Len(files[i]) : p < q => files[i][p] < files[i][q]
    /\ \A i \in Inodes : \A line \in ToSet(files[i]) : line <= written
    /\ \A line \in Held \cup Accepted : line <= written
    /\ pc = "read" => tail.inode <= stat.inode

\* How often a line occurs in a sequence.
Occurrences(s, line) == Cardinality({i \in 1..Len(s) : s[i] = line})

\* The lines of the newest file that will not be read again, unless the log is
\* rotated or the collector is restarted.
ReadUp ==
    IF /\ tail.inode = created /\ tail.offset <= Len(files[created])
       /\ ~(pc = "read" /\ Truncated)
    THEN {files[created][p] : p \in 1..tail.offset}
    ELSE {}

\* The lines of an older file that a read under way still takes from it.
LeftOver ==
    IF pc = "read" /\ fh = tail.inode /\ stat.inode = tail.inode /\ tail.inode < created
       /\ ~Truncated
    THEN {files[fh][p] : p \in tail.offset + 1 .. Len(files[fh])}
    ELSE {}

\* The lines of the newest file that are still to be read, and those that are to
\* be read one time more: a read whose stat is from before a rotation takes the
\* new file for the old one.
Unread == ToSet(files[created]) \ ReadUp

Again == IF pc = "read" /\ stat.inode # created THEN ToSet(files[created]) ELSE {}

Count(b) == IF b THEN 1 ELSE 0

\* How often a line is still to be read.
Pending(line) == Count(line \in Unread) + Count(line \in Again) + Count(line \in LeftOver)

\* What is in memory, and what of it is not on the stream yet.
Kept(line) == Occurrences(buffer, line) + Occurrences(sent, line)

Unsent(line) ==
    Occurrences(buffer, line) + (IF pc = "save" THEN 0 ELSE Occurrences(sent, line))

Copies(line)   == Kept(line) + Pending(line)
Promised(line) == accepted[line] + Unsent(line) + Pending(line)

\* Every file brings a line into memory once, and every fault may bring what is
\* in memory to the stream again.
RepeatsInv ==
    \A line \in Lines :
        Copies(line) <= created /\ Promised(line) <= (1 + faults) * created

\* What the collector may still read, before a second file is created.
Live ==
    IF path # None \/ (pc = "read" /\ fh # None) THEN ToSet(files[1]) ELSE {}

\* What is in memory, in the order of posting.
Queue == IF pc \in {"post", "save"} THEN sent ELSE buffer

Settled == Accepted \cup Lost

\* The lines before the tail, if it stays where it is.
Behind ==
    IF tail.inode = 1 /\ tail.offset <= Len(files[1]) /\ ~Noticed
    THEN {files[1][p] : p \in 1..tail.offset} ELSE {}

\* No line of the queue comes before an earlier one of the lines, but for those
\* that are done.
InTurn(queue, lines, done) ==
    \A j \in 1..Len(queue) : \A earlier \in lines :
        earlier < queue[j] => earlier \in done \/ \E i \in 1..j - 1 : queue[i] = earlier

\* Before a second file is created, what is behind the tail is settled or in
\* memory, and no line overtakes an earlier one that is not settled.
OrderInv ==
    created = 1 =>
        /\ Live # {} => Behind \subseteq Settled \cup ToSet(Queue)
        /\ \A later \in Accepted, earlier \in Live \cup Held :
              earlier < later => earlier \in Settled
        /\ InTurn(Queue, Live \cup Held, Settled)

-------------------------------------------------------------------------------
(* How often a line occurs *)

LEMMA OccurrencesType ==
    ASSUME NEW S, NEW s \in Seq(S), NEW line
    PROVE  /\ Occurrences(s, line) \in Nat
           /\ line \notin ToSet(s) => Occurrences(s, line) = 0
           /\ IsFiniteSet({i \in 1..Len(s) : s[i] = line})
<1>1. Len(s) \in Nat /\ ToSet(s) = {s[i] : i \in 1..Len(s)}
  BY Elements
<1>2. IsFiniteSet(1..Len(s))
  <2>1. 1 \in Int /\ Len(s) \in Int
    BY <1>1
  <2> QED BY <2>1, FS_Interval
<1>3. IsFiniteSet({i \in 1..Len(s) : s[i] = line})
  BY <1>2, FS_Subset
<1>4. line \notin ToSet(s) => {i \in 1..Len(s) : s[i] = line} = {}
  BY <1>1
<1> QED BY <1>3, <1>4, FS_CardinalityType, FS_EmptySet DEF Occurrences

LEMMA NoOccurrences ==
    ASSUME NEW line
    PROVE  Occurrences(<<>>, line) = 0
<1>1. <<>> \in Seq({}) /\ line \notin ToSet(<<>>)
  BY NoElements
<1> QED BY <1>1, OccurrencesType

\* A sequence found in another has no more of a line than that one.
LEMMA OccurrencesShifted ==
    ASSUME NEW S, NEW s \in Seq(S), NEW t \in Seq(S), NEW d \in Int, NEW line,
           \A i \in 1..Len(s) : s[i] = line => i + d \in 1..Len(t) /\ t[i + d] = line
    PROVE  Occurrences(s, line) <= Occurrences(t, line)
<1> DEFINE here  == {i \in 1..Len(s) : s[i] = line}
           there == {i \in 1..Len(t) : t[i] = line}
           f     == [i \in here |-> i + d]
<1>1. Len(s) \in Nat /\ Len(t) \in Nat
  BY Elements
<1>2. IsFiniteSet(there)
  BY OccurrencesType
<1>3. here \subseteq Int
  BY <1>1
<1>4. \A i \in here : i + d \in there
  OBVIOUS
<1> HIDE DEF here, there
<1>5. f \in Injection(here, there)
  <2>1. f \in [here -> there]
    BY <1>4
  <2>2. \A a, b \in here : a + d = b + d => a = b
    BY <1>3
  <2> QED BY <2>1, <2>2 DEF Injection, IsInjective
<1>6. Cardinality(here) <= Cardinality(there)
  BY <1>2, <1>5, FS_Injection
<1> QED BY <1>6 DEF here, there, Occurrences

LEMMA OccurrencesJoined ==
    ASSUME NEW S, NEW s \in Seq(S), NEW t \in Seq(S), NEW line
    PROVE  Occurrences(s \o t, line) <= Occurrences(s, line) + Occurrences(t, line)
<1> DEFINE all   == {i \in 1..Len(s \o t) : (s \o t)[i] = line}
           first == {i \in 1..Len(s) : s[i] = line}
           last  == all \ first
           rest  == {i \in 1..Len(t) : t[i] = line}
           f     == [i \in last |-> i - Len(s)]
<1>1. /\ Len(s) \in Nat /\ Len(t) \in Nat /\ s \o t \in Seq(S) /\ Len(s \o t) = Len(s) + Len(t)
      /\ \A i \in 1..Len(s) + Len(t) :
            (s \o t)[i] = IF i <= Len(s) THEN s[i] ELSE t[i - Len(s)]
  BY Elements, ConcatProperties
<1>2. IsFiniteSet(first) /\ IsFiniteSet(rest) /\ IsFiniteSet(all)
  BY <1>1, OccurrencesType
<1>3. all \subseteq 1..Len(s) + Len(t)
  BY <1>1
<1>4. ASSUME NEW i \in last PROVE i - Len(s) \in rest
  <2>1. i \in 1..Len(s) + Len(t) /\ (s \o t)[i] = line
    BY <1>3
  <2>2. ~(i <= Len(s))
    <3>1. SUFFICES ASSUME i <= Len(s) PROVE FALSE
      OBVIOUS
    <3>2. i \in 1..Len(s) /\ s[i] = line
      BY <1>1, <2>1, <3>1
    <3> QED BY <3>2
  <2>3. i - Len(s) \in 1..Len(t)
    BY <1>1, <2>1, <2>2
  <2>4. t[i - Len(s)] = line
    BY <1>1, <2>1, <2>2
  <2> QED BY <2>3, <2>4
<1>5. last \subseteq Int /\ all \subseteq first \cup last
  BY <1>1, <1>3
<1>6. IsFiniteSet(last)
  BY <1>2, FS_Difference
<1> HIDE DEF all, first, last, rest
<1>7. f \in Injection(last, rest)
  <2>1. f \in [last -> rest]
    BY <1>4
  <2>2. \A a, b \in last : a - Len(s) = b - Len(s) => a = b
    BY <1>1, <1>5
  <2> QED BY <2>1, <2>2 DEF Injection, IsInjective
<1>8. Cardinality(last) <= Cardinality(rest)
  BY <1>2, <1>7, FS_Injection
<1>9. Cardinality(first \cup last) <= Cardinality(first) + Cardinality(last)
  <2>1. Cardinality(first \cup last)
          = Cardinality(first) + Cardinality(last) - Cardinality(first \cap last)
    BY <1>2, <1>6, FS_Union
  <2>2. IsFiniteSet(first \cap last) /\ Cardinality(first \cap last) \in Nat
        /\ Cardinality(first) \in Nat /\ Cardinality(last) \in Nat
    BY <1>2, <1>6, FS_Intersection, FS_CardinalityType
  <2> QED BY <2>1, <2>2
<1>10. Cardinality(all) <= Cardinality(first \cup last) /\ IsFiniteSet(first \cup last)
  <2>1. IsFiniteSet(first \cup last)
    BY <1>2, <1>6, FS_Union
  <2> QED BY <1>5, <2>1, FS_Subset
<1>11. /\ Cardinality(all) \in Nat /\ Cardinality(first) \in Nat /\ Cardinality(last) \in Nat
       /\ Cardinality(rest) \in Nat /\ Cardinality(first \cup last) \in Nat
  BY <1>2, <1>6, <1>10, FS_CardinalityType
<1>12. Cardinality(all) <= Cardinality(first) + Cardinality(rest)
  BY <1>8, <1>9, <1>10, <1>11
<1> QED BY <1>12 DEF all, first, rest, Occurrences

\* A line of a sequence without repetition occurs once.
LEMMA OccurrencesOnce ==
    ASSUME NEW S, NEW s \in Seq(S), NEW line,
           \A p, q \in 1..Len(s) : p # q => s[p] # s[q]
    PROVE  Occurrences(s, line) <= 1
<1> DEFINE here == {i \in 1..Len(s) : s[i] = line}
<1>1. CASE here = {}
  <2>1. 0 <= 1
    OBVIOUS
  <2> QED BY <1>1, <2>1, FS_EmptySet DEF Occurrences
<1>2. CASE here # {}
  <2>1. PICK i \in 1..Len(s) : s[i] = line
    BY <1>2
  <2>2. here = {i}
    BY <2>1
  <2>3. Cardinality({i}) = 1
    BY FS_Singleton
  <2>4. Cardinality({i}) <= 1
    BY <2>3
  <2>5. Occurrences(s, line) = Cardinality({i})
    BY <2>2, Zenon DEF Occurrences
  <2> QED BY <2>4, <2>5
<1> QED BY <1>1, <1>2

\* A first part has no more of it than the whole.
LEMMA OccurrencesFirst ==
    ASSUME NEW S, NEW s \in Seq(S), NEW n \in 0..Len(s), NEW line
    PROVE  /\ Cardinality({i \in 1..n : s[i] = line}) \in Nat
           /\ Cardinality({i \in 1..n : s[i] = line}) <= Occurrences(s, line)
<1>1. Len(s) \in Nat /\ IsFiniteSet({i \in 1..Len(s) : s[i] = line})
  <2>1. Len(s) \in Nat
    BY Elements
  <2> QED BY <2>1, OccurrencesType
<1>2. {i \in 1..n : s[i] = line} \subseteq {i \in 1..Len(s) : s[i] = line}
  BY <1>1
<1>3. /\ IsFiniteSet({i \in 1..n : s[i] = line})
      /\ Cardinality({i \in 1..n : s[i] = line}) <= Cardinality({i \in 1..Len(s) : s[i] = line})
  BY <1>1, <1>2, FS_Subset
<1> QED BY <1>3, FS_CardinalityType DEF Occurrences

-------------------------------------------------------------------------------
(* What a read adds to the buffer *)

\* What parses of the lines read is the lines, or all but the last.
LEMMA ParsedPart ==
    ASSUME NEW lines \in Seq(Lines)
    PROVE  /\ Parsed(lines) \in Seq(Lines) /\ Len(Parsed(lines)) <= Len(lines)
           /\ \A i \in 1..Len(Parsed(lines)) : i \in 1..Len(lines) /\ Parsed(lines)[i] = lines[i]
           /\ ToSet(Parsed(lines)) \subseteq ToSet(lines)
<1> SUFFICES /\ Parsed(lines) \in Seq(Lines) /\ Len(Parsed(lines)) <= Len(lines)
             /\ \A i \in 1..Len(Parsed(lines)) : i \in 1..Len(lines) /\ Parsed(lines)[i] = lines[i]
  <2>1. /\ Parsed(lines) \in Seq(Lines) =>
              ToSet(Parsed(lines)) = {Parsed(lines)[i] : i \in 1..Len(Parsed(lines))}
        /\ ToSet(lines) = {lines[i] : i \in 1..Len(lines)}
    BY Elements
  <2> QED BY <2>1
<1>1. Len(lines) \in Nat
  BY Elements
<1>2. CASE lines # <<>> /\ Last(lines) = half
  <2>1. PICK n : n = Len(lines) - 1
    OBVIOUS
  <2>2. n \in Nat /\ n <= Len(lines) /\ \A i \in 1..n : i \in 1..Len(lines)
    <3>1. Len(lines) > 0
      BY <1>2, Elements
    <3> QED BY <1>1, <2>1, <3>1
  <2>3. Parsed(lines) = SubSeq(lines, 1, n)
    BY <1>2, <2>1 DEF Parsed, Front
  <2>4. /\ SubSeq(lines, 1, n) \in Seq(Lines)
        /\ Len(SubSeq(lines, 1, n)) = IF 1 <= n THEN n - 1 + 1 ELSE 0
        /\ \A i \in 1..n - 1 + 1 : SubSeq(lines, 1, n)[i] = lines[1 + i - 1]
    <3>1. 1 \in Int /\ n \in Int /\ \A i \in 1..n : lines[i] \in Lines
      BY <2>2, Elements
    <3> QED BY <3>1, SubSeqProperties
  <2>5. Len(SubSeq(lines, 1, n)) = n /\ \A i \in 1..n : SubSeq(lines, 1, n)[i] = lines[i]
    <3>1. Len(SubSeq(lines, 1, n)) = n
      BY <2>2, <2>4
    <3>2. \A i \in 1..n : i \in 1..n - 1 + 1 /\ 1 + i - 1 = i
      BY <2>2
    <3> QED BY <2>4, <3>1, <3>2
  <2> QED BY <2>2, <2>3, <2>4, <2>5
<1>3. CASE ~(lines # <<>> /\ Last(lines) = half)
  <2>1. Parsed(lines) = lines
    BY <1>3 DEF Parsed
  <2> QED BY <1>1, <2>1
<1> QED BY <1>2, <1>3

\* The buffer is the last part of what it held and what was added; the rest is
\* dropped.
LEMMA AddedPart ==
    ASSUME TypeOK, NEW events \in Seq(Lines), Add(events)
    PROVE  /\ buffer \o events \in Seq(Lines) /\ buffer' \in Seq(Lines)
           /\ \E over \in Nat :
                 /\ \A j \in 1..Len(buffer') :
                       /\ over + j \in 1..Len(buffer \o events)
                       /\ buffer'[j] = (buffer \o events)[over + j]
                 /\ \A i \in 1..Len(buffer \o events) :
                       i > over => i - over \in 1..Len(buffer')
                 /\ \A i \in 1..Len(buffer \o events) :
                       i <= over => (buffer \o events)[i] \in dropped'
<1>1. PICK all : all = buffer \o events
  OBVIOUS
<1>2. buffer \in Seq(Lines) /\ MaxBuffered \in Nat
  BY CollectorAssumption DEF TypeOK
<1>3. all \in Seq(Lines)
  BY <1>1, <1>2, ConcatProperties
<1>4. PICK n \in Nat : n = Len(all)
  BY <1>3, Elements
<1>5. PICK over : over = Overflow(all)
  OBVIOUS
<1>6. over \in Nat /\ over <= n
  BY <1>2, <1>4, <1>5 DEF Overflow
<1>7. buffer' = SubSeq(all, over + 1, n) /\ dropped' = dropped \cup ToSet(SubSeq(all, 1, over))
  BY <1>1, <1>4, <1>5 DEF Add
<1>8. /\ SubSeq(all, over + 1, n) \in Seq(Lines)
      /\ Len(SubSeq(all, over + 1, n)) = IF over + 1 <= n THEN n - (over + 1) + 1 ELSE 0
      /\ \A i \in 1..n - (over + 1) + 1 : SubSeq(all, over + 1, n)[i] = all[(over + 1) + i - 1]
  <2>1. over + 1 \in Int /\ n \in Int /\ \A i \in over + 1..n : all[i] \in Lines
    BY <1>3, <1>4, <1>6, Elements
  <2> QED BY <2>1, SubSeqProperties
<1>9. Len(buffer') = n - over
  BY <1>4, <1>6, <1>7, <1>8
<1>10. \A j \in 1..n - over : over + j \in 1..n /\ buffer'[j] = all[over + j]
  <2>1. \A j \in 1..n - over : /\ j \in 1..n - (over + 1) + 1 /\ (over + 1) + j - 1 = over + j
                               /\ over + j \in 1..n
    BY <1>4, <1>6
  <2> QED BY <1>7, <1>8, <2>1
<1>11. \A i \in 1..n : i > over => i - over \in 1..n - over
  BY <1>4, <1>6
<1>12. \A i \in 1..n : i <= over => all[i] \in dropped'
  <2>1. ToSet(SubSeq(all, 1, over)) = {all[i] : i \in 1..over}
    <3>1. 1 \in Nat \ {0} /\ over \in Nat /\ over <= Len(all)
      BY <1>4, <1>6
    <3> QED BY <1>3, <3>1, PartElements
  <2>2. \A i \in 1..n : i <= over => i \in 1..over
    BY <1>4, <1>6
  <2> QED BY <1>7, <2>1, <2>2
<1> QED BY <1>1, <1>3, <1>4, <1>6, <1>7, <1>8, <1>9, <1>10, <1>11, <1>12

\* Nothing is in the buffer that was not there or added, and no line more often.
LEMMA AddedOccurrences ==
    ASSUME TypeOK, NEW events \in Seq(Lines), Add(events)
    PROVE  /\ ToSet(buffer') \subseteq ToSet(buffer) \cup ToSet(events)
           /\ \A line \in Lines :
                 Occurrences(buffer', line) <= Occurrences(buffer, line) + Occurrences(events, line)
<1>1. PICK all : all = buffer \o events
  OBVIOUS
<1>2. PICK new : new = buffer'
  OBVIOUS
<1>3. buffer \in Seq(Lines) /\ all \in Seq(Lines) /\ new \in Seq(Lines)
  BY <1>1, <1>2, AddedPart DEF TypeOK
<1>4. PICK over \in Nat : \A j \in 1..Len(new) : over + j \in 1..Len(all) /\ new[j] = all[over + j]
  BY <1>1, <1>2, AddedPart
<1>5. /\ Len(all) = Len(buffer) + Len(events) /\ Len(buffer) \in Nat /\ Len(events) \in Nat
      /\ \A i \in 1..Len(buffer) + Len(events) :
            all[i] = IF i <= Len(buffer) THEN buffer[i] ELSE events[i - Len(buffer)]
  BY <1>1, <1>3, ConcatProperties, Elements
<1>6. ToSet(new) \subseteq ToSet(buffer) \cup ToSet(events)
  <2>1. /\ ToSet(new) = {new[i] : i \in 1..Len(new)}
        /\ ToSet(buffer) = {buffer[i] : i \in 1..Len(buffer)}
        /\ ToSet(events) = {events[i] : i \in 1..Len(events)}
    BY <1>3, Elements
  <2>2. ASSUME NEW j \in 1..Len(new) PROVE new[j] \in ToSet(buffer) \cup ToSet(events)
    <3>1. PICK i : i = over + j
      OBVIOUS
    <3>2. i \in 1..Len(buffer) + Len(events) /\ new[j] = all[i]
      BY <1>4, <1>5, <3>1
    <3>3. CASE i <= Len(buffer)
      <4>1. i \in 1..Len(buffer)
        BY <1>5, <3>2, <3>3
      <4> QED BY <1>5, <2>1, <3>2, <3>3, <4>1
    <3>4. CASE ~(i <= Len(buffer))
      <4>1. i - Len(buffer) \in 1..Len(events)
        BY <1>5, <3>2, <3>4
      <4>2. new[j] = events[i - Len(buffer)]
        BY <1>5, <3>2, <3>4
      <4> QED BY <2>1, <4>1, <4>2
    <3> QED BY <3>3, <3>4
  <2> QED BY <2>1, <2>2
<1>7. ASSUME NEW line \in Lines
      PROVE  Occurrences(new, line) <= Occurrences(buffer, line) + Occurrences(events, line)
  <2>1. Occurrences(new, line) <= Occurrences(all, line)
    <3>1. \A i \in 1..Len(new) : new[i] = line => i + over \in 1..Len(all) /\ all[i + over] = line
      <4>1. Len(new) \in Nat
        BY <1>3, Elements
      <4>2. \A i \in 1..Len(new) : i + over = over + i
        BY <4>1
      <4> QED BY <1>4, <4>2
    <3>2. over \in Int
      OBVIOUS
    <3> QED BY <1>3, <3>1, <3>2, OccurrencesShifted
  <2>2. Occurrences(all, line) <= Occurrences(buffer, line) + Occurrences(events, line)
    BY <1>1, <1>3, OccurrencesJoined
  <2>3. /\ Occurrences(new, line) \in Nat /\ Occurrences(all, line) \in Nat
        /\ Occurrences(buffer, line) \in Nat /\ Occurrences(events, line) \in Nat
    BY <1>3, OccurrencesType
  <2> QED BY <2>1, <2>2, <2>3
<1> QED BY <1>2, <1>6, <1>7

\* The buffer stays in turn: what it drops is done.
LEMMA AddedInTurn ==
    ASSUME TypeOK, NEW events \in Seq(Lines), Add(events), NEW lines \in SUBSET Lines,
           NEW done, dropped' \subseteq done, InTurn(buffer \o events, lines, done)
    PROVE  InTurn(buffer', lines, done)
<1>1. PICK all : all = buffer \o events
  OBVIOUS
<1>2. PICK new : new = buffer'
  OBVIOUS
<1>3. all \in Seq(Lines) /\ new \in Seq(Lines)
  BY <1>1, <1>2, AddedPart
<1>4. PICK over \in Nat :
         /\ \A j \in 1..Len(new) : over + j \in 1..Len(all) /\ new[j] = all[over + j]
         /\ \A i \in 1..Len(all) : i > over => i - over \in 1..Len(new)
         /\ \A i \in 1..Len(all) : i <= over => all[i] \in dropped'
  BY <1>1, <1>2, AddedPart
<1>5. Len(all) \in Nat /\ Len(new) \in Nat
  BY <1>3, Elements
<1>6. ASSUME NEW j \in 1..Len(new), NEW earlier \in lines, earlier < new[j], earlier \notin done
      PROVE  \E i \in 1..j - 1 : new[i] = earlier
  <2>1. over + j \in 1..Len(all) /\ earlier < all[over + j]
    BY <1>4, <1>6
  <2>2. PICK i \in 1..(over + j) - 1 : all[i] = earlier
    BY <1>1, <1>6, <2>1 DEF InTurn
  <2>3. i \in 1..Len(all) /\ i < over + j
    BY <1>5, <2>1
  <2>4. i > over
    BY <1>4, <1>6, <2>2, <2>3
  <2>5. i - over \in 1..Len(new) /\ over + (i - over) = i /\ i - over \in 1..j - 1
    BY <1>4, <1>5, <2>3, <2>4
  <2>6. new[i - over] = earlier
    BY <1>4, <2>2, <2>5
  <2> QED BY <2>5, <2>6
<1>7. InTurn(new, lines, done)
  BY <1>6 DEF InTurn
<1> QED BY <1>2, <1>7

\* A post of n events counts each line as often as it is among them.
LEMMA AcceptedCounts ==
    ASSUME TypeOK, NEW n \in 0..Len(sent), Accepts(n)
    PROVE  /\ Accepted \subseteq Accepted'
           /\ Accepted' = Accepted \cup {sent[i] : i \in 1..n}
           /\ \A line \in Lines :
                 /\ accepted[line] \in Nat /\ accepted'[line] \in Nat
                 /\ accepted'[line] = accepted[line] + Cardinality({i \in 1..n : sent[i] = line})
                 /\ accepted'[line] <= accepted[line] + Occurrences(sent, line)
<1> DEFINE at(line) == {i \in 1..n : sent[i] = line}
<1>1. sent \in Seq(Lines) /\ Len(sent) \in Nat /\ accepted \in [Lines -> Nat]
      /\ \A i \in 1..Len(sent) : sent[i] \in Lines
  <2>1. sent \in Seq(Lines) /\ accepted \in [Lines -> Nat]
    BY DEF TypeOK
  <2> QED BY <2>1, Elements
<1>2. accepted' \in [Lines -> Nat] /\ Accepted \subseteq Accepted'
  BY AcceptedLines
<1>3. accepted' = [line \in Lines |-> accepted[line] + Cardinality(at(line))]
  BY DEF Accepts
<1>4. \A line \in Lines : Cardinality(at(line)) \in Nat
                          /\ Cardinality(at(line)) <= Occurrences(sent, line)
  BY <1>1, OccurrencesFirst
<1>5. \A line \in Lines : Cardinality(at(line)) = 0 <=> at(line) = {}
  <2>1. IsFiniteSet(1..n)
    BY <1>1, FS_Interval
  <2>2. \A line \in Lines : IsFiniteSet(at(line))
    BY <2>1, FS_Subset
  <2> QED BY <2>2, FS_EmptySet
<1>6. {sent[i] : i \in 1..n} = {line \in Lines : at(line) # {}}
  <2>1. \A i \in 1..n : sent[i] \in Lines
    BY <1>1
  <2> QED BY <2>1
<1> HIDE DEF at
<1>7. \A line \in Lines : Occurrences(sent, line) \in Nat
  BY <1>1, OccurrencesType
<1>8. \A line \in Lines : /\ accepted[line] \in Nat /\ accepted'[line] \in Nat
                          /\ accepted'[line] = accepted[line] + Cardinality(at(line))
                          /\ accepted'[line] <= accepted[line] + Occurrences(sent, line)
  BY <1>1, <1>2, <1>3, <1>4, <1>7
<1>9. Accepted' = Accepted \cup {line \in Lines : at(line) # {}}
  <2>1. \A line \in Lines : accepted'[line] > 0 <=> accepted[line] > 0 \/ at(line) # {}
    BY <1>4, <1>5, <1>8
  <2> QED BY <2>1 DEF Accepted
<1>10. Accepted' = Accepted \cup {sent[i] : i \in 1..n}
  BY <1>6, <1>9
<1> QED BY <1>2, <1>8, <1>10 DEF at

-------------------------------------------------------------------------------
(* The order of writing *)

LEMMA InitLines == Init => LinesInv
<1> SUFFICES ASSUME Init PROVE LinesInv
  OBVIOUS
<1>1. ToSet(<<>>) = {} /\ Len(<<>>) = 0
  BY NoElements
<1>2. \A i \in Inodes : files[i] = <<>>
  BY DEF Init
<1>3. Held = {} /\ Accepted = {} /\ pc # "read"
  BY <1>1 DEF Init, Held, Accepted
<1> QED BY <1>1, <1>2, <1>3 DEF LinesInv

LEMMA WriteLines ==
    ASSUME CollectorInv, LinesInv, Write
    PROVE  LinesInv'
<1>1. PICK w : w = written + 1
  OBVIOUS
<1>2. /\ path # None /\ written' = w /\ files' = [files EXCEPT ![path] = Append(@, w)]
      /\ UNCHANGED <<pc, stat, tail, buffer, sent, accepted>>
  BY <1>1 DEF Write
<1>3. /\ path \in Inodes /\ files \in [Inodes -> Seq(Lines)] /\ written \in Nat /\ w \in Lines
  <2>1. written \in 0..MaxLines /\ written < MaxLines /\ MaxLines \in Nat
    BY CollectorAssumption DEF CollectorInv, TypeOK, Write
  <2> QED BY <1>1, <1>2, <2>1 DEF CollectorInv, TypeOK, FilesInv, Lines
<1>4. PICK n \in Nat : n = Len(files[path])
  BY <1>3, Elements
<1>5. /\ Len(files'[path]) = n + 1 /\ \A i \in 1..n : files'[path][i] = files[path][i]
      /\ files'[path][n + 1] = w /\ ToSet(files'[path]) = ToSet(files[path]) \cup {w}
      /\ \A i \in Inodes \ {path} : files'[i] = files[i]
  <2>1. files[path] \in Seq(Lines) /\ files'[path] = Append(files[path], w)
        /\ \A i \in Inodes \ {path} : files'[i] = files[i]
    BY <1>2, <1>3
  <2> QED BY <1>3, <1>4, <2>1, AppendElements
<1>6. \A i \in 1..n : files[path][i] \in ToSet(files[path]) /\ files[path][i] \in Nat
  <2>1. files[path] \in Seq(Lines)
    BY <1>3
  <2>2. /\ ToSet(files[path]) = {files[path][i] : i \in 1..n}
        /\ \A i \in 1..n : files[path][i] \in Lines
    BY <1>4, <2>1, Elements
  <2>3. Lines \subseteq Nat
    BY CollectorAssumption DEF Lines
  <2> QED BY <2>2, <2>3
<1>7. ASSUME NEW i \in Inodes, NEW p \in 1..Len(files'[i]), NEW q \in 1..Len(files'[i]), p < q
      PROVE  files'[i][p] < files'[i][q]
  <2>1. CASE i # path
    BY <1>5, <1>7, <2>1 DEF LinesInv
  <2>2. CASE i = path /\ q \in 1..n
    <3>1. p \in 1..n
      BY <1>4, <1>5, <1>7, <2>2
    <3> QED BY <1>3, <1>4, <1>5, <1>7, <2>2, <3>1 DEF LinesInv
  <2>3. CASE i = path /\ q \notin 1..n
    <3>1. q = n + 1 /\ p \in 1..n
      BY <1>4, <1>5, <1>7, <2>3
    <3>2. files[path][p] <= written
      BY <1>3, <1>6, <3>1 DEF LinesInv
    <3>3. files[path][p] < w
      BY <1>1, <1>3, <1>6, <3>1, <3>2
    <3> QED BY <1>5, <2>3, <3>1, <3>3
  <2> QED BY <2>1, <2>2, <2>3
<1>8. ASSUME NEW i \in Inodes, NEW line \in ToSet(files'[i])
      PROVE  line <= written'
  <2>1. line \in Lines /\ (line = w \/ line \in ToSet(files[i]))
    <3>1. files[i] \in Seq(Lines)
      BY <1>3
    <3>2. ToSet(files[i]) \subseteq Lines
      BY <3>1, Elements
    <3> QED BY <1>3, <1>5, <3>2
  <2>2. line \in Int /\ w \in Int
    BY <1>3, <2>1, CollectorAssumption DEF Lines
  <2>3. line = w \/ line <= written
    BY <2>1 DEF LinesInv
  <2> QED BY <1>1, <1>2, <1>3, <2>2, <2>3
<1>9. Held' = Held /\ Accepted' = Accepted /\ Held \cup Accepted \subseteq Lines
  <2>1. buffer \in Seq(Lines) /\ sent \in Seq(Lines)
    BY DEF CollectorInv, TypeOK
  <2> QED BY <1>2, <2>1, Elements DEF Held, Accepted
<1>10. ASSUME NEW line \in Held' \cup Accepted' PROVE line <= written'
  <2>1. line \in Int /\ line <= written
    BY <1>9, CollectorAssumption DEF LinesInv, Lines
  <2> QED BY <1>1, <1>2, <1>3, <2>1
<1>11. pc' = "read" => tail'.inode <= stat'.inode
  BY <1>2 DEF LinesInv
<1> QED BY <1>7, <1>8, <1>10, <1>11 DEF LinesInv

LEMMA TruncateLines ==
    ASSUME CollectorInv, LinesInv, Truncate
    PROVE  LinesInv'
<1>1. /\ path # None /\ files' = [files EXCEPT ![path] = <<>>]
      /\ UNCHANGED <<written, pc, stat, tail, buffer, sent, accepted>>
  BY DEF Truncate
<1>2. \A i \in Inodes : files'[i] = files[i] \/ files'[i] = <<>>
  BY <1>1 DEF CollectorInv, TypeOK
<1>3. ToSet(<<>>) = {} /\ Len(<<>>) = 0 /\ 1..0 = {}
  BY NoElements
<1>4. Held' = Held /\ Accepted' = Accepted
  BY <1>1 DEF Held, Accepted
<1>5. \A i \in Inodes : \A p, q \in 1..Len(files'[i]) : p < q => files'[i][p] < files'[i][q]
  BY <1>2, <1>3 DEF LinesInv
<1>6. \A i \in Inodes : \A line \in ToSet(files'[i]) : line <= written'
  BY <1>1, <1>2, <1>3 DEF LinesInv
<1> QED BY <1>1, <1>4, <1>5, <1>6 DEF LinesInv

\* Whatever leaves the files alone and takes lines from them only.
LEMMA LinesKept ==
    ASSUME LinesInv, UNCHANGED <<files, written>>,
           Held' \cup Accepted' \subseteq Held \cup Accepted \cup UNION {ToSet(files[i]) : i \in Inodes},
           pc' = "read" => tail'.inode <= stat'.inode
    PROVE  LinesInv'
<1>1. \A line \in Held' \cup Accepted' : line <= written
  BY DEF LinesInv
<1> QED BY <1>1 DEF LinesInv

\* What a read takes is the rest of one file.
LEMMA ReadPart ==
    ASSUME CollectorInv, Read
    PROVE  \E file \in Inodes, start \in Nat, lines \in Seq(Lines) :
              /\ file = IF fh = None \/ stat.inode # tail.inode \/ Truncated THEN path ELSE fh
              /\ start = IF stat.inode # tail.inode \/ Truncated THEN 0 ELSE tail.offset
              /\ files[file] \in Seq(Lines)
              /\ start + Len(lines)
                    = IF start <= Len(files[file]) THEN Len(files[file]) ELSE start
              /\ \A i \in 1..Len(lines) : /\ start + i \in 1..Len(files[file])
                                          /\ lines[i] = files[file][start + i]
              /\ ToSet(lines) = {files[file][i] : i \in start + 1..Len(files[file])}
              /\ Add(Parsed(lines))
              /\ fh' = file /\ tail' = [inode |-> stat.inode, offset |-> start + Len(lines)]
              /\ torn' = torn \cup (ToSet(lines) \cap {half})
<1>1. PICK fresh \in BOOLEAN : fresh = (stat.inode # tail.inode \/ Truncated)
  OBVIOUS
<1>2. PICK file : file = IF fh = None \/ stat.inode # tail.inode \/ Truncated THEN path ELSE fh
  OBVIOUS
<1>3. PICK start : start = IF stat.inode # tail.inode \/ Truncated THEN 0 ELSE tail.offset
  OBVIOUS
<1>4. PICK lines : lines = SubSeq(files[file], start + 1, Len(files[file]))
  OBVIOUS
<1>5. /\ file # None /\ fh' = file
      /\ tail' = [inode |-> stat.inode, offset |-> start + Len(lines)]
      /\ Add(Parsed(lines)) /\ torn' = torn \cup (ToSet(lines) \cap {half})
  BY <1>2, <1>3, <1>4 DEF Read
<1>6. file \in Inodes /\ start \in Nat /\ files[file] \in Seq(Lines)
  <2>1. file \in 0..MaxFiles /\ MaxFiles \in Nat /\ start \in 0..MaxLines /\ MaxLines \in Nat
    BY <1>2, <1>3, CollectorAssumption DEF CollectorInv, TypeOK
  <2>2. file \in Inodes
    BY <1>5, <2>1 DEF Inodes, None
  <2> QED BY <2>1, <2>2 DEF CollectorInv, TypeOK
<1>7. PICK n \in Nat : n = Len(files[file])
  BY <1>6, Elements
<1>8. /\ lines \in Seq(Lines) /\ Len(lines) = (IF start + 1 <= n THEN n - (start + 1) + 1 ELSE 0)
      /\ ToSet(lines) = {files[file][i] : i \in start + 1..n}
  <2>1. start + 1 \in Nat \ {0} /\ n \in Nat /\ n <= Len(files[file]) /\ files[file] \in Seq(Lines)
    BY <1>6, <1>7
  <2>2. /\ SubSeq(files[file], start + 1, n) \in Seq(Lines)
        /\ Len(SubSeq(files[file], start + 1, n)) = (IF start + 1 <= n THEN n - (start + 1) + 1 ELSE 0)
        /\ ToSet(SubSeq(files[file], start + 1, n)) = {files[file][i] : i \in start + 1..n}
    BY <2>1, PartElements
  <2> QED BY <1>4, <1>7, <2>2
<1>9. \A i \in 1..n - (start + 1) + 1 : lines[i] = files[file][(start + 1) + i - 1]
  <2>1. start + 1 \in Int /\ n \in Int /\ \A i \in start + 1..n : files[file][i] \in Lines
    <3>1. \A i \in start + 1..n : i \in 1..n
      BY <1>6
    <3> QED BY <1>6, <1>7, <3>1, Elements
  <2>2. \A i \in 1..n - (start + 1) + 1 :
           SubSeq(files[file], start + 1, n)[i] = files[file][(start + 1) + i - 1]
    BY <2>1, SubSeqProperties
  <2> QED BY <1>4, <1>7, <2>2
<1>10. start + Len(lines) = IF start <= n THEN n ELSE start
  BY <1>6, <1>8
<1>11. \A i \in 1..Len(lines) : start + i \in 1..n /\ lines[i] = files[file][start + i]
  <2>1. \A i \in 1..Len(lines) : /\ i \in 1..n - (start + 1) + 1 /\ (start + 1) + i - 1 = start + i
                                 /\ start + i \in 1..n
    BY <1>6, <1>8
  <2> QED BY <1>9, <2>1
<1>12. /\ files[file] \in Seq(Lines)
       /\ start + Len(lines) = IF start <= Len(files[file]) THEN Len(files[file]) ELSE start
       /\ \A i \in 1..Len(lines) : /\ start + i \in 1..Len(files[file])
                                   /\ lines[i] = files[file][start + i]
       /\ ToSet(lines) = {files[file][i] : i \in start + 1..Len(files[file])}
  BY <1>6, <1>7, <1>8, <1>10, <1>11
<1>13. file \in Inodes /\ start \in Nat /\ lines \in Seq(Lines)
  BY <1>6, <1>8
<1> QED BY <1>2, <1>3, <1>5, <1>12, <1>13, Zenon

LEMMA ReadLines ==
    ASSUME CollectorInv, LinesInv, Read
    PROVE  LinesInv'
<1>1. pc' = "flush" /\ UNCHANGED <<files, written, sent, accepted>> /\ TypeOK
  BY DEF Read, node, CollectorInv
<1>2. PICK file \in Inodes, start \in Nat, lines \in Seq(Lines) :
         /\ files[file] \in Seq(Lines) /\ Add(Parsed(lines))
         /\ ToSet(lines) = {files[file][i] : i \in start + 1..Len(files[file])}
  BY ReadPart
<1>3. ToSet(lines) \subseteq ToSet(files[file])
  <2>1. Len(files[file]) \in Nat /\ ToSet(files[file]) = {files[file][i] : i \in 1..Len(files[file])}
    BY <1>2, Elements
  <2>2. \A i \in start + 1..Len(files[file]) : i \in 1..Len(files[file])
    BY <2>1
  <2> QED BY <1>2, <2>1, <2>2
<1>4. Parsed(lines) \in Seq(Lines) /\ ToSet(Parsed(lines)) \subseteq ToSet(lines)
  BY ParsedPart
<1>5. ToSet(buffer') \subseteq ToSet(buffer) \cup ToSet(files[file])
  BY <1>1, <1>2, <1>3, <1>4, AddedOccurrences
<1>6. Held' \cup Accepted' \subseteq Held \cup Accepted \cup UNION {ToSet(files[i]) : i \in Inodes}
  BY <1>1, <1>5 DEF Held, Accepted
<1> QED BY <1>1, <1>6, LinesKept

LEMMA LinesStep ==
    ASSUME CollectorInv, LinesInv, [Next]_vars
    PROVE  LinesInv'
<1>1. TypeOK /\ FilesInv /\ FlushInv /\ HandleInv
  BY DEF CollectorInv
<1>2. CASE Write \/ Truncate \/ Read
  BY <1>2, WriteLines, TruncateLines, ReadLines
<1>3. CASE Stat
  <2>1. /\ UNCHANGED <<files, written, tail, buffer, sent, accepted>>
        /\ pc' = "read" => stat'.inode = path /\ path # None
    BY <1>3 DEF Stat, node
  <2>2. pc' = "read" => tail'.inode <= stat'.inode
    BY <1>1, <2>1 DEF HandleInv, FilesInv
  <2>3. Held' = Held /\ Accepted' = Accepted
    BY <2>1 DEF Held, Accepted
  <2> QED BY <2>1, <2>2, <2>3, LinesKept
<1>4. CASE Finish \/ Rename \/ Create \/ OpenFails \/ NotDue \/ UNCHANGED vars
  <2>1. UNCHANGED <<files, written, tail, stat, buffer, sent, accepted>>
        /\ (pc' = "read" => pc = "read")
    BY <1>4 DEF Finish, Rename, Create, OpenFails, NotDue, vars, node
  <2>2. Held' = Held /\ Accepted' = Accepted
    BY <2>1 DEF Held, Accepted
  <2> QED BY <2>1, <2>2, LinesKept DEF LinesInv
<1>5. CASE Drain \/ Save \/ SaveFails \/ Restart
  <2>1. /\ UNCHANGED <<files, written, accepted>> /\ pc' # "read"
        /\ \/ sent' = buffer /\ buffer' = <<>>
           \/ sent' = <<>> /\ buffer' \in {buffer, <<>>}
    BY <1>5 DEF Drain, Save, SaveFails, Restart, node
  <2>2. Held' \subseteq Held /\ Accepted' = Accepted
    BY <2>1, NoElements DEF Held, Accepted
  <2> QED BY <2>1, <2>2, LinesKept
<1>6. CASE PostSucceeds \/ PostFails \/ PostEscapes
  <2>1. /\ UNCHANGED <<files, written>> /\ pc' # "read"
        /\ \/ accepted' = accepted
           \/ \E n \in 0..Len(sent) : Accepts(n)
        /\ \/ UNCHANGED <<buffer, sent>>
           \/ sent' = <<>> /\ (buffer' = buffer \/ Add(sent))
    <3>1. Len(sent) \in 0..Len(sent)
      <4>1. Len(sent) \in Nat
        BY <1>1, SentLines
      <4> QED BY <4>1
    <3> QED BY <1>6, <3>1 DEF PostSucceeds, PostFails, PostEscapes, PutBack, node
  <2>2. sent \in Seq(Lines) /\ Len(sent) \in Nat /\ ToSet(sent) = {sent[i] : i \in 1..Len(sent)}
    BY <1>1, SentLines
  <2>3. Accepted' \subseteq Accepted \cup ToSet(sent)
    <3>1. CASE accepted' = accepted
      BY <3>1 DEF Accepted
    <3>2. CASE \E n \in 0..Len(sent) : Accepts(n)
      <4>1. PICK n \in 0..Len(sent) : Accepts(n)
        BY <3>2
      <4>2. Accepted' = Accepted \cup {sent[i] : i \in 1..n}
        BY <1>1, <4>1, AcceptedCounts
      <4>3. \A i \in 1..n : i \in 1..Len(sent)
        BY <2>2
      <4> QED BY <2>2, <4>2, <4>3
    <3> QED BY <2>1, <3>1, <3>2
  <2>4. Held' \subseteq Held
    <3>1. CASE UNCHANGED <<buffer, sent>>
      BY <3>1 DEF Held
    <3>2. CASE sent' = <<>> /\ buffer' = buffer
      BY <3>2, NoElements DEF Held
    <3>3. CASE sent' = <<>> /\ Add(sent)
      BY <1>1, <2>2, <3>3, AddedOccurrences, NoElements DEF Held
    <3> QED BY <2>1, <3>1, <3>2, <3>3
  <2>5. Held' \cup Accepted' \subseteq Held \cup Accepted
    BY <2>3, <2>4 DEF Held
  <2> QED BY <2>1, <2>5, LinesKept
<1> QED BY <1>2, <1>3, <1>4, <1>5, <1>6 DEF Next, Loop, Environment

-------------------------------------------------------------------------------
(* How often a line reaches the stream *)

LEMMA CountType == \A b \in BOOLEAN : Count(b) \in {0, 1}
BY DEF Count

LEMMA PendingShrinks ==
    ASSUME NEW line, line \in Unread' => line \in Unread, line \in Again' => line \in Again,
           line \in LeftOver' => line \in LeftOver
    PROVE  Pending(line)' <= Pending(line)
BY DEF Pending, Count

\* Only the newest file changes: what is left of an older one stays.
LEMMA LeftOverKept ==
    ASSUME CollectorInv, UNCHANGED <<created, pc, stat, fh, tail>>,
           \A i \in Inodes \ {created} : files'[i] = files[i]
    PROVE  /\ LeftOver' = LeftOver
           /\ LeftOver # {} => fh \in Inodes
<1>1. CASE pc = "read" /\ fh = tail.inode /\ stat.inode = tail.inode /\ tail.inode < created
  <2>1. /\ fh \in 0..MaxFiles /\ MaxFiles \in Nat /\ stat.inode # None
        /\ created \in Nat /\ tail.inode \in 0..MaxFiles
    BY <1>1, CollectorAssumption DEF CollectorInv, TypeOK, HandleInv, Inodes
  <2>2. fh \in 1..MaxFiles /\ fh # created
    BY <1>1, <2>1 DEF None
  <2>3. fh \in Inodes \ {created}
    BY <2>2 DEF Inodes
  <2>4. files'[fh] = files[fh]
    BY <2>3
  <2>5. fh' = fh /\ tail' = tail /\ stat' = stat /\ pc' = pc /\ created' = created
        /\ (Truncated' <=> Truncated)
    BY DEF Truncated
  <2>6. LeftOver' = LeftOver
    BY <2>4, <2>5 DEF LeftOver
  <2> QED BY <2>3, <2>6
<1>2. CASE ~(pc = "read" /\ fh = tail.inode /\ stat.inode = tail.inode /\ tail.inode < created)
  BY <1>2 DEF LeftOver
<1> QED BY <1>1, <1>2

LEMMA RepeatsNumbers ==
    ASSUME CollectorInv, CollectorInv', NEW line \in Lines
    PROVE  /\ created \in Nat /\ created >= 1 /\ faults \in Nat
           /\ created' \in Nat /\ created' >= 1 /\ faults' \in Nat
           /\ accepted[line] \in Nat /\ accepted'[line] \in Nat
           /\ Pending(line) \in 0..3 /\ Pending(line)' \in 0..3
           /\ Occurrences(buffer, line) \in Nat /\ Occurrences(sent, line) \in Nat
           /\ Occurrences(buffer', line) \in Nat /\ Occurrences(sent', line) \in Nat
           /\ Kept(line) = Occurrences(buffer, line) + Occurrences(sent, line)
           /\ Kept(line)' = Occurrences(buffer', line) + Occurrences(sent', line)
           /\ Unsent(line)
                = Occurrences(buffer, line) + (IF pc = "save" THEN 0 ELSE Occurrences(sent, line))
           /\ Unsent(line)'
                = Occurrences(buffer', line) + (IF pc' = "save" THEN 0 ELSE Occurrences(sent', line))
<1>1. created \in Nat /\ created >= 1 /\ faults \in Nat /\ accepted[line] \in Nat
  BY CollectorAssumption DEF CollectorInv, TypeOK, Inodes
<1>2. created' \in Nat /\ created' >= 1 /\ faults' \in Nat /\ accepted'[line] \in Nat
  BY CollectorAssumption DEF CollectorInv, TypeOK, Inodes
<1>3. Pending(line) \in 0..3 /\ Pending(line)' \in 0..3
  BY DEF Pending, Count
<1>4. Occurrences(buffer, line) \in Nat /\ Occurrences(sent, line) \in Nat
  <2>1. buffer \in Seq(Lines) /\ sent \in Seq(Lines)
    BY DEF CollectorInv, TypeOK
  <2> QED BY <2>1, OccurrencesType
<1>5. Occurrences(buffer', line) \in Nat /\ Occurrences(sent', line) \in Nat
  <2>1. buffer' \in Seq(Lines) /\ sent' \in Seq(Lines)
    BY DEF CollectorInv, TypeOK
  <2>2. PICK b, s : b = buffer' /\ s = sent'
    OBVIOUS
  <2>3. b \in Seq(Lines) /\ s \in Seq(Lines)
    BY <2>1, <2>2
  <2> QED BY <2>2, <2>3, OccurrencesType
<1>6. /\ Kept(line) = Occurrences(buffer, line) + Occurrences(sent, line)
      /\ Kept(line)' = Occurrences(buffer', line) + Occurrences(sent', line)
      /\ Unsent(line)
           = Occurrences(buffer, line) + (IF pc = "save" THEN 0 ELSE Occurrences(sent, line))
      /\ Unsent(line)'
           = Occurrences(buffer', line) + (IF pc' = "save" THEN 0 ELSE Occurrences(sent', line))
  BY DEF Kept, Unsent, Occurrences
<1> QED BY <1>1, <1>2, <1>3, <1>4, <1>5, <1>6

\* What the bound gains with a fault and with a file.
LEMMA BoundGrows ==
    ASSUME NEW f \in Nat, NEW c \in Nat
    PROVE  /\ (1 + f) * c \in Nat
           /\ (1 + (f + 1)) * c = (1 + f) * c + c
           /\ (1 + f) * (c + 1) >= (1 + f) * c + 1
           /\ c <= (1 + f) * c
<1>1. (1 + (f + 1)) * c = (1 + f) * c + c
  OBVIOUS
<1>2. (1 + f) * (c + 1) = (1 + f) * c + (1 + f)
  OBVIOUS
<1>3. (1 + f) * c = c + f * c /\ f * c \in Nat
  OBVIOUS
<1> QED BY <1>1, <1>2, <1>3

\* A step keeps the bounds if no line gets more to come than it had, or no more
\* than once for each file, or, with a fault, that much more.
LEMMA RepeatsKept ==
    ASSUME CollectorInv, CollectorInv', RepeatsInv,
           created' = created, faults' \in {faults, faults + 1},
           \A line \in Lines :
               /\ Copies(line)' <= Copies(line) \/ Copies(line)' <= created
               /\ \/ Promised(line)' <= Promised(line)
                  \/ Promised(line)' <= created
                  \/ faults' = faults + 1 /\ Promised(line)' <= Promised(line) + created
    PROVE  RepeatsInv'
<1> SUFFICES ASSUME NEW line \in Lines
             PROVE  Copies(line)' <= created' /\ Promised(line)' <= (1 + faults') * created'
  BY DEF RepeatsInv
<1>1. PICK c, d, p, q, n, f :
         /\ c = Copies(line) /\ d = Copies(line)' /\ p = Promised(line) /\ q = Promised(line)'
         /\ n = created /\ f = faults
  OBVIOUS
<1>2. c \in Nat /\ d \in Nat /\ p \in Nat /\ q \in Nat /\ n \in Nat /\ f \in Nat
  <2>1. Kept(line) \in Nat /\ Kept(line)' \in Nat /\ Unsent(line) \in Nat /\ Unsent(line)' \in Nat
    BY RepeatsNumbers
  <2>2. Pending(line) \in Nat /\ Pending(line)' \in Nat
        /\ accepted[line] \in Nat /\ accepted'[line] \in Nat /\ created \in Nat /\ faults \in Nat
    BY RepeatsNumbers
  <2>3. Copies(line) \in Nat /\ Copies(line)' \in Nat
    BY <2>1, <2>2 DEF Copies
  <2>4. Promised(line) \in Nat /\ Promised(line)' \in Nat
    BY <2>1, <2>2 DEF Promised
  <2> QED BY <1>1, <2>2, <2>3, <2>4
<1>3. c <= n /\ p <= (1 + f) * n
  BY <1>1 DEF RepeatsInv
<1>4. d <= n
  <2>1. d <= c \/ d <= n
    BY <1>1
  <2> QED BY <1>2, <1>3, <2>1
<1>5. /\ (1 + f) * n \in Nat /\ (1 + (f + 1)) * n = (1 + f) * n + n /\ n <= (1 + f) * n
  BY <1>2, BoundGrows
<1>6. CASE faults' = faults
  <2>1. q <= p \/ q <= n \/ faults' = faults + 1
    BY <1>1
  <2>2. faults' # faults + 1
    BY <1>1, <1>2, <1>6
  <2>3. q <= (1 + f) * n
    BY <1>2, <1>3, <1>5, <2>1, <2>2
  <2> QED BY <1>1, <1>4, <1>6, <2>3
<1>7. CASE faults' = faults + 1
  <2>1. q <= p \/ q <= n \/ q <= p + n
    BY <1>1
  <2>2. q <= (1 + f) * n + n
    BY <1>2, <1>3, <1>5, <2>1
  <2>3. q <= (1 + (f + 1)) * n
    BY <1>5, <2>2
  <2> QED BY <1>1, <1>4, <1>7, <2>3
<1> QED BY <1>6, <1>7

LEMMA InitRepeats == Init => RepeatsInv
<1> SUFFICES ASSUME Init, NEW line \in Lines
             PROVE  Copies(line) <= created /\ Promised(line) <= (1 + faults) * created
  BY DEF RepeatsInv
<1>1. ToSet(<<>>) = {} /\ files[created] = <<>> /\ pc # "read"
  BY NoElements, CollectorAssumption DEF Init, Inodes
<1>2. Unread = {} /\ Again = {} /\ LeftOver = {}
  BY <1>1 DEF Unread, Again, LeftOver
<1>3. Pending(line) = 0
  BY <1>2 DEF Pending, Count
<1>4. Occurrences(buffer, line) = 0 /\ Occurrences(sent, line) = 0
  BY NoOccurrences DEF Init
<1>5. created = 1 /\ faults = 0 /\ accepted[line] = 0
  BY DEF Init
<1>6. Copies(line) = 0 /\ Promised(line) = 0
  BY <1>3, <1>4, <1>5 DEF Copies, Promised, Kept, Unsent
<1> QED BY <1>5, <1>6

\* Nothing comes into memory, and nothing is taken from it before it is posted.
LEMMA QuietRepeats ==
    ASSUME CollectorInv, CollectorInv', RepeatsInv,
           created' = created, faults' \in {faults, faults + 1}, accepted' = accepted,
           Unread' \subseteq Unread, Again' \subseteq Again, LeftOver' \subseteq LeftOver,
           \/ UNCHANGED <<buffer, sent>> /\ (pc' = "save" <=> pc = "save")
           \/ sent = <<>> /\ sent' = buffer /\ buffer' = <<>> /\ pc # "save" /\ pc' # "save"
           \/ UNCHANGED buffer /\ sent' = <<>> /\ pc = "save" /\ pc' # "save"
    PROVE  RepeatsInv'
<1>1. ASSUME NEW line \in Lines
      PROVE  Copies(line)' <= Copies(line) /\ Promised(line)' <= Promised(line)
  <2>1. Pending(line)' <= Pending(line)
    BY PendingShrinks
  <2>2. Pending(line) \in Nat /\ Pending(line)' \in Nat
        /\ accepted[line] \in Nat /\ accepted'[line] \in Nat
        /\ Occurrences(buffer, line) \in Nat /\ Occurrences(sent, line) \in Nat
    BY RepeatsNumbers
  <2>3. Occurrences(<<>>, line) = 0
    BY NoOccurrences
  <2>4. /\ Kept(line)' \in Nat /\ Kept(line)' <= Kept(line) /\ Kept(line) \in Nat
        /\ Unsent(line)' \in Nat /\ Unsent(line)' <= Unsent(line) /\ Unsent(line) \in Nat
    <3>1. CASE UNCHANGED <<buffer, sent>> /\ (pc' = "save" <=> pc = "save")
      BY <2>2, <3>1, RepeatsNumbers
    <3>2. CASE sent = <<>> /\ sent' = buffer /\ buffer' = <<>> /\ pc # "save" /\ pc' # "save"
      BY <2>2, <2>3, <3>2, RepeatsNumbers
    <3>3. CASE UNCHANGED buffer /\ sent' = <<>> /\ pc = "save" /\ pc' # "save"
      BY <2>2, <2>3, <3>3, RepeatsNumbers
    <3> QED BY <3>1, <3>2, <3>3
  <2>5. Copies(line)' <= Copies(line)
    BY <2>1, <2>2, <2>4 DEF Copies
  <2>6. Promised(line)' <= Promised(line)
    BY <2>1, <2>2, <2>4 DEF Promised
  <2> QED BY <2>5, <2>6
<1> QED BY <1>1, RepeatsKept

\* A rotation adds nothing to read of a file, and a stat that answers with the
\* newest file does not either.
LEMMA RotateRepeats ==
    ASSUME CollectorInv, CollectorInv', RepeatsInv, Finish \/ Rename \/ Truncate
    PROVE  RepeatsInv'
<1>1. /\ UNCHANGED <<created, pc, stat, fh, tail, buffer, sent, accepted, faults>>
      /\ \/ files' = files
         \/ path # None /\ files' = [files EXCEPT ![path] = <<>>]
  BY DEF Finish, Rename, Truncate
<1>2. CASE files' = files
  <2>1. Unread' = Unread /\ Again' = Again /\ LeftOver' = LeftOver
    BY <1>1, <1>2 DEF Unread, Again, LeftOver, ReadUp, Truncated
  <2> QED BY <1>1, <2>1, QuietRepeats
<1>3. CASE path # None /\ files' = [files EXCEPT ![path] = <<>>]
  <2>1. path = created /\ created \in 1..MaxFiles /\ fh \in 0..MaxFiles /\ MaxFiles \in Nat
        /\ files \in [Inodes -> Seq(Lines)]
    BY <1>3, CollectorAssumption DEF CollectorInv, TypeOK, FilesInv, Inodes
  <2>2. files'[created] = <<>> /\ \A i \in Inodes : i # created => files'[i] = files[i]
    BY <1>3, <2>1 DEF Inodes
  <2>3. Unread' = {} /\ Again' = {}
    BY <1>1, <2>2, NoElements DEF Unread, Again
  <2>4. LeftOver' = LeftOver
    BY <1>1, <2>2, LeftOverKept
  <2> QED BY <1>1, <2>3, <2>4, QuietRepeats
<1> QED BY <1>1, <1>2, <1>3

LEMMA LoopRepeats ==
    ASSUME CollectorInv, CollectorInv', RepeatsInv,
           Stat \/ OpenFails \/ NotDue \/ Drain \/ Save \/ SaveFails
    PROVE  RepeatsInv'
<1>1. UNCHANGED <<node, tail, fh, accepted>>
  BY DEF Stat, OpenFails, NotDue, Drain, Save, SaveFails
<1>2. created' = created /\ files' = files /\ path' = path
  BY <1>1 DEF node
<1>3. CASE Stat
  <2>1. /\ pc = "poll" /\ UNCHANGED <<buffer, sent, faults>>
        /\ \/ path = None /\ pc' = "flush" /\ UNCHANGED stat
           \/ path # None /\ pc' = "read" /\ stat' = [inode |-> path, size |-> Len(files[path])]
    BY <1>3 DEF Stat
  <2>2. path # None => path = created
    BY DEF CollectorInv, FilesInv
  <2>3. created \in Int /\ Len(files[created]) \in Nat /\ tail.offset \in Nat
    <3>1. created \in Inodes /\ files[created] \in Seq(Lines) /\ tail.offset \in 0..MaxLines
      BY DEF CollectorInv, TypeOK
    <3> QED BY <3>1, Elements, CollectorAssumption DEF Inodes
  <2>4. Unread' \subseteq Unread
    <3>1. tail.inode = created /\ tail.offset <= Len(files[created])
            => ~(pc' = "read" /\ stat'.inode = tail.inode /\ stat'.size < tail.offset)
      BY <2>1, <2>2, <2>3
    <3> QED BY <1>1, <1>2, <2>1, <3>1 DEF Unread, ReadUp, Truncated
  <2>5. Again' = {} /\ LeftOver' = {}
    <3>1. ~(pc' = "read" /\ stat'.inode # created)
      BY <2>1, <2>2
    <3>2. ~(created < created)
      BY <2>3
    <3> QED BY <1>1, <1>2, <3>1, <3>2 DEF Again, LeftOver
  <2> QED BY <1>1, <1>2, <2>1, <2>4, <2>5, QuietRepeats
<1>4. CASE OpenFails \/ NotDue \/ Drain \/ Save \/ SaveFails
  <2>1. /\ pc' # "read" /\ faults' \in {faults, faults + 1}
        /\ \/ UNCHANGED <<buffer, sent>> /\ pc # "save" /\ pc' # "save"
           \/ sent' = buffer /\ buffer' = <<>> /\ pc = "flush" /\ pc' # "save"
           \/ UNCHANGED buffer /\ sent' = <<>> /\ pc = "save" /\ pc' # "save"
    BY <1>4 DEF OpenFails, NotDue, Drain, Save, SaveFails
  <2>2. pc = "flush" => sent = <<>> /\ pc # "save"
    BY DEF CollectorInv, FlushInv
  <2>3. Unread' \subseteq Unread
    BY <1>1, <1>2, <2>1 DEF Unread, ReadUp
  <2>4. Again' = {} /\ LeftOver' = {}
    BY <2>1 DEF Again, LeftOver
  <2> QED BY <1>1, <1>2, <2>1, <2>2, <2>3, <2>4, QuietRepeats
<1> QED BY <1>3, <1>4

\* Posting moves a line from memory to the stream; with a fault it may be in
\* both.
LEMMA PostRepeats ==
    ASSUME CollectorInv, CollectorInv', RepeatsInv, PostSucceeds \/ PostFails \/ PostEscapes
    PROVE  RepeatsInv'
<1>1. /\ UNCHANGED <<node, stat, fh, tail>> /\ pc = "post" /\ pc' # "read"
      /\ TypeOK /\ sent \in Seq(Lines) /\ Len(sent) \in Nat
  <2>1. TypeOK
    BY DEF CollectorInv
  <2> QED BY <2>1, SentLines DEF PostSucceeds, PostFails, PostEscapes
<1>2. created' = created /\ files' = files
  BY <1>1 DEF node
<1>3. Unread' \subseteq Unread /\ Again' = {} /\ LeftOver' = {}
  BY <1>1, <1>2 DEF Unread, ReadUp, Again, LeftOver
<1>4. \A line \in Lines : Pending(line)' <= Pending(line)
  BY <1>3, PendingShrinks
<1>5. CASE PostSucceeds
  <2>1. Accepts(Len(sent)) /\ Len(sent) \in 0..Len(sent) /\ pc' = "save"
        /\ UNCHANGED <<buffer, sent, faults>>
    BY <1>1, <1>5 DEF PostSucceeds
  <2>2. ASSUME NEW line \in Lines
        PROVE  Copies(line)' <= Copies(line) /\ Promised(line)' <= Promised(line)
    <3>1. accepted'[line] <= accepted[line] + Occurrences(sent, line)
      BY <1>1, <2>1, AcceptedCounts
    <3>2. /\ Pending(line) \in Nat /\ Pending(line)' \in Nat /\ Pending(line)' <= Pending(line)
          /\ accepted[line] \in Nat /\ accepted'[line] \in Nat
          /\ Occurrences(buffer, line) \in Nat /\ Occurrences(sent, line) \in Nat
      BY <1>4, RepeatsNumbers
    <3>3. /\ Kept(line) = Occurrences(buffer, line) + Occurrences(sent, line)
          /\ Kept(line)' = Occurrences(buffer, line) + Occurrences(sent, line)
          /\ Unsent(line) = Occurrences(buffer, line) + Occurrences(sent, line)
          /\ Unsent(line)' = Occurrences(buffer, line)
      BY <1>1, <2>1, <3>2, RepeatsNumbers
    <3>4. Copies(line)' <= Copies(line)
      BY <3>2, <3>3 DEF Copies
    <3>5. Promised(line)' <= Promised(line)
      BY <3>1, <3>2, <3>3 DEF Promised
    <3> QED BY <3>4, <3>5
  <2> QED BY <1>2, <2>1, <2>2, RepeatsKept
<1>6. CASE PostFails \/ PostEscapes
  <2>1. /\ sent' = <<>> /\ pc' # "save" /\ (Add(sent) \/ buffer' = buffer)
        /\ \/ UNCHANGED <<accepted, faults>>
           \/ faults' = faults + 1 /\ \E n \in 0..Len(sent) : Accepts(n)
    BY <1>6 DEF PostFails, PostEscapes, PutBack
  <2>2. ASSUME NEW line \in Lines
        PROVE  /\ Copies(line)' <= Copies(line)
               /\ \/ Promised(line)' <= Promised(line)
                  \/ faults' = faults + 1 /\ Promised(line)' <= Promised(line) + created
    <3>1. \/ accepted'[line] = accepted[line]
          \/ faults' = faults + 1 /\ accepted'[line] <= accepted[line] + Occurrences(sent, line)
      BY <1>1, <2>1, AcceptedCounts
    <3>2. /\ Pending(line) \in Nat /\ Pending(line)' \in Nat /\ Pending(line)' <= Pending(line)
          /\ accepted[line] \in Nat /\ accepted'[line] \in Nat /\ created \in Nat
          /\ Occurrences(buffer, line) \in Nat /\ Occurrences(sent, line) \in Nat
          /\ Occurrences(buffer', line) \in Nat
      BY <1>4, RepeatsNumbers
    <3>3. Occurrences(buffer', line) <= Occurrences(buffer, line) + Occurrences(sent, line)
      <4>1. CASE Add(sent)
        BY <1>1, <4>1, AddedOccurrences
      <4>2. CASE buffer' = buffer
        BY <3>2, <4>2
      <4> QED BY <2>1, <4>1, <4>2
    <3>4. /\ Kept(line) = Occurrences(buffer, line) + Occurrences(sent, line)
          /\ Kept(line)' = Occurrences(buffer', line)
          /\ Unsent(line) = Occurrences(buffer, line) + Occurrences(sent, line)
          /\ Unsent(line)' = Occurrences(buffer', line)
      <4>1. Occurrences(sent', line) = 0
        BY <2>1, NoOccurrences
      <4> QED BY <1>1, <2>1, <3>2, <4>1, RepeatsNumbers
    <3>5. Copies(line)' <= Copies(line)
      BY <3>2, <3>3, <3>4 DEF Copies
    <3>6. Occurrences(sent, line) <= created
      <4>1. Kept(line) + Pending(line) <= created
        BY DEF RepeatsInv, Copies
      <4> QED BY <3>2, <3>4, <4>1
    <3>7. CASE accepted'[line] = accepted[line]
      <4>1. Promised(line)' <= Promised(line)
        BY <3>2, <3>3, <3>4, <3>7 DEF Promised
      <4> QED BY <3>5, <4>1
    <3>8. CASE faults' = faults + 1 /\ accepted'[line] <= accepted[line] + Occurrences(sent, line)
      <4>1. Promised(line)' <= Promised(line) + created
        BY <3>2, <3>3, <3>4, <3>6, <3>8 DEF Promised
      <4> QED BY <3>5, <3>8, <4>1
    <3> QED BY <3>1, <3>7, <3>8
  <2>3. faults' \in {faults, faults + 1}
    BY <2>1
  <2> QED BY <1>2, <2>2, <2>3, RepeatsKept
<1> QED BY <1>5, <1>6

\* A new line is to be read once, and twice if the stat is from before the file.
LEMMA WriteRepeats ==
    ASSUME CollectorInv, CollectorInv', LinesInv, RepeatsInv, Write
    PROVE  RepeatsInv'
<1>1. PICK w : w = written + 1
  OBVIOUS
<1>2. /\ path # None /\ files' = [files EXCEPT ![path] = Append(@, w)]
      /\ UNCHANGED <<created, pc, stat, fh, tail, buffer, sent, accepted, faults>>
  BY <1>1 DEF Write
<1>3. /\ path = created /\ created \in Inodes /\ created \in Nat /\ written \in Nat
      /\ files \in [Inodes -> Seq(Lines)] /\ w \in Lines
      /\ buffer \in Seq(Lines) /\ sent \in Seq(Lines) /\ tail.offset \in Nat
  <2>1. written \in 0..MaxLines /\ written < MaxLines /\ MaxLines \in Nat
    BY CollectorAssumption DEF CollectorInv, TypeOK, Write
  <2> QED BY <1>1, <1>2, <2>1, CollectorAssumption
          DEF CollectorInv, TypeOK, FilesInv, Lines, Inodes
<1>4. PICK n \in Nat : n = Len(files[created])
  BY <1>3, Elements
<1>5. /\ Len(files'[created]) = n + 1
      /\ \A i \in 1..n : files'[created][i] = files[created][i]
      /\ ToSet(files'[created]) = ToSet(files[created]) \cup {w}
      /\ \A i \in Inodes \ {created} : files'[i] = files[i]
  <2>1. files[created] \in Seq(Lines) /\ files'[created] = Append(files[created], w)
        /\ \A i \in Inodes \ {created} : files'[i] = files[i]
    BY <1>2, <1>3
  <2>2. /\ Len(files'[created]) = Len(files[created]) + 1
        /\ \A i \in 1..Len(files[created]) : files'[created][i] = files[created][i]
        /\ ToSet(files'[created]) = ToSet(files[created]) \cup {w}
    BY <1>3, <2>1, AppendElements
  <2> QED BY <1>4, <2>1, <2>2
<1>6. LeftOver' = LeftOver /\ (LeftOver # {} => fh \in Inodes)
  BY <1>2, <1>5, LeftOverKept
<1>7. ASSUME NEW line \in Lines, line # w
      PROVE  Copies(line)' <= Copies(line) /\ Promised(line)' <= Promised(line)
  <2>1. ReadUp \subseteq ReadUp'
    <3>1. tail.offset <= n => /\ tail.offset <= n + 1
                              /\ \A p \in 1..tail.offset : p \in 1..n
      BY <1>3, <1>4
    <3>2. CASE tail.inode = created /\ tail.offset <= n /\ ~(pc = "read" /\ Truncated)
      <4>1. ReadUp = {files[created][p] : p \in 1..tail.offset}
        BY <1>4, <3>2 DEF ReadUp
      <4>2. ReadUp' = {files'[created][p] : p \in 1..tail.offset}
        BY <1>2, <1>5, <3>1, <3>2 DEF ReadUp, Truncated
      <4>3. \A p \in 1..tail.offset : files'[created][p] = files[created][p]
        BY <1>5, <3>1, <3>2
      <4> QED BY <4>1, <4>2, <4>3
    <3>3. CASE ~(tail.inode = created /\ tail.offset <= n /\ ~(pc = "read" /\ Truncated))
      BY <1>4, <3>3 DEF ReadUp
    <3> QED BY <3>2, <3>3
  <2>2. line \in Unread' => line \in Unread
    BY <1>2, <1>5, <1>7, <2>1 DEF Unread
  <2>3. line \in Again' => line \in Again
    BY <1>2, <1>5, <1>7 DEF Again
  <2>4. Pending(line)' <= Pending(line)
    BY <1>6, <2>2, <2>3, PendingShrinks
  <2>5. Kept(line)' = Kept(line) /\ Unsent(line)' = Unsent(line)
    BY <1>2 DEF Kept, Unsent, Occurrences
  <2>6. Pending(line) \in Nat /\ Pending(line)' \in Nat /\ accepted[line] \in Nat
        /\ Kept(line) \in Nat /\ Unsent(line) \in Nat
    BY RepeatsNumbers
  <2>7. Copies(line)' <= Copies(line)
    BY <2>4, <2>5, <2>6 DEF Copies
  <2>8. Promised(line)' <= Promised(line)
    BY <1>2, <2>4, <2>5, <2>6 DEF Promised
  <2> QED BY <2>7, <2>8
<1>8. Copies(w)' <= created /\ Promised(w)' <= created
  <2>1. w \notin Held /\ accepted[w] = 0
    <3>1. ~(w <= written) /\ accepted[w] \in Nat
      BY <1>1, <1>3 DEF CollectorInv, TypeOK
    <3> QED BY <1>3, <3>1 DEF LinesInv, Accepted
  <2>2. Occurrences(buffer, w) = 0 /\ Occurrences(sent, w) = 0
    BY <1>3, <2>1, OccurrencesType DEF Held
  <2>3. w \notin LeftOver'
    <3>1. SUFFICES ASSUME w \in LeftOver' PROVE FALSE
      OBVIOUS
    <3>2. PICK p \in tail.offset + 1..Len(files[fh]) : files[fh][p] = w
      BY <1>6, <3>1 DEF LeftOver
    <3>3. fh \in Inodes
      BY <1>6, <3>1
    <3>4. files[fh] \in Seq(Lines)
      BY <1>3, <3>3
    <3>5. Len(files[fh]) \in Nat /\ ToSet(files[fh]) = {files[fh][i] : i \in 1..Len(files[fh])}
      BY <3>4, Elements
    <3>6. p \in 1..Len(files[fh])
      BY <1>3, <3>5
    <3>7. w <= written
      BY <3>2, <3>3, <3>5, <3>6 DEF LinesInv
    <3> QED BY <1>1, <1>3, <3>7
  <2>4. Pending(w)' <= created /\ Pending(w)' \in Nat
    <3>1. Again' = {} \/ created >= 2
      <4>1. CASE pc = "read" /\ stat.inode # created
        <5>1. stat.inode \in 0..MaxFiles /\ stat.inode # None /\ stat.inode <= created
          BY <4>1 DEF CollectorInv, TypeOK, HandleInv
        <5> QED BY <1>3, <4>1, <5>1, CollectorAssumption DEF None
      <4>2. CASE ~(pc = "read" /\ stat.inode # created)
        BY <1>2, <4>2 DEF Again
      <4> QED BY <4>1, <4>2
    <3>2. created >= 1
      BY <1>3, RepeatsNumbers
    <3>3. CASE Again' = {}
      <4>1. Pending(w)' \in {0, 1}
        BY <2>3, <3>3 DEF Pending, Count
      <4> QED BY <1>3, <3>2, <4>1
    <3>4. CASE created >= 2
      <4>1. Pending(w)' \in {0, 1, 2}
        BY <2>3 DEF Pending, Count
      <4> QED BY <1>3, <3>4, <4>1
    <3> QED BY <3>1, <3>3, <3>4
  <2>5. Kept(w)' = 0 /\ Unsent(w)' = 0
    BY <1>2, <2>2 DEF Kept, Unsent, Occurrences
  <2>6. Copies(w)' <= created
    BY <1>3, <2>4, <2>5 DEF Copies
  <2>7. Promised(w)' <= created
    BY <1>2, <1>3, <2>1, <2>4, <2>5 DEF Promised
  <2> QED BY <2>6, <2>7
<1>9. created' = created /\ faults' \in {faults, faults + 1}
  BY <1>2
<1> QED BY <1>7, <1>8, <1>9, RepeatsKept

\* The new file is empty; what a read still takes of the old one it takes once.
LEMMA CreateRepeats ==
    ASSUME CollectorInv, CollectorInv', RepeatsInv, Create
    PROVE  RepeatsInv'
<1>1. /\ created' = created + 1
      /\ UNCHANGED <<files, pc, stat, fh, tail, buffer, sent, accepted, faults>>
  BY DEF Create
<1>2. files[created + 1] = <<>>
  <2>1. created + 1 \in Inodes /\ created + 1 > created
    BY <1>1, CollectorAssumption DEF CollectorInv, TypeOK, Inodes
  <2> QED BY <2>1 DEF CollectorInv, FilesInv
<1>3. Unread' = {} /\ Again' = {}
  <2>1. ToSet(files'[created']) = {}
    BY <1>1, <1>2, NoElements
  <2> QED BY <2>1 DEF Unread, Again
<1> SUFFICES ASSUME NEW line \in Lines
             PROVE  Copies(line)' <= created' /\ Promised(line)' <= (1 + faults') * created'
  BY DEF RepeatsInv
<1>4. Pending(line)' \in {0, 1}
  BY <1>3 DEF Pending, Count
<1>5. Kept(line)' = Kept(line) /\ Unsent(line)' = Unsent(line)
  BY <1>1 DEF Kept, Unsent, Occurrences
<1>6. /\ Kept(line) \in Nat /\ Unsent(line) \in Nat /\ Pending(line) \in Nat
      /\ accepted[line] \in Nat /\ created \in Nat /\ faults \in Nat
  BY RepeatsNumbers
<1>7. Copies(line) <= created /\ Promised(line) <= (1 + faults) * created
  BY DEF RepeatsInv
<1>8. Copies(line)' <= created'
  BY <1>1, <1>4, <1>5, <1>6, <1>7 DEF Copies
<1>9. /\ (1 + faults) * created \in Nat /\ (1 + faults) * (created + 1) >= (1 + faults) * created + 1
  BY <1>6, BoundGrows
<1>10. Promised(line)' <= (1 + faults) * created + 1
  BY <1>1, <1>4, <1>5, <1>6, <1>7, <1>9 DEF Promised
<1>11. Promised(line)' <= (1 + faults) * (created + 1)
  <2>1. Promised(line)' \in Nat
    BY <1>1, <1>4, <1>5, <1>6 DEF Promised
  <2>2. (1 + faults) * (created + 1) \in Nat
    BY <1>6
  <2> QED BY <1>9, <1>10, <2>1, <2>2
<1> QED BY <1>1, <1>8, <1>11

\* A restart forgets what was in memory and reads the newest file once more.
LEMMA RestartRepeats ==
    ASSUME CollectorInv, CollectorInv', RepeatsInv, Restart
    PROVE  RepeatsInv'
<1>1. /\ UNCHANGED <<node, accepted>> /\ faults' = faults + 1
      /\ buffer' = <<>> /\ sent' = <<>> /\ pc' = "poll"
  BY DEF Restart
<1>2. created' = created
  BY <1>1 DEF node
<1>3. ASSUME NEW line \in Lines
      PROVE  Copies(line)' <= created /\ Promised(line)' <= Promised(line) + created
  <2>1. Pending(line)' \in {0, 1}
    <3>1. Again' = {} /\ LeftOver' = {}
      BY <1>1 DEF Again, LeftOver
    <3> QED BY <3>1 DEF Pending, Count
  <2>2. Kept(line)' = 0 /\ Unsent(line)' = 0
    <3>1. Occurrences(buffer', line) = 0 /\ Occurrences(sent', line) = 0
      BY <1>1, NoOccurrences
    <3> QED BY <1>1, <3>1 DEF Kept, Unsent, Occurrences
  <2>3. /\ Unsent(line) \in Nat /\ Pending(line) \in Nat
        /\ accepted[line] \in Nat /\ created \in Nat /\ created >= 1
    BY RepeatsNumbers
  <2>4. Copies(line)' <= created
    BY <2>1, <2>2, <2>3 DEF Copies
  <2>5. Promised(line)' <= Promised(line) + created
    BY <1>1, <2>1, <2>2, <2>3 DEF Promised
  <2> QED BY <2>4, <2>5
<1> QED BY <1>1, <1>2, <1>3, RepeatsKept

\* The lines of a file are different lines.
LEMMA DifferentLines ==
    ASSUME TypeOK, LinesInv, NEW file \in Inodes,
           NEW p \in 1..Len(files[file]), NEW q \in 1..Len(files[file])
    PROVE  /\ files[file][p] \in Nat /\ files[file][q] \in Nat
           /\ files[file][p] < files[file][q] <=> p < q
           /\ files[file][p] = files[file][q] <=> p = q
<1>1. files[file] \in Seq(Lines)
  BY DEF TypeOK
<1>2. Len(files[file]) \in Nat /\ files[file][p] \in Lines /\ files[file][q] \in Lines
  BY <1>1, Elements
<1>3. files[file][p] \in Nat /\ files[file][q] \in Nat
  BY <1>2, CollectorAssumption DEF Lines
<1>4. /\ p < q => files[file][p] < files[file][q]
      /\ q < p => files[file][q] < files[file][p]
  BY DEF LinesInv
<1> QED BY <1>2, <1>3, <1>4

\* A line that is read is to be read once less.
LEMMA ReadPending ==
    ASSUME CollectorInv, LinesInv, Read, NEW file \in Inodes, NEW start \in Nat,
           NEW lines \in Seq(Lines),
           file = IF fh = None \/ stat.inode # tail.inode \/ Truncated THEN path ELSE fh,
           start = IF stat.inode # tail.inode \/ Truncated THEN 0 ELSE tail.offset,
           start + Len(lines) = IF start <= Len(files[file]) THEN Len(files[file]) ELSE start,
           ToSet(lines) = {files[file][i] : i \in start + 1..Len(files[file])},
           tail' = [inode |-> stat.inode, offset |-> start + Len(lines)],
           NEW line \in Lines
    PROVE  Count(line \in ToSet(lines)) + Pending(line)' <= Pending(line)
<1>1. /\ TypeOK /\ FilesInv /\ HandleInv
      /\ pc = "read" /\ pc' = "flush" /\ files' = files /\ created' = created
  BY DEF CollectorInv, Read, node
<1>2. /\ created \in Inodes /\ created \in Nat /\ files[created] \in Seq(Lines)
      /\ files[file] \in Seq(Lines) /\ stat.inode \in Nat /\ tail.inode \in Nat
      /\ tail.offset \in Nat
  <2>1. created \in Inodes /\ files[created] \in Seq(Lines) /\ files[file] \in Seq(Lines)
    BY <1>1 DEF TypeOK
  <2>2. /\ stat.inode \in 0..MaxFiles /\ tail.inode \in 0..MaxFiles
        /\ tail.offset \in 0..MaxLines
    BY <1>1 DEF TypeOK
  <2> QED BY <2>1, <2>2, CollectorAssumption DEF Inodes
<1>3. /\ Len(files[created]) \in Nat /\ Len(lines) \in Nat /\ Len(files[file]) \in Nat
      /\ ToSet(files[created]) = {files[created][i] : i \in 1..Len(files[created])}
  BY <1>2, Elements
<1>4. Again' = {} /\ LeftOver' = {}
  BY <1>1 DEF Again, LeftOver
<1>5. stat.inode <= created /\ stat.inode # None /\ tail.inode <= stat.inode
      /\ (stat.inode = tail.inode => fh \in {None, tail.inode})
  BY <1>1 DEF HandleInv, LinesInv
<1>6. Unread' = ToSet(files[created])
              \ (IF stat.inode = created /\ start + Len(lines) <= Len(files[created])
                 THEN {files[created][p] : p \in 1..start + Len(lines)} ELSE {})
  BY <1>1 DEF Unread, ReadUp
<1>7. file = created \/ (file = fh /\ fh # None /\ ~(stat.inode # tail.inode) /\ ~Truncated)
  BY <1>1, <1>2, CollectorAssumption DEF FilesInv, Inodes, None
<1>8. CASE file = created /\ stat.inode = created /\ start <= Len(files[created])
  <2>1. Unread' = {}
    BY <1>3, <1>6, <1>8
  <2>2. ToSet(lines) \subseteq Unread
    <3>1. SUFFICES ASSUME NEW i \in start + 1..Len(files[created])
                   PROVE  files[created][i] \in Unread
      BY <1>8
    <3>2. i \in 1..Len(files[created]) /\ i > start
      BY <1>3
    <3>3. files[created][i] \notin ReadUp
      <4>1. SUFFICES ASSUME files[created][i] \in ReadUp PROVE FALSE
        OBVIOUS
      <4>2. tail.inode = created /\ tail.offset <= Len(files[created]) /\ ~Truncated
        BY <1>1, <4>1 DEF ReadUp
      <4>3. start = tail.offset
        BY <1>8, <4>2
      <4>4. PICK p \in 1..tail.offset : files[created][p] = files[created][i]
        BY <1>1, <4>1, <4>2 DEF ReadUp
      <4>5. p \in 1..Len(files[created]) /\ p # i
        BY <1>2, <1>3, <3>2, <4>2, <4>3
      <4> QED BY <1>1, <1>2, <3>2, <4>4, <4>5, DifferentLines
    <3> QED BY <1>3, <3>2, <3>3 DEF Unread
  <2> QED BY <1>4, <2>1, <2>2 DEF Pending, Count
<1>9. CASE file = created /\ stat.inode = created /\ ~(start <= Len(files[created]))
  <2>1. start + 1..Len(files[file]) = {}
    BY <1>3, <1>9
  <2>2. ToSet(lines) = {}
    BY <2>1
  <2>3. ReadUp = {}
    BY <1>2, <1>3, <1>9 DEF ReadUp
  <2>4. Unread' \subseteq Unread
    BY <1>6, <2>3 DEF Unread
  <2>5. line \notin ToSet(lines) /\ (line \in Unread' => line \in Unread)
    BY <2>2, <2>4
  <2> QED BY <1>4, <2>5 DEF Pending, Count
<1>10. CASE file = created /\ stat.inode # created
  <2>1. tail.inode # created
    BY <1>2, <1>5, <1>10
  <2>2. Unread = ToSet(files[created]) /\ Again = ToSet(files[created])
    BY <1>1, <1>10, <2>1 DEF Unread, ReadUp, Again
  <2>3. ToSet(lines) \subseteq Again
    <3>1. \A i \in start + 1..Len(files[created]) : i \in 1..Len(files[created])
      BY <1>3
    <3> QED BY <1>3, <1>10, <2>2, <3>1
  <2>4. Unread' \subseteq Unread
    BY <1>6, <2>2
  <2> QED BY <1>4, <2>3, <2>4 DEF Pending, Count
<1>11. CASE file # created
  <2>1. file = fh /\ fh = tail.inode /\ stat.inode = tail.inode /\ ~Truncated
    BY <1>5, <1>7, <1>11
  <2>2. tail.inode < created /\ start = tail.offset
    BY <1>2, <1>5, <1>11, <2>1
  <2>3. ToSet(lines) = LeftOver
    BY <1>1, <2>1, <2>2 DEF LeftOver
  <2>4. Unread' \subseteq Unread
    BY <1>2, <1>6, <2>2 DEF Unread, ReadUp
  <2> QED BY <1>4, <2>3, <2>4 DEF Pending, Count
<1> QED BY <1>7, <1>8, <1>9, <1>10, <1>11

LEMMA ReadRepeats ==
    ASSUME CollectorInv, CollectorInv', LinesInv, RepeatsInv, Read
    PROVE  RepeatsInv'
<1>1. /\ TypeOK /\ sent = <<>> /\ sent' = <<>> /\ pc = "read" /\ pc' = "flush"
      /\ UNCHANGED <<created, faults, accepted>>
  BY DEF Read, node, CollectorInv, FlushInv
<1>2. PICK file \in Inodes, start \in Nat, lines \in Seq(Lines) :
         /\ file = IF fh = None \/ stat.inode # tail.inode \/ Truncated THEN path ELSE fh
         /\ start = IF stat.inode # tail.inode \/ Truncated THEN 0 ELSE tail.offset
         /\ start + Len(lines) = IF start <= Len(files[file]) THEN Len(files[file]) ELSE start
         /\ \A i \in 1..Len(lines) : /\ start + i \in 1..Len(files[file])
                                     /\ lines[i] = files[file][start + i]
         /\ ToSet(lines) = {files[file][i] : i \in start + 1..Len(files[file])}
         /\ Add(Parsed(lines))
         /\ tail' = [inode |-> stat.inode, offset |-> start + Len(lines)]
  BY ReadPart
<1>3. Parsed(lines) \in Seq(Lines) /\ Len(lines) \in Nat
  BY ParsedPart, Elements
<1>4. ASSUME NEW line \in Lines
      PROVE  Copies(line)' <= Copies(line) /\ Promised(line)' <= Promised(line)
  <2>1. Count(line \in ToSet(lines)) + Pending(line)' <= Pending(line)
    BY <1>2, ReadPending
  <2>2. Occurrences(lines, line) <= Count(line \in ToSet(lines))
    <3>1. \A p, q \in 1..Len(lines) : p # q => lines[p] # lines[q]
      <4>1. SUFFICES ASSUME NEW p \in 1..Len(lines), NEW q \in 1..Len(lines), p # q
                     PROVE  lines[p] # lines[q]
        OBVIOUS
      <4>2. start + p \in 1..Len(files[file]) /\ start + q \in 1..Len(files[file])
            /\ start + p # start + q
        BY <1>2, <1>3, <4>1
      <4>3. files[file][start + p] # files[file][start + q]
        BY <1>1, <4>2, DifferentLines
      <4> QED BY <1>2, <4>3
    <3>2. Occurrences(lines, line) <= 1
      BY <3>1, OccurrencesOnce
    <3>3. line \notin ToSet(lines) => Occurrences(lines, line) = 0
      BY OccurrencesType
    <3> QED BY <3>2, <3>3 DEF Count
  <2>3. Occurrences(Parsed(lines), line) <= Occurrences(lines, line)
    <3>1. \A i \in 1..Len(Parsed(lines)) :
             Parsed(lines)[i] = line => i + 0 \in 1..Len(lines) /\ lines[i + 0] = line
      <4>1. /\ Len(Parsed(lines)) \in Nat
            /\ \A i \in 1..Len(Parsed(lines)) : i \in 1..Len(lines) /\ Parsed(lines)[i] = lines[i]
        BY <1>3, Elements, ParsedPart
      <4>2. \A i \in 1..Len(Parsed(lines)) : i + 0 = i
        BY <4>1
      <4> QED BY <4>1, <4>2
    <3>2. 0 \in Int
      OBVIOUS
    <3> QED BY <1>3, <3>1, <3>2, OccurrencesShifted
  <2>4. Occurrences(buffer', line) <= Occurrences(buffer, line) + Occurrences(Parsed(lines), line)
    BY <1>1, <1>2, <1>3, AddedOccurrences
  <2>5. /\ Pending(line) \in Nat /\ Pending(line)' \in Nat /\ accepted[line] \in Nat
        /\ Occurrences(buffer, line) \in Nat /\ Occurrences(buffer', line) \in Nat
    <3>1. /\ Pending(line) \in 0..3 /\ Pending(line)' \in 0..3 /\ accepted[line] \in Nat
          /\ Occurrences(buffer, line) \in Nat /\ Occurrences(buffer', line) \in Nat
      BY RepeatsNumbers
    <3> QED BY <3>1
  <2>6. /\ Occurrences(lines, line) \in Nat /\ Occurrences(Parsed(lines), line) \in Nat
        /\ Count(line \in ToSet(lines)) \in Nat
    BY <1>3, OccurrencesType DEF Count
  <2>7. Occurrences(buffer', line) + Pending(line)' <= Occurrences(buffer, line) + Pending(line)
    BY <2>1, <2>2, <2>3, <2>4, <2>5, <2>6
  <2>8. /\ Kept(line) = Occurrences(buffer, line) /\ Kept(line)' = Occurrences(buffer', line)
        /\ Unsent(line) = Occurrences(buffer, line) /\ Unsent(line)' = Occurrences(buffer', line)
    <3>1. Occurrences(sent, line) = 0 /\ Occurrences(sent', line) = 0
      BY <1>1, NoOccurrences
    <3> QED BY <1>1, <2>5, <3>1, RepeatsNumbers
  <2>9. Copies(line)' <= Copies(line)
    BY <2>5, <2>7, <2>8 DEF Copies
  <2>10. Promised(line)' <= Promised(line)
    BY <1>1, <2>5, <2>7, <2>8 DEF Promised
  <2> QED BY <2>9, <2>10
<1>5. created' = created /\ faults' \in {faults, faults + 1}
  BY <1>1
<1> QED BY <1>4, <1>5, RepeatsKept

LEMMA RepeatsStep ==
    ASSUME CollectorInv, LinesInv, RepeatsInv, [Next]_vars
    PROVE  RepeatsInv'
<1>1. CollectorInv'
  BY CollectorStep
<1>2. CASE UNCHANGED vars
  <2>1. UNCHANGED <<files, created, pc, stat, fh, tail, buffer, sent, accepted, faults>>
    BY <1>2 DEF vars, node
  <2>2. Unread' = Unread /\ Again' = Again /\ LeftOver' = LeftOver
    BY <2>1 DEF Unread, Again, LeftOver, ReadUp, Truncated
  <2> QED BY <1>1, <2>1, <2>2, QuietRepeats
<1> QED BY <1>1, <1>2, WriteRepeats, RotateRepeats, CreateRepeats, LoopRepeats, PostRepeats,
           RestartRepeats, ReadRepeats DEF Next, Loop, Environment

-------------------------------------------------------------------------------
(* In which order lines reach the stream *)

LEMMA InTurnLess ==
    ASSUME NEW queue, NEW lines, NEW done, InTurn(queue, lines, done),
           NEW less \in SUBSET lines, NEW more, done \subseteq more
    PROVE  InTurn(queue, less, more)
BY DEF InTurn

LEMMA NothingInTurn == \A lines, done : InTurn(<<>>, lines, done)
<1>1. 1..Len(<<>>) = {}
  BY NoElements
<1> QED BY <1>1 DEF InTurn

\* Of the first file and of what is in memory.
LEMMA OrderFacts ==
    ASSUME CollectorInv, created = 1
    PROVE  /\ 1 \in Inodes /\ files[1] \in Seq(Lines) /\ Len(files[1]) \in Nat
           /\ ToSet(files[1]) = {files[1][p] : p \in 1..Len(files[1])}
           /\ ToSet(files[1]) \subseteq Lines /\ Live \subseteq ToSet(files[1])
           /\ path \in {None, 1} /\ stat.inode <= 1
           /\ tail.offset \in Nat /\ saved.offset \in Nat /\ tail.inode \in Nat
           /\ buffer \in Seq(Lines) /\ sent \in Seq(Lines) /\ Queue \in Seq(Lines)
           /\ Held = ToSet(Queue) /\ Held \subseteq Lines /\ Accepted \subseteq Lines
<1>1. TypeOK /\ FilesInv /\ FlushInv /\ HandleInv
  BY DEF CollectorInv
<1>2. /\ 1 \in Inodes /\ files[1] \in Seq(Lines) /\ path \in {None, 1} /\ stat.inode <= 1
      /\ tail.offset \in Nat /\ saved.offset \in Nat /\ tail.inode \in Nat
  BY <1>1, CollectorAssumption DEF TypeOK, FilesInv, HandleInv
<1>3. /\ Len(files[1]) \in Nat /\ ToSet(files[1]) = {files[1][p] : p \in 1..Len(files[1])}
      /\ ToSet(files[1]) \subseteq Lines
  BY <1>2, Elements
<1>4. buffer \in Seq(Lines) /\ sent \in Seq(Lines) /\ Queue \in Seq(Lines)
  BY <1>1 DEF TypeOK, Queue
<1>5. Held = ToSet(Queue)
  <2>1. CASE pc \in {"post", "save"}
    BY <1>1, <2>1, NoElements DEF FlushInv, Queue, Held
  <2>2. CASE pc \notin {"post", "save"}
    <3>1. sent = <<>>
      BY <1>1, <2>2 DEF TypeOK, FlushInv
    <3> QED BY <2>2, <3>1, NoElements DEF Queue, Held
  <2> QED BY <2>1, <2>2
<1>6. Held \subseteq Lines /\ Accepted \subseteq Lines
  BY <1>4, <1>5, Elements DEF Accepted
<1>7. Live \subseteq ToSet(files[1])
  BY DEF Live
<1> QED BY <1>2, <1>3, <1>4, <1>5, <1>6, <1>7

\* Nothing reaches the stream, and nothing changes place.
LEMMA OrderKept ==
    ASSUME OrderInv, created' = created, Accepted' = Accepted, Settled \subseteq Settled',
           Queue' = Queue, Held' \subseteq Held, Live' \subseteq Live,
           Live' # {} => Behind' \subseteq Behind
    PROVE  OrderInv'
<1> SUFFICES ASSUME created = 1
             PROVE  /\ Live' # {} => Behind' \subseteq Settled' \cup ToSet(Queue')
                    /\ \A later \in Accepted', earlier \in Live' \cup Held' :
                          earlier < later => earlier \in Settled'
                    /\ InTurn(Queue', Live' \cup Held', Settled')
  BY DEF OrderInv
<1>1. /\ Live # {} => Behind \subseteq Settled \cup ToSet(Queue)
      /\ \A later \in Accepted, earlier \in Live \cup Held :
            earlier < later => earlier \in Settled
      /\ InTurn(Queue, Live \cup Held, Settled)
  BY DEF OrderInv
<1>2. Live' \cup Held' \subseteq Live \cup Held
  OBVIOUS
<1>3. InTurn(Queue, Live' \cup Held', Settled')
  BY <1>1, <1>2, InTurnLess
<1>4. InTurn(Queue', Live' \cup Held', Settled')
  BY <1>3
<1>5. Live' # {} => Behind' \subseteq Settled' \cup ToSet(Queue')
  BY <1>1
<1> QED BY <1>1, <1>2, <1>4, <1>5

LEMMA InitOrder == Init => OrderInv
<1> SUFFICES ASSUME Init PROVE OrderInv
  OBVIOUS
<1>1. Behind = {} /\ Accepted = {} /\ Queue = <<>>
  BY DEF Init, Start, None, Behind, Accepted, Queue
<1> QED BY <1>1, NothingInTurn DEF OrderInv

\* A new line comes after all that is in memory or on the stream; what has grown
\* over the tail since a truncation is read from the start, or lost.
LEMMA WriteOrder ==
    ASSUME CollectorInv, CollectorInv', LinesInv, OrderInv, Write
    PROVE  OrderInv'
<1>1. PICK w : w = written + 1
  OBVIOUS
<1>2. /\ path # None /\ path' = path /\ created' = created /\ written < MaxLines
      /\ files' = [files EXCEPT ![path] = Append(@, w)]
      /\ rewritten' = IF CatchesUp(tail) /\ ~looked /\ ~Noticed
                       THEN rewritten \cup ToSet(files'[path]) ELSE rewritten
      /\ UNCHANGED <<pc, stat, fh, tail, buffer, sent, accepted, dropped, escaped, torn>>
  BY <1>1 DEF Write
<1> SUFFICES ASSUME created = 1
             PROVE  /\ Live' # {} => Behind' \subseteq Settled' \cup ToSet(Queue')
                    /\ \A later \in Accepted', earlier \in Live' \cup Held' :
                          earlier < later => earlier \in Settled'
                    /\ InTurn(Queue', Live' \cup Held', Settled')
  BY <1>2 DEF OrderInv
<1>3. /\ path = 1 /\ 1 \in Inodes /\ files[1] \in Seq(Lines) /\ Len(files[1]) \in Nat
      /\ ToSet(files[1]) = {files[1][p] : p \in 1..Len(files[1])}
      /\ tail.offset \in Nat /\ Queue \in Seq(Lines) /\ Held = ToSet(Queue)
      /\ Held \subseteq Lines /\ Accepted \subseteq Lines
  BY <1>2, OrderFacts
<1>4. written \in Nat /\ w \in Lines /\ files \in [Inodes -> Seq(Lines)]
  BY <1>1, <1>2, CollectorAssumption DEF CollectorInv, TypeOK, Lines
<1>5. PICK n \in Nat : n = Len(files[1])
  BY <1>3
<1>6. /\ Len(files'[1]) = n + 1
      /\ \A i \in 1..n : files'[1][i] = files[1][i]
      /\ ToSet(files'[1]) = ToSet(files[1]) \cup {w}
  <2>1. files'[1] = Append(files[1], w)
    BY <1>2, <1>3, <1>4
  <2> QED BY <1>3, <1>4, <1>5, <2>1, AppendElements
<1>7. /\ Live = ToSet(files[1]) /\ Live' = Live \cup {w} /\ Queue' = Queue /\ Held' = Held
      /\ Accepted' = Accepted /\ Settled \subseteq Settled'
  BY <1>2, <1>6 DEF Live, Queue, Held, Accepted, Settled, Lost
<1>8. /\ Live # {} => Behind \subseteq Settled \cup ToSet(Queue)
      /\ \A later \in Accepted, earlier \in Live \cup Held :
            earlier < later => earlier \in Settled
      /\ InTurn(Queue, Live \cup Held, Settled)
  BY DEF OrderInv
<1>9. \A line \in Held \cup Accepted : ~(w < line)
  <2>1. ASSUME NEW line \in Held \cup Accepted PROVE ~(w < line)
    <3>1. line <= written
      BY DEF LinesInv
    <3>2. line \in Lines
      BY <1>3
    <3>3. line \in Nat
      BY <3>2, CollectorAssumption DEF Lines
    <3> QED BY <1>1, <1>4, <3>1, <3>3
  <2> QED BY <2>1
<1>10. Behind' \subseteq Settled' \cup ToSet(Queue')
  <2>1. CASE tail.inode = 1 /\ tail.offset <= n /\ ~Noticed
    <3>1. Behind = {files[1][p] : p \in 1..tail.offset}
      BY <1>5, <2>1 DEF Behind
    <3>2. Behind' = {files'[1][p] : p \in 1..tail.offset}
      <4>1. tail.offset <= n + 1
        BY <1>3, <2>1
      <4> QED BY <1>2, <1>6, <2>1, <4>1 DEF Behind, Noticed
    <3>3. \A p \in 1..tail.offset : p \in 1..n
      BY <1>3, <2>1
    <3>4. Behind' = Behind
      BY <1>6, <3>1, <3>2, <3>3
    <3>5. Behind \subseteq Live
      BY <1>3, <1>5, <1>7, <3>1, <3>3
    <3> QED BY <1>7, <1>8, <3>4, <3>5
  <2>2. CASE tail.inode = 1 /\ tail.offset = n + 1 /\ ~Noticed
    <3>1. PastTheEnd(tail) /\ CatchesUp(tail)
      BY <1>2, <1>3, <1>5, <2>2 DEF PastTheEnd, CatchesUp
    <3>2. ~looked
      BY <2>2, <3>1 DEF CollectorInv, RewriteInv
    <3>3. ToSet(files'[1]) \subseteq rewritten'
      BY <1>2, <1>3, <2>2, <3>1, <3>2
    <3>4. Behind' \subseteq ToSet(files'[1])
      <4>1. files'[1] \in Seq(Lines)
        BY <1>3 DEF CollectorInv, TypeOK
      <4>2. ToSet(files'[1]) = {files'[1][p] : p \in 1..Len(files'[1])}
        BY <4>1, Elements
      <4> QED BY <1>2, <1>6, <2>2, <4>2 DEF Behind
    <3> QED BY <3>3, <3>4 DEF Settled, Lost
  <2>3. CASE tail.inode # 1 \/ ~(tail.offset <= n + 1) \/ Noticed
    BY <1>2, <1>6, <2>3 DEF Behind, Noticed
  <2> QED BY <1>3, <2>1, <2>2, <2>3
<1>11. \A later \in Accepted', earlier \in Live' \cup Held' :
           earlier < later => earlier \in Settled'
  BY <1>7, <1>8, <1>9
<1>12. InTurn(Queue', Live' \cup Held', Settled')
  <2>1. \A j \in 1..Len(Queue) : Queue[j] \in Held
    BY <1>3, Elements
  <2>2. InTurn(Queue, Live' \cup Held', Settled')
    BY <1>7, <1>8, <1>9, <2>1 DEF InTurn
  <2> QED BY <1>7, <2>2
<1> QED BY <1>10, <1>11, <1>12

\* Rotation only takes away what there is to read, and the loop itself moves
\* nothing but the batch into its flush.
LEMMA QuietOrder ==
    ASSUME CollectorInv, OrderInv,
           Finish \/ Rename \/ Truncate \/ Stat \/ OpenFails \/ NotDue \/ Drain \/ UNCHANGED vars
    PROVE  OrderInv'
<1>1. /\ UNCHANGED <<created, fh, tail, accepted, dropped, escaped, torn, rewritten>>
      /\ path' \in {path, None}
      /\ \/ files' = files
         \/ path # None /\ path' = path /\ files' = [files EXCEPT ![path] = <<>>]
  BY DEF Finish, Rename, Truncate, Stat, OpenFails, NotDue, Drain, vars, node, history
<1>2. Accepted' = Accepted /\ Settled' = Settled
  BY <1>1 DEF Accepted, Settled, Lost
<1>3. Queue' = Queue /\ Held' \subseteq Held
  <2>1. CASE Drain
    BY <2>1, NoElements DEF Drain, Queue, Held
  <2>2. CASE Finish \/ Rename \/ Truncate \/ UNCHANGED vars
    BY <2>2 DEF Finish, Rename, Truncate, vars, Queue, Held
  <2>3. CASE Stat \/ OpenFails \/ NotDue
    BY <2>3 DEF Stat, OpenFails, NotDue, Queue, Held
  <2> QED BY <2>1, <2>2, <2>3
<1>4. CASE created = 1
  <2>1. path \in {None, 1} /\ files \in [Inodes -> Seq(Lines)] /\ 1 \in Inodes
    BY <1>4, OrderFacts DEF CollectorInv, TypeOK
  <2>2. files'[1] = files[1] \/ files'[1] = <<>>
    BY <1>1, <2>1
  <2>3. (path' # None \/ (pc' = "read" /\ fh' # None)) => (path # None \/ (pc = "read" /\ fh # None))
    BY <1>1 DEF Finish, Rename, Truncate, Stat, OpenFails, NotDue, Drain, vars
  <2>4. Live' \subseteq Live /\ (Live' # {} => files'[1] = files[1])
    BY <2>2, <2>3, NoElements DEF Live
  <2>5. Live' # {} => (Noticed => Noticed')
    BY DEF Live, Noticed, Finish, Rename, Truncate, Stat, OpenFails, NotDue, Drain, vars, node
  <2>6. Live' # {} => Behind' \subseteq Behind
    BY <1>1, <2>4, <2>5 DEF Behind
  <2> QED BY <1>1, <1>2, <1>3, <2>4, <2>6, OrderKept
<1>5. CASE created # 1
  BY <1>1, <1>5 DEF OrderInv
<1> QED BY <1>4, <1>5

\* A post takes lines from the front of the queue.
LEMMA PostOrder ==
    ASSUME CollectorInv, OrderInv, PostSucceeds \/ PostFails \/ PostEscapes
    PROVE  OrderInv'
<1>1. /\ UNCHANGED <<node, fh, tail, torn, rewritten>> /\ pc = "post" /\ pc' # "read"
      /\ TypeOK /\ FlushInv
  BY DEF PostSucceeds, PostFails, PostEscapes, history, CollectorInv
<1>2. created' = created /\ files' = files /\ path' = path
  BY <1>1 DEF node
<1> SUFFICES ASSUME created = 1
             PROVE  /\ Live' # {} => Behind' \subseteq Settled' \cup ToSet(Queue')
                    /\ \A later \in Accepted', earlier \in Live' \cup Held' :
                          earlier < later => earlier \in Settled'
                    /\ InTurn(Queue', Live' \cup Held', Settled')
  BY <1>2 DEF OrderInv
<1>3. /\ Live # {} => Behind \subseteq Settled \cup ToSet(Queue)
      /\ \A later \in Accepted, earlier \in Live \cup Held :
            earlier < later => earlier \in Settled
      /\ InTurn(Queue, Live \cup Held, Settled)
  BY DEF OrderInv
<1>4. /\ Queue = sent /\ sent \in Seq(Lines) /\ buffer = <<>> /\ buffer \in Seq(Lines)
      /\ Len(sent) \in Nat
      /\ ToSet(sent) = {sent[i] : i \in 1..Len(sent)} /\ Live \cup Held \subseteq Lines
      /\ Held = ToSet(sent)
  BY <1>1, OrderFacts, SentLines DEF FlushInv, Queue
<1>5. Live' = Live /\ Behind' = Behind
  BY <1>1, <1>2 DEF Live, Behind, Noticed
<1>6. /\ dropped \subseteq dropped' /\ escaped \subseteq escaped'
      /\ ToSet(sent) \subseteq Settled' \cup ToSet(Queue') /\ Held' \subseteq Held
  <2>1. CASE PostSucceeds
    BY <1>1, <2>1 DEF PostSucceeds, history, Queue, Held
  <2>2. CASE PostFails
    <3>1. Add(sent) /\ sent' = <<>> /\ pc' = "poll" /\ escaped' = escaped
      BY <2>2 DEF PostFails, PutBack
    <3>2. dropped \subseteq dropped' /\ ToSet(sent) \subseteq ToSet(buffer') \cup dropped'
      BY <1>1, <1>4, <3>1, AddedLines
    <3>3. ToSet(buffer') \subseteq ToSet(buffer) \cup ToSet(sent)
      BY <1>1, <1>4, <3>1, AddedOccurrences
    <3> QED BY <1>4, <3>1, <3>2, <3>3, NoElements DEF Queue, Held, Settled, Lost
  <2>3. CASE PostEscapes
    BY <1>1, <1>4, <2>3, NoElements DEF PostEscapes, Queue, Held, Settled, Lost
  <2> QED BY <2>1, <2>2, <2>3
<1>7. \E n \in 0..Len(sent) : Accepted' = Accepted \cup {sent[i] : i \in 1..n}
  <2>1. 0 \in 0..Len(sent) /\ Len(sent) \in 0..Len(sent)
    BY <1>4
  <2>2. accepted' = accepted \/ \E n \in 0..Len(sent) : Accepts(n)
    BY <2>1 DEF PostSucceeds, PostFails, PostEscapes
  <2>3. CASE accepted' = accepted
    <3>1. Accepted' = Accepted \cup {sent[i] : i \in 1..0}
      BY <2>3 DEF Accepted
    <3> QED BY <2>1, <3>1
  <2>4. CASE \E n \in 0..Len(sent) : Accepts(n)
    BY <1>1, <2>4, AcceptedCounts
  <2> QED BY <2>2, <2>3, <2>4
<1>8. PICK n \in 0..Len(sent) : Accepted' = Accepted \cup {sent[i] : i \in 1..n}
  BY <1>7
<1>9. Settled \subseteq Settled' /\ Accepted \subseteq Accepted'
  BY <1>1, <1>6, <1>8 DEF Settled, Lost
<1>10. Live' # {} => Behind' \subseteq Settled' \cup ToSet(Queue')
  BY <1>3, <1>4, <1>5, <1>6, <1>9
<1>11. ASSUME NEW later \in Accepted', NEW earlier \in Live' \cup Held', earlier < later
       PROVE  earlier \in Settled'
  <2>1. earlier \in Live \cup Held
    BY <1>5, <1>6
  <2>2. CASE later \in Accepted
    BY <1>3, <1>9, <1>11, <2>1, <2>2
  <2>3. CASE later \notin Accepted
    <3>1. PICK j \in 1..n : later = sent[j]
      BY <1>8, <2>3
    <3>2. j \in 1..Len(sent)
      BY <1>4
    <3>3. earlier \in Settled \/ \E i \in 1..j - 1 : sent[i] = earlier
      BY <1>3, <1>4, <1>11, <2>1, <3>1, <3>2 DEF InTurn
    <3>4. \A i \in 1..j - 1 : i \in 1..n
      BY <1>4
    <3> QED BY <1>8, <1>9, <3>3, <3>4 DEF Settled
  <2> QED BY <2>2, <2>3
<1>12. InTurn(Queue', Live' \cup Held', Settled')
  <2>1. Live' \cup Held' \subseteq Live \cup Held
    BY <1>5, <1>6
  <2>2. InTurn(sent, Live' \cup Held', Settled')
    BY <1>3, <1>4, <1>9, <2>1, InTurnLess
  <2>3. CASE PostSucceeds
    <3>1. Queue' = sent
      BY <2>3 DEF PostSucceeds, Queue
    <3> QED BY <2>2, <3>1
  <2>4. CASE PostFails
    <3>1. Add(sent) /\ Queue' = buffer'
      BY <2>4 DEF PostFails, PutBack, Queue
    <3>2. buffer \o sent = sent
      BY <1>4, EmptySeq
    <3>3. Live' \cup Held' \in SUBSET Lines /\ dropped' \subseteq Settled'
      BY <1>4, <2>1 DEF Settled, Lost
    <3>4. InTurn(buffer', Live' \cup Held', Settled')
      BY <1>1, <1>4, <2>2, <3>1, <3>2, <3>3, AddedInTurn
    <3> QED BY <3>1, <3>4
  <2>5. CASE PostEscapes
    <3>1. Queue' = <<>>
      BY <1>4, <2>5 DEF PostEscapes, Queue
    <3> QED BY <3>1, NothingInTurn
  <2> QED BY <2>3, <2>4, <2>5
<1> QED BY <1>10, <1>11, <1>12

\* The end of a flush leaves nothing in memory that is not on the stream.
LEMMA SaveOrder ==
    ASSUME CollectorInv, OrderInv, Save \/ SaveFails
    PROVE  OrderInv'
<1>1. /\ UNCHANGED <<node, fh, tail, accepted, dropped, escaped, torn, rewritten>>
      /\ pc = "save" /\ pc' = "poll" /\ sent' = <<>> /\ buffer' = buffer
  BY DEF Save, SaveFails, history
<1>2. created' = created /\ Live' = Live /\ Behind' = Behind /\ Settled' = Settled
      /\ Accepted' = Accepted
  BY <1>1 DEF node, Live, Behind, Noticed, Settled, Accepted, Lost
<1>3. buffer = <<>> /\ ToSet(sent) \subseteq Accepted
  BY <1>1 DEF CollectorInv, FlushInv
<1>4. Queue' = <<>> /\ Held' = {} /\ Queue = sent
  BY <1>1, <1>3, NoElements DEF Queue, Held
<1> SUFFICES ASSUME created = 1
             PROVE  /\ Live' # {} => Behind' \subseteq Settled' \cup ToSet(Queue')
                    /\ \A later \in Accepted', earlier \in Live' \cup Held' :
                          earlier < later => earlier \in Settled'
                    /\ InTurn(Queue', Live' \cup Held', Settled')
  BY <1>2 DEF OrderInv
<1>5. Live # {} => Behind \subseteq Settled
  BY <1>3, <1>4 DEF OrderInv, Settled
<1>6. \A later \in Accepted, earlier \in Live : earlier < later => earlier \in Settled
  BY DEF OrderInv
<1>7. InTurn(Queue', Live' \cup Held', Settled')
  BY <1>4, NothingInTurn
<1> QED BY <1>2, <1>4, <1>5, <1>6, <1>7

\* After a restart all that the state file does not name is to be read again.
LEMMA RestartOrder ==
    ASSUME CollectorInv, LinesInv, OrderInv, Restart
    PROVE  OrderInv'
<1>1. /\ UNCHANGED <<node, accepted, dropped, escaped, torn>> /\ tail' = saved /\ fh' = None
      /\ rewritten' = rewritten \cup overgrown
      /\ buffer' = <<>> /\ sent' = <<>> /\ pc' = "poll"
  BY DEF Restart
<1>2. created' = created /\ files' = files /\ path' = path /\ Accepted' = Accepted
      /\ Settled' = Settled \cup overgrown
  BY <1>1 DEF node, Settled, Accepted, Lost
<1>3. Queue' = <<>> /\ Held' = {} /\ Live' \subseteq Live /\ (Live' # {} => path # None)
  BY <1>1, <1>2, NoElements DEF Queue, Held, Live
<1> SUFFICES ASSUME created = 1
             PROVE  /\ Live' # {} => Behind' \subseteq Settled' \cup ToSet(Queue')
                    /\ \A later \in Accepted', earlier \in Live' \cup Held' :
                          earlier < later => earlier \in Settled'
                    /\ InTurn(Queue', Live' \cup Held', Settled')
  BY <1>2 DEF OrderInv
<1>4. \A later \in Accepted, earlier \in Live : earlier < later => earlier \in Settled
  BY DEF OrderInv
<1>5. InTurn(Queue', Live' \cup Held', Settled')
  BY <1>3, NothingInTurn
<1>6. ASSUME path # None PROVE Behind' \subseteq Settled'
  <2>1. /\ path = 1 /\ 1 \in Inodes /\ Len(files[1]) \in Nat /\ saved.offset \in Nat
        /\ ToSet(files[1]) = {files[1][p] : p \in 1..Len(files[1])}
    BY <1>6, OrderFacts
  <2>2. CASE saved.inode = 1 /\ saved.offset <= Len(files[1])
    <3>1. ToRead(saved) = {files[1][i] : i \in saved.offset + 1..Len(files[1])}
      BY <1>6, <2>1, <2>2 DEF ToRead, ResumesAt
    <3>2. ToSet(files[1]) \subseteq Settled' \cup ToRead(saved)
      BY <1>2, <1>6, <2>1 DEF CollectorInv, AtLeastOnce, Current, Settled
    <3>3. ASSUME NEW p \in 1..saved.offset PROVE files[1][p] \in Settled'
      <4>1. p \in 1..Len(files[1])
        BY <2>1, <2>2
      <4>2. ASSUME NEW i \in saved.offset + 1..Len(files[1]) PROVE files[1][i] # files[1][p]
        <5>1. i \in 1..Len(files[1]) /\ i # p
          BY <2>1, <2>2
        <5>2. TypeOK
          BY DEF CollectorInv
        <5> QED BY <2>1, <4>1, <5>1, <5>2, DifferentLines
      <4>3. files[1][p] \notin ToRead(saved)
        BY <3>1, <4>2
      <4> QED BY <2>1, <3>2, <4>1, <4>3
    <3>4. Behind' = {files[1][p] : p \in 1..saved.offset}
      BY <1>1, <1>2, <2>2 DEF Behind, Noticed
    <3> QED BY <3>3, <3>4
  <2>3. CASE ~(saved.inode = 1 /\ saved.offset <= Len(files[1]))
    BY <1>1, <1>2, <2>3 DEF Behind
  <2> QED BY <2>2, <2>3
<1> QED BY <1>2, <1>3, <1>4, <1>5, <1>6

\* A read takes the lines behind the tail in the order of the file.
LEMMA ReadOrder ==
    ASSUME CollectorInv, LinesInv, OrderInv, Read
    PROVE  OrderInv'
<1>1. /\ TypeOK /\ HandleInv /\ sent = <<>> /\ sent' = <<>> /\ pc = "read" /\ pc' = "flush"
      /\ UNCHANGED <<files, path, created, accepted, escaped, rewritten>>
  BY DEF Read, node, CollectorInv, FlushInv
<1> SUFFICES ASSUME created = 1
             PROVE  /\ Live' # {} => Behind' \subseteq Settled' \cup ToSet(Queue')
                    /\ \A later \in Accepted', earlier \in Live' \cup Held' :
                          earlier < later => earlier \in Settled'
                    /\ InTurn(Queue', Live' \cup Held', Settled')
  BY <1>1 DEF OrderInv
<1>2. PICK file \in Inodes, start \in Nat, lines \in Seq(Lines) :
         /\ file = IF fh = None \/ stat.inode # tail.inode \/ Truncated THEN path ELSE fh
         /\ start = IF stat.inode # tail.inode \/ Truncated THEN 0 ELSE tail.offset
         /\ start + Len(lines) = IF start <= Len(files[file]) THEN Len(files[file]) ELSE start
         /\ \A i \in 1..Len(lines) : /\ start + i \in 1..Len(files[file])
                                     /\ lines[i] = files[file][start + i]
         /\ ToSet(lines) = {files[file][i] : i \in start + 1..Len(files[file])}
         /\ Add(Parsed(lines))
         /\ fh' = file /\ tail' = [inode |-> stat.inode, offset |-> start + Len(lines)]
         /\ torn' = torn \cup (ToSet(lines) \cap {half})
  BY ReadPart
<1>3. /\ 1 \in Inodes /\ files[1] \in Seq(Lines) /\ path \in {None, 1}
      /\ ToSet(files[1]) = {files[1][p] : p \in 1..Len(files[1])} /\ ToSet(files[1]) \subseteq Lines
      /\ stat.inode <= 1 /\ tail.offset \in Nat /\ buffer \in Seq(Lines) /\ Held = ToSet(Queue)
      /\ Held \subseteq Lines
  BY OrderFacts
<1>4. stat.inode = 1 /\ file = 1
  <2>1. stat.inode \in 0..MaxFiles /\ MaxFiles \in Nat /\ stat.inode # None
    BY <1>1, CollectorAssumption DEF TypeOK, HandleInv
  <2>2. stat.inode = 1
    BY <1>3, <2>1 DEF None
  <2>3. stat.inode = tail.inode => fh \in {None, tail.inode}
    BY <1>1 DEF HandleInv
  <2>4. file # None
    BY CollectorAssumption DEF Inodes, None
  <2> QED BY <1>2, <1>3, <2>2, <2>3, <2>4
<1>5. PICK n \in Nat : n = Len(files[1])
  BY <1>3, Elements
<1>6. /\ Live = ToSet(files[1]) /\ Live' \subseteq Live /\ Queue = buffer /\ Queue' = buffer'
      /\ Held = ToSet(buffer) /\ Held' = ToSet(buffer')
  <2>1. file # None /\ file \in {path, fh}
    BY <1>2, CollectorAssumption DEF Inodes, None
  <2> QED BY <1>1, <1>2, <2>1, NoElements DEF Live, Queue, Held
<1>7. /\ Live # {} => Behind \subseteq Settled \cup ToSet(buffer)
      /\ \A later \in Accepted, earlier \in Live \cup Held :
            earlier < later => earlier \in Settled
      /\ InTurn(buffer, Live \cup Held, Settled)
  BY <1>6 DEF OrderInv
<1>8. /\ Parsed(lines) \in Seq(Lines) /\ Len(Parsed(lines)) <= Len(lines)
      /\ \A i \in 1..Len(Parsed(lines)) : i \in 1..Len(lines) /\ Parsed(lines)[i] = lines[i]
      /\ ToSet(Parsed(lines)) \subseteq ToSet(lines)
      /\ ToSet(lines) \subseteq ToSet(Parsed(lines)) \cup (ToSet(lines) \cap {half})
  BY ParsedPart, ParsedLines
<1>9. /\ dropped \subseteq dropped'
      /\ ToSet(buffer) \subseteq ToSet(buffer') \cup dropped'
      /\ ToSet(Parsed(lines)) \subseteq ToSet(buffer') \cup dropped'
      /\ ToSet(buffer') \subseteq ToSet(buffer) \cup ToSet(Parsed(lines))
  BY <1>1, <1>2, <1>8, AddedLines, AddedOccurrences
<1>10. /\ Accepted' = Accepted /\ Settled \subseteq Settled' /\ dropped' \subseteq Settled'
       /\ ToSet(lines) \cap {half} \subseteq Settled'
  BY <1>1, <1>2, <1>9 DEF Accepted, Settled, Lost
<1>11. ToSet(lines) \subseteq Live /\ Held' \subseteq Live \cup Held
  <2>1. \A i \in start + 1..n : i \in 1..n
    BY <1>5
  <2>2. ToSet(lines) \subseteq Live
    BY <1>2, <1>3, <1>4, <1>5, <1>6, <2>1
  <2> QED BY <1>6, <1>8, <1>9, <2>2
\* What lies before the part that is read.
<1>12. ASSUME NEW p \in 1..start, start <= n
       PROVE  files[1][p] \in Settled \cup ToSet(buffer)
  <2>1. start # 0 /\ p \in 1..n
    BY <1>5, <1>12
  <2>2. start = tail.offset /\ tail.inode = 1
    BY <1>2, <1>4, <2>1
  <2>3. Behind = {files[1][q] : q \in 1..tail.offset}
    <3>1. ~Truncated
      BY <1>2, <2>1
    <3> QED BY <1>5, <1>12, <2>2, <3>1 DEF Behind, Truncated, Noticed
  <2>4. files[1][p] \in Behind /\ files[1][p] \in Live
    BY <1>3, <1>5, <1>6, <2>1, <2>2, <2>3
  <2> QED BY <1>7, <2>4
<1>13. Behind' \subseteq Settled' \cup ToSet(Queue')
  <2>1. CASE start <= n
    <3>1. start + Len(lines) = n
      BY <1>2, <1>4, <1>5, <2>1
    <3>2. Behind' = {files[1][p] : p \in 1..n}
      <4>1. n <= n
        BY <1>5
      <4> QED BY <1>1, <1>2, <1>4, <1>5, <3>1, <4>1 DEF Behind, Noticed
    <3>3. ASSUME NEW p \in 1..n PROVE files[1][p] \in Settled' \cup ToSet(Queue')
      <4>1. CASE p \in 1..start
        BY <1>6, <1>9, <1>10, <1>12, <2>1, <4>1
      <4>2. CASE p \notin 1..start
        <5>1. p \in start + 1..n
          BY <1>5, <4>2
        <5>2. files[1][p] \in ToSet(lines)
          BY <1>2, <1>4, <1>5, <5>1
        <5> QED BY <1>6, <1>8, <1>9, <1>10, <5>2
      <4> QED BY <4>1, <4>2
    <3> QED BY <3>2, <3>3
  <2>2. CASE ~(start <= n)
    <3>1. start + Len(lines) = start
      BY <1>2, <1>4, <1>5, <2>2
    <3>2. Behind' = {}
      BY <1>1, <1>2, <1>4, <1>5, <2>2, <3>1 DEF Behind
    <3> QED BY <3>2
  <2> QED BY <2>1, <2>2
<1>14. \A later \in Accepted', earlier \in Live' \cup Held' :
           earlier < later => earlier \in Settled'
  BY <1>6, <1>7, <1>10, <1>11
<1>15. InTurn(buffer \o Parsed(lines), Live \cup Held, Settled)
  <2>1. PICK all : all = buffer \o Parsed(lines)
    OBVIOUS
  <2>2. PICK b \in Nat : b = Len(buffer)
    BY <1>3, Elements
  <2>3. PICK m \in Nat : m = Len(Parsed(lines))
    BY <1>8, Elements
  <2>4. /\ Len(all) = b + m
        /\ \A i \in 1..b + m : all[i] = IF i <= b THEN buffer[i] ELSE Parsed(lines)[i - b]
    BY <1>3, <1>8, <2>1, <2>2, <2>3, ConcatProperties
  <2>5. ToSet(buffer) = {buffer[i] : i \in 1..b}
    BY <1>3, <2>2, Elements
  <2>6. ASSUME NEW k \in 1..b + m, NEW earlier \in Live \cup Held, earlier < all[k]
        PROVE  earlier \in Settled \/ \E i \in 1..k - 1 : all[i] = earlier
    <3>1. CASE k <= b
      <4>1. k \in 1..b /\ all[k] = buffer[k]
        BY <2>4, <3>1
      <4>2. earlier \in Settled \/ \E i \in 1..k - 1 : buffer[i] = earlier
        BY <1>7, <2>2, <2>6, <4>1 DEF InTurn
      <4>3. \A i \in 1..k - 1 : i \in 1..b + m /\ i <= b
        BY <3>1
      <4> QED BY <2>4, <4>2, <4>3
    <3>2. CASE ~(k <= b)
      <4>1. k - b \in 1..m /\ all[k] = Parsed(lines)[k - b]
        BY <2>4, <3>2
      <4>2. ASSUME earlier \in ToSet(buffer) PROVE \E i \in 1..k - 1 : all[i] = earlier
        <5>1. PICK i \in 1..b : buffer[i] = earlier
          BY <2>5, <4>2
        <5>2. i \in 1..b + m /\ i <= b /\ i \in 1..k - 1
          BY <3>2
        <5> QED BY <2>4, <5>1, <5>2
      <4>3. CASE earlier \in Held
        BY <1>6, <4>2, <4>3
      <4>4. CASE earlier \in Live
        <5>1. PICK p \in 1..n : files[1][p] = earlier
          BY <1>3, <1>5, <1>6, <4>4
        <5>2. /\ k - b \in 1..Len(lines) /\ Parsed(lines)[k - b] = lines[k - b]
              /\ start + (k - b) \in 1..n /\ lines[k - b] = files[1][start + (k - b)]
          BY <1>2, <1>4, <1>5, <1>8, <2>3, <4>1
        <5>3. p < start + (k - b)
          <6>1. files[1][p] < files[1][start + (k - b)]
            BY <2>6, <4>1, <5>1, <5>2
          <6> QED BY <1>1, <1>3, <1>5, <5>2, <6>1, DifferentLines
        <5>4. CASE p <= start
          <6>1. p \in 1..start /\ start <= n
            BY <1>5, <5>2, <5>4
          <6> QED BY <1>12, <4>2, <5>1, <6>1
        <5>5. CASE ~(p <= start)
          <6>1. PICK d \in Nat : d >= 1 /\ p = start + d
            BY <5>5
          <6>2. d < k - b /\ k - b <= m /\ k - b \in Nat
            BY <4>1, <5>3, <6>1
          <6>3. /\ d \in 1..m /\ b + d \in 1..k - 1 /\ b + d \in 1..b + m
                /\ ~(b + d <= b) /\ (b + d) - b = d
            BY <6>1, <6>2
          <6>4. all[b + d] = Parsed(lines)[d]
            BY <2>4, <6>3
          <6>5. Parsed(lines)[d] = files[1][start + d]
            BY <1>2, <1>4, <1>8, <2>3, <6>3
          <6> QED BY <5>1, <6>1, <6>3, <6>4, <6>5
        <5> QED BY <5>4, <5>5
      <4> QED BY <4>3, <4>4
    <3> QED BY <3>1, <3>2
  <2>7. InTurn(all, Live \cup Held, Settled)
    BY <2>4, <2>6 DEF InTurn
  <2> QED BY <2>1, <2>7
<1>16. InTurn(Queue', Live' \cup Held', Settled')
  <2>1. Live' \cup Held' \subseteq Live \cup Held /\ Live' \cup Held' \subseteq Lines
    BY <1>3, <1>6, <1>11
  <2>2. InTurn(buffer \o Parsed(lines), Live' \cup Held', Settled')
    BY <1>10, <1>15, <2>1, InTurnLess
  <2>3. InTurn(buffer', Live' \cup Held', Settled')
    BY <1>1, <1>2, <1>8, <1>10, <2>1, <2>2, AddedInTurn
  <2> QED BY <1>6, <2>3
<1> QED BY <1>13, <1>14, <1>16

LEMMA OrderStep ==
    ASSUME CollectorInv, LinesInv, OrderInv, [Next]_vars
    PROVE  OrderInv'
<1>1. CollectorInv'
  BY CollectorStep
<1>2. CASE Create
  <2>1. created' # 1
    <3>1. created \in Nat /\ created >= 1
      BY CollectorAssumption DEF CollectorInv, TypeOK, Inodes
    <3> QED BY <1>2, <3>1 DEF Create
  <2> QED BY <2>1 DEF OrderInv
<1> QED BY <1>1, <1>2, WriteOrder, QuietOrder, PostOrder, SaveOrder, RestartOrder, ReadOrder
        DEF Next, Loop, Environment

-------------------------------------------------------------------------------
(* The theorems on repetition and order *)

DeliveryInv == LinesInv /\ RepeatsInv /\ OrderInv

LEMMA DeliveryStep == CollectorInv /\ DeliveryInv /\ [Next]_vars => DeliveryInv'
BY LinesStep, RepeatsStep, OrderStep DEF DeliveryInv

\* In every state that Collector reaches, all that may still bring a line to the
\* stream is within what its files and the faults so far allow, and what is in
\* memory is in the order of the log.
THEOREM DeliveryInductive == Spec => []DeliveryInv
<1>1. Init => DeliveryInv
  BY InitLines, InitRepeats, InitOrder DEF DeliveryInv
<1> QED BY <1>1, DeliveryStep, CollectorInductive, PTL DEF Spec

\* A line reaches the stream once for each file it can be read from, and as
\* often again for each failed post or save and each restart: the loop itself
\* repeats nothing.
THEOREM RepetitionIsBounded == Spec => []RepeatsNeedFaults
<1>1. CollectorInv /\ DeliveryInv => RepeatsNeedFaults
  <2> SUFFICES ASSUME CollectorInv, DeliveryInv, NEW line \in Lines
               PROVE  accepted[line] <= (1 + faults) * created
    BY DEF RepeatsNeedFaults
  <2>1. /\ accepted[line] \in Nat /\ faults \in Nat /\ created \in Nat
        /\ buffer \in Seq(Lines) /\ sent \in Seq(Lines)
    BY CollectorAssumption DEF CollectorInv, TypeOK, Inodes
  <2>2. Occurrences(buffer, line) \in Nat /\ Occurrences(sent, line) \in Nat
    BY <2>1, OccurrencesType
  <2>3. Unsent(line) \in Nat
    BY <2>2 DEF Unsent
  <2>4. Pending(line) \in Nat
    BY DEF Pending, Count
  <2>5. accepted[line] + Unsent(line) + Pending(line) <= (1 + faults) * created
    BY DEF DeliveryInv, RepeatsInv, Promised
  <2>6. (1 + faults) * created \in Nat
    BY <2>1, BoundGrows
  <2> QED BY <2>1, <2>3, <2>4, <2>5, <2>6
<1> QED BY <1>1, CollectorInductive, DeliveryInductive, PTL

\* Until there is a second file no line is accepted before an earlier one that
\* is not lost, through any number of truncations, overflows, failed posts and
\* restarts.
THEOREM LinesArriveInOrder == Spec => []InOrder
<1>1. CollectorInv /\ DeliveryInv => InOrder
  <2> SUFFICES ASSUME CollectorInv, DeliveryInv, created = 1,
                      NEW later \in Accepted, NEW earlier \in Current \cup Held, earlier < later
               PROVE  earlier \in Accepted \cup Lost
    BY DEF InOrder
  <2>1. path \in {None, 1}
    BY OrderFacts
  <2>2. Current \subseteq Live
    BY <2>1 DEF Current, Live, None
  <2>3. earlier \in Settled
    BY <2>2 DEF DeliveryInv, OrderInv
  <2> QED BY <2>3 DEF Settled
<1> QED BY <1>1, CollectorInductive, DeliveryInductive, PTL

===============================================================================
