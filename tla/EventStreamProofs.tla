---------------------------- MODULE EventStreamProofs ----------------------------
(***************************************************************************)
(* What EventStream promises, for any number of consumers, of entries and  *)
(* of faults and every size of batch: nothing is lost, nothing is          *)
(* acknowledged before it is scored, repeats need claims, and every step   *)
(* is one that AtLeastOnce allows.                                         *)
(***************************************************************************)
EXTENDS EventStream, FiniteSetTheorems, WellFoundedInduction, TLAPS

-------------------------------------------------------------------------------
(* Sets of numbers *)

\* A bounded set of numbers has a largest element: its least bound.
LEMMA MaxOfBounded ==
    ASSUME NEW S \in SUBSET Nat, S # {}, NEW n \in Nat, \A k \in S : k <= n
    PROVE  Max(S) \in S /\ \A k \in S : Max(S) >= k
<1> DEFINE bounds == {b \in Nat : \A k \in S : b >= k}
<1>1. n \in bounds
  OBVIOUS
<1>2. PICK m \in bounds : \A b \in bounds : ~(<<b, m>> \in OpToRel(<, Nat))
  <2>1. bounds \subseteq Nat /\ bounds # {}
    BY <1>1
  <2> HIDE DEF bounds
  <2> QED BY <2>1, NatLessThanWellFounded, WFMin, Zenon
<1>3. \A b \in bounds : ~(b < m)
  BY <1>2 DEF OpToRel
<1>4. m \in S
  <2>1. SUFFICES ASSUME m \notin S PROVE FALSE
    OBVIOUS
  <2>2. \A k \in S : k < m /\ k <= m - 1
    BY <2>1
  <2>3. PICK k \in S : k < m
    BY <2>2
  <2>4. m - 1 \in Nat
    BY <2>3
  <2>5. m - 1 \in bounds
    BY <2>2, <2>4
  <2> QED BY <1>3, <2>5
<1>5. \A k \in S : m >= k
  OBVIOUS
<1> HIDE DEF bounds
<1> QED BY <1>4, <1>5 DEF Max

\* A set of numbers has a smallest element.
LEMMA MinOfNumbers ==
    ASSUME NEW S \in SUBSET Nat, S # {}
    PROVE  Min(S) \in S /\ \A k \in S : Min(S) <= k
<1>1. PICK m \in S : \A k \in S : ~(<<k, m>> \in OpToRel(<, Nat))
  <2>1. S \subseteq Nat
    OBVIOUS
  <2> QED BY <2>1, NatLessThanWellFounded, WFMin, Zenon
<1>2. \A k \in S : ~(k < m)
  BY <1>1 DEF OpToRel
<1>3. \A k \in S : m <= k
  BY <1>2
<1> QED BY <1>3 DEF Min

-------------------------------------------------------------------------------
(* The inductive invariant *)

CycleInv(c) ==
    /\ pc[c] = "idle" => batch[c] = {}
    /\ pc[c] \in {"idle", "reading"} => handled[c] = {}
    /\ pc[c] \in {"handling", "acking"} => batch[c] # {}
    /\ handled[c] \cap poison = {}
    /\ pc[c] = "acking" => \A e \in batch[c] : scored[e] > 0
    /\ pc[c] # "acking" => \A e \in batch[c] \ claimed : scored[e] = 0
    /\ \A d \in Consumers \ {c} : batch[c] \cap batch[d] \subseteq claimed

StreamInv ==
    /\ TypeOK
    /\ NothingLost
    /\ RepeatsNeedClaims
    /\ \A e \in Entries : e > position => scored[e] = 0
    /\ \A c \in Consumers : CycleInv(c)

-------------------------------------------------------------------------------
(* The stream's order *)

LEMMA EntriesAreFinite ==
    ASSUME NEW S \in SUBSET Entries
    PROVE  IsFiniteSet(S) /\ Cardinality(S) \in Nat
<1>1. IsFiniteSet(Entries)
  BY EventStreamAssumption, FS_Interval DEF Entries
<1> QED BY <1>1, FS_Subset, FS_CardinalityType

\* A non-empty set of entries has a first and a last one.
LEMMA FirstAndLast ==
    ASSUME NEW S \in SUBSET Entries, S # {}
    PROVE  /\ Min(S) \in S /\ \A e \in S : Min(S) <= e
           /\ Max(S) \in S /\ \A e \in S : e <= Max(S)
<1>1. S \in SUBSET Nat /\ MaxEntries \in Nat /\ \A e \in S : e <= MaxEntries
  BY EventStreamAssumption DEF Entries
<1>2. Max(S) \in S /\ \A e \in S : Max(S) >= e
  BY <1>1, MaxOfBounded
<1> QED BY <1>1, <1>2, MinOfNumbers

\* A bounded read takes no more than its bound, and nothing before what it skips.
LEMMA OldestFacts ==
    ASSUME NEW S \in SUBSET Entries, NEW n \in Nat
    PROVE  /\ Oldest(S, n) \subseteq S
           /\ Cardinality(Oldest(S, n)) <= n
           /\ \A e \in Oldest(S, n), f \in S : f <= e => f \in Oldest(S, n)
<1> DEFINE upTo(e) == {older \in S : older <= e}
           oldest == Oldest(S, n)
<1>1. /\ oldest = {e \in S : Cardinality(upTo(e)) <= n}
      /\ \A e \in S : e \in Nat
  BY EventStreamAssumption DEF Oldest, Entries
<1>2. ASSUME NEW e \in S PROVE IsFiniteSet(upTo(e)) /\ Cardinality(upTo(e)) \in Nat
  BY EntriesAreFinite
<1>3. Cardinality(oldest) <= n
  <2>1. CASE oldest = {}
    BY <2>1, FS_EmptySet
  <2>2. CASE oldest # {}
    <3>1. oldest \in SUBSET Entries
      BY <1>1
    <3>2. Max(oldest) \in oldest /\ \A e \in oldest : e <= Max(oldest)
      <4> HIDE DEF oldest
      <4> QED BY <2>2, <3>1, FirstAndLast
    <3>3. oldest \subseteq upTo(Max(oldest)) /\ Cardinality(upTo(Max(oldest))) <= n
      BY <1>1, <3>2
    <3>4. /\ Cardinality(oldest) <= Cardinality(upTo(Max(oldest)))
          /\ Cardinality(oldest) \in Nat /\ Cardinality(upTo(Max(oldest))) \in Nat
      BY <1>1, <1>2, <3>1, <3>2, <3>3, FS_Subset, EntriesAreFinite
    <3> HIDE DEF upTo, oldest
    <3> QED BY <3>3, <3>4
  <2> QED BY <2>1, <2>2
<1>4. ASSUME NEW e \in oldest, NEW f \in S, f <= e
      PROVE  f \in oldest
  <2>1. upTo(f) \subseteq upTo(e) /\ e \in S
    BY <1>1, <1>4
  <2>2. Cardinality(upTo(f)) <= Cardinality(upTo(e))
    BY <1>2, <2>1, FS_Subset
  <2>3. /\ Cardinality(upTo(e)) <= n
        /\ Cardinality(upTo(f)) \in Nat /\ Cardinality(upTo(e)) \in Nat
    BY <1>1, <1>2, <2>1
  <2>4. Cardinality(upTo(f)) <= n
    <3> HIDE DEF upTo
    <3> QED BY <2>2, <2>3
  <2> QED BY <1>1, <2>4
<1> QED BY <1>1, <1>3, <1>4

-------------------------------------------------------------------------------
(* One lemma per action *)

LEMMA InitStream == Init => StreamInv
<1> SUFFICES ASSUME Init PROVE StreamInv
  OBVIOUS
<1>1. TypeOK
  <2>1. \A c \in Consumers : Cardinality(batch[c]) <= BatchSize /\ handled[c] = batch[c]
    BY FS_EmptySet, EventStreamAssumption DEF Init
  <2>2. poison \subseteq Poison /\ 0 \in 0..MaxCount /\ 0 \in 0..MaxFaults
    BY EventStreamAssumption DEF Init
  <2> QED BY <2>1, <2>2, EventStreamAssumption DEF Init, TypeOK
<1>2. \A e \in Entries : scored[e] = 0
  BY DEF Init
<1>3. NothingLost /\ RepeatsNeedClaims
  BY <1>2, EventStreamAssumption DEF Init, NothingLost, RepeatsNeedClaims
<1>4. \A c \in Consumers : CycleInv(c)
  BY DEF Init, CycleInv
<1> QED BY <1>1, <1>2, <1>3, <1>4 DEF StreamInv

\* What the invariant says of the consumer that takes a step.
LEMMA StreamFacts ==
    ASSUME StreamInv, NEW c \in Consumers
    PROVE  /\ TypeOK /\ CycleInv(c) /\ NothingLost /\ RepeatsNeedClaims
           /\ added \in Nat /\ trimmed \in Nat /\ position \in Nat /\ position <= added
           /\ trimmed <= added /\ added <= MaxEntries
           /\ batch[c] \subseteq 1..position /\ batch[c] \subseteq Entries
           /\ pending \subseteq Entries /\ idle \subseteq pending
           /\ \A e \in Entries : e \in Nat /\ scored[e] \in 0..MaxCount
           /\ \A e \in Entries : e > position => scored[e] = 0
BY EventStreamAssumption DEF StreamInv, TypeOK, Entries

\* A step of c leaves the cycles of the others as they are: no count sinks, one
\* that c raises is of an entry that was claimed if another has it in its batch,
\* and so is any that c adds to its own.
StepOf(c) ==
    /\ \A d \in Consumers \ {c} : /\ pc'[d] = pc[d] /\ batch'[d] = batch[d]
                                 /\ handled'[d] = handled[d]
                                 /\ batch[d] \cap batch'[c] \subseteq claimed'
    /\ poison' = poison /\ claimed \subseteq claimed'
    /\ \A e \in Entries : scored'[e] = scored[e] \/ (scored'[e] > 0 /\ e \in batch[c])

LEMMA OtherCycles ==
    ASSUME StreamInv, NEW c \in Consumers, StepOf(c), CycleInv(c)'
    PROVE  \A d \in Consumers : CycleInv(d)'
<1> SUFFICES ASSUME NEW d \in Consumers \ {c} PROVE CycleInv(d)'
  OBVIOUS
<1>1. CycleInv(d) /\ CycleInv(c) /\ batch[d] \subseteq Entries
  BY StreamFacts
<1>2. /\ pc'[d] = pc[d] /\ batch'[d] = batch[d] /\ handled'[d] = handled[d]
      /\ batch[d] \cap batch'[c] \subseteq claimed' /\ claimed \subseteq claimed'
      /\ poison' = poison
  BY DEF StepOf
<1>3. pc[d] = "acking" => \A e \in batch[d] : scored'[e] > 0
  BY <1>1 DEF StepOf, CycleInv
<1>4. pc[d] # "acking" => \A e \in batch[d] \ claimed' : scored'[e] = 0
  <2> SUFFICES ASSUME pc[d] # "acking", NEW e \in batch[d] \ claimed'
               PROVE  scored'[e] = 0
    OBVIOUS
  <2>1. e \notin batch[c]
    BY <1>1, <1>2 DEF CycleInv
  <2> QED BY <1>1, <1>2, <2>1 DEF StepOf, CycleInv
<1>5. \A q \in Consumers \ {d} : batch'[d] \cap batch'[q] \subseteq claimed'
  <2> SUFFICES ASSUME NEW q \in Consumers \ {d}
               PROVE  batch'[d] \cap batch'[q] \subseteq claimed'
    OBVIOUS
  <2>1. CASE q = c
    BY <1>2, <2>1
  <2>2. CASE q # c
    BY <1>1, <1>2, <2>2 DEF StepOf, CycleInv
  <2> QED BY <2>1, <2>2
<1> QED BY <1>1, <1>2, <1>3, <1>4, <1>5 DEF CycleInv

LEMMA AddInv == StreamInv /\ Add => StreamInv'
<1> SUFFICES ASSUME StreamInv, Add PROVE StreamInv'
  OBVIOUS
<1>1. /\ added' = added + 1 /\ added < MaxEntries
      /\ trimmed' \in trimmed..(IF added' - MaxLen > trimmed THEN added' - MaxLen ELSE trimmed)
      /\ poison' = poison /\ position' = position /\ pending' = pending /\ idle' = idle
      /\ pc' = pc /\ batch' = batch /\ handled' = handled /\ scored' = scored
      /\ faults' = faults /\ claimed' = claimed /\ heldBack' = heldBack
  BY DEF Add, group, consumer, history
<1>2. /\ added \in 0..MaxEntries /\ trimmed \in 0..added /\ position \in 0..added
      /\ MaxEntries \in Nat /\ MaxLen \in Nat
  BY EventStreamAssumption DEF StreamInv, TypeOK
<1>3. /\ added' \in 0..MaxEntries /\ trimmed' \in 0..added' /\ position' \in 0..added'
      /\ trimmed' \in Nat /\ trimmed <= trimmed'
  BY <1>1, <1>2
<1>4. TypeOK'
  BY <1>1, <1>3 DEF StreamInv, TypeOK
<1>5. NothingLost'
  <2> SUFFICES ASSUME NEW e \in 1..added'
               PROVE  scored[e] > 0 \/ e > position \/ e \in pending \/ e <= trimmed'
    BY <1>1 DEF NothingLost
  <2>1. CASE e \in 1..added
    <3>1. scored[e] > 0 \/ e > position \/ e \in pending \/ e <= trimmed
      BY <2>1 DEF StreamInv, NothingLost
    <3> QED BY <1>2, <1>3, <3>1
  <2>2. CASE e = added + 1
    BY <1>2, <2>2
  <2> QED BY <1>1, <1>2, <2>1, <2>2
<1>6. RepeatsNeedClaims'
  BY <1>1 DEF StreamInv, RepeatsNeedClaims
<1>7. \A c \in Consumers : CycleInv(c)'
  BY <1>1 DEF StreamInv, CycleInv
<1> QED BY <1>1, <1>4, <1>5, <1>6, <1>7 DEF StreamInv

LEMMA GrowIdleInv ==
    ASSUME StreamInv, NEW e \in Entries, GrowIdle(e)
    PROVE  StreamInv'
<1>1. /\ added' = added /\ trimmed' = trimmed /\ poison' = poison /\ position' = position
      /\ pending' = pending /\ idle' = idle \cup {e} /\ e \in pending
      /\ pc' = pc /\ batch' = batch /\ handled' = handled /\ scored' = scored
      /\ faults' = faults /\ claimed' = claimed /\ heldBack' = heldBack
  BY DEF GrowIdle, stream, consumer, history
<1>2. TypeOK'
  <2>1. idle' \subseteq pending'
    BY <1>1 DEF StreamInv, TypeOK
  <2> QED BY <1>1, <2>1 DEF StreamInv, TypeOK
<1>3. NothingLost' /\ RepeatsNeedClaims'
  BY <1>1 DEF StreamInv, NothingLost, RepeatsNeedClaims
<1>4. \A c \in Consumers : CycleInv(c)'
  BY <1>1 DEF StreamInv, CycleInv
<1> QED BY <1>1, <1>2, <1>3, <1>4 DEF StreamInv

LEMMA ClaimInv ==
    ASSUME StreamInv, NEW c \in Consumers, Claim(c)
    PROVE  StreamInv'
<1> DEFINE present == {e \in pending : e > trimmed}
           taken == Oldest(present \cap idle, BatchSize)
<1>1. /\ TypeOK /\ CycleInv(c) /\ NothingLost /\ RepeatsNeedClaims
      /\ pending \subseteq Entries /\ pending \subseteq 1..position /\ position \in Nat
      /\ trimmed \in Nat /\ \A e \in Entries : e \in Nat
  BY StreamFacts DEF TypeOK
<1>2. /\ pc[c] = "idle" /\ batch' = [batch EXCEPT ![c] = taken] /\ pending' = present
      /\ idle' = (idle \cap present) \ taken /\ pc' = [pc EXCEPT ![c] = "reading"]
      /\ claimed' = claimed \cup taken
  BY DEF Claim
<1>3. /\ added' = added /\ trimmed' = trimmed /\ poison' = poison /\ position' = position
      /\ handled' = handled /\ scored' = scored /\ faults' = faults /\ heldBack' = heldBack
  BY DEF Claim, stream
<1>4. taken \subseteq present \cap idle /\ Cardinality(taken) <= BatchSize
  <2>1. present \cap idle \in SUBSET Entries /\ BatchSize \in Nat
    BY <1>1, EventStreamAssumption
  <2> HIDE DEF present
  <2> QED BY <2>1, OldestFacts
<1> HIDE DEF taken
<1>5. /\ batch'[c] = taken /\ pc'[c] = "reading" /\ handled[c] = {}
      /\ \A d \in Consumers \ {c} : pc'[d] = pc[d] /\ batch'[d] = batch[d]
  BY <1>1, <1>2 DEF TypeOK, CycleInv
<1>6. TypeOK'
  <2>1. batch' \in [Consumers -> SUBSET (1..position')]
    BY <1>1, <1>2, <1>3, <1>4 DEF TypeOK
  <2>2. \A d \in Consumers : Cardinality(batch'[d]) <= BatchSize /\ handled'[d] \subseteq batch'[d]
    BY <1>1, <1>3, <1>4, <1>5 DEF TypeOK
  <2>3. pc' \in [Consumers -> {"idle", "reading", "handling", "acking"}]
    BY <1>1, <1>2 DEF TypeOK
  <2>4. pending' \subseteq 1..position' /\ idle' \subseteq pending' /\ claimed' \subseteq Entries
    BY <1>1, <1>2, <1>3, <1>4 DEF TypeOK
  <2> QED BY <1>1, <1>3, <2>1, <2>2, <2>3, <2>4 DEF TypeOK
<1>7. NothingLost'
  <2> SUFFICES ASSUME NEW e \in 1..added
               PROVE  scored[e] > 0 \/ e > position \/ e \in present \/ e <= trimmed
    BY <1>2, <1>3 DEF NothingLost
  <2>1. scored[e] > 0 \/ e > position \/ e \in pending \/ e <= trimmed
    BY <1>1 DEF NothingLost
  <2> QED BY <1>1, <2>1
<1>8. RepeatsNeedClaims'
  BY <1>1, <1>2, <1>3 DEF RepeatsNeedClaims
<1>9. CycleInv(c)'
  BY <1>2, <1>3, <1>5 DEF CycleInv
<1>10. StepOf(c)
  BY <1>2, <1>3, <1>5 DEF StepOf
<1>11. \A e \in Entries : e > position' => scored'[e] = 0
  BY <1>3 DEF StreamInv
<1> QED BY <1>6, <1>7, <1>8, <1>9, <1>10, <1>11, OtherCycles DEF StreamInv

LEMMA ClaimFailsInv ==
    ASSUME StreamInv, NEW c \in Consumers, ClaimFails(c)
    PROVE  StreamInv'
<1>1. /\ TypeOK /\ CycleInv(c) /\ NothingLost /\ RepeatsNeedClaims
  BY StreamFacts
<1>2. /\ pc[c] = "idle" /\ batch' = [batch EXCEPT ![c] = {}]
      /\ pc' = [pc EXCEPT ![c] = "reading"] /\ faults < MaxFaults /\ faults' = faults + 1
  BY DEF ClaimFails
<1>3. /\ added' = added /\ trimmed' = trimmed /\ poison' = poison /\ position' = position
      /\ pending' = pending /\ idle' = idle /\ claimed' = claimed
      /\ handled' = handled /\ scored' = scored /\ heldBack' = heldBack
  BY DEF ClaimFails, stream, group, history
<1>4. /\ batch'[c] = {} /\ batch[c] = {} /\ pc'[c] = "reading" /\ handled[c] = {}
      /\ \A d \in Consumers \ {c} : pc'[d] = pc[d] /\ batch'[d] = batch[d]
  BY <1>1, <1>2 DEF TypeOK, CycleInv
<1>5. TypeOK'
  <2>1. batch' = batch
    BY <1>1, <1>2, <1>4 DEF TypeOK
  <2>2. pc' \in [Consumers -> {"idle", "reading", "handling", "acking"}]
    BY <1>1, <1>2 DEF TypeOK
  <2>3. faults' \in 0..MaxFaults
    BY <1>1, <1>2, EventStreamAssumption DEF TypeOK
  <2> QED BY <1>1, <1>3, <2>1, <2>2, <2>3 DEF TypeOK
<1>6. NothingLost' /\ RepeatsNeedClaims'
  BY <1>1, <1>3 DEF NothingLost, RepeatsNeedClaims
<1>7. CycleInv(c)'
  <2>1. \A d \in Consumers \ {c} : batch'[c] \cap batch'[d] \subseteq claimed'
    BY <1>4
  <2> QED BY <1>3, <1>4, <2>1 DEF CycleInv
<1>8. StepOf(c)
  BY <1>3, <1>4 DEF StepOf
<1>9. \A e \in Entries : e > position' => scored'[e] = 0
  BY <1>3 DEF StreamInv
<1> QED BY <1>5, <1>6, <1>7, <1>8, <1>9, OtherCycles DEF StreamInv

\* XREADGROUP delivers every entry up to the group's new position, so none is
\* passed over, and none that it has delivered before.
LEMMA ReadInv ==
    ASSUME StreamInv, NEW c \in Consumers, Read(c)
    PROVE  StreamInv'
<1> DEFINE n == BatchSize - Cardinality(batch[c])
           new == Oldest(Unread, n)
<1>1. /\ TypeOK /\ CycleInv(c) /\ NothingLost /\ RepeatsNeedClaims
      /\ added \in Nat /\ trimmed \in Nat /\ position \in Nat /\ position <= added
      /\ added <= MaxEntries /\ MaxEntries \in Nat
      /\ batch[c] \subseteq 1..position /\ batch[c] \in SUBSET Entries
      /\ \A e \in Entries : e \in Nat
  BY StreamFacts, EventStreamAssumption
<1>2. /\ pc[c] = "reading" /\ batch' = [batch EXCEPT ![c] = @ \cup new]
      /\ position' = IF new = {} THEN position ELSE Max(new)
      /\ pending' = pending \cup new
      /\ pc' = [pc EXCEPT ![c] = IF batch'[c] = {} THEN "idle" ELSE "handling"]
  BY DEF Read, Deliver
<1>3. /\ added' = added /\ trimmed' = trimmed /\ poison' = poison /\ idle' = idle
      /\ claimed' = claimed /\ handled' = handled /\ scored' = scored
      /\ faults' = faults /\ heldBack' = heldBack
  BY DEF Read, Deliver, stream, history
<1>4. Cardinality(batch[c]) \in Nat /\ n \in Nat
  <2>1. Cardinality(batch[c]) \in Nat
    BY <1>1, EntriesAreFinite
  <2>2. Cardinality(batch[c]) <= BatchSize /\ BatchSize \in Nat
    BY <1>1, EventStreamAssumption DEF TypeOK
  <2> QED BY <2>1, <2>2
<1>5. /\ new \subseteq Unread /\ Cardinality(new) <= n
      /\ \A e \in new, f \in Unread : f <= e => f \in new
      /\ Unread \in SUBSET Entries
  <2>1. Unread \in SUBSET Entries
    BY DEF Unread
  <2> HIDE DEF n
  <2> QED BY <1>4, <2>1, OldestFacts
<1>6. \A e \in new : e \in Entries /\ e <= added /\ e > trimmed /\ e > position
  BY <1>5 DEF Unread
<1>7. /\ position' \in Nat /\ position <= position' /\ position' <= added
      /\ new \subseteq 1..position'
      /\ \A e \in Unread : e <= position' => e \in new
  <2>1. CASE new = {}
    BY <1>1, <1>2, <2>1 DEF Unread
  <2>2. CASE new # {}
    <3>1. Max(new) \in new /\ \A e \in new : e <= Max(new)
      <4>1. new \in SUBSET Entries
        BY <1>5
      <4> HIDE DEF new
      <4> QED BY <2>2, <4>1, FirstAndLast
    <3> HIDE DEF new
    <3>2. position' = Max(new)
      BY <1>2, <2>2
    <3>3. \A e \in new : e \in 1..position'
      BY <1>1, <1>6, <3>1, <3>2
    <3> QED BY <1>1, <1>5, <1>6, <3>1, <3>2, <3>3
  <2> QED BY <2>1, <2>2
<1> HIDE DEF new
<1>8. /\ batch'[c] = batch[c] \cup new /\ handled[c] = {}
      /\ pc'[c] = IF batch'[c] = {} THEN "idle" ELSE "handling"
      /\ \A d \in Consumers \ {c} : pc'[d] = pc[d] /\ batch'[d] = batch[d]
  BY <1>1, <1>2 DEF TypeOK, CycleInv
<1>9. \A d \in Consumers : batch[d] \cap new = {}
  <2> SUFFICES ASSUME NEW d \in Consumers, NEW e \in batch[d], e \in new PROVE FALSE
    OBVIOUS
  <2>1. e <= position /\ e \in Nat
    BY <1>1 DEF TypeOK
  <2> QED BY <1>1, <1>6, <2>1
<1>10. TypeOK'
  <2>1. batch' \in [Consumers -> SUBSET (1..position')]
    <3>1. 1..position \subseteq 1..position'
      BY <1>1, <1>7
    <3> QED BY <1>1, <1>2, <1>7, <3>1 DEF TypeOK
  <2>2. Cardinality(batch'[c]) <= BatchSize
    <3>1. IsFiniteSet(batch[c]) /\ IsFiniteSet(new) /\ Cardinality(new) \in Nat
      BY <1>1, <1>5, EntriesAreFinite
    <3>2. Cardinality(batch[c] \cup new) = Cardinality(batch[c]) + Cardinality(new)
      <4>1. batch[c] \cap new = {}
        BY <1>9
      <4>2. Cardinality(batch[c] \cup new)
                = Cardinality(batch[c]) + Cardinality(new) - Cardinality(batch[c] \cap new)
        BY <3>1, FS_Union
      <4>3. Cardinality(batch[c] \cap new) = 0
        BY <4>1, FS_EmptySet, Zenon
      <4> HIDE DEF n
      <4> QED BY <1>4, <3>1, <4>2, <4>3
    <3> QED BY <1>4, <1>5, <1>8, <3>1, <3>2, EventStreamAssumption
  <2>3. \A d \in Consumers : Cardinality(batch'[d]) <= BatchSize /\ handled'[d] \subseteq batch'[d]
    BY <1>1, <1>3, <1>8, <2>2 DEF TypeOK
  <2>4. pc' \in [Consumers -> {"idle", "reading", "handling", "acking"}]
    BY <1>1, <1>2 DEF TypeOK
  <2>5. pending' \subseteq 1..position' /\ idle' \subseteq pending' /\ position' \in 0..added'
    <3>1. 1..position \subseteq 1..position'
      BY <1>1, <1>7
    <3> QED BY <1>1, <1>2, <1>3, <1>7, <3>1 DEF TypeOK
  <2> QED BY <1>1, <1>3, <2>1, <2>3, <2>4, <2>5 DEF TypeOK
<1>11. NothingLost'
  <2> SUFFICES ASSUME NEW e \in 1..added, e <= position', e > trimmed
               PROVE  scored[e] > 0 \/ e \in pending'
    BY <1>1, <1>3, <1>7 DEF NothingLost
  <2>1. CASE e <= position
    <3>1. scored[e] > 0 \/ e > position \/ e \in pending \/ e <= trimmed
      BY <1>1 DEF NothingLost
    <3> QED BY <1>1, <1>2, <2>1, <3>1
  <2>2. CASE e > position
    BY <1>1, <1>2, <1>7, <2>2 DEF Unread, Entries
  <2> QED BY <1>1, <2>1, <2>2
<1>12. RepeatsNeedClaims'
  BY <1>1, <1>3 DEF RepeatsNeedClaims
<1>13. \A e \in new : scored[e] = 0
  BY <1>6 DEF StreamInv
<1>14. CycleInv(c)'
  <2>1. \A e \in batch'[c] \ claimed' : scored'[e] = 0
    BY <1>1, <1>2, <1>3, <1>8, <1>13 DEF CycleInv
  <2>2. \A d \in Consumers \ {c} : batch'[c] \cap batch'[d] \subseteq claimed'
    BY <1>1, <1>3, <1>8, <1>9 DEF CycleInv
  <2> QED BY <1>3, <1>8, <2>1, <2>2 DEF CycleInv
<1>15. StepOf(c)
  <2>1. \A d \in Consumers \ {c} : batch[d] \cap batch'[c] \subseteq claimed
    BY <1>1, <1>8, <1>9 DEF CycleInv
  <2> QED BY <1>3, <1>8, <2>1 DEF StepOf
<1>16. \A e \in Entries : e > position' => scored'[e] = 0
  BY <1>1, <1>3, <1>7 DEF StreamInv
<1> QED BY <1>10, <1>11, <1>12, <1>14, <1>15, <1>16, OtherCycles DEF StreamInv

\* The cycle of c ends, with or without its acknowledgement.
LEMMA DropInv ==
    ASSUME StreamInv, NEW c \in Consumers, Drop(c),
           UNCHANGED <<stream, position, scored, claimed>>,
           faults' \in 0..MaxFaults, heldBack' \subseteq Entries,
           pending' \subseteq pending, idle' \subseteq idle, idle' \subseteq pending',
           \A e \in pending \ pending' : scored[e] > 0
    PROVE  StreamInv'
<1>1. /\ TypeOK /\ CycleInv(c) /\ NothingLost /\ RepeatsNeedClaims
  BY StreamFacts
<1>2. /\ batch' = [batch EXCEPT ![c] = {}] /\ handled' = [handled EXCEPT ![c] = {}]
      /\ pc' = [pc EXCEPT ![c] = "idle"]
  BY DEF Drop
<1>3. /\ added' = added /\ trimmed' = trimmed /\ poison' = poison /\ position' = position
      /\ scored' = scored /\ claimed' = claimed
  BY DEF stream
<1>4. /\ batch'[c] = {} /\ pc'[c] = "idle" /\ handled'[c] = {}
      /\ \A d \in Consumers \ {c} : /\ pc'[d] = pc[d] /\ batch'[d] = batch[d]
                                   /\ handled'[d] = handled[d]
  BY <1>1, <1>2 DEF TypeOK
<1>5. TypeOK'
  <2>1. batch' \in [Consumers -> SUBSET (1..position')]
    BY <1>1, <1>2, <1>3 DEF TypeOK
  <2>2. handled' \in [Consumers -> SUBSET Entries]
    BY <1>1, <1>2 DEF TypeOK
  <2>3. pc' \in [Consumers -> {"idle", "reading", "handling", "acking"}]
    BY <1>1, <1>2 DEF TypeOK
  <2>4. \A d \in Consumers : Cardinality(batch'[d]) <= BatchSize /\ handled'[d] \subseteq batch'[d]
    <3>1. Cardinality(batch'[c]) = 0
      BY <1>4, FS_EmptySet, Zenon
    <3>2. Cardinality(batch'[c]) <= BatchSize
      BY <3>1, EventStreamAssumption
    <3> QED BY <1>1, <1>4, <3>2 DEF TypeOK
  <2>5. pending' \subseteq 1..position'
    BY <1>1, <1>3 DEF TypeOK
  <2> QED BY <1>1, <1>3, <2>1, <2>2, <2>3, <2>4, <2>5 DEF TypeOK
<1>6. NothingLost' /\ RepeatsNeedClaims'
  <2>1. NothingLost'
    BY <1>1, <1>3 DEF NothingLost
  <2>2. RepeatsNeedClaims'
    BY <1>1, <1>3 DEF RepeatsNeedClaims
  <2> QED BY <2>1, <2>2
<1>7. CycleInv(c)'
  BY <1>4 DEF CycleInv
<1>8. StepOf(c)
  BY <1>3, <1>4 DEF StepOf
<1>9. \A e \in Entries : e > position' => scored'[e] = 0
  BY <1>3 DEF StreamInv
<1> QED BY <1>5, <1>6, <1>7, <1>8, <1>9, OtherCycles DEF StreamInv

LEMMA HandleInv ==
    ASSUME StreamInv, NEW c \in Consumers, Handle(c)
    PROVE  StreamInv'
<1> DEFINE left == batch[c] \ handled[c]
<1>1. /\ TypeOK /\ CycleInv(c) /\ NothingLost /\ RepeatsNeedClaims
      /\ batch[c] \subseteq Entries
  BY StreamFacts
<1>2. /\ pc[c] = "handling" /\ left # {}
      /\ UNCHANGED <<stream, group, scored, faults, claimed>>
  BY DEF Handle
<1>3. CASE Min(left) \in poison
  <2>1. Drop(c) /\ heldBack' = heldBack \cup batch[c]
    BY <1>3 DEF Handle
  <2>2. /\ faults' \in 0..MaxFaults /\ heldBack' \subseteq Entries
        /\ pending' = pending /\ idle' = idle /\ idle \subseteq pending
        /\ UNCHANGED <<stream, position, scored, claimed>>
    BY <1>1, <1>2, <2>1 DEF TypeOK, group
  <2> QED BY <2>1, <2>2, DropInv
<1>4. CASE Min(left) \notin poison
  <2>1. Min(left) \in left
    <3>1. left \in SUBSET Entries
      BY <1>1
    <3> HIDE DEF left
    <3> QED BY <1>2, <3>1, FirstAndLast
  <2>2. /\ handled' = [handled EXCEPT ![c] = @ \cup {Min(left)}]
        /\ pc' = pc /\ batch' = batch /\ heldBack' = heldBack
        /\ added' = added /\ trimmed' = trimmed /\ poison' = poison /\ position' = position
        /\ pending' = pending /\ idle' = idle /\ scored' = scored /\ faults' = faults
        /\ claimed' = claimed
    BY <1>2, <1>4 DEF Handle, stream, group
  <2> HIDE DEF left
  <2>3. /\ handled'[c] = handled[c] \cup {Min(left)}
        /\ \A d \in Consumers \ {c} : handled'[d] = handled[d]
        /\ Min(left) \in batch[c]
    BY <1>1, <2>1, <2>2 DEF TypeOK, left
  <2>4. TypeOK'
    <3>1. handled' \in [Consumers -> SUBSET Entries]
      BY <1>1, <2>2, <2>3 DEF TypeOK
    <3>2. \A d \in Consumers : handled'[d] \subseteq batch'[d]
      BY <1>1, <2>2, <2>3 DEF TypeOK
    <3> QED BY <1>1, <2>2, <3>1, <3>2 DEF TypeOK
  <2>5. NothingLost' /\ RepeatsNeedClaims'
    BY <1>1, <2>2 DEF NothingLost, RepeatsNeedClaims
  <2>6. CycleInv(c)'
    BY <1>1, <1>2, <1>4, <2>2, <2>3 DEF CycleInv
  <2>7. StepOf(c)
    BY <1>1, <2>2, <2>3 DEF StepOf, CycleInv
  <2>8. \A e \in Entries : e > position' => scored'[e] = 0
    BY <2>2 DEF StreamInv
  <2> QED BY <2>4, <2>5, <2>6, <2>7, <2>8, OtherCycles DEF StreamInv
<1> QED BY <1>3, <1>4

LEMMA CommitInv ==
    ASSUME StreamInv, NEW c \in Consumers, Commit(c)
    PROVE  StreamInv'
<1>1. /\ TypeOK /\ CycleInv(c) /\ NothingLost /\ RepeatsNeedClaims
      /\ position \in Nat /\ batch[c] \subseteq 1..position /\ batch[c] \subseteq Entries
      /\ \A e \in Entries : e \in Nat /\ scored[e] \in 0..MaxCount
  BY StreamFacts
<1>2. /\ pc[c] = "handling" /\ pc' = [pc EXCEPT ![c] = "acking"]
      /\ added' = added /\ trimmed' = trimmed /\ poison' = poison /\ position' = position
      /\ pending' = pending /\ idle' = idle /\ batch' = batch /\ handled' = handled
      /\ faults' = faults /\ claimed' = claimed /\ heldBack' = heldBack
  BY DEF Commit, stream, group, history
<1>3. ASSUME NEW e \in Entries
      PROVE  /\ scored'[e] \in 0..MaxCount
             /\ e \in batch[c] => scored'[e] > 0 /\ (scored[e] = 0 => scored'[e] = 1)
             /\ e \notin batch[c] => scored'[e] = scored[e]
  <2>1. scored'[e] = IF e \in batch[c] THEN Once(scored[e]) ELSE scored[e]
    BY DEF Commit
  <2>2. scored[e] \in 0..MaxCount /\ MaxCount \in Nat \ {0}
    BY <1>1, EventStreamAssumption
  <2> QED BY <2>1, <2>2 DEF Once
<1>4. DOMAIN scored' = Entries /\ scored' = [e \in Entries |-> scored'[e]]
  BY DEF Commit
<1>5. pc'[c] = "acking" /\ \A d \in Consumers \ {c} : pc'[d] = pc[d]
  BY <1>1, <1>2 DEF TypeOK
<1>6. TypeOK'
  <2>1. scored' \in [Entries -> 0..MaxCount]
    BY <1>3, <1>4
  <2>2. pc' \in [Consumers -> {"idle", "reading", "handling", "acking"}]
    BY <1>1, <1>2 DEF TypeOK
  <2> QED BY <1>1, <1>2, <2>1, <2>2 DEF TypeOK
<1>7. NothingLost'
  <2> SUFFICES ASSUME NEW e \in 1..added
               PROVE  scored'[e] > 0 \/ e > position \/ e \in pending \/ e <= trimmed
    BY <1>2 DEF NothingLost
  <2>1. e \in Entries
    BY <1>1, EventStreamAssumption DEF TypeOK, Entries
  <2>2. scored[e] > 0 \/ e > position \/ e \in pending \/ e <= trimmed
    BY <1>1 DEF NothingLost
  <2> QED BY <1>3, <1>4, <2>1, <2>2
<1>8. RepeatsNeedClaims'
  <2> SUFFICES ASSUME NEW e \in Entries, scored'[e] > 1, e \notin claimed PROVE FALSE
    BY <1>2 DEF RepeatsNeedClaims
  <2>1. e \in batch[c]
    BY <1>1, <1>3 DEF RepeatsNeedClaims
  <2>2. scored[e] = 0
    BY <1>1, <1>2, <2>1 DEF CycleInv
  <2> QED BY <1>3, <1>4, <2>1, <2>2
<1>9. CycleInv(c)'
  <2>1. \A e \in batch[c] : scored'[e] > 0
    BY <1>1, <1>3, <1>4
  <2> QED BY <1>1, <1>2, <1>5, <2>1 DEF CycleInv
<1>10. StepOf(c)
  BY <1>1, <1>2, <1>3, <1>4, <1>5 DEF StepOf, CycleInv
<1>11. \A e \in Entries : e > position' => scored'[e] = 0
  <2> SUFFICES ASSUME NEW e \in Entries, e > position PROVE scored'[e] = 0
    BY <1>2
  <2>1. e \notin batch[c]
    BY <1>1
  <2> QED BY <1>3, <2>1 DEF StreamInv
<1> QED BY <1>6, <1>7, <1>8, <1>9, <1>10, <1>11, OtherCycles DEF StreamInv

LEMMA AckInv ==
    ASSUME StreamInv, NEW c \in Consumers, Ack(c)
    PROVE  StreamInv'
<1>1. TypeOK /\ CycleInv(c)
  BY StreamFacts
<1>2. /\ pc[c] = "acking" /\ pending' = pending \ batch[c] /\ idle' = idle \ batch[c]
      /\ Drop(c) /\ UNCHANGED <<stream, position, scored, claimed>>
      /\ faults' = faults /\ heldBack' = heldBack
  BY DEF Ack, history
<1>3. \A e \in pending \ pending' : scored[e] > 0
  BY <1>1, <1>2 DEF CycleInv
<1>4. /\ faults' \in 0..MaxFaults /\ heldBack' \subseteq Entries /\ idle' \subseteq pending'
  BY <1>1, <1>2 DEF TypeOK
<1> QED BY <1>2, <1>3, <1>4, DropInv

LEMMA FailInv ==
    ASSUME StreamInv, NEW c \in Consumers, Fail(c)
    PROVE  StreamInv'
<1>1. TypeOK
  BY StreamFacts
<1>2. /\ faults < MaxFaults /\ faults' = faults + 1 /\ Drop(c)
      /\ pending' = pending /\ idle' = idle /\ heldBack' = heldBack
      /\ UNCHANGED <<stream, position, scored, claimed>>
  BY DEF Fail, group, history
<1>3. faults' \in 0..MaxFaults
  BY <1>1, <1>2, EventStreamAssumption DEF TypeOK
<1>4. heldBack' \subseteq Entries /\ idle \subseteq pending
  BY <1>1, <1>2 DEF TypeOK
<1> QED BY <1>2, <1>3, <1>4, DropInv

LEMMA StreamStep == StreamInv /\ [Next]_vars => StreamInv'
<1> SUFFICES ASSUME StreamInv, [Next]_vars PROVE StreamInv'
  OBVIOUS
<1>1. CASE Next
  BY <1>1, AddInv, GrowIdleInv, ClaimInv, ClaimFailsInv, ReadInv, HandleInv, CommitInv,
     AckInv, FailInv DEF Next, Cycle
<1>2. CASE UNCHANGED vars
  <2>1. TypeOK'
    BY <1>2 DEF StreamInv, TypeOK, vars, stream, group, consumer, history
  <2>2. NothingLost' /\ RepeatsNeedClaims'
    BY <1>2 DEF StreamInv, NothingLost, RepeatsNeedClaims, vars, stream, group, history
  <2>3. \A c \in Consumers : CycleInv(c)'
    BY <1>2 DEF StreamInv, CycleInv, vars, stream, consumer, history
  <2>4. \A e \in Entries : e > position' => scored'[e] = 0
    BY <1>2 DEF StreamInv, vars, group
  <2> QED BY <2>1, <2>2, <2>3, <2>4 DEF StreamInv
<1> QED BY <1>1, <1>2

-------------------------------------------------------------------------------
(* The theorems *)

\* The invariant holds in every state that EventStream reaches.
THEOREM StreamInductive == Spec => []StreamInv
BY InitStream, StreamStep, PTL DEF Spec

\* Every variable keeps its type, and no batch outgrows its size: the read asks
\* for no more than the claim has left room for.
THEOREM StreamTypes == Spec => []TypeOK
<1>1. StreamInv => TypeOK
  BY DEF StreamInv
<1> QED BY <1>1, StreamInductive, PTL

\* No accepted event is lost between the endpoint and the score, whatever
\* crashes, fails or is claimed meanwhile.
THEOREM NoEventIsLost == Spec => []NothingLost
<1>1. StreamInv => NothingLost
  BY DEF StreamInv
<1> QED BY <1>1, StreamInductive, PTL

\* Without a claim, no event is scored twice.
THEOREM NoRepeatWithoutClaim == Spec => []RepeatsNeedClaims
<1>1. StreamInv => RepeatsNeedClaims
  BY DEF StreamInv
<1> QED BY <1>1, StreamInductive, PTL

\* XACK follows the commit: what leaves the pending list is scored or was
\* dropped from the stream.
THEOREM AcknowledgementsFollowScores == Spec => AcknowledgedIsScored
<1>1. ASSUME StreamInv, [Next]_vars, NEW e \in pending \ pending'
      PROVE  scored[e] > 0 \/ e <= trimmed
  <2>1. ASSUME NEW c \in Consumers, Claim(c) PROVE e <= trimmed
    <3>1. pending' = {f \in pending : f > trimmed} /\ e \in Nat /\ trimmed \in Nat
      BY <1>1, <2>1, StreamFacts DEF Claim
    <3> QED BY <3>1
  <2>2. ASSUME NEW c \in Consumers, Read(c) PROVE FALSE
    BY <2>2 DEF Read, Deliver
  <2>3. ASSUME NEW c \in Consumers, Ack(c) PROVE scored[e] > 0
    BY <1>1, <2>3, StreamFacts DEF Ack, CycleInv
  <2>4. ASSUME NEW c \in Consumers, \/ Handle(c) \/ Commit(c) \/ ClaimFails(c)
                                   \/ Fail(c) PROVE FALSE
    BY <2>4 DEF Handle, Commit, ClaimFails, Fail, group
  <2>5. ASSUME \/ Add \/ UNCHANGED vars \/ \E f \in Entries : GrowIdle(f) PROVE FALSE
    BY <2>5 DEF Add, GrowIdle, vars, group
  <2> QED BY <1>1, <2>1, <2>2, <2>3, <2>4, <2>5 DEF Next, Cycle
<1>2. StreamInv /\ [Next]_vars =>
          [\A e \in pending \ pending' : scored[e] > 0 \/ e <= trimmed]_vars
  BY <1>1
<1> QED BY <1>2, StreamInductive, PTL DEF Spec, AcknowledgedIsScored

-------------------------------------------------------------------------------
(* The refinement of AtLeastOnce, its liveness apart *)

LEMMA BatchIsAbstract ==
    ASSUME StreamInv, NEW c \in Consumers, pc[c] = "handling"
    PROVE  batch[c] \in Abstract!Batches
<1>1. /\ TypeOK /\ CycleInv(c) /\ batch[c] \subseteq 1..position
      /\ position \in Nat /\ added \in Nat /\ position <= added
  BY StreamFacts
<1>2. batch[c] \in SUBSET (1..added) /\ batch[c] # {} /\ Cardinality(batch[c]) <= BatchSize
  BY <1>1 DEF CycleInv, TypeOK
<1>3. Abstract!Cardinality(batch[c]) = Cardinality(batch[c])
  BY Zenon DEF Cardinality, Abstract!Cardinality
<1> QED BY <1>2, <1>3 DEF Abstract!Batches

LEMMA InitRefines == Init => Abstract!Init
BY EventStreamAssumption DEF Init, Abstract!Init, Entries, Abstract!Entries

\* A commit scores a whole batch, a poison entry spoils one, an XADD accepts an
\* event; no other step says anything of AtLeastOnce's variables.
LEMMA StepRefines ==
    ASSUME StreamInv, [Next]_vars
    PROVE  [Abstract!Next]_(Abstract!vars)
<1>1. CASE Add
  <2>1. /\ added < MaxEntries /\ added' = added + 1
        /\ trimmed' \in trimmed..(IF added' - MaxLen > trimmed THEN added' - MaxLen
                                  ELSE trimmed)
        /\ poison' = poison /\ scored' = scored /\ heldBack' = heldBack
    BY <1>1 DEF Add, history
  <2>2. /\ added \in 0..MaxEntries /\ trimmed \in 0..added /\ MaxLen \in Nat /\ MaxEntries \in Nat
    BY EventStreamAssumption DEF StreamInv, TypeOK
  <2>3. trimmed' \in trimmed..added'
    BY <2>1, <2>2
  <2> QED BY <2>1, <2>3 DEF Abstract!Next, Abstract!Accept
<1>2. ASSUME NEW c \in Consumers, Commit(c) PROVE Abstract!Score
  <2>1. /\ pc[c] = "handling" /\ handled[c] = batch[c]
        /\ scored' = [e \in Entries |-> IF e \in batch[c] THEN Once(scored[e]) ELSE scored[e]]
        /\ added' = added /\ trimmed' = trimmed /\ poison' = poison /\ heldBack' = heldBack
    BY <1>2 DEF Commit, stream, history
  <2>2. batch[c] \cap poison = {}
    BY <2>1, StreamFacts DEF CycleInv
  <2>3. batch[c] \in Abstract!Batches
    BY <2>1, BatchIsAbstract
  <2> QED BY <2>1, <2>2, <2>3
          DEF Abstract!Score, Abstract!Once, Once, Abstract!Entries, Entries
<1>3. ASSUME NEW c \in Consumers, Handle(c)
      PROVE  Abstract!Spoil \/ UNCHANGED Abstract!vars
  <2> DEFINE left == batch[c] \ handled[c]
  <2>1. /\ pc[c] = "handling" /\ left # {} /\ left \in SUBSET Entries
        /\ added' = added /\ trimmed' = trimmed /\ poison' = poison /\ scored' = scored
        /\ \/ Min(left) \in poison /\ heldBack' = heldBack \cup batch[c]
           \/ heldBack' = heldBack
    BY <1>3, StreamFacts DEF Handle, stream
  <2>2. CASE Min(left) \in poison /\ heldBack' = heldBack \cup batch[c]
    <3>1. Min(left) \in left
      <4> HIDE DEF left
      <4> QED BY <2>1, FirstAndLast
    <3>2. batch[c] \cap poison # {}
      BY <2>2, <3>1
    <3>3. batch[c] \in Abstract!Batches
      BY <2>1, BatchIsAbstract
    <3> HIDE DEF left
    <3> QED BY <2>1, <2>2, <3>2, <3>3 DEF Abstract!Spoil
  <2>3. CASE heldBack' = heldBack
    BY <2>1, <2>3 DEF Abstract!vars
  <2> QED BY <2>1, <2>2, <2>3
<1>4. ASSUME NEW c \in Consumers, Claim(c) \/ ClaimFails(c) \/ Read(c) \/ Ack(c) \/ Fail(c)
      PROVE  UNCHANGED Abstract!vars
  BY <1>4 DEF Claim, ClaimFails, Read, Deliver, Ack, Fail, stream, history, Abstract!vars
<1>5. ASSUME UNCHANGED vars \/ \E e \in Entries : GrowIdle(e)
      PROVE  UNCHANGED Abstract!vars
  BY <1>5 DEF GrowIdle, vars, stream, history, Abstract!vars
<1> QED BY <1>1, <1>2, <1>3, <1>4, <1>5 DEF Next, Cycle, Abstract!Next

\* The pipeline takes no step that AtLeastOnce's specification of the scores does
\* not allow: it scores whole batches of accepted events and none with a poison
\* event, and drops only the oldest.
THEOREM PipelineRefines == Spec => Abstract!SafeSpec
BY StreamInductive, InitRefines, StepRefines, PTL DEF Spec, Abstract!SafeSpec

===============================================================================
