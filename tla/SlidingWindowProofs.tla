-------------------------- MODULE SlidingWindowProofs --------------------------
(***************************************************************************)
(* Bursts are flagged and quiet users are not, for any number of consumers *)
(* and connections, any window and any limit, as long as no connection is  *)
(* processed more than a window late.                                      *)
(***************************************************************************)
EXTENDS SlidingWindow, FiniteSetTheorems, TLAPS

-------------------------------------------------------------------------------
(* The inductive invariant *)

Opened    == {e \in Connections : at[e] # -1}
Uncounted == waiting \cup {hand[c] : c \in {d \in Consumers : hand[d] # None /\ ~counted[d]}}
Open      == waiting \cup InHand

\* The connections of a bucket; those whose increment is in its counter; and
\* those of them that no expiry can have removed.
In(b)      == {e \in Opened : Bucket(at[e]) = b}
Counted(b) == In(b) \ Uncounted
Fresh(b)   == {e \in Counted(b) : now < at[e] + 2 * Window}

\* Connections are opened in the order of their numbers, and each is in one
\* place.
PlacesInv ==
    /\ \E n \in 0..MaxConnections : Opened = 1..n
    /\ Open \subseteq Opened /\ flagged \subseteq Opened
    /\ \A c \in Consumers : hand[c] \notin waiting
    /\ \A c, d \in Consumers : hand[c] = hand[d] /\ hand[c] # None => c = d
    /\ \A c \in Consumers : hand[c] = None => ~counted[c]

LagInv == \A e \in Open : now <= at[e] + MaxLag

\* A key lives two windows from the last of its connections, or longer.
LastsInv == \A b \in Buckets : \A e \in Counted(b) : at[e] + 2 * Window <= expires[b]

\* A counter has all that is fresh, and no more than was opened but for faults.
FreshInv == \A b \in Buckets : Cardinality(Fresh(b)) <= count[b]
UpperInv == \A b \in Buckets :
    count[b] + Cardinality(In(b) \cap Uncounted) <= Cardinality(In(b)) + faults

\* More than the limit in a bucket and within one window: one of them is
\* flagged, or will be judged yet.
Part(b, start) == {e \in In(b) : start <= at[e] /\ at[e] <= start + Window - 1}

PartInv == \A b \in Buckets, start \in 0..MaxTime :
    Cardinality(Part(b, start)) > Limit =>
        Part(b, start) \cap flagged # {} \/ Part(b, start) \cap Open # {}

WindowInv ==
    /\ TypeOK
    /\ PlacesInv /\ LagInv /\ LastsInv /\ FreshInv /\ UpperInv /\ PartInv
    /\ FlaggedMeansBusy

-------------------------------------------------------------------------------
(* Numbers and sets *)

LEMMA Quotients ==
    ASSUME NEW a \in Nat
    PROVE  /\ Bucket(a) \in Nat /\ a % Window \in 0..Window - 1
           /\ Window * Bucket(a) <= a /\ a < Window * Bucket(a) + Window
           /\ a - (a % Window) = Window * Bucket(a)
<1>1. Window \in Nat /\ Window > 0
  BY SlidingWindowAssumption
<1>2. a \div Window \in Int /\ a % Window \in Int
  BY <1>1
<1>3. Window * (a \div Window) <= a /\ a < Window * (a \div Window) + Window
  BY <1>1, SMTT(30)
<1>4. a % Window = a - Window * (a \div Window)
  BY <1>1, SMTT(30)
<1>5. a \div Window >= 0
  BY <1>1, <1>2, <1>3
<1> QED BY <1>1, <1>2, <1>3, <1>4, <1>5 DEF Bucket

\* Products with the window keep the order.
LEMMA Products ==
    ASSUME NEW p \in Int, NEW q \in Int
    PROVE  /\ Window * p \in Int /\ Window * (p - 1) = Window * p - Window
           /\ p < q => Window * p + Window <= Window * q
<1>1. Window \in Nat /\ Window > 0
  BY SlidingWindowAssumption
<1> QED BY <1>1

LEMMA Quotient ==
    ASSUME NEW a \in Nat, NEW b \in Int, Window * b <= a, a < Window * b + Window
    PROVE  Bucket(a) = b
<1>1. /\ Bucket(a) \in Int /\ Window \in Nat
      /\ Window * Bucket(a) <= a /\ a < Window * Bucket(a) + Window
  BY Quotients, SlidingWindowAssumption
<1>2. ~(Bucket(a) < b)
  <2>1. /\ Window * b \in Int /\ Window * Bucket(a) \in Int
        /\ Bucket(a) < b => Window * Bucket(a) + Window <= Window * b
    BY <1>1, Products
  <2> QED BY <1>1, <2>1
<1>3. ~(b < Bucket(a))
  <2>1. /\ Window * b \in Int /\ Window * Bucket(a) \in Int
        /\ b < Bucket(a) => Window * b + Window <= Window * Bucket(a)
    BY <1>1, Products
  <2> QED BY <1>1, <2>1
<1> QED BY <1>1, <1>2, <1>3

LEMMA BucketTypes ==
    ASSUME NEW a \in 0..MaxTime
    PROVE  Bucket(a) \in Buckets /\ Bucket(a) - 1 \in Buckets
<1>1. a \in Nat /\ MaxTime \in Nat /\ a <= MaxTime /\ Window \in Nat
  BY SlidingWindowAssumption
<1>2. /\ Bucket(a) \in Nat /\ Bucket(MaxTime) \in Nat
      /\ Window * Bucket(a) <= a /\ MaxTime < Window * Bucket(MaxTime) + Window
  BY <1>1, Quotients
<1>3. ~(Bucket(MaxTime) < Bucket(a))
  <2>1. /\ Window * Bucket(MaxTime) \in Int /\ Window * Bucket(a) \in Int
        /\ Bucket(MaxTime) < Bucket(a) =>
             Window * Bucket(MaxTime) + Window <= Window * Bucket(a)
    BY <1>2, Products
  <2> QED BY <1>1, <1>2, <2>1
<1> QED BY <1>2, <1>3 DEF Buckets, Bucket

LEMMA Sizes ==
    ASSUME NEW T \in SUBSET Connections
    PROVE  /\ IsFiniteSet(T) /\ Cardinality(T) \in Nat /\ Cardinality(T) <= MaxConnections
           /\ \A S \in SUBSET T : IsFiniteSet(S) /\ Cardinality(S) \in Nat
                                    /\ Cardinality(S) <= Cardinality(T)
<1>1. IsFiniteSet(Connections) /\ Cardinality(Connections) = MaxConnections
  BY SlidingWindowAssumption, FS_Interval DEF Connections
<1>2. IsFiniteSet(T) /\ Cardinality(T) <= MaxConnections
  BY <1>1, FS_Subset
<1>3. \A S \in SUBSET T : IsFiniteSet(S) /\ Cardinality(S) <= Cardinality(T)
  BY <1>2, FS_Subset
<1> QED BY <1>2, <1>3, FS_CardinalityType

LEMMA OneMore ==
    ASSUME NEW T \in SUBSET Connections, NEW e
    PROVE  /\ e \notin T => Cardinality(T \cup {e}) = Cardinality(T) + 1
           /\ e \in T => Cardinality(T \ {e}) = Cardinality(T) - 1
           /\ Cardinality(T \cup {e}) <= Cardinality(T) + 1
<1>1. IsFiniteSet(T) /\ Cardinality(T) \in Nat
  BY Sizes
<1>2. Cardinality(T \cup {e}) = IF e \in T THEN Cardinality(T) ELSE Cardinality(T) + 1
  BY <1>1, FS_AddElement
<1>3. Cardinality(T \ {e}) = IF e \in T THEN Cardinality(T) - 1 ELSE Cardinality(T)
  BY <1>1, FS_RemoveElement
<1> QED BY <1>1, <1>2, <1>3

\* The estimate grows with its counts, and a count over the limit is enough.
LEMMA Weights ==
    ASSUME NEW k \in Nat, NEW x \in Nat, NEW y \in Nat, NEW p \in Nat, NEW q \in Nat
    PROVE  /\ x <= p /\ y <= q /\ x * k + y * Window > Limit * Window
                => p * k + q * Window > Limit * Window
           /\ y > Limit => x * k + y * Window > Limit * Window
<1>1. Window \in Nat /\ Window > 0 /\ Limit \in Nat
  BY SlidingWindowAssumption
<1>2. x <= p => x * k <= p * k
  OBVIOUS
<1>3. y <= q => y * Window <= q * Window
  BY <1>1
<1>4. y > Limit => y * Window > Limit * Window
  BY <1>1
<1>5. /\ x * k \in Nat /\ p * k \in Nat /\ y * Window \in Nat /\ q * Window \in Nat
      /\ Limit * Window \in Nat
  BY <1>1
<1> QED BY <1>2, <1>3, <1>4, <1>5

\* What is counted, and where.
LEMMA Places ==
    ASSUME TypeOK, PlacesInv
    PROVE  /\ Opened \subseteq Connections /\ Open \subseteq Opened /\ Uncounted \subseteq Open
           /\ now \in 0..MaxTime /\ Window \in Nat /\ Window > 0
           /\ \A e \in Opened : /\ at[e] \in 0..now /\ at[e] \in Nat
                                /\ Bucket(at[e]) \in Buckets /\ Bucket(at[e]) - 1 \in Buckets
<1>1. /\ Opened \subseteq Connections /\ Open \subseteq Opened /\ Uncounted \subseteq Open
  BY DEF Opened, PlacesInv, Uncounted, Open, InHand
<1>2. now \in 0..MaxTime /\ Window \in Nat /\ Window > 0 /\ MaxTime \in Nat
  BY SlidingWindowAssumption DEF TypeOK
<1>3. \A e \in Opened : at[e] \in 0..now /\ at[e] \in 0..MaxTime
  BY <1>2 DEF Opened, TypeOK
<1> QED BY <1>1, <1>2, <1>3, BucketTypes

-------------------------------------------------------------------------------
(* The steps *)

LEMMA InitWindow == Init => WindowInv
<1> SUFFICES ASSUME Init PROVE WindowInv
  OBVIOUS
<1>1. Opened = {} /\ InHand = {} /\ Open = {} /\ Uncounted = {}
  BY DEF Init, Opened, InHand, Open, Uncounted
<1>2. \A b : In(b) = {} /\ Counted(b) = {} /\ Fresh(b) = {}
  BY <1>1 DEF In, Counted, Fresh
<1>3. /\ Window \in Nat /\ Limit \in Nat /\ MaxConnections \in Nat /\ MaxTime \in Nat
      /\ MaxFaults \in Nat
  BY SlidingWindowAssumption
<1>4. TypeOK
  BY <1>3 DEF Init, TypeOK, None
<1>5. PlacesInv
  <2>1. 1..0 = {} /\ 0 \in 0..MaxConnections
    BY <1>3
  <2> QED BY <1>1, <2>1 DEF PlacesInv, Init
<1>6. UpperInv /\ FreshInv
  <2>1. Cardinality({}) = 0
    BY FS_EmptySet
  <2> QED BY <1>2, <2>1 DEF UpperInv, FreshInv, Init
<1>7. PartInv
  <2>1. \A b, start : Part(b, start) = {}
    BY <1>2 DEF Part
  <2> QED BY <1>3, <2>1, FS_EmptySet DEF PartInv
<1> QED BY <1>1, <1>2, <1>4, <1>5, <1>6, <1>7
        DEF WindowInv, LagInv, LastsInv, FlaggedMeansBusy, Init

\* Where no connection is opened and none is flagged, what flags one stays.
LEMMA StillBusy ==
    ASSUME FlaggedMeansBusy, UNCHANGED <<at, flagged>>, faults' = 0 => faults = 0
    PROVE  FlaggedMeansBusy'
BY DEF FlaggedMeansBusy, OpenedWithin

\* A new connection is the next one, and nobody has counted it.
LEMMA ConnectInv ==
    ASSUME WindowInv, Connect
    PROVE  WindowInv'
<1>1. /\ TypeOK /\ PlacesInv /\ LagInv /\ LastsInv /\ FreshInv /\ UpperInv /\ PartInv
      /\ FlaggedMeansBusy
  BY DEF WindowInv
<1>2. /\ Opened \subseteq Connections /\ Open \subseteq Opened /\ Uncounted \subseteq Open
      /\ now \in 0..MaxTime /\ Window \in Nat /\ Window > 0
      /\ \A e \in Opened : at[e] \in 0..now /\ at[e] \in Nat
      /\ MaxLag \in Nat /\ MaxConnections \in Nat
  BY <1>1, Places, SlidingWindowAssumption
<1>3. PICK n \in 0..MaxConnections : Opened = 1..n
  BY <1>1 DEF PlacesInv
<1> DEFINE new == n + 1
<1>4. /\ Cardinality(Opened) + 1 = new
      /\ new \in Connections /\ new \notin Opened
      /\ at' = [at EXCEPT ![new] = now] /\ waiting' = waiting \cup {new}
      /\ UNCHANGED <<now, count, expires, hand, counted, flagged, faults>>
  <2>1. Cardinality(1..n) = n
    BY <1>2, FS_Interval
  <2>2. Cardinality({e \in Connections : at[e] # -1}) + 1 = new
    BY <1>3, <2>1 DEF Opened
  <2>3. /\ new <= MaxConnections
        /\ at' = [at EXCEPT ![new] = now] /\ waiting' = waiting \cup {new}
        /\ UNCHANGED <<now, count, expires, hand, counted, flagged, faults>>
    BY <2>2 DEF Connect
  <2> QED BY <1>2, <1>3, <2>1, <2>3 DEF Connections
<1>5. /\ at' \in [Connections -> -1..now] /\ at'[new] = now
      /\ \A e \in Connections \ {new} : at'[e] = at[e]
  BY <1>1, <1>2, <1>4 DEF TypeOK
<1>6. /\ Opened' = Opened \cup {new} /\ Open' = Open \cup {new}
      /\ Uncounted' = Uncounted \cup {new} /\ InHand' = InHand
  <2>1. Opened' = Opened \cup {new}
    BY <1>2, <1>4, <1>5 DEF Opened
  <2> QED BY <1>4, <2>1 DEF Open, InHand, Uncounted
<1> PICK b0 : b0 = Bucket(now)
  OBVIOUS
<1> HIDE DEF new
<1>7. \A b : /\ Counted(b)' = Counted(b) /\ Fresh(b)' = Fresh(b)
             /\ b # b0 => In(b)' = In(b)
             /\ b = b0 => In(b)' = In(b) \cup {new}
  <2>1. \A b : /\ b # b0 => In(b)' = In(b)
               /\ b = b0 => In(b)' = In(b) \cup {new}
    BY <1>2, <1>4, <1>5, <1>6 DEF In
  <2>2. \A b : In(b) \subseteq Opened
    BY DEF In
  <2>3. \A b : Counted(b)' = Counted(b)
    BY <1>4, <1>6, <2>1, <2>2 DEF Counted
  <2>4. \A b : \A e \in Counted(b) : at'[e] = at[e]
    BY <1>2, <1>4, <1>5, <2>2 DEF Counted
  <2> QED BY <1>4, <2>1, <2>3, <2>4 DEF Fresh
<1>8. TypeOK'
  BY <1>1, <1>4, <1>5 DEF TypeOK
<1>9. PlacesInv'
  <2>1. n + 1 \in 0..MaxConnections /\ Opened' = 1..n + 1
    BY <1>2, <1>3, <1>4, <1>6 DEF new, Connections
  <2>2. \A c \in Consumers : hand[c] # new
    <3>1. \A c \in Consumers : hand[c] = None \/ hand[c] \in Opened
      BY <1>2 DEF Open, InHand
    <3> QED BY <1>2, <1>3, <1>4, <3>1 DEF None, Connections
  <2> QED BY <1>1, <1>2, <1>4, <1>6, <2>1, <2>2 DEF PlacesInv
<1>10. LagInv'
  BY <1>1, <1>2, <1>4, <1>5, <1>6 DEF LagInv
<1>11. LastsInv' /\ FreshInv'
  <2>1. \A b : \A e \in Counted(b) : at'[e] = at[e]
    BY <1>2, <1>4, <1>5 DEF Counted, In
  <2> QED BY <1>1, <1>4, <1>7, <2>1 DEF LastsInv, FreshInv
<1>12. UpperInv'
  <2> SUFFICES ASSUME NEW b \in Buckets
               PROVE  count[b] + Cardinality((In(b) \cap Uncounted)') <= Cardinality(In(b)') + faults
    BY <1>4 DEF UpperInv
  <2>1. /\ In(b) \in SUBSET Connections /\ In(b) \cap Uncounted \in SUBSET Connections
        /\ new \notin In(b)
    BY <1>2, <1>4 DEF In
  <2>2. /\ count[b] + Cardinality(In(b) \cap Uncounted) <= Cardinality(In(b)) + faults
        /\ count[b] \in Nat /\ faults \in Nat
        /\ Cardinality(In(b)) \in Nat /\ Cardinality(In(b) \cap Uncounted) \in Nat
    BY <1>1, <2>1, Sizes, SlidingWindowAssumption DEF UpperInv, TypeOK
  <2>3. CASE b = b0
    <3>1. (In(b) \cap Uncounted)' = (In(b) \cap Uncounted) \cup {new}
      BY <1>6, <1>7, <2>1, <2>3
    <3>2. /\ Cardinality((In(b) \cap Uncounted) \cup {new}) = Cardinality(In(b) \cap Uncounted) + 1
          /\ Cardinality(In(b) \cup {new}) = Cardinality(In(b)) + 1
      BY <2>1, OneMore
    <3>3. In(b)' = In(b) \cup {new}
      BY <1>7, <2>3
    <3>4. /\ Cardinality((In(b) \cap Uncounted)') = Cardinality(In(b) \cap Uncounted) + 1
          /\ Cardinality(In(b)') = Cardinality(In(b)) + 1
      BY <3>1, <3>2, <3>3
    <3> QED BY <2>2, <3>4
  <2>4. CASE b # b0
    <3>1. (In(b) \cap Uncounted)' = In(b) \cap Uncounted
      BY <1>6, <1>7, <2>1, <2>4
    <3> QED BY <1>7, <2>2, <2>4, <3>1
  <2> QED BY <2>3, <2>4
<1>13. PartInv'
  <2> SUFFICES ASSUME NEW b \in Buckets, NEW start \in 0..MaxTime,
                      Cardinality(Part(b, start)') > Limit
               PROVE  Part(b, start)' \cap flagged # {} \/ Part(b, start)' \cap Open' # {}
    BY <1>4 DEF PartInv
  <2>1. CASE new \in Part(b, start)'
    BY <1>6, <2>1
  <2>2. CASE new \notin Part(b, start)'
    <3>1. Part(b, start)' = Part(b, start)
      BY <1>2, <1>4, <1>5, <1>7, <2>2 DEF Part, In
    <3> QED BY <1>1, <1>6, <3>1 DEF PartInv
  <2> QED BY <2>1, <2>2
<1>14. FlaggedMeansBusy'
  <2> SUFFICES ASSUME NEW e \in flagged, faults = 0,
                      NEW start, start = at'[e] - (at'[e] % Window)
               PROVE  Cardinality(OpenedWithin(start - Window, start - 1)') * (Window - (at'[e] % Window))
                        + Cardinality(OpenedWithin(start, start + Window - 1)') * Window
                        > Limit * Window
    BY <1>4 DEF FlaggedMeansBusy
  <2>1. e \in Opened /\ at'[e] = at[e] /\ at[e] \in Nat
    BY <1>1, <1>2, <1>4, <1>5 DEF PlacesInv
  <2>2. Window - (at[e] % Window) \in Nat
    <3>1. at[e] % Window \in 0..Window - 1
      BY <2>1, Quotients
    <3> QED BY <1>2, <3>1
  <2>3. Cardinality(OpenedWithin(start - Window, start - 1)) * (Window - (at[e] % Window))
          + Cardinality(OpenedWithin(start, start + Window - 1)) * Window > Limit * Window
    BY <1>1, <1>4, <2>1 DEF FlaggedMeansBusy
  <2>4. ASSUME NEW from, NEW to
        PROVE  /\ OpenedWithin(from, to) \subseteq OpenedWithin(from, to)'
               /\ OpenedWithin(from, to)' \in SUBSET Connections
    BY <1>4, <1>5 DEF OpenedWithin, Opened
  <2>5. ASSUME NEW from, NEW to
        PROVE  /\ Cardinality(OpenedWithin(from, to)) <= Cardinality(OpenedWithin(from, to)')
               /\ Cardinality(OpenedWithin(from, to)) \in Nat
               /\ Cardinality(OpenedWithin(from, to)') \in Nat
    <3>1. PICK T : T = OpenedWithin(from, to)'
      OBVIOUS
    <3> QED BY <2>4, <3>1, Sizes
  <2> QED BY <2>1, <2>2, <2>3, <2>5, Weights
<1> QED BY <1>8, <1>9, <1>10, <1>11, <1>12, <1>13, <1>14 DEF WindowInv

\* A consumer takes up a connection: it is open and uncounted as before.
LEMMA TakeInv ==
    ASSUME WindowInv, NEW c \in Consumers, Take(c)
    PROVE  WindowInv'
<1>1. /\ TypeOK /\ PlacesInv /\ LagInv /\ LastsInv /\ FreshInv /\ UpperInv /\ PartInv
      /\ FlaggedMeansBusy
  BY DEF WindowInv
<1>2. Open \subseteq Opened /\ Opened \subseteq Connections /\ None \notin Connections
  BY <1>1, Places, SlidingWindowAssumption DEF None, Connections
<1>3. PICK e \in waiting : hand' = [hand EXCEPT ![c] = e] /\ waiting' = waiting \ {e}
  BY DEF Take
<1>4. /\ hand[c] = None /\ counted' = [counted EXCEPT ![c] = FALSE]
      /\ UNCHANGED <<now, at, count, expires, flagged, faults>>
  BY DEF Take
<1>5. /\ e \in Connections /\ e # None
      /\ hand' \in [Consumers -> Connections \cup {None}] /\ counted' \in [Consumers -> BOOLEAN]
      /\ hand'[c] = e /\ ~counted'[c]
      /\ \A d \in Consumers \ {c} : hand'[d] = hand[d] /\ counted'[d] = counted[d]
  BY <1>1, <1>2, <1>3, <1>4 DEF TypeOK
<1>6. Opened' = Opened /\ Open' = Open /\ Uncounted' = Uncounted
  <2>1. Opened' = Opened
    BY <1>4 DEF Opened
  <2>2. InHand' = InHand \cup {e}
    BY <1>4, <1>5 DEF InHand
  <2>3. Uncounted' = Uncounted
    BY <1>3, <1>4, <1>5 DEF Uncounted
  <2> QED BY <1>3, <2>1, <2>2, <2>3 DEF Open
<1>7. \A b : /\ In(b)' = In(b) /\ Counted(b)' = Counted(b) /\ Fresh(b)' = Fresh(b)
             /\ \A start : Part(b, start)' = Part(b, start)
  <2>1. \A b : In(b)' = In(b) /\ Counted(b)' = Counted(b)
    BY <1>4, <1>6 DEF In, Counted
  <2> QED BY <1>4, <2>1 DEF Fresh, Part
<1>8. TypeOK'
  BY <1>1, <1>3, <1>4, <1>5 DEF TypeOK
<1>9. PlacesInv'
  BY <1>1, <1>3, <1>4, <1>5, <1>6 DEF PlacesInv
<1>10. LagInv' /\ LastsInv' /\ FreshInv' /\ UpperInv' /\ PartInv'
  BY <1>1, <1>4, <1>6, <1>7 DEF LagInv, LastsInv, FreshInv, UpperInv, PartInv
<1>11. FlaggedMeansBusy'
  BY <1>1, <1>4, StillBusy
<1> QED BY <1>8, <1>9, <1>10, <1>11 DEF WindowInv

\* The increment comes while the key is alive, or when nothing that is still
\* asked for was in it.
LEMMA IncrementInv ==
    ASSUME WindowInv, NEW c \in Consumers, Increment(c)
    PROVE  WindowInv'
<1>1. /\ TypeOK /\ PlacesInv /\ LagInv /\ LastsInv /\ FreshInv /\ UpperInv /\ PartInv
      /\ FlaggedMeansBusy
  BY DEF WindowInv
<1>2. /\ Opened \subseteq Connections /\ Open \subseteq Opened /\ Uncounted \subseteq Open
      /\ now \in 0..MaxTime /\ Window \in Nat /\ Window > 0 /\ now \in Nat
      /\ \A e \in Opened : at[e] \in 0..now /\ Bucket(at[e]) \in Buckets
  BY <1>1, Places, SlidingWindowAssumption
<1>3. PICK e \in Connections : e = hand[c]
  BY <1>1 DEF Increment, TypeOK
<1>4. PICK b0 : b0 = Bucket(at[e])
  OBVIOUS
<1>5. /\ hand[c] # None /\ ~counted[c]
      /\ count' = [count EXCEPT ![b0] = Get(b0) + 1]
      /\ expires' = [expires EXCEPT ![b0] = now + TimeToLive]
      /\ counted' = [counted EXCEPT ![c] = TRUE]
      /\ UNCHANGED <<now, at, waiting, hand, flagged, faults>>
  BY <1>3, <1>4 DEF Increment
<1>6. e \in Uncounted /\ e \in Open /\ e \in Opened /\ b0 \in Buckets /\ at[e] \in 0..now /\ e \in In(b0)
  <2>1. e \in Uncounted
    BY <1>3, <1>5 DEF Uncounted
  <2> QED BY <1>2, <1>4, <2>1 DEF In
<1>7. /\ Opened' = Opened /\ Open' = Open /\ Uncounted' = Uncounted \ {e}
  <2>1. Opened' = Opened /\ Open' = Open
    BY <1>5 DEF Opened, Open, InHand
  <2>2. counted'[c] /\ \A d \in Consumers \ {c} : counted'[d] = counted[d]
    BY <1>1, <1>5 DEF TypeOK
  <2>3. e \notin waiting /\ \A d \in Consumers \ {c} : hand[d] # e
    BY <1>1, <1>3, <1>5 DEF PlacesInv
  <2>4. Uncounted' = Uncounted \ {e}
    BY <1>3, <1>5, <2>2, <2>3 DEF Uncounted
  <2> QED BY <2>1, <2>4
<1>8. \A b : /\ In(b)' = In(b)
             /\ b = b0 => Counted(b)' = Counted(b) \cup {e}
             /\ b # b0 => Counted(b)' = Counted(b)
             /\ \A start : Part(b, start)' = Part(b, start)
  <2>1. \A b : In(b)' = In(b) /\ (e \in In(b) <=> b = b0)
    BY <1>4, <1>5, <1>6, <1>7 DEF In
  <2> QED BY <1>5, <1>7, <2>1 DEF Counted, Part
<1>9. \A b : /\ Fresh(b)' \subseteq Fresh(b) \cup {e}
             /\ b # b0 => Fresh(b)' = Fresh(b)
  BY <1>5, <1>8 DEF Fresh
<1>10. \A b : In(b) \in SUBSET Connections /\ Fresh(b) \in SUBSET Connections
  BY <1>2 DEF In, Fresh, Counted
<1>11. /\ count[b0] \in Nat /\ expires[b0] \in Nat /\ Get(b0) \in 0..count[b0]
       /\ Cardinality(Fresh(b0)) <= Get(b0) /\ Cardinality(Fresh(b0)) \in Nat
  <2>1. count[b0] \in Nat /\ expires[b0] \in Nat
    BY <1>1, <1>2, <1>6, SlidingWindowAssumption DEF TypeOK
  <2>2. Cardinality(Fresh(b0)) <= count[b0] /\ Cardinality(Fresh(b0)) \in Nat
    BY <1>1, <1>6, <1>10, Sizes DEF FreshInv
  <2>3. CASE expires[b0] > now
    BY <2>1, <2>2, <2>3 DEF Get
  <2>4. CASE ~(expires[b0] > now)
    <3>1. ASSUME NEW x \in Fresh(b0)
          PROVE  FALSE
      <4>1. x \in Counted(b0) /\ now < at[x] + 2 * Window /\ at[x] \in 0..now
        BY <1>2 DEF Fresh, Counted, In
      <4>2. at[x] + 2 * Window <= expires[b0]
        BY <1>1, <1>6, <4>1 DEF LastsInv
      <4> QED BY <1>2, <2>1, <2>4, <4>1, <4>2
    <3>2. Fresh(b0) = {}
      BY <3>1
    <3>3. Cardinality(Fresh(b0)) = 0
      BY <3>2, FS_EmptySet
    <3>4. Get(b0) = 0
      BY <2>4 DEF Get
    <3> QED BY <2>1, <3>3, <3>4
  <2> QED BY <2>3, <2>4
<1>12. /\ count'[b0] = Get(b0) + 1 /\ expires'[b0] = now + 2 * Window
       /\ \A b \in Buckets \ {b0} : count'[b] = count[b] /\ expires'[b] = expires[b]
  BY <1>1, <1>5, <1>6 DEF TypeOK, TimeToLive
<1>13. UpperInv' /\ count'[b0] <= MaxConnections + MaxFaults
  <2>1. ASSUME NEW b \in Buckets
        PROVE  /\ In(b) \cap Uncounted \in SUBSET Connections
               /\ count[b] + Cardinality(In(b) \cap Uncounted) <= Cardinality(In(b)) + faults
               /\ count[b] \in Nat /\ faults \in Nat /\ faults <= MaxFaults
               /\ Cardinality(In(b)) \in Nat /\ Cardinality(In(b) \cap Uncounted) \in Nat
               /\ Cardinality(In(b)) <= MaxConnections
    BY <1>1, <1>10, Sizes, SlidingWindowAssumption DEF UpperInv, TypeOK
  <2>2. ASSUME NEW b \in Buckets, b # b0
        PROVE  count'[b] + Cardinality((In(b) \cap Uncounted)') <= Cardinality(In(b)') + faults'
    <3>1. e \notin In(b)
      BY <1>4, <2>2 DEF In
    <3>2. (In(b) \cap Uncounted)' = In(b) \cap Uncounted
      BY <1>7, <1>8, <3>1
    <3> QED BY <1>5, <1>8, <1>12, <2>1, <2>2, <3>2
  <2>3. /\ count'[b0] + Cardinality((In(b0) \cap Uncounted)') <= Cardinality(In(b0)') + faults'
        /\ count'[b0] <= MaxConnections + MaxFaults
    <3>1. (In(b0) \cap Uncounted)' = (In(b0) \cap Uncounted) \ {e}
      BY <1>7, <1>8
    <3>2. Cardinality((In(b0) \cap Uncounted) \ {e}) = Cardinality(In(b0) \cap Uncounted) - 1
      BY <1>6, <2>1, OneMore
    <3>3. /\ Cardinality((In(b0) \cap Uncounted)') = Cardinality(In(b0) \cap Uncounted) - 1
          /\ Cardinality(In(b0)') = Cardinality(In(b0)) /\ faults' = faults
      BY <1>5, <1>8, <3>1, <3>2
    <3>4. 1 <= Cardinality(In(b0) \cap Uncounted)
      <4>1. IsFiniteSet(In(b0) \cap Uncounted) /\ In(b0) \cap Uncounted # {}
        BY <1>6, <2>1, Sizes
      <4>2. Cardinality(In(b0) \cap Uncounted) # 0
        BY <4>1, FS_EmptySet
      <4>3. Cardinality(In(b0) \cap Uncounted) \in Nat
        BY <1>6, <2>1
      <4> QED BY <4>2, <4>3
    <3> QED BY <1>6, <1>11, <1>12, <2>1, <3>3, <3>4, SlidingWindowAssumption
  <2> QED BY <2>2, <2>3 DEF UpperInv
<1>14. TypeOK'
  <2>1. count'[b0] \in 0..MaxConnections + MaxFaults
    BY <1>11, <1>12, <1>13, SlidingWindowAssumption
  <2>2. now + 2 * Window \in 0..now + 2 * Window
    BY <1>2
  <2>3. /\ count' \in [Buckets -> 0..MaxConnections + MaxFaults]
        /\ expires' \in [Buckets -> 0..now + 2 * Window]
    BY <1>1, <1>5, <1>12, <2>1, <2>2 DEF TypeOK, TimeToLive
  <2>4. counted' \in [Consumers -> BOOLEAN]
    BY <1>1, <1>5 DEF TypeOK
  <2> QED BY <1>1, <1>5, <2>3, <2>4 DEF TypeOK
<1>15. PlacesInv'
  <2>1. \A d \in Consumers : hand[d] = None => ~counted'[d]
    BY <1>1, <1>5 DEF PlacesInv, TypeOK
  <2> QED BY <1>1, <1>5, <1>7, <2>1 DEF PlacesInv
<1>16. LagInv' /\ PartInv'
  BY <1>1, <1>5, <1>7, <1>8 DEF LagInv, PartInv
<1>17. LastsInv'
  <2> SUFFICES ASSUME NEW b \in Buckets, NEW x \in Counted(b)' PROVE at'[x] + 2 * Window <= expires'[b]
    BY DEF LastsInv
  <2>1. CASE b = b0
    <3>1. x \in Opened
      BY <1>6, <1>8, <2>1 DEF Counted, In
    <3> QED BY <1>2, <1>5, <1>12, <2>1, <3>1
  <2>2. CASE b # b0
    BY <1>1, <1>5, <1>8, <1>12, <2>2 DEF LastsInv
  <2> QED BY <2>1, <2>2
<1>18. FreshInv'
  <2> SUFFICES ASSUME NEW b \in Buckets PROVE Cardinality(Fresh(b)') <= count'[b]
    BY DEF FreshInv
  <2>1. CASE b = b0
    <3>1. Cardinality(Fresh(b) \cup {e}) <= Cardinality(Fresh(b)) + 1
      BY <1>10, OneMore
    <3>2. Fresh(b) \cup {e} \in SUBSET Connections
      BY <1>10
    <3>3. PICK T : T = Fresh(b)'
      OBVIOUS
    <3>4. T \in SUBSET (Fresh(b) \cup {e})
      BY <1>9, <3>3
    <3>5. /\ Cardinality(T) <= Cardinality(Fresh(b) \cup {e})
          /\ Cardinality(T) \in Nat /\ Cardinality(Fresh(b) \cup {e}) \in Nat
      BY <3>2, <3>4, Sizes
    <3> QED BY <1>11, <1>12, <2>1, <3>1, <3>3, <3>5
  <2>2. CASE b # b0
    BY <1>1, <1>9, <1>12, <2>2 DEF FreshInv
  <2> QED BY <2>1, <2>2
<1>19. FlaggedMeansBusy'
  BY <1>1, <1>5, StillBusy
<1> QED BY <1>13, <1>14, <1>15, <1>16, <1>17, <1>18, <1>19 DEF WindowInv

\* A bucket is a window that starts at a multiple of the window.
LEMMA BucketSpan ==
    ASSUME TypeOK, PlacesInv, NEW b \in Int
    PROVE  In(b) = OpenedWithin(Window * b, Window * b + Window - 1)
<1>1. Window \in Nat /\ Window * b \in Int
  BY Products, SlidingWindowAssumption
<1>2. ASSUME NEW e \in Opened
      PROVE  Bucket(at[e]) = b <=> Window * b <= at[e] /\ at[e] <= Window * b + Window - 1
  <2>1. at[e] \in Nat
    BY Places
  <2>2. /\ Window * Bucket(at[e]) <= at[e] /\ at[e] < Window * Bucket(at[e]) + Window
        /\ Bucket(at[e]) \in Int
    BY <2>1, Quotients
  <2>3. Bucket(at[e]) = b => Window * b <= at[e] /\ at[e] <= Window * b + Window - 1
    BY <1>1, <2>1, <2>2
  <2>4. ASSUME Window * b <= at[e], at[e] <= Window * b + Window - 1
        PROVE  Bucket(at[e]) = b
    <3>1. at[e] < Window * b + Window
      BY <1>1, <2>1, <2>4
    <3> QED BY <2>1, <2>4, <3>1, Quotient
  <2> QED BY <2>3, <2>4
<1> QED BY <1>2 DEF In, OpenedWithin, Opened

\* What the detector reads is no more than was opened.
LEMMA Readings ==
    ASSUME TypeOK, PlacesInv, UpperInv, NEW b \in Buckets
    PROVE  /\ Get(b) \in Nat /\ Cardinality(In(b)) \in Nat /\ count[b] \in Nat
           /\ faults = 0 => Get(b) <= Cardinality(In(b))
<1>1. In(b) \in SUBSET Connections /\ In(b) \cap Uncounted \in SUBSET Connections
  BY DEF In, Opened
<1>2. /\ Cardinality(In(b)) \in Nat /\ Cardinality(In(b) \cap Uncounted) \in Nat
      /\ count[b] \in Nat
  BY <1>1, Sizes, SlidingWindowAssumption DEF TypeOK
<1>3. count[b] + Cardinality(In(b) \cap Uncounted) <= Cardinality(In(b)) + faults
  BY DEF UpperInv
<1>4. Get(b) \in Nat /\ Get(b) <= count[b]
  BY <1>2 DEF Get
<1> QED BY <1>2, <1>3, <1>4

\* Whoever is judged last of a part of a window finds all of it in the counter.
LEMMA LastIsFlagged ==
    ASSUME WindowInv, NEW c \in Consumers, hand[c] # None, counted[c],
           NEW b \in Buckets, NEW start \in 0..MaxTime,
           hand[c] \in Part(b, start), Part(b, start) \cap Open \subseteq {hand[c]},
           Cardinality(Part(b, start)) > Limit
    PROVE  OverLimit(at[hand[c]])
<1>1. TypeOK /\ PlacesInv /\ LagInv /\ LastsInv /\ FreshInv /\ UpperInv
  BY DEF WindowInv
<1>2. /\ now \in Nat /\ Window \in Nat /\ Window > 0 /\ MaxLag \in 0..Window
      /\ Limit \in Nat /\ Uncounted \subseteq Open
      /\ \A e \in Opened : at[e] \in Nat /\ Bucket(at[e]) - 1 \in Buckets
  BY <1>1, Places, SlidingWindowAssumption
<1>3. PICK e : e = hand[c]
  OBVIOUS
<1>4. e \in In(b) /\ e \in Opened /\ start <= at[e] /\ at[e] <= start + Window - 1 /\ Bucket(at[e]) = b
  BY <1>3 DEF Part, In
<1>5. e \notin Uncounted /\ e \in Open
  BY <1>1, <1>3 DEF PlacesInv, Uncounted, Open, InHand
<1>6. ASSUME NEW x \in Part(b, start)
      PROVE  x \in Fresh(b)
  <2>1. x \in In(b) /\ x \in Opened /\ start <= at[x] /\ at[x] \in Nat
    BY <1>2 DEF Part, In
  <2>2. x \notin Uncounted
    BY <1>2, <1>3, <1>5
  <2>3. now <= at[e] + MaxLag
    BY <1>1, <1>5 DEF LagInv
  <2>4. now < at[x] + 2 * Window
    BY <1>2, <1>4, <2>1, <2>3
  <2> QED BY <2>1, <2>2, <2>4 DEF Fresh, Counted
<1>7. Cardinality(Part(b, start)) <= Cardinality(Fresh(b)) /\ Cardinality(Fresh(b)) \in Nat
      /\ Cardinality(Part(b, start)) \in Nat
  <2>1. Fresh(b) \in SUBSET Connections /\ Part(b, start) \in SUBSET Fresh(b)
    BY <1>6 DEF Fresh, Counted, In, Opened
  <2> QED BY <2>1, Sizes
<1>8. Cardinality(Fresh(b)) <= count[b] /\ count[b] \in Nat
  BY <1>1, Readings DEF FreshInv
<1>9. expires[b] > now
  <2>1. e \in Fresh(b)
    BY <1>3, <1>6
  <2>2. now < at[e] + 2 * Window /\ at[e] + 2 * Window <= expires[b]
    BY <1>1, <2>1 DEF Fresh, LastsInv
  <2>3. expires[b] \in Int
    BY <1>1, <1>2 DEF TypeOK
  <2> QED BY <1>2, <1>4, <2>2, <2>3
<1>10. Get(b) > Limit
  BY <1>2, <1>7, <1>8, <1>9 DEF Get
<1>11. Get(b) \in Nat /\ Get(Bucket(at[e]) - 1) \in Nat
  BY <1>1, <1>2, <1>4, Readings
<1>12. Window - (at[e] % Window) \in Nat
  <2>1. at[e] % Window \in 0..Window - 1
    BY <1>2, <1>4, Quotients
  <2> QED BY <1>2, <2>1
<1>13. Get(Bucket(at[e]) - 1) * (Window - (at[e] % Window)) + Get(b) * Window > Limit * Window
  BY <1>10, <1>11, <1>12, Weights
<1> QED BY <1>3, <1>4, <1>13 DEF OverLimit

\* What is over the limit was opened within the two buckets.
LEMMA OverMeansBusy ==
    ASSUME WindowInv, NEW e \in Opened, OverLimit(at[e]), faults = 0
    PROVE  LET start == at[e] - (at[e] % Window)
           IN  Cardinality(OpenedWithin(start - Window, start - 1)) * (Window - (at[e] % Window))
                 + Cardinality(OpenedWithin(start, start + Window - 1)) * Window
                 > Limit * Window
<1>1. TypeOK /\ PlacesInv /\ UpperInv
  BY DEF WindowInv
<1>2. /\ Window \in Nat /\ at[e] \in Nat
      /\ Bucket(at[e]) \in Buckets /\ Bucket(at[e]) - 1 \in Buckets
  BY <1>1, Places, SlidingWindowAssumption
<1>3. PICK b : b = Bucket(at[e])
  OBVIOUS
<1>4. /\ b \in Int /\ b - 1 \in Int
      /\ at[e] % Window \in 0..Window - 1 /\ at[e] - (at[e] % Window) = Window * b
  <2>1. /\ Bucket(at[e]) \in Nat /\ at[e] % Window \in 0..Window - 1
        /\ at[e] - (at[e] % Window) = Window * Bucket(at[e])
    BY <1>2, Quotients
  <2> QED BY <1>3, <2>1
<1>5. Window * (b - 1) = Window * b - Window /\ Window * b \in Int
  BY <1>4, Products
<1>6. In(b) = OpenedWithin(Window * b, Window * b + Window - 1)
  BY <1>1, <1>4, BucketSpan
<1>7. In(b - 1) = OpenedWithin(Window * b - Window, Window * b - 1)
  <2>1. In(b - 1) = OpenedWithin(Window * (b - 1), Window * (b - 1) + Window - 1)
    BY <1>1, <1>4, BucketSpan
  <2>2. Window * (b - 1) + Window - 1 = Window * b - 1
    BY <1>2, <1>5
  <2> QED BY <1>5, <2>1, <2>2
<1>8. Get(b - 1) * (Window - (at[e] % Window)) + Get(b) * Window > Limit * Window
  BY <1>3 DEF OverLimit
<1>9. /\ Get(b) \in Nat /\ Cardinality(In(b)) \in Nat /\ Get(b) <= Cardinality(In(b))
      /\ Get(b - 1) \in Nat /\ Cardinality(In(b - 1)) \in Nat
      /\ Get(b - 1) <= Cardinality(In(b - 1))
  BY <1>1, <1>2, <1>3, Readings
<1>10. Window - (at[e] % Window) \in Nat
  BY <1>2, <1>4
<1>11. Cardinality(In(b - 1)) * (Window - (at[e] % Window)) + Cardinality(In(b)) * Window > Limit * Window
  BY <1>8, <1>9, <1>10, Weights
<1> QED BY <1>4, <1>6, <1>7, <1>11

\* The verdict is on what was opened, and comes for the last of a burst at the
\* latest.
LEMMA EstimateInv ==
    ASSUME WindowInv, NEW c \in Consumers, Estimate(c)
    PROVE  WindowInv'
<1>1. /\ TypeOK /\ PlacesInv /\ LagInv /\ LastsInv /\ FreshInv /\ UpperInv /\ PartInv
      /\ FlaggedMeansBusy
  BY DEF WindowInv
<1>2. PICK e : e = hand[c]
  OBVIOUS
<1>3. /\ hand[c] # None /\ counted[c]
      /\ flagged' = IF OverLimit(at[e]) THEN flagged \cup {e} ELSE flagged
      /\ hand' = [hand EXCEPT ![c] = None] /\ counted' = [counted EXCEPT ![c] = FALSE]
      /\ UNCHANGED <<now, at, waiting, count, expires, faults>>
  BY <1>2 DEF Estimate
<1>4. e \in Open /\ e \in Opened /\ e \in Connections
  BY <1>1, <1>2, <1>3, Places DEF Open, InHand
<1>5. /\ hand' \in [Consumers -> Connections \cup {None}] /\ counted' \in [Consumers -> BOOLEAN]
      /\ hand'[c] = None /\ ~counted'[c]
      /\ \A d \in Consumers \ {c} : hand'[d] = hand[d] /\ counted'[d] = counted[d]
  BY <1>1, <1>3 DEF TypeOK
<1>6. Opened' = Opened /\ Open' = Open \ {e} /\ Uncounted' = Uncounted
  <2>1. Opened' = Opened
    BY <1>3 DEF Opened
  <2>2. e \notin waiting /\ \A d \in Consumers \ {c} : hand[d] # e
    BY <1>1, <1>2, <1>3 DEF PlacesInv
  <2>3. InHand' = InHand \ {e}
    BY <1>2, <1>5, <2>2 DEF InHand
  <2>4. Uncounted' = Uncounted
    BY <1>3, <1>5 DEF Uncounted
  <2> QED BY <1>3, <2>1, <2>2, <2>3, <2>4 DEF Open
<1>7. \A b : /\ In(b)' = In(b) /\ Counted(b)' = Counted(b) /\ Fresh(b)' = Fresh(b)
             /\ \A start : Part(b, start)' = Part(b, start)
  <2>1. \A b : In(b)' = In(b) /\ Counted(b)' = Counted(b)
    BY <1>3, <1>6 DEF In, Counted
  <2> QED BY <1>3, <2>1 DEF Fresh, Part
<1>8. TypeOK'
  BY <1>1, <1>3, <1>4, <1>5 DEF TypeOK
<1>9. PlacesInv'
  <2>1. flagged' \subseteq Opened
    BY <1>1, <1>3, <1>4 DEF PlacesInv
  <2>2. /\ \A d \in Consumers : hand'[d] = hand[d] \/ hand'[d] = None
        /\ \A d \in Consumers : hand'[d] \notin waiting' \/ hand'[d] = None
    BY <1>1, <1>3, <1>5 DEF PlacesInv
  <2>3. None \notin waiting
    BY <1>1, SlidingWindowAssumption DEF TypeOK, None, Connections
  <2>4. \A d, f \in Consumers : hand'[d] = hand'[f] /\ hand'[d] # None => d = f
    BY <1>1, <1>5 DEF PlacesInv
  <2>5. \A d \in Consumers : hand'[d] = None => ~counted'[d]
    BY <1>1, <1>5 DEF PlacesInv
  <2>6. Open' \subseteq Opened'
    BY <1>1, <1>6 DEF PlacesInv
  <2>7. \E n \in 0..MaxConnections : Opened' = 1..n
    BY <1>1, <1>6 DEF PlacesInv
  <2> QED BY <1>3, <1>6, <2>1, <2>2, <2>3, <2>4, <2>5, <2>6, <2>7 DEF PlacesInv
<1>10. LagInv' /\ LastsInv' /\ FreshInv' /\ UpperInv'
  BY <1>1, <1>3, <1>6, <1>7 DEF LagInv, LastsInv, FreshInv, UpperInv
<1>11. PartInv'
  <2> SUFFICES ASSUME NEW b \in Buckets, NEW start \in 0..MaxTime,
                      Cardinality(Part(b, start)) > Limit,
                      Part(b, start) \cap flagged' = {}, Part(b, start) \cap Open' = {}
               PROVE  FALSE
    BY <1>7 DEF PartInv
  <2>1. Part(b, start) \cap flagged = {}
    BY <1>3
  <2>2. Part(b, start) \cap Open # {}
    BY <1>1, <2>1 DEF PartInv
  <2>3. Part(b, start) \cap Open \subseteq {e} /\ e \in Part(b, start)
    BY <1>6, <2>2
  <2>4. OverLimit(at[e])
    BY <1>2, <1>3, <2>3, LastIsFlagged
  <2> QED BY <1>3, <2>3, <2>4
<1>12. FlaggedMeansBusy'
  <2>1. CASE ~OverLimit(at[e])
    BY <1>1, <1>3, <2>1, StillBusy
  <2>2. CASE OverLimit(at[e])
    <3>1. ASSUME NEW x \in flagged', faults = 0
          PROVE  LET start == at[x] - (at[x] % Window)
                 IN  Cardinality(OpenedWithin(start - Window, start - 1)) * (Window - (at[x] % Window))
                       + Cardinality(OpenedWithin(start, start + Window - 1)) * Window
                       > Limit * Window
      <4>1. CASE x \in flagged
        BY <1>1, <3>1, <4>1 DEF FlaggedMeansBusy
      <4>2. CASE x = e
        BY <1>4, <2>2, <3>1, <4>2, OverMeansBusy
      <4> QED BY <1>3, <4>1, <4>2
    <3> QED BY <1>3, <3>1 DEF FlaggedMeansBusy, OpenedWithin
  <2> QED BY <2>1, <2>2
<1> QED BY <1>8, <1>9, <1>10, <1>11, <1>12 DEF WindowInv

\* What is delivered again is counted again: a fault more, or uncounted still.
LEMMA FailInv ==
    ASSUME WindowInv, NEW c \in Consumers, Fail(c)
    PROVE  WindowInv'
<1>1. /\ TypeOK /\ PlacesInv /\ LagInv /\ LastsInv /\ FreshInv /\ UpperInv /\ PartInv
      /\ FlaggedMeansBusy
  BY DEF WindowInv
<1>2. PICK e : e = hand[c]
  OBVIOUS
<1>3. /\ hand[c] # None /\ faults < MaxFaults /\ faults' = faults + 1
      /\ waiting' = waiting \cup {e}
      /\ hand' = [hand EXCEPT ![c] = None] /\ counted' = [counted EXCEPT ![c] = FALSE]
      /\ UNCHANGED <<now, at, count, expires, flagged>>
      /\ faults \in Nat /\ MaxFaults \in Nat
  BY <1>1, <1>2, SlidingWindowAssumption DEF Fail, TypeOK
<1>4. e \in Open /\ e \in Opened /\ e \in Connections
  BY <1>1, <1>2, <1>3, Places DEF Open, InHand
<1>5. /\ hand' \in [Consumers -> Connections \cup {None}] /\ counted' \in [Consumers -> BOOLEAN]
      /\ hand'[c] = None /\ ~counted'[c]
      /\ \A d \in Consumers \ {c} : hand'[d] = hand[d] /\ counted'[d] = counted[d]
  BY <1>1, <1>3 DEF TypeOK
<1>6. Opened' = Opened /\ Open' = Open /\ Uncounted' = Uncounted \cup {e}
  <2>1. Opened' = Opened
    BY <1>3 DEF Opened
  <2>2. InHand' \cup {e} = InHand \cup {e}
    BY <1>2, <1>5 DEF InHand
  <2>3. Open' = Open
    BY <1>3, <1>4, <2>2 DEF Open
  <2>4. Uncounted' = Uncounted \cup {e}
    BY <1>2, <1>3, <1>5 DEF Uncounted
  <2> QED BY <2>1, <2>3, <2>4
<1>7. \A b : /\ In(b)' = In(b) /\ Counted(b)' \subseteq Counted(b) /\ Fresh(b)' \subseteq Fresh(b)
             /\ \A start : Part(b, start)' = Part(b, start)
  <2>1. \A b : In(b)' = In(b) /\ Counted(b)' \subseteq Counted(b)
    BY <1>3, <1>6 DEF In, Counted
  <2> QED BY <1>3, <2>1 DEF Fresh, Part
<1>8. TypeOK'
  <2>1. faults' \in 0..MaxFaults
    BY <1>3
  <2> QED BY <1>1, <1>3, <1>4, <1>5, <2>1 DEF TypeOK
<1>9. PlacesInv'
  <2>1. \A d \in Consumers \ {c} : hand[d] # e
    BY <1>1, <1>2, <1>3 DEF PlacesInv
  <2>2. e # None
    BY <1>2, <1>3
  <2>3. None \notin waiting'
    BY <1>1, <1>3, <2>2, SlidingWindowAssumption DEF TypeOK, None, Connections
  <2>4. \A d \in Consumers : hand'[d] \notin waiting'
    BY <1>1, <1>3, <1>5, <2>1, <2>3 DEF PlacesInv
  <2>5. \A d, f \in Consumers : hand'[d] = hand'[f] /\ hand'[d] # None => d = f
    BY <1>1, <1>5 DEF PlacesInv
  <2>6. \A d \in Consumers : hand'[d] = None => ~counted'[d]
    BY <1>1, <1>5 DEF PlacesInv
  <2>7. Open' \subseteq Opened' /\ flagged' \subseteq Opened'
    BY <1>1, <1>3, <1>6 DEF PlacesInv
  <2>8. \E n \in 0..MaxConnections : Opened' = 1..n
    BY <1>1, <1>6 DEF PlacesInv
  <2> QED BY <2>4, <2>5, <2>6, <2>7, <2>8 DEF PlacesInv
<1>10. LagInv' /\ LastsInv' /\ PartInv'
  BY <1>1, <1>3, <1>6, <1>7 DEF LagInv, LastsInv, PartInv
<1>11. FreshInv'
  <2> SUFFICES ASSUME NEW b \in Buckets PROVE Cardinality(Fresh(b)') <= count[b]
    BY <1>3 DEF FreshInv
  <2>1. Fresh(b) \in SUBSET Connections
    BY DEF Fresh, Counted, In, Opened
  <2>2. PICK T : T = Fresh(b)'
    OBVIOUS
  <2>3. /\ Cardinality(T) <= Cardinality(Fresh(b)) /\ Cardinality(T) \in Nat
        /\ Cardinality(Fresh(b)) \in Nat
    BY <1>7, <2>1, <2>2, Sizes
  <2>4. Cardinality(Fresh(b)) <= count[b] /\ count[b] \in Nat
    BY <1>1, Readings DEF FreshInv
  <2> QED BY <2>2, <2>3, <2>4
<1>12. UpperInv'
  <2> SUFFICES ASSUME NEW b \in Buckets
               PROVE  count'[b] + Cardinality((In(b) \cap Uncounted)') <= Cardinality(In(b)') + faults'
    BY DEF UpperInv
  <2>1. In(b) \cap Uncounted \in SUBSET Connections
    BY DEF In, Opened
  <2>2. PICK T : T = (In(b) \cap Uncounted)'
    OBVIOUS
  <2>3. T \in SUBSET ((In(b) \cap Uncounted) \cup {e})
    BY <1>6, <1>7, <2>2
  <2>4. (In(b) \cap Uncounted) \cup {e} \in SUBSET Connections
    BY <1>4, <2>1
  <2>5. /\ Cardinality(T) \in Nat /\ Cardinality((In(b) \cap Uncounted) \cup {e}) \in Nat
        /\ Cardinality(T) <= Cardinality((In(b) \cap Uncounted) \cup {e})
    BY <2>3, <2>4, Sizes
  <2>6. /\ Cardinality((In(b) \cap Uncounted) \cup {e}) <= Cardinality(In(b) \cap Uncounted) + 1
        /\ Cardinality(In(b) \cap Uncounted) \in Nat
    BY <2>1, OneMore, Sizes
  <2>7. /\ count[b] + Cardinality(In(b) \cap Uncounted) <= Cardinality(In(b)) + faults
        /\ count[b] \in Nat /\ Cardinality(In(b)) \in Nat
    BY <1>1, Readings DEF UpperInv
  <2>8. count'[b] = count[b] /\ In(b)' = In(b) /\ faults' = faults + 1
    BY <1>3, <1>7
  <2>9. Cardinality(In(b)') = Cardinality(In(b))
    BY <2>8
  <2> QED BY <1>3, <2>2, <2>5, <2>6, <2>7, <2>8, <2>9
<1>13. FlaggedMeansBusy'
  BY <1>1, <1>3, StillBusy
<1> QED BY <1>8, <1>9, <1>10, <1>11, <1>12, <1>13 DEF WindowInv

\* Time passes: less is fresh.
LEMMA TickInv ==
    ASSUME WindowInv, Tick
    PROVE  WindowInv'
<1>1. /\ TypeOK /\ PlacesInv /\ LagInv /\ LastsInv /\ FreshInv /\ UpperInv /\ PartInv
      /\ FlaggedMeansBusy
  BY DEF WindowInv
<1>2. /\ now < MaxTime /\ now' = now + 1 /\ now \in Nat /\ MaxTime \in Nat /\ Window \in Nat
      /\ MaxLag \in Nat
      /\ \A e \in Open : now < at[e] + MaxLag
      /\ UNCHANGED <<at, waiting, count, expires, hand, counted, flagged, faults>>
  BY <1>1, SlidingWindowAssumption DEF Tick, TypeOK, Open
<1>3. Opened' = Opened /\ Open' = Open /\ Uncounted' = Uncounted
  BY <1>2 DEF Opened, Open, InHand, Uncounted
<1>4. \A e \in Opened : at[e] \in Nat
  BY <1>1, Places
<1>5. \A b : /\ In(b)' = In(b) /\ Counted(b)' = Counted(b)
             /\ \A start : Part(b, start)' = Part(b, start)
  BY <1>2, <1>3 DEF In, Counted, Part
<1>6. \A b : Fresh(b)' \subseteq Fresh(b)
  <2>1. \A b : \A e \in Counted(b) : e \in Opened
    BY DEF Counted, In
  <2>2. \A e \in Opened : now + 1 < at[e] + 2 * Window => now < at[e] + 2 * Window
    BY <1>2, <1>4
  <2> QED BY <1>2, <1>5, <2>1, <2>2 DEF Fresh
<1>7. TypeOK'
  <2>1. /\ now' \in 0..MaxTime /\ -1..now \subseteq -1..now'
        /\ 0..now + 2 * Window \subseteq 0..now' + 2 * Window
    BY <1>2
  <2>2. at \in [Connections -> -1..now'] /\ expires \in [Buckets -> 0..now' + 2 * Window]
    BY <1>1, <2>1 DEF TypeOK
  <2> QED BY <1>1, <1>2, <2>1, <2>2 DEF TypeOK
<1>8. PlacesInv' /\ LastsInv' /\ UpperInv' /\ PartInv'
  BY <1>1, <1>2, <1>3, <1>5 DEF PlacesInv, LastsInv, UpperInv, PartInv
<1>9. LagInv'
  <2>1. \A e \in Open : at[e] \in Nat
    BY <1>1, <1>4, Places
  <2> QED BY <1>2, <1>3, <2>1 DEF LagInv
<1>10. FreshInv'
  <2> SUFFICES ASSUME NEW b \in Buckets PROVE Cardinality(Fresh(b)') <= count[b]
    BY <1>2 DEF FreshInv
  <2>1. Fresh(b) \in SUBSET Connections
    BY DEF Fresh, Counted, In, Opened
  <2>2. PICK T : T = Fresh(b)'
    OBVIOUS
  <2>3. /\ Cardinality(T) <= Cardinality(Fresh(b)) /\ Cardinality(T) \in Nat
        /\ Cardinality(Fresh(b)) \in Nat
    BY <1>6, <2>1, <2>2, Sizes
  <2>4. Cardinality(Fresh(b)) <= count[b] /\ count[b] \in Nat
    BY <1>1, Readings DEF FreshInv
  <2> QED BY <2>2, <2>3, <2>4
<1>11. FlaggedMeansBusy'
  BY <1>1, <1>2, StillBusy
<1> QED BY <1>7, <1>8, <1>9, <1>10, <1>11 DEF WindowInv

LEMMA WindowStep == WindowInv /\ [Next]_vars => WindowInv'
<1> SUFFICES ASSUME WindowInv, [Next]_vars PROVE WindowInv'
  OBVIOUS
<1>1. CASE Connect
  BY <1>1, ConnectInv
<1>2. ASSUME NEW c \in Consumers, Take(c) PROVE WindowInv'
  BY <1>2, TakeInv
<1>3. ASSUME NEW c \in Consumers, Increment(c) PROVE WindowInv'
  BY <1>3, IncrementInv
<1>4. ASSUME NEW c \in Consumers, Estimate(c) PROVE WindowInv'
  BY <1>4, EstimateInv
<1>5. ASSUME NEW c \in Consumers, Fail(c) PROVE WindowInv'
  BY <1>5, FailInv
<1>6. CASE Tick
  BY <1>6, TickInv
<1>7. CASE UNCHANGED vars
  BY <1>7 DEF vars, WindowInv, TypeOK, PlacesInv, LagInv, LastsInv, FreshInv, UpperInv, PartInv,
              FlaggedMeansBusy, Opened, Open, InHand, Uncounted, In, Counted, Fresh, Part, OpenedWithin
<1> QED BY <1>1, <1>2, <1>3, <1>4, <1>5, <1>6, <1>7 DEF Next, Quiet

-------------------------------------------------------------------------------
(* The theorems *)

\* The invariant holds in every state that SlidingWindow reaches.
THEOREM WindowInductive == Spec => []WindowInv
BY InitWindow, WindowStep, PTL DEF Spec

\* Every variable keeps its type; no counter exceeds the connections and those
\* that failed batches have counted again.
THEOREM WindowTypes == Spec => []TypeOK
<1>1. WindowInv => TypeOK
  BY DEF WindowInv
<1> QED BY <1>1, WindowInductive, PTL

\* Of more than twice the limit within a window one is flagged, wherever the
\* bucket boundary falls and whoever processes them in whatever order: more than
\* the limit of them are in one bucket, and the last of these to be judged finds
\* all of them in its counter.
THEOREM NoBurstPasses == Spec => []BurstIsFlagged
<1>1. ASSUME WindowInv PROVE BurstIsFlagged
  <2>1. SUFFICES ASSUME Settled, NEW start \in 0..MaxTime,
                        Cardinality(OpenedWithin(start, start + Window - 1)) > 2 * Limit
                 PROVE  OpenedWithin(start, start + Window - 1) \cap flagged # {}
    BY DEF BurstIsFlagged
  <2>2. PICK burst : burst = OpenedWithin(start, start + Window - 1)
    OBVIOUS
  <2>3. PICK b : b = Bucket(start)
    OBVIOUS
  <2>4. /\ TypeOK /\ PlacesInv /\ PartInv /\ Open = {}
        /\ Window \in Nat /\ Window > 0 /\ Limit \in Nat /\ start \in Nat
        /\ \A e \in Opened : at[e] \in Nat /\ Bucket(at[e]) \in Buckets
    BY <1>1, <2>1, Places, SlidingWindowAssumption DEF WindowInv, Settled, Open
  <2>5. burst = Part(b, start) \cup Part(b + 1, start)
    <3>1. ASSUME NEW e \in burst
          PROVE  e \in In(b) \/ e \in In(b + 1)
      <4>1. e \in Opened /\ at[e] \in Nat /\ start <= at[e] /\ at[e] <= start + Window - 1
        BY <2>2, <2>4 DEF OpenedWithin, Opened
      <4>2. /\ b \in Nat /\ Window * b <= start /\ start < Window * b + Window
            /\ Window * b \in Int /\ Window * (b + 1) = Window * b + Window
        <5>1. /\ Bucket(start) \in Nat
              /\ Window * Bucket(start) <= start /\ start < Window * Bucket(start) + Window
          BY <2>4, Quotients
        <5>2. /\ b \in Nat /\ Window * b <= start /\ start < Window * b + Window
              /\ b + 1 \in Int /\ (b + 1) - 1 = b
          BY <2>3, <5>1
        <5>3. /\ Window * b \in Int /\ Window * (b + 1) \in Int
              /\ Window * ((b + 1) - 1) = Window * (b + 1) - Window
          BY <5>2, Products
        <5> QED BY <2>4, <5>2, <5>3
      <4>3. CASE at[e] < Window * b + Window
        <5>1. Bucket(at[e]) = b
          BY <2>4, <4>1, <4>2, <4>3, Quotient
        <5> QED BY <4>1, <5>1 DEF In
      <4>4. CASE ~(at[e] < Window * b + Window)
        <5>1. Window * (b + 1) <= at[e] /\ at[e] < Window * (b + 1) + Window /\ b + 1 \in Int
          BY <2>4, <4>1, <4>2, <4>4
        <5>2. Bucket(at[e]) = b + 1
          BY <4>1, <5>1, Quotient
        <5> QED BY <4>1, <5>2 DEF In
      <4> QED BY <4>3, <4>4
    <3>2. \A e \in burst : start <= at[e] /\ at[e] <= start + Window - 1
      BY <2>2 DEF OpenedWithin
    <3>3. Part(b, start) \cup Part(b + 1, start) \subseteq burst
      BY <2>2 DEF Part, In, Opened, OpenedWithin
    <3> QED BY <3>1, <3>2, <3>3 DEF Part
  <2>6. /\ Part(b, start) \in SUBSET Connections /\ Part(b + 1, start) \in SUBSET Connections
        /\ Cardinality(Part(b, start)) \in Nat /\ Cardinality(Part(b + 1, start)) \in Nat
        /\ Cardinality(burst) \in Nat
    <3>1. Part(b, start) \in SUBSET Connections /\ Part(b + 1, start) \in SUBSET Connections
      BY DEF Part, In, Opened
    <3>2. burst \in SUBSET Connections
      BY <2>5, <3>1
    <3> QED BY <3>1, <3>2, Sizes
  <2>7. Cardinality(burst) <= Cardinality(Part(b, start)) + Cardinality(Part(b + 1, start))
    <3>1. IsFiniteSet(Part(b, start)) /\ IsFiniteSet(Part(b + 1, start))
      BY <2>6, Sizes
    <3>2. Part(b, start) \cap Part(b + 1, start) \in SUBSET Connections
      BY <2>6
    <3>3. Cardinality(Part(b, start) \cap Part(b + 1, start)) \in Nat
      BY <3>2, Sizes
    <3>4. Cardinality(burst) = Cardinality(Part(b, start)) + Cardinality(Part(b + 1, start))
                                 - Cardinality(Part(b, start) \cap Part(b + 1, start))
      BY <2>5, <3>1, FS_Union
    <3> QED BY <2>6, <3>3, <3>4
  <2>8. Cardinality(Part(b, start)) > Limit \/ Cardinality(Part(b + 1, start)) > Limit
    BY <2>1, <2>2, <2>4, <2>6, <2>7
  <2>9. ASSUME NEW k, Cardinality(Part(k, start)) > Limit, Part(k, start) \subseteq burst
        PROVE  burst \cap flagged # {}
    <3>1. Part(k, start) # {}
      <4>1. Cardinality({}) = 0
        BY FS_EmptySet
      <4> QED BY <2>4, <2>9, <4>1
    <3>2. k \in Buckets
      BY <2>4, <3>1 DEF Part, In
    <3>3. Part(k, start) \cap flagged # {}
      BY <2>4, <2>9, <3>2 DEF PartInv
    <3> QED BY <2>9, <3>3
  <2> QED BY <2>2, <2>5, <2>8, <2>9
<1> QED BY <1>1, WindowInductive, PTL

\* As long as no batch has failed, whoever is flagged has opened more than the
\* limit in the two buckets, the older ones weighed.
THEOREM QuietUsersPass == Spec => []FlaggedMeansBusy
<1>1. WindowInv => FlaggedMeansBusy
  BY DEF WindowInv
<1> QED BY <1>1, WindowInductive, PTL

===============================================================================
