--------------------------- MODULE EnforcementProofs ---------------------------
(***************************************************************************)
(* Theorems about Enforcement, for every set of users, consumers, sweepers *)
(* and admin requests and every configuration: its types; that whom the    *)
(* database restricts is off, and what the shop is told; and what sessions *)
(* commit, that is, that a batch's blacklisting comes with an entry, its   *)
(* suspension with an expiry, and an account that was switched off with a  *)
(* restricted row.                                                         *)
(***************************************************************************)
EXTENDS Enforcement, TLAPS

\* A status that apply() escalates to is a restriction, and is not the status
\* the service had in memory.
LEMMA EscalationRestricts ==
    ASSUME NEW level \in Levels, NEW status \in Statuses,
           NEW deviceOnly \in BOOLEAN, Escalates(level, status, deviceOnly)
    PROVE  /\ LevelStatus[level] \in Statuses \ {"active"}
           /\ LevelStatus[level] # status
<1>1. level \in 3..5 /\ Severity[LevelStatus[level]] > Severity[status]
  BY DEF Escalates, IsEscalation, LevelStatus
<1>2. LevelStatus[level] \in {"suspended", "disabled", "blacklisted"}
  BY <1>1 DEF LevelStatus
<1> QED BY <1>1, <1>2 DEF Statuses, Severity

-------------------------------------------------------------------------------
(* Type correctness *)

\* The rows sessions see and write are rows.
LEMMA VisibleType ==
    ASSUME TypeOK, NEW s \in Sessions, NEW u \in Users
    PROVE  Visible(s, u) \in Rows
  BY DEF TypeOK, Visible

LEMMA UpdatedType ==
    ASSUME TypeOK, NEW s \in Sessions, NEW u \in Users, NEW new \in Rows
    PROVE  Updated(s, u, new) \in Rows
<1>1. Visible(s, u) \in Rows
  BY VisibleType
<1> QED BY <1>1 DEF Updated, Rows

LEMMA InitType == Init => TypeOK
<1> SUFFICES ASSUME Init PROVE TypeOK
  OBVIOUS
<1> USE EnforcementAssumption
<1>1. /\ Clean \in Rows /\ [status |-> "suspended", expires |-> 0] \in Rows
      /\ Blacklisted \in Rows
  BY DEF Clean, Blacklisted, Rows, Statuses, NoExpiry
<1>2. row \in [Users -> Rows] /\ entries \subseteq Entries
  <2>1. PICK listed \in {{}} \cup {{u} : u \in Users} :
           entries = {[id |-> 0, user |-> u] : u \in listed}
    BY DEF Init
  <2>2. listed \subseteq Users
    BY <2>1
  <2>3. entries \subseteq Entries
    BY <2>1, <2>2 DEF Entries
  <2> QED BY <1>1, <2>3 DEF Init
<1>3. current \in [Sessions -> Users]
  BY DEF Init
<1>4. account \in [Users -> {"active", "disabled"}] /\ shop \in [Users -> BOOLEAN]
  BY DEF Init, Restricted
<1> QED BY <1>1, <1>2, <1>3, <1>4 DEF Init, TypeOK

\* The steps that sessions share keep the types of what they assign.
LEMMA LoadType ==
    ASSUME TypeOK, NEW s \in Sessions, NEW users \in SUBSET Users, Load(s, users)
    PROVE  /\ view' \in [Sessions -> [Users -> Rows \cup {NoRow}]]
           /\ overlap' \in [Users -> SUBSET {"consumer", "sweeper", "admin"}]
<1>1. \A t \in Sessions : Kind(t) \in {"consumer", "sweeper", "admin"}
  BY DEF Kind
<1>2. \A u \in Users : Visible(s, u) \in Rows
  BY VisibleType
<1> QED BY <1>1, <1>2 DEF Load, TypeOK

LEMMA SetStatusType ==
    ASSUME TypeOK, NEW s \in Sessions, NEW u \in Users, NEW new \in Rows,
           SetStatus(s, u, new)
    PROVE  /\ lock' \in [Users -> Sessions \cup {NoSession}]
           /\ staged' \in [Sessions -> [Users -> Rows \cup {NoRow}]]
           /\ view' \in [Sessions -> [Users -> Rows \cup {NoRow}]]
<1>1. Updated(s, u, new) \in Rows
  BY UpdatedType
<1> QED BY <1>1 DEF SetStatus, Takes, TypeOK

LEMMA TellShopType ==
    ASSUME TypeOK, NEW u \in Users, NEW banned \in BOOLEAN, TellShop(u, banned)
    PROVE  /\ shop' \in [Users -> BOOLEAN]
           /\ faults' \in Nat
           /\ shopMissed' \subseteq Users
  BY DEF TellShop, TypeOK

LEMMA CloseType ==
    ASSUME TypeOK, NEW s \in Sessions, Close(s)
    PROVE  /\ lock' \in [Users -> Sessions \cup {NoSession}]
           /\ pc' \in [Sessions -> {"idle", "open", "loaded", "calling", "called"}]
           /\ current' \in [Sessions -> Users]
           /\ goal' \in [Sessions -> Rows]
           /\ view' \in [Sessions -> [Users -> Rows \cup {NoRow}]]
           /\ staged' \in [Sessions -> [Users -> Rows \cup {NoRow}]]
           /\ asked' \in [Sessions -> SUBSET Users]
           /\ todo' \in [Sessions -> SUBSET Users]
           /\ newEntries' \in [Sessions -> SUBSET Entries]
           /\ reviewing' \in [Sessions -> SUBSET Nat]
  BY DEF Close, TypeOK

\* What a call to Marzban that returns leaves behind, the 404 included.
LEMMA CallFacts ==
    ASSUME TypeOK, NEW u \in Users, NEW status \in {"active", "disabled"},
           SetUserStatus(u, status)
    PROVE  /\ account' \in [Users -> {"active", "disabled"}]
           /\ faults' \in Nat /\ unknown' \subseteq Users
           /\ \A v \in Users \ {u} : /\ account'[v] = account[v]
                                     /\ v \in unknown' <=> v \in unknown
           /\ \/ account'[u] = status
              \/ account'[u] = account[u] /\ u \in unknown'
<1>1. CASE /\ account' = [account EXCEPT ![u] = status]
           /\ unknown' = unknown \ {u}
           /\ UNCHANGED faults
  BY <1>1 DEF TypeOK
<1>2. CASE /\ faults' = faults + 1
           /\ unknown' = unknown \cup {u}
           /\ UNCHANGED account
  BY <1>2 DEF TypeOK
<1> QED BY <1>1, <1>2 DEF SetUserStatus

\* A failed call leaves each account on or off.
LEMMA AccountType ==
    ASSUME TypeOK, NEW u \in Users, NEW status \in {"active", "disabled"},
           account' \in {account, [account EXCEPT ![u] = status]}
    PROVE  account' \in [Users -> {"active", "disabled"}]
<1>1. [account EXCEPT ![u] = status] \in [Users -> {"active", "disabled"}]
  BY DEF TypeOK
<1> QED BY <1>1 DEF TypeOK

LEMMA CommitType ==
    ASSUME TypeOK, NEW s \in Sessions, Commit(s)
    PROVE  TypeOK'
<1>1. row' \in [Users -> Rows]
  BY VisibleType DEF Commit
<1>2. entries' \subseteq Entries /\ reviewed' \subseteq Nat
  BY DEF Commit, TypeOK
<1> QED BY <1>1, <1>2, CloseType DEF Commit, TypeOK, history, counters

LEMMA RollBackType ==
    ASSUME TypeOK, NEW s \in Sessions, NEW called \in SUBSET Users,
           RollBack(s, called), faults' \in Nat,
           account' \in [Users -> {"active", "disabled"}]
    PROVE  TypeOK'
  BY CloseType DEF RollBack, TypeOK, database

-------------------------------------------------------------------------------
LEMMA ConsumerType ==
    ASSUME TypeOK, NEW c \in Consumers,
           ConsumerStep(c) \/ \E u \in Users : ConsumerLoad(c, u)
    PROVE  TypeOK'
<1> c \in Sessions
  BY DEF Sessions
<1>1. CASE \E u \in Users : ConsumerLoad(c, u)
  <2> PICK u \in Users : ConsumerLoad(c, u)
    BY <1>1
  <2>1. /\ view' \in [Sessions -> [Users -> Rows \cup {NoRow}]]
        /\ overlap' \in [Users -> SUBSET {"consumer", "sweeper", "admin"}]
    <3>1. CASE Load(c, {u})
      BY <3>1, LoadType
    <3>2. CASE UNCHANGED <<view, overlap>>
      BY <3>2 DEF TypeOK
    <3> QED BY <3>1, <3>2 DEF ConsumerLoad
  <2>2. /\ pc' \in [Sessions -> {"idle", "open", "loaded", "calling", "called"}]
        /\ current' \in [Sessions -> Users]
        /\ work' \in Nat
    BY DEF ConsumerLoad, TypeOK
  <2>3. UNCHANGED <<row, entries, reviewed, lock, account, shop, goal, staged,
                    asked, todo, newEntries, reviewing, now, faults, made,
                    leftOn, leftOff, shopMissed, unlocked, unknown>>
    BY DEF ConsumerLoad, database
  <2> QED BY <2>1, <2>2, <2>3 DEF TypeOK
<1>2. CASE ConsumerScore(c)
  <2>1. \A level \in Levels, deviceOnly \in BOOLEAN :
            Escalates(level, view[c][current[c]].status, deviceOnly) =>
              /\ level \in DOMAIN LevelStatus
              /\ LevelStatus[level] \in Statuses
    BY DEF Escalates, IsEscalation, LevelStatus, Statuses
  <2>2. goal' \in [Sessions -> Rows]
    <3>1. CASE UNCHANGED goal
      BY <3>1 DEF TypeOK
    <3>2. CASE goal' # goal
      <4>1. PICK level \in Levels :
                /\ LevelStatus[level] \in Statuses
                /\ goal' = [goal EXCEPT ![c] = Target(level)]
        BY <1>2, <2>1, <3>2 DEF ConsumerScore
      <4>2. now + Duration \in Nat
        BY EnforcementAssumption DEF TypeOK
      <4> QED BY <4>1, <4>2 DEF TypeOK, Rows, Target
    <3> QED BY <3>1, <3>2
  <2>3. lock' \in [Users -> Sessions \cup {NoSession}]
    BY <1>2 DEF ConsumerScore, Takes, TypeOK
  <2>4. pc' \in [Sessions -> {"idle", "open", "loaded", "calling", "called"}]
    BY <1>2 DEF ConsumerScore, TypeOK
  <2> QED BY <1>2, <2>2, <2>3, <2>4
          DEF ConsumerScore, TypeOK, database, counters, history
<1>3. CASE EscalateCall(c)
  <2>1. current[c] \in Users
    BY DEF TypeOK
  <2>2. /\ account' \in [Users -> {"active", "disabled"}]
        /\ faults' \in Nat /\ unknown' \subseteq Users
    BY <1>3, <2>1, CallFacts DEF EscalateCall
  <2> QED BY <1>3, <2>2 DEF EscalateCall, TypeOK, database
<1>4. CASE EscalateCallFails(c)
  <2>1. /\ account' \in [Users -> {"active", "disabled"}]
        /\ faults' \in Nat
        /\ leftOff' \subseteq Users
    <3>1. CASE UNCHANGED <<account, faults, leftOff>>
      BY <3>1 DEF TypeOK
    <3>2. CASE /\ faults' = faults + 1
               /\ account' \in {account, [account EXCEPT ![current[c]] = "disabled"]}
               /\ leftOff' \in {leftOff, leftOff \cup {current[c]}}
      <4>1. current[c] \in Users
        BY DEF TypeOK
      <4>2. account' \in [Users -> {"active", "disabled"}]
        BY <3>2, <4>1, AccountType
      <4>3. faults' \in Nat
        BY <3>2 DEF TypeOK
      <4>4. leftOff' \subseteq Users
        BY <3>2, <4>1 DEF TypeOK
      <4> QED BY <4>2, <4>3, <4>4
    <3> QED BY <1>4, <3>1, <3>2, Zenon DEF EscalateCallFails
  <2>2. pc' \in [Sessions -> {"idle", "open", "loaded", "calling", "called"}]
    BY <1>4 DEF EscalateCallFails, TypeOK
  <2> QED BY <1>4, <2>1, <2>2 DEF EscalateCallFails, TypeOK, database
<1>5. CASE EscalateStage(c)
  <2>1. current[c] \in Users /\ goal[c] \in Rows
    BY DEF TypeOK
  <2>2. made' \in Nat /\ newEntries' \in [Sessions -> SUBSET Entries]
    BY <1>5, <2>1 DEF EscalateStage, AddBlacklistEntry, TypeOK, Entries
  <2> QED BY <1>5, <2>1, <2>2, SetStatusType, TellShopType
          DEF EscalateStage, TypeOK, database
<1>6. CASE ConsumerCommit(c)
  BY <1>6, CommitType DEF ConsumerCommit
<1> QED BY <1>1, <1>2, <1>3, <1>4, <1>5, <1>6 DEF ConsumerStep

LEMMA SweepType ==
    ASSUME TypeOK, NEW w \in Sweepers, SweepStep(w)
    PROVE  TypeOK'
<1> w \in Sessions
  BY DEF Sessions
<1>1. CASE SweepSelect(w)
  <2>1. {u \in Users : Expired(u)} \in SUBSET Users
    OBVIOUS
  <2> QED BY <1>1, <2>1, LoadType
          DEF SweepSelect, TypeOK, database, counters
<1>2. ASSUME NEW u \in Users, SweepCall(w, u)
      PROVE  TypeOK'
  <2>1. /\ account' \in [Users -> {"active", "disabled"}]
        /\ faults' \in Nat /\ unknown' \subseteq Users
    BY <1>2, CallFacts DEF SweepCall
  <2> QED BY <1>2, <2>1 DEF SweepCall, TypeOK, database
<1>3. ASSUME NEW u \in Users, SweepCallFails(w, u)
      PROVE  TypeOK'
  <2>1. asked[w] \in SUBSET Users /\ asked[w] \cup {u} \in SUBSET Users
    BY DEF TypeOK
  <2>2. faults' \in Nat /\ account' \in [Users -> {"active", "disabled"}]
    <3>1. CASE UNCHANGED <<account, faults>>
      BY <3>1 DEF TypeOK
    <3>2. CASE /\ faults' = faults + 1
               /\ account' \in {account, [account EXCEPT ![u] = "active"]}
      BY <3>2, AccountType DEF TypeOK
    <3> QED BY <1>3, <3>1, <3>2 DEF SweepCallFails
  <2> QED BY <1>3, <2>1, <2>2, RollBackType DEF SweepCallFails
<1>4. CASE SweepStage(w)
  <2>1. current[w] \in Users /\ Clean \in Rows
    BY DEF TypeOK, Clean, Rows, Statuses
  <2> QED BY <1>4, <2>1, SetStatusType, TellShopType
          DEF SweepStage, TypeOK, database
<1>5. CASE SweepCommit(w)
  BY <1>5, CommitType DEF SweepCommit
<1> QED BY <1>1, <1>2, <1>3, <1>4, <1>5 DEF SweepStep

LEMMA AdminType ==
    ASSUME TypeOK, NEW a \in Admins, AdminStep(a) \/ AdminRequest(a)
    PROVE  TypeOK'
<1> a \in Sessions
  BY DEF Sessions
<1>1. ASSUME NEW u \in Users, NEW status \in Statuses, Override(a, u, status),
             reviewing' \in [Sessions -> SUBSET Nat]
      PROVE  TypeOK'
  <2>1. [status |-> status, expires |-> NoExpiry] \in Rows
    BY DEF Rows
  <2> QED BY <1>1, <2>1, LoadType DEF Override, TypeOK, database
<1>2. ASSUME NEW u \in Users, NEW status \in Statuses, AdminOverride(a, u, status)
      PROVE  TypeOK'
  BY <1>1, <1>2 DEF AdminOverride, TypeOK
<1>3. ASSUME NEW entry \in entries, ReviewAndReinstate(a, entry)
      PROVE  TypeOK'
  <2>1. entry.user \in Users /\ entry.id \in Nat /\ "active" \in Statuses
    BY DEF TypeOK, Entries, Statuses
  <2> QED BY <1>1, <1>3, <2>1 DEF ReviewAndReinstate, TypeOK
<1>4. ASSUME NEW entry \in entries, ReviewOnly(a, entry)
      PROVE  TypeOK'
  <2>1. entry.id \in Nat
    BY DEF TypeOK, Entries
  <2> QED BY <1>4, <2>1 DEF ReviewOnly, TypeOK, database, history
<1>5. CASE AdminCall(a)
  <2>1. current[a] \in Users /\ Wanted(a) \in {"active", "disabled"}
    BY DEF TypeOK, Wanted
  <2>2. /\ account' \in [Users -> {"active", "disabled"}]
        /\ faults' \in Nat /\ unknown' \subseteq Users
    BY <1>5, <2>1, CallFacts DEF AdminCall
  <2> QED BY <1>5, <2>1, <2>2 DEF AdminCall, TypeOK, database
<1>6. CASE AdminCallFails(a)
  <2>1. /\ {current[a]} \in SUBSET Users /\ {} \in SUBSET Users
        /\ Wanted(a) \in {"active", "disabled"}
    BY DEF TypeOK, Wanted
  <2>2. faults' \in Nat /\ account' \in [Users -> {"active", "disabled"}]
    <3>1. CASE UNCHANGED <<account, faults>>
      BY <3>1 DEF TypeOK
    <3>2. CASE /\ faults' = faults + 1
               /\ account' \in {account, [account EXCEPT ![current[a]] = Wanted(a)]}
      <4>1. faults' \in Nat
        BY <3>2 DEF TypeOK
      <4>2. account' \in [Users -> {"active", "disabled"}]
        BY <2>1, <3>2, AccountType
      <4> QED BY <4>1, <4>2
    <3> QED BY <1>6, <3>1, <3>2 DEF AdminCallFails
  <2> QED BY <1>6, <2>1, <2>2, RollBackType DEF AdminCallFails
<1>7. CASE AdminStage(a)
  <2>1. current[a] \in Users /\ goal[a] \in Rows /\ Restricted(goal[a]) \in BOOLEAN
    BY DEF TypeOK, Restricted
  <2>2. /\ lock' \in [Users -> Sessions \cup {NoSession}]
        /\ staged' \in [Sessions -> [Users -> Rows \cup {NoRow}]]
        /\ view' \in [Sessions -> [Users -> Rows \cup {NoRow}]]
    <3>1. CASE SetStatus(a, current[a], goal[a])
      BY <2>1, <3>1, SetStatusType
    <3>2. CASE UNCHANGED <<lock, staged, view>>
      BY <3>2 DEF TypeOK
    <3> QED BY <1>7, <3>1, <3>2 DEF AdminStage
  <2>3. pc' \in [Sessions -> {"idle", "open", "loaded", "calling", "called"}]
    BY <1>7 DEF AdminStage, TypeOK
  <2>4. shop' \in [Users -> BOOLEAN] /\ faults' \in Nat /\ shopMissed' \subseteq Users
    BY <1>7, <2>1, TellShopType DEF AdminStage
  <2> QED BY <1>7, <2>2, <2>3, <2>4 DEF AdminStage, TypeOK, database
<1>8. CASE AdminCommit(a)
  BY <1>8, CommitType DEF AdminCommit
<1> QED BY <1>2, <1>3, <1>4, <1>5, <1>6, <1>7, <1>8 DEF AdminStep, AdminRequest

LEMMA TypeStep == TypeOK /\ [Next]_vars => TypeOK'
<1> SUFFICES ASSUME TypeOK, [Next]_vars PROVE TypeOK'
  OBVIOUS
<1>1. CASE \E c \in Consumers :
              ConsumerStep(c) \/ \E u \in Users : ConsumerLoad(c, u)
  BY <1>1, ConsumerType
<1>2. CASE \E w \in Sweepers : SweepStep(w)
  BY <1>2, SweepType
<1>3. CASE \E a \in Admins : AdminStep(a) \/ AdminRequest(a)
  BY <1>3, AdminType
<1>4. ASSUME NEW s \in Sessions, Crash(s) \/ DeadlockVictim(s)
      PROVE  TypeOK'
  <2>1. asked[s] \in SUBSET Users
    BY DEF TypeOK
  <2>2. RollBack(s, asked[s]) /\ UNCHANGED account /\ faults' \in Nat
    BY <1>4 DEF Crash, DeadlockVictim, TypeOK
  <2> QED BY <2>1, <2>2, RollBackType DEF TypeOK
<1>5. CASE Tick
  BY <1>5 DEF Tick, TypeOK, database, session, counters, history
<1>6. CASE UNCHANGED vars
  BY <1>6 DEF vars, TypeOK, database, session, counters, history
<1> QED BY <1>1, <1>2, <1>3, <1>4, <1>5, <1>6 DEF Next, Quiet

\* Every reachable state is made of values of the right kinds: the sessions'
\* copies of rows, their uncommitted updates and the external copies alike.
THEOREM TypeCorrect == Spec => []TypeOK
<1> QED BY InitType, TypeStep, PTL DEF Spec

-------------------------------------------------------------------------------
(* What sessions know of the rows *)

\* Sessions of two kinds are different sessions, and none is NoSession.
LEMMA Kinds ==
    /\ \A c \in Consumers : c \in Sessions /\ c \notin Sweepers /\ c \notin Admins
    /\ \A w \in Sweepers : w \in Sessions /\ w \notin Consumers /\ w \notin Admins
    /\ \A a \in Admins : a \in Sessions /\ a \notin Consumers /\ a \notin Sweepers
    /\ NoSession \notin Sessions
  BY EnforcementAssumption DEF Sessions

\* What a session loads, and whom it finds at work on the same user.
LEMMA LoadFacts ==
    ASSUME TypeOK, NEW s \in Sessions, NEW users \in SUBSET Users, Load(s, users)
    PROVE  /\ \A t \in Sessions \ {s} : view'[t] = view[t]
           /\ \A u \in Users \ users : /\ view'[s][u] = view[s][u]
                                       /\ overlap'[u] = overlap[u]
           /\ \A u \in users : view'[s][u] = Visible(s, u) /\ view'[s][u] # NoRow
           /\ \A u \in Users : overlap[u] \subseteq overlap'[u]
           /\ \A u \in users, t \in Sessions \ {s} :
                 InFlight(t, u) /\ (t \in Admins \/ s \in Admins) =>
                     "admin" \in overlap'[u]
<1>1. \A t \in Sessions \ {s} : view'[t] = view[t]
  BY DEF Load, TypeOK
<1>2. \A u \in Users \ users : view'[s][u] = view[s][u] /\ overlap'[u] = overlap[u]
  BY DEF Load, TypeOK
<1>3. \A u \in users : view'[s][u] = Visible(s, u) /\ view'[s][u] # NoRow
  <2>1. \A u \in users : view'[s][u] = Visible(s, u)
    BY DEF Load, TypeOK
  <2> QED BY <2>1, VisibleType, NoRowAssumption
<1>4. \A u \in Users : overlap[u] \subseteq overlap'[u]
  BY DEF Load, TypeOK
<1>5. ASSUME NEW u \in users, NEW t \in Sessions \ {s}, InFlight(t, u),
             t \in Admins \/ s \in Admins
      PROVE  "admin" \in overlap'[u]
  <2> DEFINE others == {q \in Sessions \ {s} : InFlight(q, u)}
  <2>1. overlap'[u] = overlap[u] \cup {Kind(q) : q \in others \cup {s}}
    BY <1>5 DEF Load
  <2>2. \A a \in Admins : Kind(a) = "admin"
    BY Kinds DEF Kind
  <2>3. t \in others \cup {s} /\ s \in others \cup {s}
    BY <1>5
  <2> QED BY <1>5, <2>1, <2>2, <2>3
<1> QED BY <1>1, <1>2, <1>3, <1>4, <1>5

\* What is left of a session when it closes.
LEMMA CloseFacts ==
    ASSUME TypeOK, NEW s \in Sessions, Close(s)
    PROVE  /\ \A t \in Sessions \ {s} :
                 /\ pc'[t] = pc[t] /\ view'[t] = view[t] /\ staged'[t] = staged[t]
                 /\ asked'[t] = asked[t] /\ todo'[t] = todo[t]
           /\ pc'[s] = "idle" /\ asked'[s] = {} /\ todo'[s] = {}
           /\ \A u \in Users : view'[s][u] = NoRow /\ staged'[s][u] = NoRow
           /\ \A u \in Users : lock'[u] = IF lock[u] = s THEN NoSession ELSE lock[u]
           /\ current' = current /\ goal' = goal
  BY DEF Close, TypeOK

\* set_status changes the caller's copy of one row, under its lock.
LEMMA SetStatusFacts ==
    ASSUME TypeOK, NEW s \in Sessions, NEW u \in Users, NEW new \in Rows,
           SetStatus(s, u, new)
    PROVE  /\ \A t \in Sessions \ {s} : view'[t] = view[t] /\ staged'[t] = staged[t]
           /\ \A v \in Users \ {u} : /\ view'[s][v] = view[s][v]
                                     /\ staged'[s][v] = staged[s][v]
                                     /\ lock'[v] = lock[v]
           /\ view'[s][u] = new /\ view'[s][u] # NoRow
           /\ staged'[s][u] = Updated(s, u, new) /\ staged'[s][u] # NoRow
           /\ lock[u] \in {NoSession, s} /\ lock'[u] = s
<1>1. Updated(s, u, new) # NoRow /\ new # NoRow
  BY UpdatedType, NoRowAssumption
<1> QED BY <1>1 DEF SetStatus, Takes, TypeOK

\* Off(u) survives a step that keeps what it rests on.
LEMMA OffStable ==
    ASSUME NEW u \in Users, Off(u),
           account[u] = "disabled" => Off(u)',
           \A s \in Sessions : Reviving(s, u) => Reviving(s, u)' \/ u \in leftOn',
           leftOn \subseteq leftOn', unlocked \subseteq unlocked',
           u \in unknown => Off(u)',
           overlap[u] \subseteq overlap'[u]
    PROVE  Off(u)'
  BY DEF Off

LEMMA InitIndInv == Init => IndInv
<1> SUFFICES ASSUME Init PROVE IndInv
  OBVIOUS
<1>1. TypeOK
  BY InitType
<1>2. \A s \in Sessions :
         /\ pc[s] = "idle" /\ asked[s] = {} /\ todo[s] = {}
         /\ goal[s].expires = NoExpiry
         /\ \A u \in Users : view[s][u] = NoRow /\ staged[s][u] = NoRow
  BY DEF Init, Clean
<1>3. \A u \in Users : /\ Restricted(row[u]) => account[u] = "disabled"
                       /\ shop[u] <=> Restricted(row[u])
                       /\ lock[u] = NoSession
  BY DEF Init, Restricted
<1>4. ASSUME NEW s \in Sessions PROVE SessionInv(s)
  <2>1. ClosedWhenIdle(s) /\ WritesUnderLock(s) /\ AskedThenStaged(s)
    BY <1>2, <1>3, Kinds DEF ClosedWhenIdle, WritesUnderLock, AskedThenStaged
  <2>2. ConsumerRestricts(s) /\ SweeperReinstates(s) /\ AdminSerial(s)
    BY <1>2 DEF ConsumerRestricts, SweeperReinstates, AdminSerial, InFlight
  <2> QED BY <2>1, <2>2 DEF SessionInv
<1>5. RestrictedOff
  BY <1>3 DEF RestrictedOff, Off
<1>6. ShopToldUnderLock
  BY <1>3 DEF ShopToldUnderLock, Held
<1> QED BY <1>1, <1>4, <1>5, <1>6 DEF IndInv

-------------------------------------------------------------------------------
(* What a step of one session leaves alone *)

\* A step of session s that commits nothing: the other sessions keep what they
\* have, locks are taken when free and given up by s only, and no excuse for an
\* account that is on is lost.
Frame(s) ==
    /\ row' = row
    /\ \A t \in Sessions \ {s} :
          /\ pc'[t] = pc[t] /\ current'[t] = current[t] /\ goal'[t] = goal[t]
          /\ view'[t] = view[t] /\ staged'[t] = staged[t]
          /\ asked'[t] = asked[t] /\ todo'[t] = todo[t]
    /\ \A u \in Users :
          /\ lock'[u] = lock[u]
             \/ (lock[u] \in {NoSession, s} /\ lock'[u] \in {NoSession, s})
          /\ overlap[u] \subseteq overlap'[u]
          /\ view'[s][u] # NoRow /\ view[s][u] = NoRow =>
                \A a \in Admins \ {s} : InFlight(a, u) => "admin" \in overlap'[u]
          /\ Off(u) => Off(u)'
    /\ unlocked \subseteq unlocked'

LEMMA FrameInv ==
    ASSUME IndInv, NEW s \in Sessions, Frame(s)
    PROVE  /\ \A t \in Sessions \ {s} : SessionInv(t)'
           /\ RestrictedOff'
<1>1. ASSUME NEW t \in Sessions \ {s} PROVE SessionInv(t)'
  <2>1. /\ pc'[t] = pc[t] /\ current'[t] = current[t] /\ goal'[t] = goal[t]
        /\ view'[t] = view[t] /\ staged'[t] = staged[t]
        /\ asked'[t] = asked[t] /\ todo'[t] = todo[t] /\ row' = row
    BY DEF Frame
  <2>2. \A u \in Users : /\ lock'[u] = t <=> lock[u] = t
                         /\ overlap[u] \subseteq overlap'[u]
                         /\ Off(u) => Off(u)'
                         /\ u \in unlocked => u \in unlocked'
    BY Kinds DEF Frame
  <2>3. SessionInv(t)
    BY DEF IndInv
  <2>4. ClosedWhenIdle(t)'
    BY <2>1, <2>3 DEF SessionInv, ClosedWhenIdle
  <2>5. WritesUnderLock(t)'
    BY <2>1, <2>2, <2>3 DEF SessionInv, WritesUnderLock
  <2>6. t \in Sweepers \cup Admins => AskedThenStaged(t)'
    <3>1. asked[t] \subseteq Users
      BY DEF IndInv, TypeOK
    <3> QED BY <2>1, <2>2, <2>3, <3>1 DEF SessionInv, AskedThenStaged
  <2>7. t \in Consumers => ConsumerRestricts(t)'
    BY <2>1, <2>2, <2>3 DEF SessionInv, ConsumerRestricts
  <2>8. t \in Sweepers => SweeperReinstates(t)'
    BY <2>1, <2>3 DEF SessionInv, SweeperReinstates
  <2>9. ASSUME t \in Admins PROVE AdminSerial(t)'
    <3>1. AdminSerial(t)
      BY <2>3, <2>9 DEF SessionInv
    <3>2. ASSUME NEW u \in Users, InFlight(t, u)', "admin" \notin overlap'[u]
          PROVE  /\ InFlight(t, u) /\ "admin" \notin overlap[u]
                 /\ \A q \in Sessions \ {t} : ~InFlight(q, u)'
      <4>1. InFlight(t, u) /\ "admin" \notin overlap[u]
        BY <2>1, <2>2, <3>2 DEF InFlight
      <4>2. \A q \in Sessions \ {t} : ~InFlight(q, u)
        BY <3>1, <4>1 DEF AdminSerial
      <4>3. view'[s][u] = NoRow
        BY <2>9, <3>2, <4>1, <4>2 DEF Frame, InFlight
      <4> QED BY <4>1, <4>2, <4>3 DEF InFlight, Frame
    <3>3. ASSUME NEW u \in Users PROVE AdminSerial(t)!3!(u)'
      BY <2>1, <2>2, <3>1, <3>2 DEF AdminSerial
    <3>4. (goal[t].expires = NoExpiry)' /\ (pc[t] = "calling" => asked[t] = {})'
      BY <2>1, <3>1 DEF AdminSerial
    <3> QED BY <3>3, <3>4 DEF AdminSerial
  <2> QED BY <2>4, <2>5, <2>6, <2>7, <2>8, <2>9 DEF SessionInv
<1>2. RestrictedOff'
  BY DEF IndInv, RestrictedOff, Frame
<1> QED BY <1>1, <1>2

\* The shop's flag still says what the lock's holder has written when nothing
\* is written, and when what a rollback takes back is recorded.
LEMMA ShopFrame ==
    ASSUME IndInv, NEW s \in Sessions, Frame(s), shop' = shop,
           shopMissed \subseteq shopMissed',
           \A u \in Users : staged'[s][u] = staged[s][u]
                             \/ (staged[s][u] # NoRow /\ u \in shopMissed'),
           \A u \in Users : lock[u] = s /\ lock'[u] # s =>
                             staged[s][u] = NoRow \/ u \in shopMissed'
    PROVE  ShopToldUnderLock'
<1> SUFFICES ASSUME NEW u \in Users, u \notin shopMissed', "admin" \notin overlap'[u]
             PROVE  shop[u] <=> Restricted(Held(u)')
  BY DEF ShopToldUnderLock, Restricted
<1>1. u \notin shopMissed /\ "admin" \notin overlap[u]
  BY DEF Frame
<1>2. shop[u] <=> Restricted(Held(u))
  BY <1>1 DEF IndInv, ShopToldUnderLock
<1>3. lock[u] \in Sessions \cup {NoSession} /\ row' = row
  BY DEF IndInv, TypeOK, Frame
<1>4. staged[s][u] # NoRow => lock[u] = s
  BY DEF IndInv, SessionInv, WritesUnderLock
<1>5. Held(u)' = Held(u)
  <2>1. CASE lock'[u] = lock[u]
    BY <1>3, <2>1 DEF Held, Visible, Frame
  <2>2. CASE lock[u] = NoSession /\ lock'[u] = s
    BY <1>3, <1>4, <2>2, Kinds DEF Held, Visible
  <2>3. CASE lock[u] = s /\ lock'[u] = NoSession
    BY <1>3, <2>3, Kinds DEF Held, Visible
  <2> QED BY <2>1, <2>2, <2>3 DEF Frame
<1> QED BY <1>2, <1>5

\* How the steps below are checked: the frame, the acting session, the shop.
LEMMA StepInv ==
    ASSUME IndInv, TypeOK', NEW s \in Sessions, Frame(s), SessionInv(s)',
           ShopToldUnderLock'
    PROVE  IndInv'
BY FrameInv DEF IndInv

-------------------------------------------------------------------------------
(* Sessions that end *)

LEMMA RollBackInv ==
    ASSUME IndInv, TypeOK', NEW s \in Sessions, NEW called \in SUBSET Users,
           asked[s] \subseteq called, RollBack(s, called),
           \A u \in Users : account[u] = "disabled" =>
               account'[u] = "disabled" \/ (SwitchesOn(s) /\ u \in called)
    PROVE  IndInv'
<1>1. /\ \A t \in Sessions \ {s} :
            /\ pc'[t] = pc[t] /\ view'[t] = view[t] /\ staged'[t] = staged[t]
            /\ asked'[t] = asked[t] /\ todo'[t] = todo[t]
      /\ pc'[s] = "idle" /\ asked'[s] = {} /\ todo'[s] = {}
      /\ \A u \in Users : view'[s][u] = NoRow /\ staged'[s][u] = NoRow
      /\ \A u \in Users : lock'[u] = IF lock[u] = s THEN NoSession ELSE lock[u]
      /\ current' = current /\ goal' = goal
  BY CloseFacts DEF RollBack, IndInv
<1>2. /\ row' = row /\ shop' = shop /\ overlap' = overlap /\ unlocked' = unlocked
      /\ unknown' = unknown
      /\ leftOn \subseteq leftOn'
      /\ SwitchesOn(s) => called \subseteq leftOn'
      /\ \A u \in Users : staged[s][u] # NoRow => u \in shopMissed'
      /\ shopMissed \subseteq shopMissed'
  BY DEF RollBack, database
<1>3. ASSUME NEW u \in Users, Off(u)
      PROVE  Off(u)'
  <2>1. account[u] = "disabled" => Off(u)'
    BY <1>2 DEF Off
  <2>2. \A t \in Sessions : Reviving(t, u) => Reviving(t, u)' \/ u \in leftOn'
    BY <1>1, <1>2 DEF Reviving, SwitchesOn
  <2>3. u \in unknown => Off(u)'
    BY <1>2 DEF Off
  <2> QED BY <1>2, <1>3, <2>1, <2>2, <2>3, OffStable
<1>4. Frame(s)
  BY <1>1, <1>2, <1>3, Kinds DEF Frame
<1>5. SessionInv(s)'
  <2>1. ClosedWhenIdle(s)' /\ WritesUnderLock(s)' /\ AskedThenStaged(s)'
    BY <1>1, Kinds DEF ClosedWhenIdle, WritesUnderLock, AskedThenStaged
  <2>2. ConsumerRestricts(s)' /\ SweeperReinstates(s)'
    BY <1>1 DEF ConsumerRestricts, SweeperReinstates
  <2>3. s \in Admins => AdminSerial(s)'
    BY <1>1 DEF AdminSerial, InFlight, IndInv, SessionInv
  <2> QED BY <2>1, <2>2, <2>3 DEF SessionInv
<1>6. ShopToldUnderLock'
  BY <1>1, <1>2, <1>4, ShopFrame
<1> QED BY <1>4, <1>5, <1>6, StepInv

\* A user the commit takes an excuse from: s has switched the account on, and
\* the row says so now.
LEMMA CommitLoses ==
    ASSUME IndInv, NEW s \in Sessions, pc[s] = "open", Commit(s),
           NEW u \in Users, Off(u), ~Off(u)'
    PROVE  /\ "admin" \notin overlap[u] /\ u \notin unlocked
           /\ ~Restricted(row'[u])
           /\ s \in Admins => \A t \in Sessions \ {s} : view[t][u] = NoRow
           /\ s \notin Admins => lock[u] = s
<1>1. /\ account' = account /\ overlap' = overlap /\ unlocked' = unlocked
      /\ unknown' = unknown
      /\ leftOn' = leftOn /\ row'[u] = Visible(s, u)
  BY DEF Commit, history
<1>2. /\ \A t \in Sessions \ {s} : asked'[t] = asked[t]
      /\ goal' = goal
  BY CloseFacts DEF Commit, IndInv
<1>3. account[u] # "disabled" /\ u \notin leftOn \cup unlocked \cup unknown /\ "admin" \notin overlap[u]
  BY <1>1 DEF Off
<1>4. u \in asked[s] /\ (s \in Sweepers \/ (s \in Admins /\ goal[s] = Clean))
  BY <1>1, <1>2, <1>3 DEF Off, Reviving, SwitchesOn
<1>5. /\ view[s][u] # NoRow
      /\ staged[s][u] # NoRow \/ (s \in Admins /\ row[u].status = goal[s].status)
  BY <1>3, <1>4 DEF IndInv, SessionInv, AskedThenStaged
<1>6. CASE s \in Sweepers
  <2>1. staged[s][u] # NoRow /\ s \notin Admins
    BY <1>5, <1>6, Kinds
  <2>2. ~Restricted(staged[s][u]) /\ lock[u] = s
    BY <1>6, <2>1 DEF IndInv, SessionInv, SweeperReinstates, WritesUnderLock
  <2> QED BY <1>1, <1>3, <2>1, <2>2 DEF Visible
<1>7. CASE s \in Admins /\ goal[s] = Clean
  <2>1. AdminSerial(s)
    BY <1>7 DEF IndInv, SessionInv
  <2>2. /\ \A t \in Sessions \ {s} : view[t][u] = NoRow
        /\ staged[s][u] # NoRow => staged[s][u].status = goal[s].status
    BY <1>3, <1>5, <2>1 DEF AdminSerial, InFlight
  <2>3. row'[u].status = "active"
    BY <1>1, <1>5, <1>7, <2>2 DEF Visible, Clean
  <2> QED BY <1>3, <1>7, <2>2, <2>3 DEF Restricted
<1> QED BY <1>4, <1>6, <1>7

LEMMA CommitInv ==
    ASSUME IndInv, TypeOK', NEW s \in Sessions, pc[s] = "open", Commit(s)
    PROVE  IndInv'
<1>1. /\ \A t \in Sessions \ {s} :
            /\ pc'[t] = pc[t] /\ view'[t] = view[t] /\ staged'[t] = staged[t]
            /\ asked'[t] = asked[t] /\ todo'[t] = todo[t]
      /\ pc'[s] = "idle" /\ asked'[s] = {} /\ todo'[s] = {}
      /\ \A u \in Users : view'[s][u] = NoRow /\ staged'[s][u] = NoRow
      /\ \A u \in Users : lock'[u] = IF lock[u] = s THEN NoSession ELSE lock[u]
      /\ current' = current /\ goal' = goal
  BY CloseFacts DEF Commit, IndInv
<1>2. /\ \A u \in Users : row'[u] = Visible(s, u)
      /\ shop' = shop /\ overlap' = overlap
      /\ unlocked' = unlocked /\ shopMissed' = shopMissed
  BY DEF Commit, history
<1>3. SessionInv(s)
  BY DEF IndInv
<1>4. \A u \in Users : staged[s][u] # NoRow => lock[u] = s /\ view[s][u] # NoRow
  BY <1>3 DEF SessionInv, WritesUnderLock
<1>5. \A u \in Users : row'[u] = row[u] \/ view[s][u] # NoRow
  BY <1>2, <1>4 DEF Visible
\* Whoever restricts u keeps its reason to believe that the account is off.
<1>6. ASSUME NEW u \in Users, Off(u), NEW t \in Sessions \ {s},
             view[t][u] # NoRow,
             lock[u] = t \/ u \in unlocked
                 \/ (t \in Admins /\ ("admin" \in overlap[u] \/ view[s][u] = NoRow))
      PROVE  Off(u)'
  <2> SUFFICES ASSUME ~Off(u)' PROVE FALSE
    OBVIOUS
  <2>1. /\ "admin" \notin overlap[u] /\ u \notin unlocked
        /\ s \in Admins => view[t][u] = NoRow
        /\ s \notin Admins => lock[u] = s
    BY <1>6, CommitLoses
  <2>2. lock[u] = s => view[s][u] # NoRow
    BY <1>3 DEF SessionInv, WritesUnderLock
  <2> QED BY <1>6, <2>1, <2>2
<1>7. ASSUME NEW t \in Sessions \ {s} PROVE SessionInv(t)'
  <2>1. SessionInv(t)
    BY DEF IndInv
  <2>2. \A u \in Users : lock'[u] = t <=> lock[u] = t
    BY <1>1, Kinds
  <2>3. ClosedWhenIdle(t)' /\ WritesUnderLock(t)'
    BY <1>1, <2>1, <2>2 DEF SessionInv, ClosedWhenIdle, WritesUnderLock
  <2>4. ASSUME t \in Sweepers \cup Admins PROVE AskedThenStaged(t)'
    <3> SUFFICES ASSUME NEW u \in asked[t] PROVE AskedThenStaged(t)!(u)'
      BY <1>1 DEF AskedThenStaged
    <3>1. u \in Users
      BY DEF IndInv, TypeOK
    <3>2. AskedThenStaged(t)!(u)
      BY <2>1, <2>4 DEF SessionInv, AskedThenStaged
    <3>3. t \in Admins /\ row'[u] # row[u] => "admin" \in overlap[u]
      BY <1>5, <2>1, <3>1, <3>2 DEF SessionInv, AdminSerial, InFlight
    <3> QED BY <1>1, <1>2, <3>2, <3>3
  <2>5. ASSUME t \in Consumers PROVE ConsumerRestricts(t)'
    <3> SUFFICES ASSUME NEW u \in Users PROVE ConsumerRestricts(t)!(u)'
      BY DEF ConsumerRestricts
    <3>1. ConsumerRestricts(t)!(u)
      BY <2>1, <2>5 DEF SessionInv, ConsumerRestricts
    <3>2. current[t] = u /\ pc[t] = "called" => Off(u)'
      BY <1>6, <3>1
    <3>3. staged[t][u] # NoRow => Off(u)'
      BY <1>6, <2>1, <3>1 DEF SessionInv, WritesUnderLock
    <3> QED BY <1>1, <1>2, <2>2, <3>1, <3>2, <3>3
  <2>6. t \in Sweepers => SweeperReinstates(t)'
    BY <1>1, <2>1 DEF SessionInv, SweeperReinstates
  <2>7. ASSUME t \in Admins PROVE AdminSerial(t)'
    <3>1. AdminSerial(t)
      BY <2>1, <2>7 DEF SessionInv
    <3>2. ASSUME NEW u \in Users, view[t][u] # NoRow
          PROVE  /\ "admin" \notin overlap[u] => row'[u] = row[u]
                 /\ Off(u) => Off(u)'
      <4>1. "admin" \notin overlap[u] => view[s][u] = NoRow
        BY <3>1, <3>2 DEF AdminSerial, InFlight
      <4> QED BY <1>5, <1>6, <2>7, <3>2, <4>1
    <3>3. ASSUME NEW u \in Users PROVE AdminSerial(t)!3!(u)'
      BY <1>1, <1>2, <3>1, <3>2 DEF AdminSerial, InFlight
    <3>4. (goal[t].expires = NoExpiry)' /\ (pc[t] = "calling" => asked[t] = {})'
      BY <1>1, <3>1 DEF AdminSerial
    <3> QED BY <3>3, <3>4 DEF AdminSerial
  <2> QED BY <2>3, <2>4, <2>5, <2>6, <2>7 DEF SessionInv
<1>8. SessionInv(s)'
  <2>1. ClosedWhenIdle(s)' /\ WritesUnderLock(s)' /\ AskedThenStaged(s)'
    BY <1>1, Kinds DEF ClosedWhenIdle, WritesUnderLock, AskedThenStaged
  <2>2. ConsumerRestricts(s)' /\ SweeperReinstates(s)'
    BY <1>1 DEF ConsumerRestricts, SweeperReinstates
  <2>3. s \in Admins => AdminSerial(s)'
    BY <1>1, <1>3 DEF AdminSerial, InFlight, SessionInv
  <2> QED BY <2>1, <2>2, <2>3 DEF SessionInv
<1>9. RestrictedOff'
  <2> SUFFICES ASSUME NEW u \in Users, Restricted(row'[u]) PROVE Off(u)'
    BY DEF RestrictedOff, Restricted
  <2>1. Off(u) => Off(u)'
    BY CommitLoses
  <2>2. CASE staged[s][u] = NoRow
    BY <1>2, <2>1, <2>2 DEF IndInv, RestrictedOff, Visible
  <2>3. CASE staged[s][u] # NoRow
    <3>1. row'[u] = staged[s][u]
      BY <1>2, <2>3 DEF Visible
    <3>2. CASE s \in Consumers
      BY <1>3, <2>1, <2>3, <3>2 DEF SessionInv, ConsumerRestricts
    <3>3. CASE s \in Sweepers
      BY <1>3, <2>3, <3>1, <3>3 DEF SessionInv, SweeperReinstates
    <3>4. CASE s \in Admins /\ "admin" \notin overlap[u]
      <4>1. staged[s][u].status = goal[s].status /\ (Restricted(goal[s]) => Off(u))
        BY <1>3, <1>4, <2>3, <3>4 DEF SessionInv, AdminSerial, InFlight
      <4> QED BY <2>1, <3>1, <4>1 DEF Restricted
    <3>5. CASE "admin" \in overlap[u]
      BY <1>2, <3>5 DEF Off
    <3> QED BY <3>2, <3>3, <3>4, <3>5 DEF Sessions
  <2> QED BY <2>2, <2>3
<1>10. ShopToldUnderLock'
  <2> SUFFICES ASSUME NEW u \in Users, u \notin shopMissed, "admin" \notin overlap[u]
               PROVE  shop[u] <=> Restricted(Held(u)')
    BY <1>2 DEF ShopToldUnderLock, Restricted
  <2>1. lock[u] \in Sessions \cup {NoSession}
    BY DEF IndInv, TypeOK
  <2>2. Held(u)' = Held(u)
    <3>1. CASE lock[u] = s
      BY <1>1, <1>2, <3>1, Kinds DEF Held
    <3>2. CASE lock[u] # s
      BY <1>1, <1>2, <1>4, <2>1, <3>2, Kinds DEF Held, Visible
    <3> QED BY <3>1, <3>2
  <2> QED BY <2>2 DEF IndInv, ShopToldUnderLock
<1> QED BY <1>7, <1>8, <1>9, <1>10 DEF IndInv

-------------------------------------------------------------------------------
(* Steps of a consumer *)

LEMMA ConsumerLoadInv ==
    ASSUME IndInv, TypeOK', NEW c \in Consumers, NEW u \in Users, ConsumerLoad(c, u)
    PROVE  IndInv'
<1>1. c \in Sessions /\ c \notin Sweepers \cup Admins /\ SessionInv(c) /\ TypeOK
  BY Kinds DEF IndInv
<1>2. /\ row' = row /\ lock' = lock /\ account' = account /\ shop' = shop
      /\ goal' = goal /\ staged' = staged /\ asked' = asked /\ todo' = todo
      /\ leftOn' = leftOn /\ shopMissed' = shopMissed /\ unlocked' = unlocked
      /\ unknown' = unknown
      /\ pc' = [pc EXCEPT ![c] = "loaded"]
      /\ current' = [current EXCEPT ![c] = u]
  BY DEF ConsumerLoad, database
<1>3. /\ \A t \in Sessions \ {c} : view'[t] = view[t]
      /\ \A v \in Users \ {u} : view'[c][v] = view[c][v]
      /\ view'[c][u] # NoRow
      /\ \A v \in Users : overlap[v] \subseteq overlap'[v]
      /\ view[c][u] = NoRow => \A a \in Admins \ {c} : InFlight(a, u) => "admin" \in overlap'[u]
  <2>1. CASE Load(c, {u})
    BY <1>1, <2>1, Kinds, LoadFacts
  <2>2. CASE InFlight(c, u) /\ UNCHANGED <<view, overlap>>
    BY <2>2 DEF InFlight
  <2> QED BY <2>1, <2>2 DEF ConsumerLoad
<1>4. ASSUME NEW v \in Users, Off(v) PROVE Off(v)'
  BY <1>2, <1>3, <1>4 DEF Off, Reviving, SwitchesOn
<1>5. Frame(c)
  <2>1. \A t \in Sessions \ {c} : pc'[t] = pc[t] /\ current'[t] = current[t]
    BY <1>1, <1>2 DEF TypeOK
  <2> QED BY <1>2, <1>3, <1>4, <2>1 DEF Frame
<1>6. SessionInv(c)'
  <2>1. pc'[c] = "loaded" /\ current'[c] = u
    BY <1>1, <1>2 DEF TypeOK
  <2>2. ClosedWhenIdle(c)' /\ WritesUnderLock(c)'
    BY <1>1, <1>2, <1>3, <2>1 DEF SessionInv, ClosedWhenIdle, WritesUnderLock
  <2>3. ConsumerRestricts(c)'
    BY <1>1, <1>2, <1>3, <1>4, <2>1 DEF SessionInv, ConsumerRestricts
  <2> QED BY <1>1, <2>2, <2>3 DEF SessionInv
<1>7. ShopToldUnderLock'
  BY <1>1, <1>2, <1>5, ShopFrame
<1> QED BY <1>1, <1>5, <1>6, <1>7, StepInv

LEMMA ConsumerScoreInv ==
    ASSUME IndInv, TypeOK', NEW c \in Consumers, ConsumerScore(c)
    PROVE  IndInv'
<1> DEFINE u == current[c]
<1>1. c \in Sessions /\ c \notin Sweepers \cup Admins /\ SessionInv(c) /\ TypeOK
  BY Kinds DEF IndInv
<1>2. /\ row' = row /\ account' = account /\ shop' = shop
      /\ current' = current /\ view' = view /\ staged' = staged /\ asked' = asked
      /\ todo' = todo /\ leftOn' = leftOn /\ shopMissed' = shopMissed
      /\ overlap' = overlap /\ unlocked \subseteq unlocked' /\ unknown' = unknown
  BY DEF ConsumerScore, database
<1>3. u \in Users /\ view[c][u] # NoRow /\ view[c][u].status \in Statuses
  <2>1. u \in Users /\ view[c][u] # NoRow
    BY <1>1 DEF ConsumerScore, SessionInv, ConsumerRestricts, TypeOK
  <2> QED BY <1>1, <2>1 DEF TypeOK, Rows
<1>4. /\ \A v \in Users : lock'[v] = lock[v] \/ (v = u /\ lock[u] \in {NoSession, c} /\ lock'[u] = c)
      /\ \A t \in Sessions \ {c} : pc'[t] = pc[t] /\ goal'[t] = goal[t]
      /\ \/ /\ pc'[c] = "calling" /\ (lock'[u] = c \/ u \in unlocked')
            /\ Restricted(goal'[c]) /\ goal'[c].status # view[c][u].status
         \/ pc'[c] = "open"
  <2>1. PICK level \in Levels, deviceOnly \in BOOLEAN :
           \/ /\ Escalates(level, view[c][u].status, deviceOnly)
              /\ goal' = [goal EXCEPT ![c] = Target(level)]
              /\ pc' = [pc EXCEPT ![c] = "calling"]
              /\ \/ Takes(c, u)
                 \/ unlocked' = unlocked \cup {u} /\ UNCHANGED lock
           \/ Takes(c, u) /\ pc' = [pc EXCEPT ![c] = "open"] /\ UNCHANGED goal
    BY DEF ConsumerScore
  <2>2. CASE Escalates(level, view[c][u].status, deviceOnly)
             /\ pc' = [pc EXCEPT ![c] = "calling"]
    <3>1. LevelStatus[level] # "active" /\ LevelStatus[level] # view[c][u].status
      BY <1>3, <2>2, EscalationRestricts
    <3>2. pc'[c] = "calling" /\ \A t \in Sessions \ {c} : pc'[t] = pc[t]
      BY <1>1, <2>2 DEF TypeOK
    <3>3. /\ goal'[c].status = LevelStatus[level]
          /\ \A t \in Sessions \ {c} : goal'[t] = goal[t]
      BY <1>1, <2>1, <2>2, <3>2 DEF TypeOK, Target
    <3>4. \/ Takes(c, u)
          \/ unlocked' = unlocked \cup {u} /\ UNCHANGED lock
      BY <2>1
    <3>5. /\ \A v \in Users : lock'[v] = lock[v] \/ (v = u /\ lock[u] \in {NoSession, c} /\ lock'[u] = c)
          /\ lock'[u] = c \/ u \in unlocked'
      BY <1>1, <1>3, <3>4 DEF Takes, TypeOK
    <3> QED BY <3>1, <3>2, <3>3, <3>5 DEF Restricted
  <2>3. CASE Takes(c, u) /\ pc' = [pc EXCEPT ![c] = "open"] /\ UNCHANGED goal
    BY <1>1, <1>3, <2>3 DEF Takes, TypeOK
  <2> QED BY <2>1, <2>2, <2>3
<1>5. ASSUME NEW v \in Users, Off(v) PROVE Off(v)'
  BY <1>1, <1>2, <1>4, <1>5 DEF Off, Reviving, SwitchesOn
<1>6. Frame(c)
  BY <1>2, <1>4, <1>5 DEF Frame
<1>7. SessionInv(c)'
  <2>1. ClosedWhenIdle(c)' /\ WritesUnderLock(c)'
    BY <1>1, <1>2, <1>3, <1>4 DEF SessionInv, ClosedWhenIdle, WritesUnderLock
  <2>2. ConsumerRestricts(c)'
    BY <1>1, <1>2, <1>3, <1>4, <1>5 DEF SessionInv, ConsumerRestricts
  <2> QED BY <1>1, <2>1, <2>2 DEF SessionInv
<1>8. ShopToldUnderLock'
  BY <1>1, <1>2, <1>4, <1>6, Kinds, ShopFrame
<1> QED BY <1>1, <1>6, <1>7, <1>8, StepInv

\* EscalateCall and EscalateCallFails: the account can only become disabled.
LEMMA EscalateCallInv ==
    ASSUME IndInv, TypeOK', NEW c \in Consumers,
           EscalateCall(c) \/ EscalateCallFails(c)
    PROVE  IndInv'
<1> DEFINE u == current[c]
<1>1. c \in Sessions /\ c \notin Sweepers \cup Admins /\ SessionInv(c) /\ TypeOK
      /\ u \in Users
  BY Kinds DEF IndInv, TypeOK
<1>2. /\ row' = row /\ lock' = lock /\ shop' = shop
      /\ current' = current /\ view' = view /\ staged' = staged /\ goal' = goal
      /\ todo' = todo /\ leftOn' = leftOn /\ shopMissed' = shopMissed
      /\ overlap' = overlap /\ unlocked' = unlocked
  BY DEF EscalateCall, EscalateCallFails, database
<1>3. /\ \A t \in Sessions \ {c} : pc'[t] = pc[t] /\ asked'[t] = asked[t]
      /\ pc[c] = "calling" /\ pc'[c] \in {"open", "called"}
  BY <1>1 DEF EscalateCall, EscalateCallFails, TypeOK
<1>a. /\ \A v \in Users : /\ account[v] = "disabled" => account'[v] = "disabled"
                          /\ v \in unknown => v \in unknown' \/ account'[v] = "disabled"
      /\ pc'[c] = "called" => account'[u] = "disabled" \/ u \in unknown'
  <2>1. CASE EscalateCall(c)
    <3>1. SetUserStatus(u, "disabled")
      BY <2>1 DEF EscalateCall
    <3> QED BY <1>1, <3>1, CallFacts
  <2>2. CASE EscalateCallFails(c)
    BY <1>1, <2>2 DEF EscalateCallFails, TypeOK
  <2> QED BY <2>1, <2>2
<1>4. ASSUME NEW v \in Users, Off(v) PROVE Off(v)'
  BY <1>1, <1>2, <1>3, <1>4, <1>a DEF Off, Reviving, SwitchesOn
<1>5. Frame(c)
  BY <1>2, <1>3, <1>4 DEF Frame
<1>6. SessionInv(c)'
  <2>1. ClosedWhenIdle(c)' /\ WritesUnderLock(c)'
    BY <1>1, <1>2, <1>3 DEF SessionInv, ClosedWhenIdle, WritesUnderLock
  <2>2. ConsumerRestricts(c)'
    <3>1. \A v \in Users : current[c] = v /\ pc'[c] = "called" => Off(v)'
      BY <1>a DEF Off
    <3> QED BY <1>1, <1>2, <1>3, <1>4, <3>1 DEF SessionInv, ConsumerRestricts
  <2> QED BY <1>1, <2>1, <2>2 DEF SessionInv
<1>7. ShopToldUnderLock'
  BY <1>1, <1>2, <1>5, ShopFrame
<1> QED BY <1>1, <1>5, <1>6, <1>7, StepInv

\* set_status and the shop's callback, whoever makes them: the callback says
\* what was written.
LEMMA StageShop ==
    ASSUME IndInv, NEW s \in Sessions, Frame(s), NEW u \in Users,
           NEW new \in Rows, SetStatus(s, u, new),
           TellShop(u, Restricted(new)), overlap' = overlap,
           "admin" \notin overlap[u] =>
               (Restricted(Updated(s, u, new)) <=> Restricted(new))
    PROVE  ShopToldUnderLock'
<1> SUFFICES ASSUME NEW v \in Users, v \notin shopMissed', "admin" \notin overlap[v]
             PROVE  shop'[v] <=> Restricted(Held(v)')
  BY DEF ShopToldUnderLock, Restricted
<1>1. TypeOK
  BY DEF IndInv
<1>2. /\ \A t \in Sessions \ {s} : staged'[t] = staged[t]
      /\ v # u => staged'[s][v] = staged[s][v] /\ lock'[v] = lock[v]
      /\ staged'[s][u] = Updated(s, u, new) /\ staged'[s][u] # NoRow /\ lock'[u] = s
  BY <1>1, SetStatusFacts
<1>3. CASE v = u
  <2>1. shop'[u] = Restricted(new)
    BY <1>1, <1>3 DEF TellShop, TypeOK
  <2>2. Held(u)' = Updated(s, u, new)
    BY <1>2, Kinds DEF Held, Visible
  <2> QED BY <1>3, <2>1, <2>2
<1>4. CASE v # u
  <2>1. shop'[v] = shop[v] /\ v \notin shopMissed
    BY <1>1, <1>4 DEF TellShop, TypeOK
  <2>2. lock[v] \in Sessions \cup {NoSession} /\ row' = row
    BY <1>1 DEF TypeOK, Frame
  <2>3. Held(v)' = Held(v)
    BY <1>2, <1>4, <2>2 DEF Held, Visible
  <2> QED BY <2>1, <2>3 DEF IndInv, ShopToldUnderLock
<1> QED BY <1>3, <1>4

LEMMA EscalateStageInv ==
    ASSUME IndInv, TypeOK', NEW c \in Consumers, EscalateStage(c)
    PROVE  IndInv'
<1> DEFINE u == current[c]
<1>1. c \in Sessions /\ c \notin Sweepers \cup Admins /\ SessionInv(c) /\ TypeOK
      /\ u \in Users /\ goal[c] \in Rows
  BY Kinds DEF IndInv, TypeOK
<1>2. /\ row' = row /\ account' = account /\ current' = current /\ goal' = goal
      /\ asked' = asked /\ todo' = todo /\ overlap' = overlap /\ leftOn' = leftOn
      /\ unlocked' = unlocked /\ unknown' = unknown /\ pc' = [pc EXCEPT ![c] = "open"]
      /\ pc[c] = "called" /\ SetStatus(c, u, goal[c]) /\ TellShop(u, TRUE)
  BY DEF EscalateStage, database
<1>3. /\ \A t \in Sessions \ {c} : view'[t] = view[t] /\ staged'[t] = staged[t]
      /\ \A v \in Users \ {u} : /\ view'[c][v] = view[c][v]
                                /\ staged'[c][v] = staged[c][v]
                                /\ lock'[v] = lock[v]
      /\ view'[c][u] = goal[c] /\ view'[c][u] # NoRow
      /\ staged'[c][u] = Updated(c, u, goal[c]) /\ staged'[c][u] # NoRow
      /\ lock[u] \in {NoSession, c} /\ lock'[u] = c
  BY <1>1, <1>2, SetStatusFacts
<1>4. /\ view[c][u] # NoRow /\ Off(u)
      /\ Restricted(goal[c]) /\ Restricted(Updated(c, u, goal[c]))
  BY <1>1, <1>2 DEF SessionInv, ConsumerRestricts, Updated, Restricted
<1>5. ASSUME NEW v \in Users, Off(v) PROVE Off(v)'
  BY <1>1, <1>2, <1>5 DEF Off, Reviving, SwitchesOn
<1>6. pc'[c] = "open" /\ \A t \in Sessions \ {c} : pc'[t] = pc[t]
  BY <1>1, <1>2 DEF TypeOK
<1>7. Frame(c)
  BY <1>2, <1>3, <1>4, <1>5, <1>6 DEF Frame
<1>8. SessionInv(c)'
  <2>1. ClosedWhenIdle(c)' /\ WritesUnderLock(c)'
    BY <1>1, <1>3, <1>6 DEF SessionInv, ClosedWhenIdle, WritesUnderLock
  <2>2. ConsumerRestricts(c)'
    <3> SUFFICES ASSUME NEW v \in Users, staged'[c][v] # NoRow
                 PROVE  Restricted(staged'[c][v]) /\ Off(v)'
      BY <1>6 DEF ConsumerRestricts, Restricted
    <3>1. CASE v = u
      BY <1>3, <1>4, <1>5, <3>1
    <3>2. CASE v # u
      BY <1>1, <1>3, <1>5, <3>2 DEF SessionInv, ConsumerRestricts
    <3> QED BY <3>1, <3>2
  <2> QED BY <1>1, <2>1, <2>2 DEF SessionInv
<1>9. ShopToldUnderLock'
  <2>1. TellShop(u, Restricted(goal[c]))
    BY <1>2, <1>4 DEF Restricted
  <2> QED BY <1>1, <1>2, <1>4, <1>7, <2>1, StageShop
<1> QED BY <1>1, <1>7, <1>8, <1>9, StepInv

-------------------------------------------------------------------------------
(* Steps of a sweep *)

LEMMA SweepSelectInv ==
    ASSUME IndInv, TypeOK', NEW w \in Sweepers, SweepSelect(w)
    PROVE  IndInv'
<1> DEFINE expired == {u \in Users : Expired(u)}
<1>1. w \in Sessions /\ w \notin Consumers \cup Admins /\ SessionInv(w) /\ TypeOK
  BY Kinds DEF IndInv
<1>2. /\ row' = row /\ lock' = lock /\ account' = account /\ shop' = shop
      /\ goal' = goal /\ staged' = staged /\ asked' = asked /\ current' = current
      /\ leftOn' = leftOn /\ shopMissed' = shopMissed /\ unlocked' = unlocked
      /\ unknown' = unknown
      /\ pc[w] = "idle" /\ Load(w, expired)
  BY DEF SweepSelect, database
<1>3. /\ pc'[w] = "open" /\ todo'[w] = expired
      /\ \A t \in Sessions \ {w} : pc'[t] = pc[t] /\ todo'[t] = todo[t]
  BY <1>1 DEF SweepSelect, TypeOK
<1>4. \A u \in Users : view[w][u] = NoRow /\ staged[w][u] = NoRow /\ u \notin asked[w]
  BY <1>1, <1>2 DEF SessionInv, ClosedWhenIdle
<1>5. /\ \A t \in Sessions \ {w} : view'[t] = view[t]
      /\ \A u \in Users \ expired : view'[w][u] = view[w][u]
      /\ \A u \in expired : view'[w][u] = Visible(w, u) /\ view'[w][u] # NoRow
      /\ \A u \in Users : overlap[u] \subseteq overlap'[u]
      /\ \A u \in expired, a \in Sessions \ {w} :
            InFlight(a, u) /\ a \in Admins => "admin" \in overlap'[u]
  BY <1>1, <1>2, LoadFacts
<1>6. \A u \in expired : view'[w][u].status = "suspended"
  BY <1>4, <1>5 DEF Visible, Expired
<1>7. ASSUME NEW u \in Users, Off(u) PROVE Off(u)'
  BY <1>2, <1>5, <1>7 DEF Off, Reviving, SwitchesOn
<1>8. Frame(w)
  BY <1>2, <1>3, <1>4, <1>5, <1>7, Kinds DEF Frame
<1>9. SessionInv(w)'
  <2>1. ClosedWhenIdle(w)'
    BY <1>3 DEF ClosedWhenIdle
  <2>2. WritesUnderLock(w)'
    BY <1>1, <1>2, <1>4, <1>5 DEF SessionInv, WritesUnderLock
  <2>3. AskedThenStaged(w)'
    BY <1>1, <1>2, <1>4 DEF AskedThenStaged, TypeOK
  <2>4. SweeperReinstates(w)'
    BY <1>2, <1>3, <1>4, <1>5, <1>6 DEF SweeperReinstates
  <2> QED BY <1>1, <2>1, <2>2, <2>3, <2>4 DEF SessionInv
<1>10. ShopToldUnderLock'
  BY <1>1, <1>2, <1>8, ShopFrame
<1> QED BY <1>1, <1>8, <1>9, <1>10, StepInv

LEMMA SweepCallInv ==
    ASSUME IndInv, TypeOK', NEW w \in Sweepers, NEW u \in Users, SweepCall(w, u)
    PROVE  IndInv'
<1>1. w \in Sessions /\ w \notin Consumers \cup Admins /\ SessionInv(w) /\ TypeOK
  BY Kinds DEF IndInv
<1>2. /\ row' = row /\ lock' = lock /\ shop' = shop /\ view' = view
      /\ goal' = goal /\ staged' = staged /\ todo' = todo /\ overlap' = overlap
      /\ leftOn' = leftOn /\ shopMissed' = shopMissed /\ unlocked' = unlocked
      /\ u \in todo[w]
  BY DEF SweepCall, database
<1>3. /\ pc'[w] = "called" /\ current'[w] = u /\ asked'[w] = asked[w] \cup {u}
      /\ \A t \in Sessions \ {w} : /\ pc'[t] = pc[t] /\ current'[t] = current[t]
                                   /\ asked'[t] = asked[t]
      /\ \A v \in Users \ {u} : /\ account'[v] = account[v]
                                /\ v \in unknown' <=> v \in unknown
      /\ pc[w] = "open"
  <2>1. SetUserStatus(u, "active")
    BY DEF SweepCall
  <2> QED BY <1>1, <2>1, CallFacts DEF SweepCall, TypeOK
<1>4. Off(u)'
  BY <1>1, <1>3 DEF Off, Reviving, SwitchesOn
<1>5. ASSUME NEW v \in Users, Off(v) PROVE Off(v)'
  <2>1. CASE v = u
    BY <1>4, <2>1
  <2>2. CASE v # u
    <3>1. \A s \in Sessions : Reviving(s, v) => Reviving(s, v)'
      BY <1>2, <1>3 DEF Reviving, SwitchesOn
    <3> QED BY <1>2, <1>3, <1>5, <2>2, <3>1 DEF Off
  <2> QED BY <2>1, <2>2
<1>6. Frame(w)
  BY <1>2, <1>3, <1>5 DEF Frame
<1>7. SessionInv(w)'
  <2>1. ClosedWhenIdle(w)' /\ WritesUnderLock(w)'
    BY <1>1, <1>2, <1>3 DEF SessionInv, ClosedWhenIdle, WritesUnderLock
  <2>2. AskedThenStaged(w)'
    <3>1. view[w][u] # NoRow
      BY <1>1, <1>2 DEF SessionInv, SweeperReinstates
    <3>2. \A v \in asked[w] : view[w][v] # NoRow /\ staged[w][v] # NoRow
      BY <1>1, <1>3 DEF SessionInv, AskedThenStaged
    <3> QED BY <1>2, <1>3, <3>1, <3>2 DEF AskedThenStaged
  <2>3. SweeperReinstates(w)'
    BY <1>1, <1>2, <1>3 DEF SessionInv, SweeperReinstates
  <2> QED BY <1>1, <2>1, <2>2, <2>3 DEF SessionInv
<1>8. ShopToldUnderLock'
  BY <1>1, <1>2, <1>6, ShopFrame
<1> QED BY <1>1, <1>6, <1>7, <1>8, StepInv

LEMMA SweepStageInv ==
    ASSUME IndInv, TypeOK', NEW w \in Sweepers, SweepStage(w)
    PROVE  IndInv'
<1> DEFINE u == current[w]
<1>1. w \in Sessions /\ w \notin Consumers \cup Admins /\ SessionInv(w) /\ TypeOK
      /\ u \in Users /\ Clean \in Rows
  BY Kinds DEF IndInv, TypeOK, Clean, Rows, Statuses
<1>2. /\ row' = row /\ account' = account /\ current' = current /\ goal' = goal
      /\ asked' = asked /\ overlap' = overlap /\ leftOn' = leftOn
      /\ unlocked' = unlocked /\ unknown' = unknown /\ pc[w] = "called"
      /\ SetStatus(w, u, Clean) /\ TellShop(u, FALSE)
  BY DEF SweepStage, database
<1>3. /\ \A t \in Sessions \ {w} : view'[t] = view[t] /\ staged'[t] = staged[t]
      /\ \A v \in Users \ {u} : /\ view'[w][v] = view[w][v]
                                /\ staged'[w][v] = staged[w][v]
                                /\ lock'[v] = lock[v]
      /\ view'[w][u] # NoRow
      /\ staged'[w][u] = Updated(w, u, Clean) /\ staged'[w][u] # NoRow
      /\ lock[u] \in {NoSession, w} /\ lock'[u] = w
  BY <1>1, <1>2, SetStatusFacts
<1>4. /\ pc'[w] = "open" /\ todo'[w] = todo[w] \ {u}
      /\ \A t \in Sessions \ {w} : pc'[t] = pc[t] /\ todo'[t] = todo[t]
  BY <1>1 DEF SweepStage, TypeOK
<1>5. /\ view[w][u] # NoRow /\ view[w][u].status = "suspended"
      /\ ~Restricted(Updated(w, u, Clean)) /\ ~Restricted(Clean)
  BY <1>1, <1>2 DEF SessionInv, SweeperReinstates, Updated, Restricted, Clean
<1>6. ASSUME NEW v \in Users, Off(v) PROVE Off(v)'
  BY <1>2, <1>6 DEF Off, Reviving, SwitchesOn
<1>7. Frame(w)
  BY <1>2, <1>3, <1>4, <1>5, <1>6 DEF Frame
<1>8. SessionInv(w)'
  <2>1. ClosedWhenIdle(w)' /\ WritesUnderLock(w)'
    BY <1>1, <1>3, <1>4 DEF SessionInv, ClosedWhenIdle, WritesUnderLock
  <2>2. AskedThenStaged(w)'
    <3> SUFFICES ASSUME NEW v \in asked[w]
                 PROVE  view'[w][v] # NoRow /\ staged'[w][v] # NoRow
      BY <1>2 DEF AskedThenStaged
    <3>1. v \in Users
      BY <1>1 DEF TypeOK
    <3>2. CASE v = u
      BY <1>3, <3>2
    <3>3. CASE v # u
      BY <1>1, <1>3, <3>1, <3>3 DEF SessionInv, AskedThenStaged
    <3> QED BY <3>2, <3>3
  <2>3. SweeperReinstates(w)'
    <3>1. ASSUME NEW v \in todo'[w]
          PROVE  view'[w][v] # NoRow /\ view'[w][v].status = "suspended"
      <4>1. v \in Users \ {u} /\ v \in todo[w]
        BY <1>1, <1>4 DEF TypeOK
      <4> QED BY <1>1, <1>3, <4>1 DEF SessionInv, SweeperReinstates
    <3>2. ASSUME NEW v \in Users, staged'[w][v] # NoRow
          PROVE  ~Restricted(staged'[w][v])
      BY <1>1, <1>3, <1>5, <3>2 DEF SessionInv, SweeperReinstates
    <3> QED BY <1>4, <3>1, <3>2 DEF SweeperReinstates, Restricted
  <2> QED BY <1>1, <2>1, <2>2, <2>3 DEF SessionInv
<1>9. ShopToldUnderLock'
  <2>1. TellShop(u, Restricted(Clean))
    BY <1>2, <1>5 DEF Clean, Restricted
  <2> QED BY <1>1, <1>2, <1>5, <1>7, <2>1, StageShop
<1> QED BY <1>1, <1>7, <1>8, <1>9, StepInv

-------------------------------------------------------------------------------
(* Steps of an admin request *)

LEMMA OverrideInv ==
    ASSUME IndInv, TypeOK', NEW a \in Admins, NEW u \in Users,
           NEW status \in Statuses, Override(a, u, status)
    PROVE  IndInv'
<1>1. a \in Sessions /\ a \notin Consumers \cup Sweepers /\ SessionInv(a) /\ TypeOK
  BY Kinds DEF IndInv
<1>2. /\ row' = row /\ lock' = lock /\ account' = account /\ shop' = shop
      /\ staged' = staged /\ asked' = asked /\ todo' = todo
      /\ leftOn' = leftOn /\ shopMissed' = shopMissed /\ unlocked' = unlocked
      /\ unknown' = unknown
      /\ pc[a] = "idle" /\ Load(a, {u})
  BY DEF Override, database
<1>3. /\ pc'[a] = "calling" /\ current'[a] = u /\ goal'[a].expires = NoExpiry
      /\ \A t \in Sessions \ {a} : /\ pc'[t] = pc[t] /\ current'[t] = current[t]
                                   /\ goal'[t] = goal[t]
  BY <1>1 DEF Override, TypeOK
<1>4. asked[a] = {} /\ \A v \in Users : view[a][v] = NoRow /\ staged[a][v] = NoRow
  BY <1>1, <1>2 DEF SessionInv, ClosedWhenIdle
<1>5. /\ \A t \in Sessions \ {a} : view'[t] = view[t]
      /\ \A v \in Users \ {u} : view'[a][v] = NoRow
      /\ view'[a][u] = row[u] /\ view'[a][u] # NoRow
      /\ \A v \in Users : overlap[v] \subseteq overlap'[v]
      /\ \A t \in Sessions \ {a} : InFlight(t, u) => "admin" \in overlap'[u]
  <2>1. view'[a][u] = Visible(a, u) /\ Visible(a, u) = row[u]
    BY <1>1, <1>2, <1>4, LoadFacts DEF Visible
  <2> QED BY <1>1, <1>2, <1>4, <2>1, LoadFacts
<1>6. ASSUME NEW v \in Users, Off(v) PROVE Off(v)'
  <2>1. \A s \in Sessions : Reviving(s, v) => Reviving(s, v)'
    BY <1>2, <1>3, <1>4 DEF Reviving, SwitchesOn
  <2> QED BY <1>2, <1>5, <1>6, <2>1 DEF Off
<1>7. Frame(a)
  BY <1>2, <1>3, <1>5, <1>6, Kinds DEF Frame
<1>8. SessionInv(a)'
  <2>1. ClosedWhenIdle(a)' /\ AskedThenStaged(a)'
    BY <1>2, <1>3, <1>4 DEF ClosedWhenIdle, AskedThenStaged
  <2>2. WritesUnderLock(a)'
    BY <1>1, <1>2, <1>4 DEF SessionInv, WritesUnderLock
  <2>3. AdminSerial(a)'
    <3>1. \A t \in Sessions \ {a} : InFlight(t, u)' => "admin" \in overlap'[u]
      BY <1>5 DEF InFlight
    <3>2. ASSUME NEW v \in Users PROVE AdminSerial(a)!3!(v)'
      BY <1>2, <1>3, <1>4, <1>5, <3>1 DEF InFlight
    <3> QED BY <1>2, <1>3, <1>4, <3>2 DEF AdminSerial
  <2> QED BY <1>1, <2>1, <2>2, <2>3 DEF SessionInv
<1>9. ShopToldUnderLock'
  BY <1>1, <1>2, <1>7, ShopFrame
<1> QED BY <1>1, <1>7, <1>8, <1>9, StepInv

LEMMA ReviewOnlyInv ==
    ASSUME IndInv, TypeOK', NEW a \in Admins, NEW entry \in entries,
           ReviewOnly(a, entry)
    PROVE  IndInv'
<1>1. a \in Sessions /\ a \notin Consumers \cup Sweepers /\ SessionInv(a) /\ TypeOK
  BY Kinds DEF IndInv
<1>2. /\ row' = row /\ lock' = lock /\ account' = account /\ shop' = shop
      /\ staged' = staged /\ asked' = asked /\ todo' = todo /\ view' = view
      /\ goal' = goal /\ current' = current /\ overlap' = overlap
      /\ leftOn' = leftOn /\ shopMissed' = shopMissed /\ unlocked' = unlocked
      /\ unknown' = unknown
      /\ pc[a] = "idle"
  BY DEF ReviewOnly, database, history
<1>3. pc'[a] = "open" /\ \A t \in Sessions \ {a} : pc'[t] = pc[t]
  BY <1>1 DEF ReviewOnly, TypeOK
<1>4. asked[a] = {} /\ \A v \in Users : view[a][v] = NoRow /\ staged[a][v] = NoRow
  BY <1>1, <1>2 DEF SessionInv, ClosedWhenIdle
<1>5. ASSUME NEW v \in Users, Off(v) PROVE Off(v)'
  BY <1>2, <1>5 DEF Off, Reviving, SwitchesOn
<1>6. Frame(a)
  BY <1>2, <1>3, <1>5 DEF Frame
<1>7. SessionInv(a)'
  <2>1. ClosedWhenIdle(a)' /\ AskedThenStaged(a)'
    BY <1>2, <1>3, <1>4 DEF ClosedWhenIdle, AskedThenStaged
  <2>2. WritesUnderLock(a)'
    BY <1>1, <1>2 DEF SessionInv, WritesUnderLock
  <2>3. AdminSerial(a)'
    BY <1>1, <1>2, <1>3, <1>4 DEF SessionInv, AdminSerial, InFlight
  <2> QED BY <1>1, <2>1, <2>2, <2>3 DEF SessionInv
<1>8. ShopToldUnderLock'
  BY <1>1, <1>2, <1>6, ShopFrame
<1> QED BY <1>1, <1>6, <1>7, <1>8, StepInv

LEMMA AdminCallInv ==
    ASSUME IndInv, TypeOK', NEW a \in Admins, AdminCall(a)
    PROVE  IndInv'
<1> DEFINE u == current[a]
<1>1. a \in Sessions /\ a \notin Consumers \cup Sweepers /\ SessionInv(a) /\ TypeOK
      /\ u \in Users
  BY Kinds DEF IndInv, TypeOK
<1>2. /\ row' = row /\ lock' = lock /\ shop' = shop /\ view' = view
      /\ goal' = goal /\ staged' = staged /\ todo' = todo /\ overlap' = overlap
      /\ leftOn' = leftOn /\ shopMissed' = shopMissed /\ unlocked' = unlocked
      /\ current' = current /\ pc[a] = "calling"
  BY DEF AdminCall, database
<1>3. /\ pc'[a] = "called" /\ asked'[a] = asked[a] \cup {u}
      /\ \A t \in Sessions \ {a} : pc'[t] = pc[t] /\ asked'[t] = asked[t]
      /\ \A v \in Users \ {u} : /\ account'[v] = account[v]
                                /\ v \in unknown' <=> v \in unknown
      /\ Restricted(goal[a]) => account'[u] = "disabled" \/ u \in unknown'
  <2>1. SetUserStatus(u, Wanted(a)) /\ Wanted(a) \in {"active", "disabled"}
    BY DEF AdminCall, Wanted
  <2> QED BY <1>1, <2>1, CallFacts DEF AdminCall, TypeOK, Wanted
<1>4. AdminSerial(a)
  BY <1>1, Kinds DEF SessionInv
<1>5. /\ asked[a] = {} /\ view[a][u] # NoRow
      /\ \A v \in Users : staged[a][v] = NoRow
  BY <1>1, <1>2, <1>4 DEF AdminSerial
<1>6. ~Restricted(goal[a]) => goal[a] = Clean
  <2>1. goal[a] \in Rows /\ goal[a].expires = NoExpiry
    BY <1>1, <1>4 DEF TypeOK, AdminSerial
  <2> QED BY <2>1 DEF Rows, Restricted, Clean
<1>7. Off(u)'
  <2>1. CASE Restricted(goal[a])
    BY <1>2, <1>3, <2>1 DEF Off
  <2>2. CASE ~Restricted(goal[a])
    BY <1>1, <1>2, <1>3, <1>6, <2>2 DEF Off, Reviving, SwitchesOn
  <2> QED BY <2>1, <2>2
<1>8. ASSUME NEW v \in Users, Off(v) PROVE Off(v)'
  <2>1. CASE v = u
    BY <1>2, <1>7, <2>1
  <2>2. CASE v # u
    <3>1. \A s \in Sessions : Reviving(s, v) => Reviving(s, v)'
      BY <1>2, <1>3 DEF Reviving, SwitchesOn
    <3> QED BY <1>2, <1>3, <1>8, <2>2, <3>1 DEF Off
  <2> QED BY <2>1, <2>2
<1>9. Frame(a)
  BY <1>2, <1>3, <1>8 DEF Frame
<1>10. SessionInv(a)'
  <2>1. ClosedWhenIdle(a)' /\ WritesUnderLock(a)'
    BY <1>1, <1>2, <1>3 DEF SessionInv, ClosedWhenIdle, WritesUnderLock
  <2>2. AskedThenStaged(a)'
    BY <1>2, <1>3, <1>5 DEF AskedThenStaged
  <2>3. AdminSerial(a)'
    <3>1. \A v \in Users : current'[a] = v => Off(v)'
      BY <1>2, <1>7
    <3>2. ASSUME NEW v \in Users PROVE AdminSerial(a)!3!(v)'
      BY <1>2, <1>3, <1>4, <1>5, <3>1 DEF AdminSerial, InFlight
    <3> QED BY <1>2, <1>3, <1>4, <3>2 DEF AdminSerial
  <2> QED BY <1>1, <2>1, <2>2, <2>3 DEF SessionInv
<1>11. ShopToldUnderLock'
  BY <1>1, <1>2, <1>9, ShopFrame
<1> QED BY <1>1, <1>9, <1>10, <1>11, StepInv

LEMMA AdminStageInv ==
    ASSUME IndInv, TypeOK', NEW a \in Admins, AdminStage(a)
    PROVE  IndInv'
<1> DEFINE u == current[a]
<1>1. a \in Sessions /\ a \notin Consumers \cup Sweepers /\ SessionInv(a) /\ TypeOK
      /\ u \in Users /\ goal[a] \in Rows
  BY Kinds DEF IndInv, TypeOK
<1>2. /\ row' = row /\ account' = account /\ current' = current /\ goal' = goal
      /\ asked' = asked /\ todo' = todo /\ overlap' = overlap /\ leftOn' = leftOn
      /\ unlocked' = unlocked /\ unknown' = unknown /\ pc[a] = "called"
      /\ TellShop(u, Restricted(goal[a]))
  BY DEF AdminStage, database
<1>3. pc'[a] = "open" /\ \A t \in Sessions \ {a} : pc'[t] = pc[t]
  BY <1>1 DEF AdminStage, TypeOK
<1>4. AdminSerial(a) /\ AskedThenStaged(a)
  BY <1>1, Kinds DEF SessionInv
<1>5. /\ view[a][u] # NoRow /\ \A v \in Users : staged[a][v] = NoRow
      /\ Restricted(goal[a]) => Off(u)
  BY <1>1, <1>2, <1>4 DEF AdminSerial
<1>6. "admin" \notin overlap[u] =>
          view[a][u] = row[u] /\ \A t \in Sessions \ {a} : view[t][u] = NoRow
  BY <1>1, <1>4, <1>5 DEF AdminSerial, InFlight
<1>7. ASSUME NEW v \in Users, Off(v) PROVE Off(v)'
  BY <1>2, <1>7 DEF Off, Reviving, SwitchesOn
\* The request writes the row.
<1>8. CASE SetStatus(a, u, goal[a])
  <2>1. /\ \A t \in Sessions \ {a} : view'[t] = view[t] /\ staged'[t] = staged[t]
        /\ \A v \in Users \ {u} : /\ view'[a][v] = view[a][v]
                                  /\ staged'[a][v] = staged[a][v]
                                  /\ lock'[v] = lock[v]
        /\ view'[a][u] # NoRow
        /\ staged'[a][u] = Updated(a, u, goal[a]) /\ staged'[a][u] # NoRow
        /\ lock[u] \in {NoSession, a} /\ lock'[u] = a
    BY <1>1, <1>8, SetStatusFacts
  <2>2. "admin" \notin overlap[u] => Updated(a, u, goal[a]).status = goal[a].status
    BY <1>1, <1>5, <1>6 DEF Updated, Visible
  <2>3. Frame(a)
    BY <1>2, <1>3, <1>5, <1>7, <2>1 DEF Frame
  <2>4. ClosedWhenIdle(a)' /\ WritesUnderLock(a)'
    BY <1>1, <1>3, <2>1 DEF SessionInv, ClosedWhenIdle, WritesUnderLock
  <2>5. AskedThenStaged(a)'
    <3> SUFFICES ASSUME NEW v \in asked[a] PROVE AskedThenStaged(a)!(v)'
      BY <1>2 DEF AskedThenStaged
    <3>1. v \in Users
      BY <1>1 DEF TypeOK
    <3> QED BY <1>2, <1>4, <2>1, <3>1 DEF AskedThenStaged
  <2>6. AdminSerial(a)'
    <3>1. ASSUME NEW v \in Users PROVE AdminSerial(a)!3!(v)'
      <4>1. CASE v = u
        <5>1. "admin" \notin overlap[u] =>
                 \A t \in Sessions \ {a} : view'[t][u] = NoRow
          BY <1>6, <2>1
        <5>2. Restricted(goal[a]) => Off(v)'
          BY <1>5, <1>7, <4>1
        <5> QED BY <1>2, <1>3, <2>1, <2>2, <4>1, <5>1, <5>2 DEF InFlight
      <4>2. CASE v # u
        BY <1>2, <1>3, <1>4, <1>5, <2>1, <4>2 DEF AdminSerial, InFlight
      <4> QED BY <4>1, <4>2
    <3> QED BY <1>2, <1>3, <1>4, <3>1 DEF AdminSerial
  <2>7. ShopToldUnderLock'
    <3>1. "admin" \notin overlap[u] =>
             (Restricted(Updated(a, u, goal[a])) <=> Restricted(goal[a]))
      BY <2>2 DEF Restricted
    <3> QED BY <1>1, <1>2, <1>8, <2>3, <3>1, StageShop
  <2>8. SessionInv(a)'
    BY <1>1, <2>4, <2>5, <2>6 DEF SessionInv
  <2> QED BY <1>1, <2>3, <2>7, <2>8, StepInv
\* The request changes nothing, and no other session holds the row.
<1>9. CASE goal[a] = view[a][u] /\ UNCHANGED <<lock, staged, view>>
  <2>1. Frame(a)
    BY <1>2, <1>3, <1>7, <1>9 DEF Frame
  <2>2. ClosedWhenIdle(a)' /\ WritesUnderLock(a)'
    BY <1>1, <1>3, <1>9 DEF SessionInv, ClosedWhenIdle, WritesUnderLock
  <2>3. AskedThenStaged(a)'
    <3> SUFFICES ASSUME NEW v \in asked[a] PROVE AskedThenStaged(a)!(v)'
      BY <1>2 DEF AskedThenStaged
    <3>1. v \in Users /\ AskedThenStaged(a)!(v) /\ a \in Admins
      BY <1>1, <1>4 DEF TypeOK, AskedThenStaged
    <3>2. v = u => "admin" \in overlap[u] \/ row[u].status = goal[a].status
      BY <1>6, <1>9
    <3> QED BY <1>2, <1>5, <1>9, <3>1, <3>2
  <2>4. AdminSerial(a)'
    <3>1. ASSUME NEW v \in Users PROVE AdminSerial(a)!3!(v)'
      BY <1>2, <1>3, <1>4, <1>5, <1>7, <1>9 DEF AdminSerial, InFlight
    <3> QED BY <1>2, <1>3, <1>4, <3>1 DEF AdminSerial
  <2>5. ShopToldUnderLock'
    <3> SUFFICES ASSUME NEW v \in Users, v \notin shopMissed', "admin" \notin overlap[v]
                 PROVE  shop'[v] <=> Restricted(Held(v)')
      BY <1>2 DEF ShopToldUnderLock, Restricted
    <3>1. Held(v)' = Held(v)
      BY <1>2, <1>9 DEF Held, Visible
    <3>2. CASE v = u
      <4>1. lock[u] \in {NoSession, a}
        BY <1>1, <1>6, <3>2 DEF IndInv, SessionInv, WritesUnderLock, TypeOK
      <4>2. Held(u) = row[u]
        BY <1>1, <1>5, <4>1 DEF Held, Visible
      <4>3. shop'[u] = Restricted(goal[a])
        BY <1>1, <1>2, <3>2 DEF TellShop, TypeOK
      <4> QED BY <1>6, <1>9, <3>1, <3>2, <4>2, <4>3
    <3>3. CASE v # u
      <4>1. shop'[v] = shop[v] /\ v \notin shopMissed
        BY <1>1, <1>2, <3>3 DEF TellShop, TypeOK
      <4> QED BY <3>1, <4>1 DEF IndInv, ShopToldUnderLock
    <3> QED BY <3>2, <3>3
  <2>6. SessionInv(a)'
    BY <1>1, <2>2, <2>3, <2>4 DEF SessionInv
  <2> QED BY <1>1, <2>1, <2>5, <2>6, StepInv
<1> QED BY <1>8, <1>9 DEF AdminStage

-------------------------------------------------------------------------------
(* Marzban, the shop and the rows: the theorems *)

LEMMA StepIndInv == IndInv /\ [Next]_vars => IndInv'
<1> SUFFICES ASSUME IndInv, [Next]_vars PROVE IndInv'
  OBVIOUS
<1>1. TypeOK /\ TypeOK'
  BY TypeStep DEF IndInv
<1>2. \A s \in Sessions : asked[s] \in SUBSET Users /\ current[s] \in Users
  BY <1>1 DEF TypeOK
<1>3. ASSUME NEW c \in Consumers, ConsumerStep(c) PROVE IndInv'
  <2>1. CASE ConsumerScore(c)
    BY <1>1, <2>1, ConsumerScoreInv
  <2>2. CASE EscalateCall(c) \/ EscalateCallFails(c)
    BY <1>1, <2>2, EscalateCallInv
  <2>3. CASE EscalateStage(c)
    BY <1>1, <2>3, EscalateStageInv
  <2>4. CASE ConsumerCommit(c)
    BY <1>1, <2>4, Kinds, CommitInv DEF ConsumerCommit
  <2> QED BY <1>3, <2>1, <2>2, <2>3, <2>4 DEF ConsumerStep
<1>4. ASSUME NEW w \in Sweepers, SweepStep(w) PROVE IndInv'
  <2>1. CASE SweepSelect(w)
    BY <1>1, <2>1, SweepSelectInv
  <2>2. ASSUME NEW u \in Users, SweepCall(w, u) PROVE IndInv'
    BY <1>1, <2>2, SweepCallInv
  <2>3. ASSUME NEW u \in Users, SweepCallFails(w, u) PROVE IndInv'
    <3>1. SwitchesOn(w)
      BY DEF SwitchesOn
    <3>2. CASE RollBack(w, asked[w]) /\ account' = account
      BY <1>1, <1>2, <3>2, Kinds, RollBackInv
    <3>3. CASE /\ RollBack(w, asked[w] \cup {u})
               /\ account' = [account EXCEPT ![u] = "active"]
      <4>1. \A v \in Users : account[v] = "disabled" =>
               account'[v] = "disabled" \/ v \in asked[w] \cup {u}
        BY <1>1, <3>3 DEF TypeOK
      <4> QED BY <1>1, <1>2, <3>1, <3>3, <4>1, Kinds, RollBackInv
    <3> QED BY <2>3, <3>2, <3>3 DEF SweepCallFails
  <2>4. CASE SweepStage(w)
    BY <1>1, <2>4, SweepStageInv
  <2>5. CASE SweepCommit(w)
    BY <1>1, <2>5, Kinds, CommitInv DEF SweepCommit
  <2> QED BY <1>4, <2>1, <2>2, <2>3, <2>4, <2>5 DEF SweepStep
<1>5. ASSUME NEW a \in Admins, AdminStep(a) PROVE IndInv'
  <2>1. CASE AdminCall(a)
    BY <1>1, <2>1, AdminCallInv
  <2>2. CASE AdminCallFails(a)
    <3> DEFINE u == current[a]
    <3>1. a \in Sessions /\ u \in Users /\ AdminSerial(a)
      BY <1>2, Kinds DEF IndInv, SessionInv
    <3>2. asked[a] = {}
      BY <2>2, <3>1 DEF AdminSerial, AdminCallFails
    <3>3. CASE RollBack(a, {}) /\ account' = account
      BY <1>1, <3>1, <3>2, <3>3, RollBackInv
    <3>4. CASE RollBack(a, {u}) /\ account' = [account EXCEPT ![u] = Wanted(a)]
      <4>1. ~Restricted(goal[a]) => SwitchesOn(a)
        <5>1. goal[a] \in Rows /\ goal[a].expires = NoExpiry
          BY <1>1, <3>1 DEF TypeOK, AdminSerial
        <5> QED BY <5>1 DEF Rows, Restricted, Clean, SwitchesOn
      <4>2. \A v \in Users : account[v] = "disabled" =>
               account'[v] = "disabled" \/ (SwitchesOn(a) /\ v \in {u})
        BY <1>1, <3>4, <4>1 DEF TypeOK, Wanted
      <4> QED BY <1>1, <3>1, <3>2, <3>4, <4>2, RollBackInv
    <3> QED BY <2>2, <3>3, <3>4 DEF AdminCallFails
  <2>3. CASE AdminStage(a)
    BY <1>1, <2>3, AdminStageInv
  <2>4. CASE AdminCommit(a)
    BY <1>1, <2>4, Kinds, CommitInv DEF AdminCommit
  <2> QED BY <1>5, <2>1, <2>2, <2>3, <2>4 DEF AdminStep
<1>6. ASSUME NEW a \in Admins, AdminRequest(a) PROVE IndInv'
  <2>1. ASSUME NEW u \in Users, NEW status \in Statuses, AdminOverride(a, u, status)
        PROVE  IndInv'
    BY <1>1, <2>1, OverrideInv DEF AdminOverride
  <2>2. ASSUME NEW entry \in entries, ReviewAndReinstate(a, entry)
        PROVE  IndInv'
    <3>1. entry.user \in Users /\ "active" \in Statuses
      BY <1>1 DEF TypeOK, Entries, Statuses
    <3> QED BY <1>1, <2>2, <3>1, OverrideInv DEF ReviewAndReinstate
  <2>3. ASSUME NEW entry \in entries, ReviewOnly(a, entry) PROVE IndInv'
    BY <1>1, <2>3, ReviewOnlyInv
  <2> QED BY <1>6, <2>1, <2>2, <2>3 DEF AdminRequest
<1>7. ASSUME NEW s \in Sessions, Crash(s) \/ DeadlockVictim(s) PROVE IndInv'
  <2>1. RollBack(s, asked[s]) /\ account' = account
    BY <1>7 DEF Crash, DeadlockVictim
  <2> QED BY <1>1, <1>2, <2>1, RollBackInv
<1>8. ASSUME NEW c \in Consumers, NEW u \in Users, ConsumerLoad(c, u) PROVE IndInv'
  BY <1>1, <1>8, ConsumerLoadInv
<1>9. CASE Tick \/ UNCHANGED vars
  <2>1. UNCHANGED <<database, lock, account, shop, session, history>>
    BY <1>9 DEF Tick, vars
  <2>2. RestrictedOff' /\ ShopToldUnderLock'
    BY <2>1 DEF IndInv, RestrictedOff, ShopToldUnderLock, Off, Reviving,
                SwitchesOn, Held, Visible, Restricted, database, session, history
  <2>3. ASSUME NEW s \in Sessions PROVE SessionInv(s)'
    BY <2>1 DEF IndInv, SessionInv, ClosedWhenIdle, WritesUnderLock,
                AskedThenStaged, ConsumerRestricts, SweeperReinstates,
                AdminSerial, Off, Reviving, SwitchesOn, InFlight, Restricted,
                database, session, history
  <2> QED BY <1>1, <2>2, <2>3 DEF IndInv
<1> QED BY <1>3, <1>4, <1>5, <1>6, <1>7, <1>8, <1>9 DEF Next, Quiet

\* The inductive invariant: every session, at every point of its handler,
\* writes and calls in the order that keeps the three systems in step.
THEOREM Inductive == Spec => []IndInv
BY InitIndInv, StepIndInv, PTL DEF Spec

\* Whatever consumers, sweeps and admin requests interleave, crash or fail,
\* a user whose committed row is restricted is off at Marzban, but for the
\* exceptions that RestrictedMeansOff names (a 404 that set_user_status takes
\* for success is one of them): _escalate() may call Marzban
\* outside any database transaction because it does so under the row's lock
\* and before the row.
THEOREM RestrictedUsersAreOff == Spec => []RestrictedMeansOff
<1>1. IndInv => RestrictedMeansOff
  BY DEF IndInv, RestrictedOff, Off, RestrictedMeansOff
<1> QED BY <1>1, Inductive, PTL

\* Whenever nobody holds a user's row, the shop's ban flag is the one that
\* the last committed status asked for.
THEOREM ShopAgreesWithTheRow == Spec => []ShopFollowsRow
<1>1. IndInv => ShopFollowsRow
  BY DEF IndInv, ShopToldUnderLock, Held, ShopFollowsRow
<1> QED BY <1>1, Inductive, PTL

-------------------------------------------------------------------------------
(* What sessions commit *)

\* A row that nobody restricts says of no restriction when it ends.
NoStaleExpiry(r) == r.status = "active" => r.expires = NoExpiry

\* What a consumer is about to set, and what it has written.
ConsumerWrites(c) ==
    \A u \in Users :
        /\ /\ current[c] = u /\ pc[c] \in {"calling", "called"}
           /\ goal[c].status = "suspended"
           => goal[c].expires # NoExpiry /\ view[c][u].status = "active"
        /\ u \in asked[c] => staged[c][u] # NoRow \/ (pc[c] = "called" /\ current[c] = u)
        /\ staged[c][u] # NoRow /\ staged[c][u].status = "blacklisted" =>
              \E entry \in newEntries[c] : entry.user = u
        /\ /\ staged[c][u] # NoRow /\ staged[c][u].status = "suspended"
           /\ "admin" \notin overlap[u]
           => staged[c][u].expires # NoExpiry

\* A sweep or an admin request that nothing overlaps has had the last word with
\* Marzban, if Marzban has listened.
ActsAlone(s) ==
    \A u \in Users :
        InFlight(s, u) /\ overlap[u] \subseteq {"consumer"} =>
            /\ \A t \in Sessions \ {s} : ~InFlight(t, u)
            /\ u \in asked[s] \ unknown =>
                  account[u] = IF SwitchesOn(s) THEN "active" ELSE "disabled"

SessionWrites(s) ==
    /\ pc[s] = "called" => current[s] \in asked[s]
    /\ \A u \in Users : staged[s][u] # NoRow => u \in asked[s]
    /\ \A u \in Users : "admin" \notin overlap[u] =>
          /\ view[s][u] # NoRow => NoStaleExpiry(view[s][u])
          /\ staged[s][u] # NoRow => NoStaleExpiry(staged[s][u])
    /\ s \in Consumers => ConsumerWrites(s)
    /\ s \in Sweepers => \A u \in todo[s] : view[s][u].expires # NoExpiry
    /\ s \notin Consumers => ActsAlone(s)

\* Why an account may be off: its row says so, or the row of a session that
\* has asked for it is about to, or OffMeansRestricted excuses it.
OffReason(u) ==
    \/ Restricted(row[u])
    \/ u \in leftOff \cup unknown
    \/ ~(overlap[u] \subseteq {"consumer"})
    \/ \E s \in Sessions : u \in asked[s] /\ ~SwitchesOn(s)

RowWrites(u) ==
    /\ "admin" \notin overlap[u] => NoStaleExpiry(row[u])
    /\ account[u] = "disabled" => OffReason(u)

WritesInv ==
    /\ \A s \in Sessions : SessionWrites(s)
    /\ \A u \in Users : RowWrites(u)

LEMMA InitWrites == Init => WritesInv
<1> SUFFICES ASSUME Init PROVE WritesInv
  OBVIOUS
<1>1. /\ \A s \in Sessions :
            /\ pc[s] = "idle" /\ asked[s] = {} /\ todo[s] = {}
            /\ \A u \in Users : view[s][u] = NoRow /\ staged[s][u] = NoRow
      /\ \A u \in Users : /\ account[u] = "disabled" => Restricted(row[u])
                          /\ NoStaleExpiry(row[u])
  <2>1. \A u \in Users : row[u] \in {Clean, [status |-> "suspended", expires |-> 0], Blacklisted}
    BY DEF Init
  <2>2. \A u \in Users : NoStaleExpiry(row[u])
    BY <2>1 DEF NoStaleExpiry, Clean, Blacklisted
  <2> QED BY <2>2 DEF Init, Restricted
<1>2. ASSUME NEW s \in Sessions PROVE SessionWrites(s)
  BY <1>1 DEF SessionWrites, ConsumerWrites, ActsAlone, InFlight
<1>3. ASSUME NEW u \in Users PROVE RowWrites(u)
  BY <1>1 DEF RowWrites, OffReason
<1> QED BY <1>2, <1>3 DEF WritesInv

-------------------------------------------------------------------------------
(* What sessions commit: what a step of one session leaves alone *)

\* A load that finds a session of another kind, or two sweeps or two requests,
\* at work on the user, is an overlap that is not of consumers only.
LEMMA LoadOverlap ==
    ASSUME TypeOK, NEW s \in Sessions, NEW users \in SUBSET Users, Load(s, users),
           NEW u \in users, NEW t \in Sessions \ {s}, InFlight(t, u),
           s \notin Consumers \/ t \notin Consumers
    PROVE  ~(overlap'[u] \subseteq {"consumer"})
<1> DEFINE others == {q \in Sessions \ {s} : InFlight(q, u)}
<1>1. overlap'[u] = overlap[u] \cup {Kind(q) : q \in others \cup {s}}
  BY DEF Load
<1>2. \A q \in Sessions : q \notin Consumers => Kind(q) \in {"sweeper", "admin"}
  BY DEF Kind
<1>3. t \in others \cup {s} /\ s \in others \cup {s}
  OBVIOUS
<1> QED BY <1>1, <1>2, <1>3

\* A step of session s: the others keep what they have, whoever comes to a
\* user finds the sessions at work on it, and only a session at work on a user
\* calls Marzban for it.
Acts(s) ==
    /\ \A t \in Sessions \ {s} :
          /\ pc'[t] = pc[t] /\ current'[t] = current[t] /\ goal'[t] = goal[t]
          /\ view'[t] = view[t] /\ staged'[t] = staged[t]
          /\ asked'[t] = asked[t] /\ todo'[t] = todo[t]
          /\ newEntries'[t] = newEntries[t]
    /\ \A u \in Users :
          /\ overlap[u] \subseteq overlap'[u]
          /\ view[s][u] = NoRow /\ view'[s][u] # NoRow =>
                \A t \in Sessions \ {s} :
                    InFlight(t, u) /\ (s \notin Consumers \/ t \notin Consumers) =>
                        ~(overlap'[u] \subseteq {"consumer"})
          /\ InFlight(s, u) \/ (account'[u] = account[u] /\ (u \in unknown' <=> u \in unknown))

LEMMA ActsWrites ==
    ASSUME IndInv, WritesInv, NEW s \in Sessions, Acts(s), NEW t \in Sessions \ {s}
    PROVE  SessionWrites(t)'
<1>1. /\ pc'[t] = pc[t] /\ current'[t] = current[t] /\ goal'[t] = goal[t]
      /\ view'[t] = view[t] /\ staged'[t] = staged[t]
      /\ asked'[t] = asked[t] /\ todo'[t] = todo[t]
      /\ newEntries'[t] = newEntries[t]
      /\ \A u \in Users : overlap[u] \subseteq overlap'[u]
  BY DEF Acts
<1>2. SessionWrites(t)
  BY DEF WritesInv
<1>3. t \in Consumers => ConsumerWrites(t)'
  BY <1>1, <1>2 DEF SessionWrites, ConsumerWrites
<1>4. ASSUME t \notin Consumers PROVE ActsAlone(t)'
  <2> SUFFICES ASSUME NEW u \in Users, InFlight(t, u)',
                      overlap'[u] \subseteq {"consumer"}
               PROVE  /\ \A q \in Sessions \ {t} : ~InFlight(q, u)'
                      /\ (u \in asked[t] \ unknown =>
                            account[u] = IF SwitchesOn(t) THEN "active" ELSE "disabled")'
    BY DEF ActsAlone
  <2>1. InFlight(t, u) /\ overlap[u] \subseteq {"consumer"}
    BY <1>1 DEF InFlight
  <2>2. /\ \A q \in Sessions \ {t} : ~InFlight(q, u)
        /\ u \in asked[t] \ unknown =>
              account[u] = IF SwitchesOn(t) THEN "active" ELSE "disabled"
    BY <1>2, <1>4, <2>1 DEF SessionWrites, ActsAlone
  <2>3. /\ account'[u] = account[u] /\ view'[s][u] = NoRow
        /\ u \in unknown' <=> u \in unknown
    BY <1>4, <2>1, <2>2 DEF Acts, InFlight
  <2>4. \A q \in Sessions \ {t} : ~InFlight(q, u)'
    BY <2>2, <2>3 DEF Acts, InFlight
  <2> QED BY <1>1, <2>2, <2>3, <2>4 DEF SwitchesOn
<1>5. \A u \in Users : "admin" \notin overlap'[u] =>
         /\ view'[t][u] # NoRow => NoStaleExpiry(view'[t][u])
         /\ staged'[t][u] # NoRow => NoStaleExpiry(staged'[t][u])
  BY <1>1, <1>2 DEF SessionWrites
<1>6. t \in Sweepers => \A u \in todo'[t] : view'[t][u].expires # NoExpiry
  BY <1>1, <1>2 DEF SessionWrites
<1>7. /\ pc'[t] = "called" => current'[t] \in asked'[t]
      /\ \A u \in Users : staged'[t][u] # NoRow => u \in asked'[t]
  BY <1>1, <1>2 DEF SessionWrites
<1> QED BY <1>3, <1>4, <1>5, <1>6, <1>7 DEF SessionWrites, NoStaleExpiry

\* A step that commits nothing keeps the reasons why accounts are off, and
\* gives one for each account it switches off.
LEMMA RowFrame ==
    ASSUME WritesInv, NEW s \in Sessions, Acts(s), row' = row,
           leftOff \subseteq leftOff',
           \A u \in asked[s] : SwitchesOn(s) \/ u \in leftOff'
                               \/ (u \in asked'[s] /\ ~SwitchesOn(s)'),
           \A u \in Users : account'[u] = "disabled" =>
               \/ account[u] = "disabled"
               \/ u \in leftOff'
               \/ u \in asked'[s] /\ ~SwitchesOn(s)',
           \A u \in Users : account'[u] = "disabled" /\ u \in unknown =>
               u \in unknown' \/ (u \in asked'[s] /\ ~SwitchesOn(s)')
    PROVE  \A u \in Users : RowWrites(u)'
<1> SUFFICES ASSUME NEW u \in Users PROVE RowWrites(u)'
  OBVIOUS
<1>1. RowWrites(u) /\ overlap[u] \subseteq overlap'[u]
  BY DEF WritesInv, Acts
<1>2. \A t \in Sessions \ {s} :
          u \in asked[t] /\ ~SwitchesOn(t) => u \in asked'[t] /\ ~SwitchesOn(t)'
  BY DEF Acts, SwitchesOn
<1>3. OffReason(u) /\ account'[u] = "disabled" => OffReason(u)'
  <2> SUFFICES ASSUME OffReason(u), account'[u] = "disabled" PROVE OffReason(u)'
    OBVIOUS
  <2>1. CASE Restricted(row[u])
    BY <2>1 DEF OffReason, Restricted
  <2>4. CASE u \in unknown
    BY <2>4 DEF OffReason
  <2>2. CASE u \in leftOff \/ ~(overlap[u] \subseteq {"consumer"})
    BY <1>1, <2>2 DEF OffReason
  <2>3. CASE \E t \in Sessions : u \in asked[t] /\ ~SwitchesOn(t)
    BY <1>2, <2>3 DEF OffReason
  <2> QED BY <2>1, <2>2, <2>3, <2>4 DEF OffReason
<1>4. account'[u] = "disabled" => OffReason(u)'
  BY <1>1, <1>3 DEF RowWrites, OffReason
<1>5. "admin" \notin overlap'[u] => NoStaleExpiry(row'[u])
  BY <1>1 DEF RowWrites
<1> QED BY <1>4, <1>5 DEF RowWrites, NoStaleExpiry

\* How the steps below are checked.
LEMMA WritesStep ==
    ASSUME IndInv, WritesInv, NEW s \in Sessions, Acts(s), SessionWrites(s)',
           \A u \in Users : RowWrites(u)'
    PROVE  WritesInv'
  BY ActsWrites DEF WritesInv

-------------------------------------------------------------------------------
(* What sessions commit: sessions that end *)

LEMMA ClosedWrites ==
    ASSUME NEW s \in Sessions, pc'[s] = "idle", asked'[s] = {}, todo'[s] = {},
           \A u \in Users : view'[s][u] = NoRow /\ staged'[s][u] = NoRow
    PROVE  SessionWrites(s)'
  BY DEF SessionWrites, ConsumerWrites, ActsAlone, InFlight

LEMMA RollBackWrites ==
    ASSUME IndInv, WritesInv, NEW s \in Sessions, NEW called \in SUBSET Users,
           asked[s] \subseteq called, RollBack(s, called),
           \A u \in Users : account'[u] # account[u] =>
               InFlight(s, u) /\ (account'[u] = "disabled" =>
                                     u \in called /\ ~SwitchesOn(s))
    PROVE  WritesInv'
<1>1. /\ \A t \in Sessions \ {s} :
            /\ pc'[t] = pc[t] /\ view'[t] = view[t] /\ staged'[t] = staged[t]
            /\ asked'[t] = asked[t] /\ todo'[t] = todo[t]
      /\ pc'[s] = "idle" /\ asked'[s] = {} /\ todo'[s] = {}
      /\ \A u \in Users : view'[s][u] = NoRow /\ staged'[s][u] = NoRow
      /\ current' = current /\ goal' = goal
  BY CloseFacts DEF RollBack, IndInv
<1>2. \A t \in Sessions \ {s} : newEntries'[t] = newEntries[t]
  BY DEF RollBack, Close, IndInv, TypeOK
<1>3. /\ row' = row /\ overlap' = overlap /\ leftOff \subseteq leftOff'
      /\ unknown' = unknown
      /\ ~SwitchesOn(s) => called \subseteq leftOff'
  BY DEF RollBack, database
<1>4. Acts(s)
  BY <1>1, <1>2, <1>3 DEF Acts
<1>5. SessionWrites(s)'
  BY <1>1, ClosedWrites
<1>6. \A u \in Users : RowWrites(u)'
  BY <1>3, <1>4, RowFrame
<1> QED BY <1>4, <1>5, <1>6, WritesStep

\* A session that is through leaves a reason for each account it found or
\* switched off.
LEMMA CommitWrites ==
    ASSUME IndInv, WritesInv, NEW s \in Sessions, pc[s] = "open", Commit(s)
    PROVE  WritesInv'
<1>1. /\ \A t \in Sessions \ {s} :
            /\ pc'[t] = pc[t] /\ view'[t] = view[t] /\ staged'[t] = staged[t]
            /\ asked'[t] = asked[t] /\ todo'[t] = todo[t]
      /\ pc'[s] = "idle" /\ asked'[s] = {} /\ todo'[s] = {}
      /\ \A u \in Users : view'[s][u] = NoRow /\ staged'[s][u] = NoRow
      /\ current' = current /\ goal' = goal
  BY CloseFacts DEF Commit, IndInv
<1>2. \A t \in Sessions \ {s} : newEntries'[t] = newEntries[t]
  BY DEF Commit, Close, IndInv, TypeOK
<1>3. /\ \A u \in Users : row'[u] = Visible(s, u)
      /\ account' = account /\ overlap' = overlap /\ leftOff' = leftOff
      /\ unknown' = unknown
  BY DEF Commit, history
<1>4. Acts(s)
  BY <1>1, <1>2, <1>3 DEF Acts
<1>5. SessionWrites(s)'
  BY <1>1, ClosedWrites
<1>6. SessionWrites(s) /\ SessionInv(s)
  BY DEF WritesInv, IndInv
<1>7. ASSUME NEW u \in Users PROVE RowWrites(u)'
  <2>1. RowWrites(u)
    BY DEF WritesInv
  <2>2. "admin" \notin overlap[u] => NoStaleExpiry(row'[u])
    BY <1>3, <1>6, <2>1 DEF RowWrites, SessionWrites, Visible
  <2>3. ASSUME account[u] = "disabled", overlap[u] \subseteq {"consumer"},
               u \notin leftOff \cup unknown
        PROVE  Restricted(row'[u]) \/ \E t \in Sessions : u \in asked'[t] /\ ~SwitchesOn(t)'
    <3>1. Restricted(row[u]) \/ \E t \in Sessions : u \in asked[t] /\ ~SwitchesOn(t)
      BY <2>1, <2>3 DEF RowWrites, OffReason
    <3>2. \A t \in Sessions \ {s} : u \in asked[t] /\ ~SwitchesOn(t) =>
              u \in asked'[t] /\ ~SwitchesOn(t)'
      BY <1>1 DEF SwitchesOn
    <3>3. staged[s][u] = NoRow => row'[u] = row[u]
      BY <1>3 DEF Visible
    <3>4. CASE s \in Consumers
      <4>1. /\ u \in asked[s] => staged[s][u] # NoRow
            /\ staged[s][u] # NoRow => Restricted(staged[s][u])
        BY <1>6, <3>4 DEF SessionWrites, ConsumerWrites, SessionInv, ConsumerRestricts
      <4>2. staged[s][u] # NoRow => Restricted(row'[u])
        BY <1>3, <4>1 DEF Visible
      <4> QED BY <3>1, <3>2, <3>3, <4>1, <4>2
    <3>5. CASE s \notin Consumers /\ u \notin asked[s]
      <4>1. staged[s][u] = NoRow
        BY <1>6, <3>5 DEF SessionWrites
      <4> QED BY <3>1, <3>2, <3>3, <3>5, <4>1
    <3>6. CASE s \notin Consumers /\ u \in asked[s]
      <4>1. s \in Sweepers \cup Admins
        BY <3>6 DEF Sessions
      <4>2. /\ view[s][u] # NoRow
            /\ staged[s][u] # NoRow \/ (s \in Admins /\ row[u].status = goal[s].status)
        BY <1>6, <2>3, <3>6, <4>1 DEF SessionInv, AskedThenStaged
      <4>3. ~SwitchesOn(s)
        BY <1>6, <2>3, <3>6, <4>2 DEF SessionWrites, ActsAlone, InFlight
      <4>4. s \in Admins /\ AdminSerial(s) /\ goal[s] # Clean
        BY <1>6, <4>1, <4>3 DEF SwitchesOn, SessionInv
      <4>5. Restricted(goal[s])
        <5>1. goal[s] \in Rows /\ goal[s].expires = NoExpiry
          BY <4>4 DEF IndInv, TypeOK, AdminSerial
        <5> QED BY <4>4, <5>1 DEF Rows, Restricted, Clean
      <4>6. row'[u].status = goal[s].status
        <5>1. staged[s][u] # NoRow => staged[s][u].status = goal[s].status
          BY <2>3, <4>2, <4>4 DEF AdminSerial, InFlight
        <5> QED BY <1>3, <4>2, <5>1 DEF Visible
      <4> QED BY <4>5, <4>6 DEF Restricted
    <3> QED BY <3>4, <3>5, <3>6
  <2> QED BY <1>3, <2>2, <2>3 DEF RowWrites, OffReason, NoStaleExpiry, Restricted
<1> QED BY <1>4, <1>5, <1>7, WritesStep

-------------------------------------------------------------------------------
(* What sessions commit: steps of a consumer *)

LEMMA ConsumerLoadWrites ==
    ASSUME IndInv, WritesInv, NEW c \in Consumers, NEW u \in Users, ConsumerLoad(c, u)
    PROVE  WritesInv'
<1>1. /\ c \in Sessions /\ c \notin Sweepers \cup Admins /\ TypeOK
      /\ SessionInv(c) /\ SessionWrites(c)
  BY Kinds DEF IndInv, WritesInv
<1>2. /\ row' = row /\ account' = account /\ goal' = goal /\ staged' = staged
      /\ asked' = asked /\ todo' = todo /\ newEntries' = newEntries
      /\ leftOff' = leftOff /\ unknown' = unknown /\ pc[c] \in {"idle", "open"}
  BY DEF ConsumerLoad, database
<1>3. /\ pc'[c] = "loaded" /\ current'[c] = u
      /\ \A t \in Sessions \ {c} : pc'[t] = pc[t] /\ current'[t] = current[t]
  BY <1>1 DEF ConsumerLoad, TypeOK
<1>4. /\ \A t \in Sessions \ {c} : view'[t] = view[t]
      /\ \A v \in Users \ {u} : view'[c][v] = view[c][v]
      /\ view'[c][u] = view[c][u] \/ view'[c][u] = Visible(c, u)
      /\ \A v \in Users : overlap[v] \subseteq overlap'[v]
      /\ view[c][u] = NoRow =>
            \A t \in Sessions \ {c} : InFlight(t, u) /\ t \notin Consumers =>
                ~(overlap'[u] \subseteq {"consumer"})
  <2>1. CASE Load(c, {u})
    BY <1>1, <2>1, LoadFacts, LoadOverlap
  <2>2. CASE InFlight(c, u) /\ UNCHANGED <<view, overlap>>
    BY <2>2 DEF InFlight
  <2> QED BY <2>1, <2>2 DEF ConsumerLoad
<1>5. Acts(c)
  BY <1>2, <1>3, <1>4 DEF Acts
<1>6. SessionWrites(c)'
  <2>1. ConsumerWrites(c)'
    BY <1>1, <1>2, <1>3, <1>4 DEF SessionWrites, ConsumerWrites
  <2>2. ASSUME NEW v \in Users, "admin" \notin overlap'[v]
        PROVE  /\ view'[c][v] # NoRow => NoStaleExpiry(view'[c][v])
               /\ staged'[c][v] # NoRow => NoStaleExpiry(staged'[c][v])
    <3>1. "admin" \notin overlap[v] /\ NoStaleExpiry(row[v])
      BY <1>4, <2>2 DEF WritesInv, RowWrites
    <3> QED BY <1>1, <1>2, <1>4, <3>1 DEF SessionWrites, Visible
  <2> QED BY <1>1, <1>2, <1>3, <2>1, <2>2 DEF SessionWrites, NoStaleExpiry
<1>7. \A v \in Users : RowWrites(v)'
  BY <1>1, <1>2, <1>5, RowFrame DEF SwitchesOn
<1> QED BY <1>1, <1>5, <1>6, <1>7, WritesStep

LEMMA ConsumerScoreWrites ==
    ASSUME IndInv, WritesInv, NEW c \in Consumers, ConsumerScore(c)
    PROVE  WritesInv'
<1> DEFINE u == current[c]
<1>1. /\ c \in Sessions /\ c \notin Sweepers \cup Admins /\ TypeOK
      /\ SessionInv(c) /\ SessionWrites(c) /\ u \in Users
  BY Kinds DEF IndInv, WritesInv, TypeOK
<1>2. /\ row' = row /\ account' = account /\ current' = current /\ view' = view
      /\ staged' = staged /\ asked' = asked /\ todo' = todo
      /\ newEntries' = newEntries /\ overlap' = overlap /\ leftOff' = leftOff /\ unknown' = unknown
      /\ pc[c] = "loaded"
  BY DEF ConsumerScore, database
<1>3. /\ \A t \in Sessions \ {c} : pc'[t] = pc[t] /\ goal'[t] = goal[t]
      /\ \/ pc'[c] = "open"
         \/ /\ pc'[c] = "calling"
            /\ goal'[c].status = "suspended" =>
                  goal'[c].expires # NoExpiry /\ view[c][u].status = "active"
  <2>1. PICK level \in Levels, deviceOnly \in BOOLEAN :
           \/ /\ Escalates(level, view[c][u].status, deviceOnly)
              /\ goal' = [goal EXCEPT ![c] = Target(level)]
              /\ pc' = [pc EXCEPT ![c] = "calling"]
           \/ pc' = [pc EXCEPT ![c] = "open"] /\ UNCHANGED goal
    BY DEF ConsumerScore
  <2>2. CASE /\ Escalates(level, view[c][u].status, deviceOnly)
             /\ goal' = [goal EXCEPT ![c] = Target(level)]
             /\ pc' = [pc EXCEPT ![c] = "calling"]
    <3>1. goal'[c] = Target(level) /\ pc'[c] = "calling"
          /\ \A t \in Sessions \ {c} : pc'[t] = pc[t] /\ goal'[t] = goal[t]
      BY <1>1, <2>2 DEF TypeOK
    <3>2. LevelStatus[level] = "suspended" => view[c][u].status = "active"
      <4>1. view[c][u].status \in Statuses
        BY <1>1 DEF ConsumerScore, SessionInv, ConsumerRestricts, TypeOK, Rows
      <4> QED BY <2>2, <4>1 DEF Escalates, IsEscalation, Severity, Statuses, LevelStatus
    <3>3. LevelStatus[level] = "suspended" => Target(level).expires # NoExpiry
      BY <1>1, EnforcementAssumption DEF Target, NoExpiry, TypeOK
    <3> QED BY <3>1, <3>2, <3>3 DEF Target
  <2>3. CASE pc' = [pc EXCEPT ![c] = "open"] /\ UNCHANGED goal
    BY <1>1, <2>3 DEF TypeOK
  <2> QED BY <2>1, <2>2, <2>3
<1>4. Acts(c)
  BY <1>2, <1>3 DEF Acts
<1>5. SessionWrites(c)'
  <2>1. ConsumerWrites(c)'
    BY <1>1, <1>2, <1>3 DEF SessionWrites, ConsumerWrites
  <2> QED BY <1>1, <1>2, <1>3, <2>1 DEF SessionWrites, NoStaleExpiry
<1>6. \A v \in Users : RowWrites(v)'
  BY <1>1, <1>2, <1>4, RowFrame DEF SwitchesOn
<1> QED BY <1>1, <1>4, <1>5, <1>6, WritesStep

LEMMA EscalateCallWrites ==
    ASSUME IndInv, WritesInv, NEW c \in Consumers,
           EscalateCall(c) \/ EscalateCallFails(c)
    PROVE  WritesInv'
<1> DEFINE u == current[c]
<1>1. /\ c \in Sessions /\ c \notin Sweepers \cup Admins /\ TypeOK
      /\ SessionInv(c) /\ SessionWrites(c) /\ u \in Users
  BY Kinds DEF IndInv, WritesInv, TypeOK
<1>2. /\ row' = row /\ current' = current /\ view' = view /\ staged' = staged
      /\ goal' = goal /\ todo' = todo /\ newEntries' = newEntries
      /\ overlap' = overlap /\ leftOff \subseteq leftOff' /\ pc[c] = "calling"
  BY DEF EscalateCall, EscalateCallFails, database
<1>3. /\ \A t \in Sessions \ {c} : pc'[t] = pc[t] /\ asked'[t] = asked[t]
      /\ \/ pc'[c] = "called" /\ asked'[c] = asked[c] \cup {u}
         \/ pc'[c] = "open" /\ asked'[c] = asked[c]
      /\ \A v \in Users \ {u} : /\ account'[v] = account[v]
                                /\ v \in unknown' <=> v \in unknown
      /\ \/ u \in asked'[c]
         \/ /\ u \in leftOff' \/ account'[u] = account[u]
            /\ u \in unknown' <=> u \in unknown
  <2>1. CASE EscalateCall(c)
    <3>1. /\ \A v \in Users \ {u} : /\ account'[v] = account[v]
                                    /\ v \in unknown' <=> v \in unknown
      BY <1>1, <2>1, CallFacts DEF EscalateCall
    <3> QED BY <1>1, <2>1, <3>1 DEF EscalateCall, TypeOK
  <2>2. CASE EscalateCallFails(c)
    BY <1>1, <2>2 DEF EscalateCallFails, TypeOK
  <2> QED BY <2>1, <2>2
<1>4. InFlight(c, u)
  BY <1>1, <1>2 DEF SessionInv, ConsumerRestricts, InFlight
<1>5. Acts(c)
  BY <1>2, <1>3, <1>4 DEF Acts
<1>6. SessionWrites(c)'
  <2>1. ConsumerWrites(c)'
    BY <1>1, <1>2, <1>3 DEF SessionWrites, ConsumerWrites
  <2> QED BY <1>1, <1>2, <1>3, <2>1 DEF SessionWrites, NoStaleExpiry
<1>7. \A v \in Users : RowWrites(v)'
  BY <1>1, <1>2, <1>3, <1>5, RowFrame DEF SwitchesOn
<1> QED BY <1>1, <1>5, <1>6, <1>7, WritesStep

LEMMA EscalateStageWrites ==
    ASSUME IndInv, WritesInv, NEW c \in Consumers, EscalateStage(c)
    PROVE  WritesInv'
<1> DEFINE u == current[c]
<1>1. /\ c \in Sessions /\ c \notin Sweepers \cup Admins /\ TypeOK
      /\ SessionInv(c) /\ SessionWrites(c) /\ u \in Users /\ goal[c] \in Rows
  BY Kinds DEF IndInv, WritesInv, TypeOK
<1>2. /\ row' = row /\ account' = account /\ current' = current /\ goal' = goal
      /\ asked' = asked /\ todo' = todo /\ overlap' = overlap
      /\ leftOff' = leftOff /\ unknown' = unknown /\ pc[c] = "called" /\ SetStatus(c, u, goal[c])
  BY DEF EscalateStage, database
<1>3. /\ \A t \in Sessions \ {c} : view'[t] = view[t] /\ staged'[t] = staged[t]
      /\ \A v \in Users \ {u} : /\ view'[c][v] = view[c][v]
                                /\ staged'[c][v] = staged[c][v]
      /\ view'[c][u] = goal[c] /\ view'[c][u] # NoRow
      /\ staged'[c][u] = Updated(c, u, goal[c]) /\ staged'[c][u] # NoRow
  BY <1>1, <1>2, SetStatusFacts
<1>4. /\ pc'[c] = "open" /\ \A t \in Sessions \ {c} : pc'[t] = pc[t]
      /\ \A t \in Sessions \ {c} : newEntries'[t] = newEntries[t]
      /\ newEntries[c] \subseteq newEntries'[c]
      /\ goal[c].status = "blacklisted" =>
            \E entry \in newEntries'[c] : entry.user = u
  <2>1. pc'[c] = "open" /\ \A t \in Sessions \ {c} : pc'[t] = pc[t]
    BY <1>1 DEF EscalateStage, TypeOK
  <2>2. CASE goal[c].status = "blacklisted"
    <3> DEFINE new == [id |-> made', user |-> u]
    <3>1. newEntries' = [newEntries EXCEPT ![c] = @ \cup {new}]
      BY <2>2 DEF EscalateStage, AddBlacklistEntry
    <3>2. newEntries'[c] = newEntries[c] \cup {new} /\ new.user = u
      BY <1>1, <3>1 DEF TypeOK
    <3>3. \A t \in Sessions \ {c} : newEntries'[t] = newEntries[t]
      BY <1>1, <3>1 DEF TypeOK
    <3> QED BY <2>1, <3>2, <3>3
  <2>3. CASE goal[c].status # "blacklisted"
    BY <2>1, <2>3 DEF EscalateStage
  <2> QED BY <2>2, <2>3
<1>5. /\ view[c][u] # NoRow /\ Restricted(goal[c])
      /\ goal[c].status # view[c][u].status
      /\ u \in asked[c]
      /\ goal[c].status = "suspended" =>
            goal[c].expires # NoExpiry /\ view[c][u].status = "active"
  BY <1>1, <1>2 DEF SessionInv, ConsumerRestricts, SessionWrites, ConsumerWrites
<1>6. /\ staged'[c][u].status = goal[c].status
      /\ "admin" \notin overlap[u] /\ goal[c].status = "suspended" =>
            staged'[c][u].expires # NoExpiry
  <2>1. staged'[c][u].status = goal[c].status
    BY <1>3, <1>5 DEF Updated
  <2>2. ASSUME "admin" \notin overlap[u], goal[c].status = "suspended"
        PROVE  staged'[c][u].expires # NoExpiry
    <3>1. view[c][u].expires = NoExpiry
      BY <1>1, <1>5, <2>2 DEF SessionWrites, NoStaleExpiry
    <3> QED BY <1>3, <1>5, <2>2, <3>1 DEF Updated
  <2> QED BY <2>1, <2>2
<1>7. Acts(c)
  BY <1>2, <1>3, <1>4, <1>5 DEF Acts
<1>8. SessionWrites(c)'
  <2>1. ConsumerWrites(c)'
    <3> SUFFICES ASSUME NEW v \in Users PROVE ConsumerWrites(c)!(v)'
      BY DEF ConsumerWrites
    <3>1. CASE v = u
      BY <1>1, <1>2, <1>3, <1>4, <1>6, <3>1 DEF Restricted
    <3>2. CASE v # u
      BY <1>1, <1>2, <1>3, <1>4, <3>2 DEF SessionWrites, ConsumerWrites
    <3> QED BY <3>1, <3>2
  <2>2. ASSUME NEW v \in Users, "admin" \notin overlap[v]
        PROVE  /\ view'[c][v] # NoRow => NoStaleExpiry(view'[c][v])
               /\ staged'[c][v] # NoRow => NoStaleExpiry(staged'[c][v])
    BY <1>1, <1>3, <1>5, <1>6, <2>2 DEF SessionWrites, NoStaleExpiry, Restricted
  <2>3. \A v \in Users : staged'[c][v] # NoRow => v \in asked'[c]
    BY <1>1, <1>2, <1>3, <1>5 DEF SessionWrites
  <2> QED BY <1>1, <1>2, <1>4, <2>1, <2>2, <2>3 DEF SessionWrites, NoStaleExpiry
<1>9. \A v \in Users : RowWrites(v)'
  BY <1>1, <1>2, <1>7, RowFrame DEF SwitchesOn
<1> QED BY <1>1, <1>7, <1>8, <1>9, WritesStep

-------------------------------------------------------------------------------
(* What sessions commit: steps of a sweep *)

LEMMA SweepSelectWrites ==
    ASSUME IndInv, WritesInv, NEW w \in Sweepers, SweepSelect(w)
    PROVE  WritesInv'
<1> DEFINE expired == {u \in Users : Expired(u)}
<1>1. /\ w \in Sessions /\ w \notin Consumers \cup Admins /\ TypeOK
      /\ SessionInv(w) /\ SessionWrites(w)
  BY Kinds DEF IndInv, WritesInv
<1>2. /\ row' = row /\ account' = account /\ goal' = goal /\ staged' = staged
      /\ asked' = asked /\ current' = current /\ newEntries' = newEntries
      /\ leftOff' = leftOff /\ unknown' = unknown /\ pc[w] = "idle" /\ Load(w, expired)
  BY DEF SweepSelect, database
<1>3. /\ pc'[w] = "open" /\ todo'[w] = expired
      /\ \A t \in Sessions \ {w} : pc'[t] = pc[t] /\ todo'[t] = todo[t]
  BY <1>1 DEF SweepSelect, TypeOK
<1>4. \A u \in Users : view[w][u] = NoRow /\ staged[w][u] = NoRow /\ u \notin asked[w]
  BY <1>1, <1>2 DEF SessionInv, ClosedWhenIdle
<1>5. /\ \A t \in Sessions \ {w} : view'[t] = view[t]
      /\ \A u \in Users \ expired : view'[w][u] = NoRow
      /\ \A u \in expired : view'[w][u] = row[u]
      /\ \A u \in Users : overlap[u] \subseteq overlap'[u]
      /\ \A u \in expired, t \in Sessions \ {w} :
            InFlight(t, u) => ~(overlap'[u] \subseteq {"consumer"})
  <2>1. \A u \in expired : Visible(w, u) = row[u]
    BY <1>4 DEF Visible
  <2>2. \A u \in expired, t \in Sessions \ {w} :
            InFlight(t, u) => ~(overlap'[u] \subseteq {"consumer"})
    BY <1>1, <1>2, LoadOverlap
  <2> QED BY <1>1, <1>2, <1>4, <2>1, <2>2, LoadFacts
<1>6. \A u \in expired : row[u].status = "suspended" /\ row[u].expires # NoExpiry
  BY DEF Expired
<1>7. Acts(w)
  BY <1>2, <1>3, <1>5 DEF Acts
<1>8. SessionWrites(w)'
  <2>1. ActsAlone(w)'
    BY <1>2, <1>4, <1>5 DEF ActsAlone, InFlight
  <2>2. \A u \in Users : view'[w][u] # NoRow => NoStaleExpiry(view'[w][u])
    BY <1>5, <1>6 DEF NoStaleExpiry
  <2> QED BY <1>1, <1>2, <1>3, <1>4, <1>5, <1>6, <2>1, <2>2
          DEF SessionWrites, NoStaleExpiry
<1>9. \A u \in Users : RowWrites(u)'
  BY <1>1, <1>2, <1>7, RowFrame DEF SwitchesOn
<1> QED BY <1>1, <1>7, <1>8, <1>9, WritesStep

LEMMA SweepCallWrites ==
    ASSUME IndInv, WritesInv, NEW w \in Sweepers, NEW u \in Users, SweepCall(w, u)
    PROVE  WritesInv'
<1>1. /\ w \in Sessions /\ w \notin Consumers \cup Admins /\ TypeOK
      /\ SessionInv(w) /\ SessionWrites(w)
  BY Kinds DEF IndInv, WritesInv
<1>2. /\ row' = row /\ view' = view /\ goal' = goal /\ staged' = staged
      /\ todo' = todo /\ newEntries' = newEntries /\ overlap' = overlap
      /\ leftOff' = leftOff /\ u \in todo[w]
  BY DEF SweepCall, database
<1>3. /\ pc'[w] = "called" /\ current'[w] = u /\ asked'[w] = asked[w] \cup {u}
      /\ \A t \in Sessions \ {w} : /\ pc'[t] = pc[t] /\ current'[t] = current[t]
                                   /\ asked'[t] = asked[t]
      /\ \A v \in Users \ {u} : /\ account'[v] = account[v]
                                /\ v \in unknown' <=> v \in unknown
      /\ account'[u] = "active" \/ (account'[u] = account[u] /\ u \in unknown')
  <2>1. SetUserStatus(u, "active")
    BY DEF SweepCall
  <2> QED BY <1>1, <2>1, CallFacts DEF SweepCall, TypeOK
<1>4. InFlight(w, u) /\ SwitchesOn(w) /\ SwitchesOn(w)'
  BY <1>1, <1>2 DEF SessionInv, SweeperReinstates, InFlight, SwitchesOn
<1>5. Acts(w)
  BY <1>2, <1>3, <1>4 DEF Acts
<1>6. SessionWrites(w)'
  <2>1. ActsAlone(w)'
    BY <1>1, <1>2, <1>3, <1>4 DEF SessionWrites, ActsAlone, InFlight
  <2> QED BY <1>1, <1>2, <1>3, <2>1 DEF SessionWrites, NoStaleExpiry
<1>7. \A v \in Users : RowWrites(v)'
  BY <1>1, <1>2, <1>3, <1>4, <1>5, RowFrame
<1> QED BY <1>1, <1>5, <1>6, <1>7, WritesStep

LEMMA SweepStageWrites ==
    ASSUME IndInv, WritesInv, NEW w \in Sweepers, SweepStage(w)
    PROVE  WritesInv'
<1> DEFINE u == current[w]
<1>1. /\ w \in Sessions /\ w \notin Consumers \cup Admins /\ TypeOK
      /\ SessionInv(w) /\ SessionWrites(w) /\ u \in Users /\ Clean \in Rows
  BY Kinds DEF IndInv, WritesInv, TypeOK, Clean, Rows, Statuses
<1>2. /\ row' = row /\ account' = account /\ current' = current /\ goal' = goal
      /\ asked' = asked /\ newEntries' = newEntries /\ overlap' = overlap
      /\ leftOff' = leftOff /\ unknown' = unknown /\ pc[w] = "called" /\ SetStatus(w, u, Clean)
  BY DEF SweepStage, database
<1>3. /\ \A t \in Sessions \ {w} : view'[t] = view[t] /\ staged'[t] = staged[t]
      /\ \A v \in Users \ {u} : /\ view'[w][v] = view[w][v]
                                /\ staged'[w][v] = staged[w][v]
      /\ view'[w][u] = Clean /\ view'[w][u] # NoRow
      /\ staged'[w][u] = Updated(w, u, Clean)
  BY <1>1, <1>2, SetStatusFacts
<1>4. /\ pc'[w] = "open" /\ todo'[w] = todo[w] \ {u}
      /\ \A t \in Sessions \ {w} : pc'[t] = pc[t] /\ todo'[t] = todo[t]
  BY <1>1 DEF SweepStage, TypeOK
<1>5. /\ u \in todo[w] /\ u \in asked[w] /\ view[w][u] # NoRow
      /\ view[w][u].status = "suspended" /\ view[w][u].expires # NoExpiry
  BY <1>1, <1>2 DEF SessionInv, SweeperReinstates, SessionWrites
<1>6. NoStaleExpiry(Clean) /\ NoStaleExpiry(Updated(w, u, Clean))
  BY <1>5 DEF NoStaleExpiry, Updated, Clean
<1>7. Acts(w)
  BY <1>2, <1>3, <1>4, <1>5 DEF Acts
<1>8. SessionWrites(w)'
  <2>1. ActsAlone(w)'
    <3>1. \A v \in Users, t \in Sessions : InFlight(t, v)' => InFlight(t, v)
      BY <1>3, <1>5 DEF InFlight
    <3> QED BY <1>1, <1>2, <3>1 DEF SessionWrites, ActsAlone, SwitchesOn
  <2>2. \A v \in todo'[w] : view'[w][v].expires # NoExpiry
    <3>1. todo[w] \subseteq Users
      BY <1>1 DEF TypeOK
    <3> QED BY <1>1, <1>3, <1>4, <3>1 DEF SessionWrites
  <2>3. ASSUME NEW v \in Users, "admin" \notin overlap[v]
        PROVE  /\ view'[w][v] # NoRow => NoStaleExpiry(view'[w][v])
               /\ staged'[w][v] # NoRow => NoStaleExpiry(staged'[w][v])
    BY <1>1, <1>3, <1>6, <2>3 DEF SessionWrites
  <2>4. \A v \in Users : staged'[w][v] # NoRow => v \in asked'[w]
    BY <1>1, <1>2, <1>3, <1>5 DEF SessionWrites
  <2> QED BY <1>1, <1>2, <1>4, <2>1, <2>2, <2>3, <2>4 DEF SessionWrites, NoStaleExpiry
<1>9. \A v \in Users : RowWrites(v)'
  BY <1>1, <1>2, <1>7, RowFrame DEF SwitchesOn
<1> QED BY <1>1, <1>7, <1>8, <1>9, WritesStep

-------------------------------------------------------------------------------
(* What sessions commit: steps of an admin request *)

LEMMA OverrideWrites ==
    ASSUME IndInv, WritesInv, NEW a \in Admins, NEW u \in Users,
           NEW status \in Statuses, Override(a, u, status)
    PROVE  WritesInv'
<1>1. /\ a \in Sessions /\ a \notin Consumers \cup Sweepers /\ TypeOK
      /\ SessionInv(a) /\ SessionWrites(a)
  BY Kinds DEF IndInv, WritesInv
<1>2. /\ row' = row /\ account' = account /\ staged' = staged /\ asked' = asked
      /\ todo' = todo /\ newEntries' = newEntries /\ leftOff' = leftOff /\ unknown' = unknown
      /\ pc[a] = "idle" /\ Load(a, {u})
  BY DEF Override, database
<1>3. /\ pc'[a] = "calling"
      /\ \A t \in Sessions \ {a} : /\ pc'[t] = pc[t] /\ current'[t] = current[t]
                                   /\ goal'[t] = goal[t]
  BY <1>1 DEF Override, TypeOK
<1>4. asked[a] = {} /\ \A v \in Users : view[a][v] = NoRow /\ staged[a][v] = NoRow
  BY <1>1, <1>2 DEF SessionInv, ClosedWhenIdle
<1>5. /\ \A t \in Sessions \ {a} : view'[t] = view[t]
      /\ \A v \in Users \ {u} : view'[a][v] = NoRow
      /\ view'[a][u] = row[u]
      /\ \A v \in Users : overlap[v] \subseteq overlap'[v]
      /\ \A t \in Sessions \ {a} :
            InFlight(t, u) => ~(overlap'[u] \subseteq {"consumer"})
  <2>1. Visible(a, u) = row[u]
    BY <1>4 DEF Visible
  <2>2. \A t \in Sessions \ {a} :
            InFlight(t, u) => ~(overlap'[u] \subseteq {"consumer"})
    BY <1>1, <1>2, LoadOverlap
  <2> QED BY <1>1, <1>2, <1>4, <2>1, <2>2, LoadFacts
<1>6. Acts(a)
  BY <1>2, <1>3, <1>5 DEF Acts
<1>7. SessionWrites(a)'
  <2>1. ActsAlone(a)'
    BY <1>2, <1>4, <1>5 DEF ActsAlone, InFlight
  <2>2. ASSUME NEW v \in Users, "admin" \notin overlap'[v], view'[a][v] # NoRow
        PROVE  NoStaleExpiry(view'[a][v])
    BY <1>5, <2>2 DEF WritesInv, RowWrites
  <2> QED BY <1>1, <1>2, <1>3, <1>4, <2>1, <2>2 DEF SessionWrites, NoStaleExpiry
<1>8. \A v \in Users : RowWrites(v)'
  BY <1>1, <1>2, <1>4, <1>6, RowFrame
<1> QED BY <1>1, <1>6, <1>7, <1>8, WritesStep

LEMMA ReviewOnlyWrites ==
    ASSUME IndInv, WritesInv, NEW a \in Admins, NEW entry \in entries,
           ReviewOnly(a, entry)
    PROVE  WritesInv'
<1>1. /\ a \in Sessions /\ a \notin Consumers \cup Sweepers /\ TypeOK
      /\ SessionWrites(a)
  BY Kinds DEF IndInv, WritesInv
<1>2. /\ row' = row /\ account' = account /\ staged' = staged /\ asked' = asked
      /\ todo' = todo /\ view' = view /\ goal' = goal /\ current' = current
      /\ newEntries' = newEntries /\ overlap' = overlap /\ leftOff' = leftOff /\ unknown' = unknown
  BY DEF ReviewOnly, database, history
<1>3. pc'[a] = "open" /\ \A t \in Sessions \ {a} : pc'[t] = pc[t]
  BY <1>1 DEF ReviewOnly, TypeOK
<1>4. Acts(a)
  BY <1>2, <1>3 DEF Acts
<1>5. SessionWrites(a)'
  <2>1. ActsAlone(a)'
    BY <1>1, <1>2 DEF SessionWrites, ActsAlone, InFlight, SwitchesOn
  <2> QED BY <1>1, <1>2, <1>3, <2>1 DEF SessionWrites, NoStaleExpiry
<1>6. \A v \in Users : RowWrites(v)'
  BY <1>1, <1>2, <1>4, RowFrame DEF SwitchesOn
<1> QED BY <1>1, <1>4, <1>5, <1>6, WritesStep

\* Which requests switch the account on.
LEMMA GoalRestricts ==
    ASSUME IndInv, NEW a \in Admins
    PROVE  SwitchesOn(a) <=> ~Restricted(goal[a])
<1>1. a \notin Sweepers /\ goal[a] \in Rows /\ goal[a].expires = NoExpiry
  BY Kinds DEF IndInv, TypeOK, SessionInv, AdminSerial
<1> QED BY <1>1 DEF Rows, Restricted, Clean, SwitchesOn

LEMMA AdminCallWrites ==
    ASSUME IndInv, WritesInv, NEW a \in Admins, AdminCall(a)
    PROVE  WritesInv'
<1> DEFINE u == current[a]
<1>1. /\ a \in Sessions /\ a \notin Consumers \cup Sweepers /\ TypeOK
      /\ SessionWrites(a) /\ AdminSerial(a) /\ u \in Users
  BY Kinds DEF IndInv, WritesInv, SessionInv, TypeOK
<1>2. /\ row' = row /\ view' = view /\ goal' = goal /\ staged' = staged
      /\ todo' = todo /\ newEntries' = newEntries /\ overlap' = overlap
      /\ leftOff' = leftOff /\ current' = current /\ pc[a] = "calling"
  BY DEF AdminCall, database
<1>3. /\ pc'[a] = "called" /\ asked'[a] = {u}
      /\ \A t \in Sessions \ {a} : pc'[t] = pc[t] /\ asked'[t] = asked[t]
      /\ \A v \in Users \ {u} : /\ account'[v] = account[v]
                                /\ v \in unknown' <=> v \in unknown
      /\ \/ account'[u] = IF SwitchesOn(a) THEN "active" ELSE "disabled"
         \/ account'[u] = account[u] /\ u \in unknown'
  <2>1. asked[a] = {}
    BY <1>1, <1>2 DEF AdminSerial
  <2>2. /\ SetUserStatus(u, Wanted(a)) /\ Wanted(a) \in {"active", "disabled"}
        /\ Wanted(a) = IF SwitchesOn(a) THEN "active" ELSE "disabled"
    BY GoalRestricts DEF AdminCall, Wanted
  <2> QED BY <1>1, <2>1, <2>2, CallFacts DEF AdminCall, TypeOK
<1>4. InFlight(a, u) /\ (SwitchesOn(a)' <=> SwitchesOn(a))
  BY <1>1, <1>2 DEF AdminSerial, InFlight, SwitchesOn
<1>5. Acts(a)
  BY <1>2, <1>3, <1>4 DEF Acts
<1>6. SessionWrites(a)'
  <2>1. ActsAlone(a)'
    BY <1>1, <1>2, <1>3, <1>4 DEF SessionWrites, ActsAlone, InFlight
  <2>2. \A v \in Users : staged'[a][v] = NoRow
    BY <1>1, <1>2 DEF AdminSerial
  <2> QED BY <1>1, <1>2, <1>3, <2>1, <2>2 DEF SessionWrites, NoStaleExpiry
<1>7. \A v \in Users : RowWrites(v)'
  <2>1. asked[a] = {}
    BY <1>1, <1>2 DEF AdminSerial
  <2> QED BY <1>1, <1>2, <1>3, <1>4, <1>5, <2>1, RowFrame
<1> QED BY <1>1, <1>5, <1>6, <1>7, WritesStep

LEMMA AdminStageWrites ==
    ASSUME IndInv, WritesInv, NEW a \in Admins, AdminStage(a)
    PROVE  WritesInv'
<1> DEFINE u == current[a]
<1>1. /\ a \in Sessions /\ a \notin Consumers \cup Sweepers /\ TypeOK
      /\ SessionWrites(a) /\ AdminSerial(a) /\ u \in Users /\ goal[a] \in Rows
  BY Kinds DEF IndInv, WritesInv, SessionInv, TypeOK
<1>2. /\ row' = row /\ account' = account /\ current' = current /\ goal' = goal
      /\ asked' = asked /\ todo' = todo /\ newEntries' = newEntries
      /\ overlap' = overlap /\ leftOff' = leftOff /\ unknown' = unknown /\ pc[a] = "called"
  BY DEF AdminStage, database
<1>3. pc'[a] = "open" /\ \A t \in Sessions \ {a} : pc'[t] = pc[t]
  BY <1>1 DEF AdminStage, TypeOK
<1>4. /\ view[a][u] # NoRow /\ goal[a].expires = NoExpiry /\ u \in asked[a]
      /\ \A v \in Users : staged[a][v] = NoRow
      /\ "admin" \notin overlap[u] => view[a][u] = row[u]
  BY <1>1, <1>2 DEF AdminSerial, InFlight, SessionWrites
<1>5. /\ \A t \in Sessions \ {a} : view'[t] = view[t] /\ staged'[t] = staged[t]
      /\ \A v \in Users \ {u} : /\ view'[a][v] = view[a][v]
                                /\ staged'[a][v] = NoRow
      /\ view'[a][u] = goal[a] /\ view'[a][u] # NoRow
      /\ staged'[a][u] # NoRow => staged'[a][u] = Updated(a, u, goal[a])
  <2>1. CASE SetStatus(a, u, goal[a])
    BY <1>1, <1>4, <2>1, SetStatusFacts
  <2>2. CASE goal[a] = view[a][u] /\ UNCHANGED <<lock, staged, view>>
    <3>1. view' = view /\ staged' = staged /\ view[a][u] = goal[a]
      BY <2>2
    <3> QED BY <1>1, <1>4, <3>1
  <2> QED BY <2>1, <2>2 DEF AdminStage
<1>6. /\ NoStaleExpiry(goal[a])
      /\ "admin" \notin overlap[u] => NoStaleExpiry(Updated(a, u, goal[a]))
  <2>1. NoStaleExpiry(goal[a])
    BY <1>4 DEF NoStaleExpiry
  <2>2. ASSUME "admin" \notin overlap[u]
        PROVE  Updated(a, u, goal[a]).expires = NoExpiry
    <3>1. Visible(a, u) = row[u] /\ view[a][u] = row[u] /\ row[u] \in Rows
      BY <1>1, <1>4, <2>2 DEF Visible, TypeOK
    <3> QED BY <1>4, <3>1 DEF Updated
  <2> QED BY <2>1, <2>2 DEF NoStaleExpiry
<1>7. Acts(a)
  BY <1>2, <1>3, <1>4, <1>5 DEF Acts
<1>8. SessionWrites(a)'
  <2>1. ActsAlone(a)'
    <3>1. \A v \in Users, t \in Sessions : InFlight(t, v)' => InFlight(t, v)
      BY <1>4, <1>5 DEF InFlight
    <3> QED BY <1>1, <1>2, <3>1 DEF SessionWrites, ActsAlone, SwitchesOn
  <2>2. ASSUME NEW v \in Users, "admin" \notin overlap[v]
        PROVE  /\ view'[a][v] # NoRow => NoStaleExpiry(view'[a][v])
               /\ staged'[a][v] # NoRow => NoStaleExpiry(staged'[a][v])
    BY <1>1, <1>5, <1>6, <2>2 DEF SessionWrites
  <2>3. \A v \in Users : staged'[a][v] # NoRow => v \in asked'[a]
    BY <1>2, <1>4, <1>5
  <2> QED BY <1>1, <1>2, <1>3, <2>1, <2>2, <2>3 DEF SessionWrites, NoStaleExpiry
<1>9. \A v \in Users : RowWrites(v)'
  BY <1>1, <1>2, <1>7, RowFrame DEF SwitchesOn
<1> QED BY <1>1, <1>7, <1>8, <1>9, WritesStep

-------------------------------------------------------------------------------
(* What sessions commit: the theorems *)

LEMMA StepWrites == IndInv /\ WritesInv /\ [Next]_vars => WritesInv'
<1> SUFFICES ASSUME IndInv, WritesInv, [Next]_vars PROVE WritesInv'
  OBVIOUS
<1>1. /\ TypeOK
      /\ \A s \in Sessions : asked[s] \in SUBSET Users /\ current[s] \in Users
  BY DEF IndInv, TypeOK
<1>2. ASSUME NEW c \in Consumers,
             ConsumerStep(c) \/ \E u \in Users : ConsumerLoad(c, u)
      PROVE  WritesInv'
  BY <1>2, ConsumerLoadWrites, ConsumerScoreWrites, EscalateCallWrites,
     EscalateStageWrites, CommitWrites, Kinds DEF ConsumerStep, ConsumerCommit
<1>3. ASSUME NEW w \in Sweepers, SweepStep(w) PROVE WritesInv'
  <2>1. ASSUME NEW u \in Users, SweepCallFails(w, u) PROVE WritesInv'
    <3>1. SwitchesOn(w) /\ w \in Sessions /\ InFlight(w, u)
      BY <2>1, Kinds DEF SwitchesOn, SweepCallFails, IndInv, SessionInv,
                         SweeperReinstates, InFlight
    <3>2. CASE RollBack(w, asked[w]) /\ account' = account
      BY <1>1, <3>1, <3>2, RollBackWrites
    <3>3. CASE /\ RollBack(w, asked[w] \cup {u})
               /\ account' = [account EXCEPT ![u] = "active"]
      <4>1. \A v \in Users : account'[v] # account[v] => v = u /\ account'[v] = "active"
        BY <1>1, <3>3 DEF TypeOK
      <4> QED BY <1>1, <3>1, <3>3, <4>1, RollBackWrites
    <3> QED BY <2>1, <3>2, <3>3 DEF SweepCallFails
  <2> QED BY <1>3, <2>1, SweepSelectWrites, SweepCallWrites, SweepStageWrites,
             CommitWrites, Kinds DEF SweepStep, SweepCommit
<1>4. ASSUME NEW a \in Admins, AdminCallFails(a) PROVE WritesInv'
  <2> DEFINE u == current[a]
  <2>1. a \in Sessions /\ u \in Users /\ asked[a] = {} /\ InFlight(a, u)
    BY <1>1, <1>4, Kinds DEF AdminCallFails, IndInv, SessionInv, AdminSerial, InFlight
  <2>2. CASE RollBack(a, {}) /\ account' = account
    BY <1>1, <2>1, <2>2, RollBackWrites
  <2>3. CASE RollBack(a, {u}) /\ account' = [account EXCEPT ![u] = Wanted(a)]
    <3>1. \A v \in Users : account'[v] # account[v] =>
             v = u /\ (account'[v] = "disabled" => ~SwitchesOn(a))
      BY <1>1, <2>3, GoalRestricts DEF TypeOK, Wanted
    <3> QED BY <1>1, <2>1, <2>3, <3>1, RollBackWrites
  <2> QED BY <1>4, <2>2, <2>3 DEF AdminCallFails
<1>5. ASSUME NEW a \in Admins, AdminStep(a) \/ AdminRequest(a) PROVE WritesInv'
  <2>1. CASE AdminStep(a)
    BY <1>4, <2>1, AdminCallWrites, AdminStageWrites, CommitWrites, Kinds
       DEF AdminStep, AdminCommit
  <2>2. ASSUME NEW u \in Users, NEW status \in Statuses, AdminOverride(a, u, status)
        PROVE  WritesInv'
    BY <2>2, OverrideWrites DEF AdminOverride
  <2>3. ASSUME NEW entry \in entries,
               ReviewAndReinstate(a, entry) \/ ReviewOnly(a, entry)
        PROVE  WritesInv'
    <3>1. entry.user \in Users /\ "active" \in Statuses
      BY <1>1 DEF TypeOK, Entries, Statuses
    <3> QED BY <2>3, <3>1, OverrideWrites, ReviewOnlyWrites DEF ReviewAndReinstate
  <2> QED BY <1>5, <2>1, <2>2, <2>3 DEF AdminRequest
<1>6. ASSUME NEW s \in Sessions, Crash(s) \/ DeadlockVictim(s) PROVE WritesInv'
  <2>1. RollBack(s, asked[s]) /\ account' = account
    BY <1>6 DEF Crash, DeadlockVictim
  <2> QED BY <1>1, <2>1, RollBackWrites
<1>7. CASE Tick \/ UNCHANGED vars
  <2>1. UNCHANGED <<database, account, session, history>>
    BY <1>7 DEF Tick, vars
  <2>2. ASSUME NEW s \in Sessions PROVE SessionWrites(s)'
    BY <2>1 DEF WritesInv, SessionWrites, ConsumerWrites, ActsAlone, SwitchesOn,
                InFlight, NoStaleExpiry, session, history
  <2>3. ASSUME NEW u \in Users PROVE RowWrites(u)'
    BY <2>1 DEF WritesInv, RowWrites, OffReason, Restricted, SwitchesOn,
                NoStaleExpiry, database, session, history
  <2> QED BY <2>2, <2>3 DEF WritesInv
<1> QED BY <1>2, <1>3, <1>5, <1>6, <1>7 DEF Next, Quiet

\* The inductive invariant behind the three theorems below.
THEOREM InductiveWrites == Spec => [](IndInv /\ WritesInv)
<1>1. Init => WritesInv
  BY InitWrites
<1>2. IndInv /\ WritesInv /\ [Next]_vars => WritesInv'
  BY StepWrites
<1> QED BY <1>1, <1>2, Inductive, PTL DEF Spec

\* An account that is off, with no session at work on it, is restricted in the
\* database, where the sweep or an admin can lift it: unless a batch or an
\* override was rolled back on it after its call, a failed call had acted, a
\* sweep or an admin request has overlapped another session on it, or Marzban
\* answered 404 when it was last told.
THEOREM NobodyIsLeftOff == Spec => []OffMeansRestricted
<1>1. ASSUME IndInv, WritesInv PROVE OffMeansRestricted
  <2>1. \A s \in Sessions, u \in Users : u \in asked[s] => InFlight(s, u)
    <3> SUFFICES ASSUME NEW s \in Sessions, NEW u \in Users, u \in asked[s]
                 PROVE  InFlight(s, u)
      OBVIOUS
    <3>1. SessionInv(s) /\ SessionWrites(s)
      BY <1>1 DEF IndInv, WritesInv
    <3>2. CASE s \in Consumers
      <4>1. staged[s][u] # NoRow \/ (pc[s] = "called" /\ current[s] = u)
        BY <3>1, <3>2 DEF SessionWrites, ConsumerWrites
      <4> QED BY <3>1, <3>2, <4>1
              DEF SessionInv, WritesUnderLock, ConsumerRestricts, InFlight
    <3>3. CASE s \in Sweepers \cup Admins
      BY <3>1, <3>3 DEF SessionInv, AskedThenStaged, InFlight
    <3> QED BY <3>2, <3>3 DEF Sessions
  <2> QED BY <1>1, <2>1 DEF WritesInv, RowWrites, OffReason, OffMeansRestricted
<1> QED BY <1>1, InductiveWrites, PTL

\* Who may change a row: the session that holds its lock, by a commit.
LEMMA RowChange ==
    ASSUME IndInv, [Next]_vars, NEW u \in Users, row'[u] # row[u]
    PROVE  \E s \in Sessions : /\ pc[s] = "open" /\ Commit(s)
                               /\ lock[u] = s /\ staged[s][u] # NoRow
                               /\ row'[u] = staged[s][u]
<1>1. ASSUME NEW s \in Sessions, pc[s] = "open", Commit(s)
      PROVE  lock[u] = s /\ staged[s][u] # NoRow /\ row'[u] = staged[s][u]
  <2>1. staged[s][u] # NoRow /\ row'[u] = staged[s][u]
    BY <1>1 DEF Commit, Visible
  <2> QED BY <2>1 DEF IndInv, SessionInv, WritesUnderLock
<1>2. row' = row \/ \E s \in Sessions : pc[s] = "open" /\ Commit(s)
  <2>1. \A s \in Sessions : \A called : RollBack(s, called) => row' = row
    BY DEF RollBack, database
  <2>2. ASSUME NEW c \in Consumers,
               ConsumerStep(c) \/ \E v \in Users : ConsumerLoad(c, v)
        PROVE  row' = row \/ (pc[c] = "open" /\ Commit(c))
    BY <2>2 DEF ConsumerStep, ConsumerLoad, ConsumerScore, EscalateCall,
                EscalateCallFails, EscalateStage, ConsumerCommit, database
  <2>3. ASSUME NEW w \in Sweepers, SweepStep(w)
        PROVE  row' = row \/ (pc[w] = "open" /\ Commit(w))
    BY <2>1, <2>3, Kinds DEF SweepStep, SweepSelect, SweepCall, SweepCallFails,
                             SweepStage, SweepCommit, database
  <2>4. ASSUME NEW a \in Admins, AdminStep(a) \/ AdminRequest(a)
        PROVE  row' = row \/ (pc[a] = "open" /\ Commit(a))
    BY <2>1, <2>4, Kinds DEF AdminStep, AdminRequest, AdminCall, AdminCallFails,
                             AdminStage, AdminCommit, AdminOverride, Override,
                             ReviewAndReinstate, ReviewOnly, database
  <2>5. ASSUME NEW s \in Sessions, Crash(s) \/ DeadlockVictim(s)
        PROVE  row' = row
    BY <2>1, <2>5 DEF Crash, DeadlockVictim
  <2>6. Tick \/ UNCHANGED vars => row' = row
    BY DEF Tick, vars, database
  <2> QED BY <2>2, <2>3, <2>4, <2>5, <2>6, Kinds DEF Next, Quiet
<1> QED BY <1>1, <1>2

\* The key of an entry is its own, and only what is committed is reviewed.
EntryIds == {entry.id : entry \in entries}

EntriesInv ==
    /\ reviewed \subseteq EntryIds
    /\ \A entry \in entries : entry.id <= made
    /\ \A s \in Sessions :
          /\ reviewing[s] \subseteq EntryIds
          /\ \A entry \in newEntries[s] : entry.id <= made /\ entry.id \notin EntryIds
    /\ \A s, t \in Sessions : s # t =>
          \A e \in newEntries[s], f \in newEntries[t] : e.id # f.id

LEMMA InitEntries == Init => EntriesInv
<1> SUFFICES ASSUME Init PROVE EntriesInv
  OBVIOUS
<1>1. \A entry \in entries : entry.id = 0
  BY DEF Init
<1> QED BY <1>1 DEF Init, EntriesInv, EntryIds

\* A session that ends, with a commit or without, takes what it has inserted
\* with it.
LEMMA EndEntries ==
    ASSUME TypeOK, EntriesInv, NEW s \in Sessions, made' = made,
           Commit(s) \/ \E called : RollBack(s, called)
    PROVE  EntriesInv'
<1>1. Close(s)
  BY DEF Commit, RollBack
<1>2. /\ newEntries'[s] = {} /\ reviewing'[s] = {}
      /\ \A t \in Sessions \ {s} : /\ newEntries'[t] = newEntries[t]
                                   /\ reviewing'[t] = reviewing[t]
  BY <1>1 DEF Close, TypeOK
<1>3. \/ entries' = entries /\ reviewed' = reviewed
      \/ entries' = entries \cup newEntries[s] /\ reviewed' = reviewed \cup reviewing[s]
  BY DEF Commit, RollBack, database
<1>4. EntryIds \subseteq EntryIds'
  BY <1>3 DEF EntryIds
<1>5. /\ reviewed' \subseteq EntryIds'
      /\ \A entry \in entries' : entry.id <= made
      /\ \A t \in Sessions : reviewing'[t] \subseteq EntryIds'
  BY <1>2, <1>3, <1>4 DEF EntriesInv
<1>6. ASSUME NEW t \in Sessions, NEW entry \in newEntries'[t]
      PROVE  entry.id <= made /\ entry.id \notin EntryIds'
  <2>1. t # s /\ entry \in newEntries[t]
    BY <1>2, <1>6
  <2>2. entry.id <= made /\ entry.id \notin EntryIds
    BY <2>1 DEF EntriesInv
  <2>3. \A e \in newEntries[s] : e.id # entry.id
    BY <2>1 DEF EntriesInv
  <2> QED BY <1>3, <2>2, <2>3 DEF EntryIds
<1>7. \A t, q \in Sessions : t # q =>
          \A e \in newEntries'[t], f \in newEntries'[q] : e.id # f.id
  BY <1>2 DEF EntriesInv
<1> QED BY <1>5, <1>6, <1>7 DEF EntriesInv

LEMMA StageEntries ==
    ASSUME TypeOK, EntriesInv, NEW c \in Consumers, EscalateStage(c)
    PROVE  EntriesInv'
<1>1. entries' = entries /\ reviewed' = reviewed /\ reviewing' = reviewing
  BY DEF EscalateStage, database
<1>2. CASE UNCHANGED <<made, newEntries>>
  BY <1>1, <1>2 DEF EntriesInv, EntryIds
<1>3. CASE AddBlacklistEntry(c, current[c])
  <2> DEFINE new == [id |-> made + 1, user |-> current[c]]
  <2>1. made' = made + 1 /\ made \in Nat
    BY <1>3 DEF AddBlacklistEntry, TypeOK
  <2>2. /\ newEntries'[c] = newEntries[c] \cup {new}
        /\ \A t \in Sessions \ {c} : newEntries'[t] = newEntries[t]
    BY <1>3, Kinds DEF AddBlacklistEntry, TypeOK
  <2>3. /\ \A entry \in entries : entry.id \in Nat /\ entry.id < made'
        /\ \A t \in Sessions : \A entry \in newEntries[t] :
              entry.id \in Nat /\ entry.id < made'
    BY <2>1 DEF EntriesInv, TypeOK, Entries
  <2>4. EntryIds' = EntryIds /\ new.id \notin EntryIds /\ new.id = made'
    BY <1>1, <2>1, <2>3 DEF EntryIds
  <2>5. ASSUME NEW t \in Sessions, NEW entry \in newEntries'[t]
        PROVE  entry.id <= made' /\ entry.id \notin EntryIds'
    <3>1. CASE entry \in newEntries[t]
      BY <2>1, <2>3, <2>4, <3>1 DEF EntriesInv
    <3>2. CASE entry = new
      BY <2>1, <2>4, <3>2
    <3> QED BY <2>2, <2>5, <3>1, <3>2
  <2>6. ASSUME NEW t \in Sessions, NEW q \in Sessions, t # q,
               NEW e \in newEntries'[t], NEW f \in newEntries'[q]
        PROVE  e.id # f.id
    <3>1. CASE e \in newEntries[t] /\ f \in newEntries[q]
      BY <2>6, <3>1 DEF EntriesInv
    <3>2. CASE e = new /\ f \in newEntries[q]
      BY <2>1, <2>3, <3>2
    <3>3. CASE e \in newEntries[t] /\ f = new
      BY <2>1, <2>3, <3>3
    <3> QED BY <2>2, <2>6, <3>1, <3>2, <3>3
  <2>7. \A entry \in entries : entry.id <= made'
    BY <2>1, <2>3
  <2> QED BY <1>1, <2>4, <2>5, <2>6, <2>7 DEF EntriesInv
<1> QED BY <1>2, <1>3 DEF EscalateStage

LEMMA StepEntries == TypeOK /\ EntriesInv /\ [Next]_vars => EntriesInv'
<1> SUFFICES ASSUME TypeOK, EntriesInv, [Next]_vars PROVE EntriesInv'
  OBVIOUS
<1>1. UNCHANGED <<entries, reviewed, newEntries, reviewing, made>> => EntriesInv'
  BY DEF EntriesInv, EntryIds
<1>2. \A s \in Sessions : Commit(s) => EntriesInv'
  BY EndEntries DEF Commit, counters
<1>3. \A s \in Sessions : (\E called : RollBack(s, called)) => EntriesInv'
  BY EndEntries DEF RollBack
<1>4. ASSUME NEW c \in Consumers,
             ConsumerStep(c) \/ \E u \in Users : ConsumerLoad(c, u)
      PROVE  EntriesInv'
  <2>1. EscalateStage(c) => EntriesInv'
    BY StageEntries
  <2>2. EscalateCall(c) \/ EscalateCallFails(c) => EntriesInv'
    BY <1>1 DEF EscalateCall, EscalateCallFails, database
  <2>3. ConsumerScore(c) \/ (\E u \in Users : ConsumerLoad(c, u)) => EntriesInv'
    BY <1>1 DEF ConsumerScore, ConsumerLoad, database, counters
  <2> QED BY <1>2, <1>4, <2>1, <2>2, <2>3, Kinds DEF ConsumerStep, ConsumerCommit
<1>5. ASSUME NEW w \in Sweepers, SweepStep(w) PROVE EntriesInv'
  <2>1. SweepSelect(w) \/ SweepStage(w) => EntriesInv'
    BY <1>1 DEF SweepSelect, SweepStage, database, counters
  <2>2. (\E u \in Users : SweepCall(w, u)) => EntriesInv'
    BY <1>1 DEF SweepCall, database
  <2>3. (\E u \in Users : SweepCallFails(w, u)) => EntriesInv'
    BY <1>3, Kinds DEF SweepCallFails
  <2> QED BY <1>2, <1>5, <2>1, <2>2, <2>3, Kinds DEF SweepStep, SweepCommit
<1>6. ASSUME NEW a \in Admins, AdminStep(a) PROVE EntriesInv'
  <2>1. AdminCall(a) \/ AdminStage(a) => EntriesInv'
    BY <1>1 DEF AdminCall, AdminStage, database
  <2>2. AdminCallFails(a) => EntriesInv'
    BY <1>3, Kinds DEF AdminCallFails
  <2> QED BY <1>2, <1>6, <2>1, <2>2, Kinds DEF AdminStep, AdminCommit
<1>7. ASSUME NEW a \in Admins, AdminRequest(a) PROVE EntriesInv'
  <2>1. CASE \E u \in Users, status \in Statuses : AdminOverride(a, u, status)
    BY <1>1, <2>1 DEF AdminOverride, Override, database
  <2>2. ASSUME NEW entry \in entries,
               ReviewAndReinstate(a, entry) \/ ReviewOnly(a, entry)
        PROVE  EntriesInv'
    <3>1. UNCHANGED <<entries, reviewed, newEntries, made>>
      BY <2>2 DEF ReviewAndReinstate, ReviewOnly, Override, database
    <3>2. reviewing' = [reviewing EXCEPT ![a] = {entry.id}]
      BY <2>2 DEF ReviewAndReinstate, ReviewOnly
    <3>3. \A s \in Sessions : reviewing'[s] \subseteq EntryIds
      BY <3>2 DEF TypeOK, EntriesInv, EntryIds
    <3> QED BY <3>1, <3>3 DEF EntriesInv, EntryIds
  <2> QED BY <1>7, <2>1, <2>2 DEF AdminRequest
<1>8. ASSUME NEW s \in Sessions, Crash(s) \/ DeadlockVictim(s) PROVE EntriesInv'
  BY <1>3, <1>8 DEF Crash, DeadlockVictim
<1>9. Tick \/ UNCHANGED vars => EntriesInv'
  BY <1>1 DEF Tick, vars, database, session, counters
<1> QED BY <1>4, <1>5, <1>6, <1>7, <1>8, <1>9 DEF Next, Quiet

\* Whom a batch blacklists has a new entry that nobody has reviewed as of the
\* same commit, whatever it has raced with.
THEOREM BlacklistingLeavesEntry == Spec => BlacklistedHasEntry
<1>1. ASSUME IndInv, WritesInv, EntriesInv, [Next]_vars, NEW u \in Users,
             lock[u] \in Consumers, row'[u] # row[u], row'[u].status = "blacklisted"
      PROVE  \E entry \in entries' \ entries :
                entry.user = u /\ entry.id \notin reviewed'
  <2>1. PICK c \in Sessions : /\ Commit(c) /\ lock[u] = c
                              /\ staged[c][u] # NoRow /\ row'[u] = staged[c][u]
    BY <1>1, RowChange
  <2>2. PICK entry \in newEntries[c] : entry.user = u
    BY <1>1, <2>1 DEF WritesInv, SessionWrites, ConsumerWrites
  <2>3. entry.id \notin EntryIds
    BY <1>1, <2>2 DEF EntriesInv
  <2>4. reviewed' \subseteq EntryIds
    BY <1>1, <2>1 DEF Commit, EntriesInv
  <2> QED BY <2>1, <2>2, <2>3, <2>4 DEF Commit, EntryIds
<1>2. IndInv /\ WritesInv /\ EntriesInv /\ [Next]_vars =>
          [\A u \in Users :
              lock[u] \in Consumers /\ row'[u] # row[u] /\ row'[u].status = "blacklisted" =>
                  \E entry \in entries' \ entries :
                      entry.user = u /\ entry.id \notin reviewed']_vars
  BY <1>1
<1>3. Spec => []EntriesInv
  BY InitEntries, StepEntries, TypeCorrect, PTL DEF Spec
<1> QED BY <1>2, <1>3, InductiveWrites, PTL DEF Spec, BlacklistedHasEntry

\* A batch suspends nobody without saying until when, although its UPDATE
\* leaves out an expiry that it believes to be there.
THEOREM SuspensionsExpire == Spec => SuspensionHasExpiry
<1>1. ASSUME IndInv, WritesInv, [Next]_vars, NEW u \in Users,
             lock[u] \in Consumers, "admin" \notin overlap[u],
             row'[u] # row[u], row'[u].status = "suspended"
      PROVE  row'[u].expires # NoExpiry
  <2>1. PICK c \in Sessions : /\ Commit(c) /\ lock[u] = c
                              /\ staged[c][u] # NoRow /\ row'[u] = staged[c][u]
    BY <1>1, RowChange
  <2> QED BY <1>1, <2>1 DEF WritesInv, SessionWrites, ConsumerWrites
<1>2. IndInv /\ WritesInv /\ [Next]_vars =>
          [\A u \in Users :
              /\ lock[u] \in Consumers /\ "admin" \notin overlap[u]
              /\ row'[u] # row[u] /\ row'[u].status = "suspended"
              => row'[u].expires # NoExpiry]_vars
  BY <1>1
<1> QED BY <1>2, InductiveWrites, PTL DEF Spec, SuspensionHasExpiry

===============================================================================
