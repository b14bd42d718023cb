--------------------------- MODULE SeededRowProofs ---------------------------
(***************************************************************************)
(* Proofs about a seeded row: its publication (SeedPublish), for every set *)
(* of runs, keys and domains and every lease, and the answers made of it   *)
(* (Delivery), for any handlers the catalogues describe.                   *)
(*                                                                         *)
(* The inductive invariant of the publication says why a live lease cannot *)
(* be lost: a run that may still write its acquire has read the row that   *)
(* is there now, and a row of a publish under way carries that run's own   *)
(* clock reading plus one lease.                                           *)
(*                                                                         *)
(* That of the answers says what a request has gathered from slots read    *)
(* one after the other while their rows change: each finding is one the    *)
(* lists of Delivery allow the handler (GatheredExplained), and a handler  *)
(* that has answered 200 keeps a slot that feeds it, before the request or *)
(* behind it (StaysFed). The lists against the catalogues are an           *)
(* assumption of Delivery, which TLC evaluates for every handler.          *)
(***************************************************************************)
EXTENDS SeedPublish, Delivery, SequenceTheorems, TLAPS

\* Every clock reading a run keeps is in the past.
ClocksPast == \A r \in Runs : lockNow[r] <= clock /\ pubNow[r] <= clock

\* A run that has read the lock row and was not overtaken read the present row.
SnapshotCurrent ==
    \A r \in Runs : pc[r] = "decide" /\ r \notin stale => seen[r] = seedLock[Dom(r)]

\* A lock row is of its holder's domain and, while the holder publishes, ends
\* one lease after the holder read the clock.
RowsOfHolders ==
    \A d \in Domains : seedLock[d] # NoRow =>
        /\ Dom(seedLock[d].run) = d
        /\ InPublish(seedLock[d].run) =>
              seedLock[d].expires = lockNow[seedLock[d].run] + Lease

LockInv == TypeOK /\ ClocksPast /\ SnapshotCurrent /\ RowsOfHolders
           /\ NoLeakedLock /\ LeaseHeld /\ BlockedAtMostALease

\* A run's domain is a domain.
LEMMA DomType == ASSUME NEW r \in Runs PROVE Dom(r) \in Domains
BY KeysAssumption DEF Dom

\* The initial state is well typed.
LEMMA TypeInit == Init => TypeOK
BY DEF Init, TypeOK, Steps, Results, LockRow, KvRow

\* Every step keeps the types.
LEMMA TypeStep == TypeOK /\ [Next]_vars => TypeOK'
<1> SUFFICES ASSUME TypeOK, [Next]_vars PROVE TypeOK'
  OBVIOUS
<1> USE DEF TypeOK, Steps, Results, LockRow, KvRow
<1>1. CASE Tick
  BY <1>1 DEF Tick, tables
<1>2. CASE UNCHANGED vars
  BY <1>2 DEF vars, tables
<1>3. ASSUME NEW r \in Runs, Step(r) \/ Abort(r) PROVE TypeOK'
  <2> USE DomType, KeysAssumption, TimeAssumption
  <2>1. CASE ReadClock(r)
    BY <2>1 DEF ReadClock, Goto, tables
  <2>2. CASE SelectLock(r)
    BY <2>2 DEF SelectLock, Goto, tables
  <2>3. CASE TakeLock(r)
    <3>1. NewExpiry(r) \in Nat
      BY DEF NewExpiry
    <3> QED BY <2>3, <3>1 DEF TakeLock, Goto, Overtaken
  <2>4. CASE SnapshotConflict(r) \/ HeldByAnother(r) \/ AcquireError(r)
    <3>1. CASE SnapshotConflict(r)
      BY <3>1 DEF SnapshotConflict, Return, Goto, Forget, tables
    <3>2. CASE HeldByAnother(r)
      BY <3>2 DEF HeldByAnother, Return, Goto, Forget, tables
    <3>3. CASE AcquireError(r)
      BY <3>3 DEF AcquireError, Return, Goto, Forget, tables
    <3> QED BY <2>4, <3>1, <3>2, <3>3
  <2>5. CASE Validate(r)
    BY <2>5 DEF Validate, Goto, tables
  <2>6. CASE Invalid(r) \/ InnerError(r)
    BY <2>6 DEF Invalid, InnerError, Fail, Goto, tables
  <2>7. CASE Stage(r)
    BY <2>7 DEF Stage, Goto, Row, Overtaken
  <2>8. CASE Promote(r)
    BY <2>8 DEF Promote, Goto, Row, Overtaken
  <2>9. CASE Release(r)
    BY <2>9 DEF Release, Goto, AfterRelease, Overtaken, Forget
  <2>10. CASE ReleaseError(r)
    BY <2>10 DEF ReleaseError, Goto, Forget, tables
  <2>11. CASE Abort(r)
    BY <2>11 DEF Abort, Forget, tables
  <2> QED
    BY <1>3, <2>1, <2>2, <2>3, <2>4, <2>5, <2>6, <2>7, <2>8, <2>9, <2>10, <2>11 DEF Step
<1> QED BY <1>1, <1>2, <1>3 DEF Next

\* Every variable keeps its type: TypeOK of SeedPublish.
THEOREM TypeCorrect == Spec => []TypeOK
BY TypeInit, TypeStep, PTL DEF Spec

\* With no rows and no readings every part of the invariant holds.
LEMMA LockInvInit == Init => LockInv
<1> SUFFICES ASSUME Init PROVE LockInv
  OBVIOUS
<1>1. TypeOK
  BY TypeInit
<1> QED
  BY <1>1, KeysAssumption, TimeAssumption, DomType
  DEF Init, LockInv, ClocksPast, SnapshotCurrent, RowsOfHolders, NoLeakedLock,
      LeaseHeld, BlockedAtMostALease, InPublish

\* Every step keeps the invariant.  <1>5 covers at once the steps that leave the
\* lock table alone and only move one run forward or end it.
LEMMA LockInvStep ==
    ASSUME LockInv, [Next]_vars
    PROVE  LockInv'
<1> USE DEF LockInv
<1>t. TypeOK'
  BY TypeStep
<1> USE <1>t
<1>1. CASE UNCHANGED vars
  BY <1>1 DEF vars, tables, ClocksPast, SnapshotCurrent, RowsOfHolders, NoLeakedLock,
     LeaseHeld, BlockedAtMostALease, InPublish, LeaseLive, Holds
<1>2. CASE Tick
  <2> USE <1>2, TimeAssumption DEF Tick, TypeOK, tables
  <2>1. ClocksPast'
    BY DEF ClocksPast
  <2>2. SnapshotCurrent' /\ RowsOfHolders' /\ NoLeakedLock'
    BY DEF SnapshotCurrent, RowsOfHolders, NoLeakedLock, InPublish
  <2>3. LeaseHeld'
    BY DEF LeaseHeld, InPublish, LeaseLive, Holds
  <2>4. BlockedAtMostALease'
    BY DomType DEF BlockedAtMostALease, LockRow
  <2> QED BY <2>1, <2>2, <2>3, <2>4
<1>3. ASSUME NEW r \in Runs, TakeLock(r) PROVE LockInv'
  <2> DEFINE d == Dom(r)
  <2> USE DomType, TimeAssumption
  <2>1. /\ pc[r] = "decide" /\ pc' = [pc EXCEPT ![r] = "validate"]
        /\ r \notin stale /\ stale' = (stale \cup Overtaken(r)) \ {r}
        /\ Available(r) /\ UNCHANGED <<clock, lockNow, pubNow>>
        /\ seedLock' = [seedLock EXCEPT ![d] = [run |-> r, expires |-> NewExpiry(r)]]
        /\ seen' = [seen EXCEPT ![r] = NoRow]
    BY <1>3 DEF TakeLock, Goto, SnapshotHolds
  <2>2. seen[r] = seedLock[d]
    BY <2>1 DEF SnapshotCurrent
  <2>3. seedLock[d] # NoRow => seedLock[d].run # r /\ seedLock[d].expires <= lockNow[r]
    BY <2>1, <2>2 DEF NoLeakedLock, InPublish, Available, TypeOK
  <2>4. NewExpiry(r) = lockNow[r] + Lease
    BY <2>2, <2>3 DEF NewExpiry
  <2>5. seedLock'[d] = [run |-> r, expires |-> lockNow[r] + Lease]
    BY <2>1, <2>4 DEF TypeOK
  <2>6. \A e \in Domains \ {d} : seedLock'[e] = seedLock[e]
    BY <2>1 DEF TypeOK
  <2>7. seedLock'[d] # NoRow
    BY <2>5, <1>t, NoRowAssumption DEF TypeOK
  <2>8. ClocksPast'
    BY <2>1 DEF ClocksPast
  <2>9. SnapshotCurrent'
    BY <2>1, <2>6 DEF SnapshotCurrent, Overtaken, TypeOK
  <2>10. RowsOfHolders'
    BY <2>1, <2>5, <2>6 DEF RowsOfHolders, InPublish, TypeOK, LockRow, Dom
  <2>11. NoLeakedLock'
    BY <2>1, <2>5, <2>6 DEF NoLeakedLock, InPublish, TypeOK, LockRow
  <2>12. LeaseHeld'
    <3> SUFFICES ASSUME NEW s \in Runs, InPublish(s)', LeaseLive(s)'
                 PROVE  Holds(s)'
      BY DEF LeaseHeld
    <3>1. CASE s = r
      BY <3>1, <2>5, <2>7 DEF Holds, Dom
    <3>2. CASE s # r /\ Dom(s) = d
      <4>1. InPublish(s) /\ LeaseLive(s)
        BY <3>2, <2>1 DEF InPublish, LeaseLive, TypeOK
      <4>2. seedLock[d] # NoRow /\ seedLock[d].run = s
        BY <4>1, <3>2 DEF LeaseHeld, Holds
      <4>3. seedLock[d].expires = lockNow[s] + Lease
        BY <4>1, <4>2 DEF RowsOfHolders
      <4>4. seedLock[d].expires <= clock
        BY <4>2, <2>3 DEF ClocksPast, TypeOK, LockRow
      <4> QED
        BY <4>1, <4>3, <4>4 DEF LeaseLive, TypeOK
    <3>3. CASE Dom(s) # d
      <4>1. InPublish(s) /\ LeaseLive(s)
        BY <3>3, <2>1 DEF InPublish, LeaseLive, TypeOK
      <4> QED BY <4>1, <3>3, <2>6 DEF LeaseHeld, Holds, Dom
    <3> QED BY <3>1, <3>2, <3>3
  <2>13. BlockedAtMostALease'
    BY <2>1, <2>5, <2>6 DEF BlockedAtMostALease, ClocksPast, TypeOK, LockRow
  <2> QED BY <2>8, <2>9, <2>10, <2>11, <2>12, <2>13
<1>4. ASSUME NEW r \in Runs, Release(r) PROVE LockInv'
  <2> DEFINE d == Dom(r)
  <2> USE DomType, TimeAssumption
  <2>1. /\ pc[r] = "release" /\ pc' = [pc EXCEPT ![r] = "done"]
        /\ UNCHANGED clock /\ Forget(r) /\ seedLock' = AfterRelease(r)
        /\ stale' = IF seedLock' = seedLock THEN stale ELSE stale \cup Overtaken(r)
    BY <1>4 DEF Release, Goto
  <2>2. \A e \in Domains : seedLock'[e] = seedLock[e]
                           \/ (seedLock'[e] = NoRow /\ seedLock[e] # NoRow /\ seedLock[e].run = r)
    BY <2>1 DEF AfterRelease, TypeOK
  <2>3. ~(seedLock'[d] # NoRow /\ seedLock'[d].run = r)
    BY <2>1 DEF AfterRelease, TypeOK
  <2>4. ClocksPast'
    BY <2>1 DEF ClocksPast, Forget, TypeOK
  <2>5. SnapshotCurrent'
    BY <2>1 DEF SnapshotCurrent, Overtaken, Forget, TypeOK
  <2>6. NoLeakedLock' /\ RowsOfHolders'
    BY <2>1, <2>2, <2>3 DEF NoLeakedLock, RowsOfHolders, InPublish, Forget, TypeOK, LockRow, Dom
  <2>7. LeaseHeld'
    BY <2>1, <2>2 DEF LeaseHeld, Holds, InPublish, LeaseLive, Forget, TypeOK
  <2>8. BlockedAtMostALease'
    BY <2>1, <2>2 DEF BlockedAtMostALease
  <2> QED BY <2>4, <2>5, <2>6, <2>7, <2>8
<1>5. ASSUME NEW r \in Runs,
             UNCHANGED <<clock, seedLock>>,
             pc' \in [Runs -> Steps], lockNow' \in [Runs -> Nat], pubNow' \in [Runs -> Nat],
             \A s \in Runs \ {r} : /\ pc'[s] = pc[s] /\ lockNow'[s] = lockNow[s]
                                   /\ seen'[s] = seen[s] /\ pubNow'[s] = pubNow[s]
                                   /\ s \in stale => s \in stale',
             lockNow'[r] <= clock /\ pubNow'[r] <= clock,
             pc'[r] = "decide" => seen'[r] = seedLock[Dom(r)],
             InPublish(r) => pc'[r] = "gone" \/ InPublish(r)',
             InPublish(r)' => InPublish(r) /\ lockNow'[r] = lockNow[r],
             pc[r] # "gone"
      PROVE  LockInv'
  <2>1. ClocksPast'
    BY <1>5 DEF ClocksPast
  <2>2. SnapshotCurrent'
    BY <1>5 DEF SnapshotCurrent
  <2>3. NoLeakedLock'
    BY <1>5 DEF NoLeakedLock, InPublish, TypeOK, LockRow
  <2>4. RowsOfHolders'
    BY <1>5 DEF RowsOfHolders, InPublish, TypeOK, LockRow
  <2>5. LeaseHeld'
    BY <1>5 DEF LeaseHeld, InPublish, LeaseLive, Holds
  <2>6. BlockedAtMostALease'
    BY <1>5 DEF BlockedAtMostALease
  <2> QED BY <2>1, <2>2, <2>3, <2>4, <2>5, <2>6
<1>6. ASSUME NEW r \in Runs, Step(r) \/ Abort(r) PROVE LockInv'
  <2> USE DomType
  <2>1. CASE ReadClock(r)
    BY <2>1, <1>5 DEF ReadClock, Goto, InPublish, ClocksPast, TypeOK, Steps, tables
  <2>2. CASE SelectLock(r)
    BY <2>2, <1>5 DEF SelectLock, Goto, InPublish, ClocksPast, TypeOK, Steps, tables
  <2>3. CASE SnapshotConflict(r)
    BY <2>3, <1>5 DEF SnapshotConflict, Return, Goto, Forget, InPublish, TypeOK, Steps, tables
  <2>4. CASE HeldByAnother(r)
    BY <2>4, <1>5 DEF HeldByAnother, Return, Goto, Forget, InPublish, TypeOK, Steps, tables
  <2>5. CASE AcquireError(r)
    BY <2>5, <1>5 DEF AcquireError, Return, Goto, Forget, InPublish, TypeOK, Steps, tables
  <2>6. CASE Validate(r)
    BY <2>6, <1>5 DEF Validate, Goto, InPublish, ClocksPast, TypeOK, Steps, tables
  <2>7. CASE Invalid(r)
    BY <2>7, <1>5 DEF Invalid, Fail, Goto, InPublish, ClocksPast, TypeOK, Steps, tables
  <2>8. CASE InnerError(r)
    BY <2>8, <1>5 DEF InnerError, Fail, Goto, InPublish, ClocksPast, TypeOK, Steps, tables
  <2>9. CASE Stage(r)
    BY <2>9, <1>5 DEF Stage, Goto, InPublish, ClocksPast, TypeOK, Steps
  <2>10. CASE Promote(r)
    BY <2>10, <1>5 DEF Promote, Goto, InPublish, ClocksPast, TypeOK, Steps
  <2>11. CASE ReleaseError(r)
    BY <2>11, <1>5 DEF ReleaseError, Goto, Forget, InPublish, TypeOK, Steps, tables
  <2>12. CASE Abort(r)
    BY <2>12, <1>5 DEF Abort, Forget, InPublish, TypeOK, Steps, tables
  <2> QED
    BY <1>3, <1>4, <1>6, <2>1, <2>2, <2>3, <2>4, <2>5, <2>6, <2>7, <2>8, <2>9, <2>10,
       <2>11, <2>12 DEF Step
<1> QED BY <1>1, <1>2, <1>6 DEF Next

\* The invariant of the lock holds in every reachable state.
LEMMA LockInvariant == Spec => []LockInv
BY LockInvInit, LockInvStep, PTL DEF Spec

\* A publish under way owns its domain's row for as long as its lease runs,
\* however many publishers race: no acquire steals a live lease and no late
\* release removes another run's row (acquire_seed_lock, release_seed_lock).
THEOREM LeaseSafety == Spec => []LeaseHeld
BY LockInvariant, PTL DEF LockInv

\* Every error path of atomic_publish gives the lock back.
THEOREM LocksReturned == Spec => []NoLeakedLock
BY LockInvariant, PTL DEF LockInv

\* A dead holder blocks its domain for at most one lease.
THEOREM CrashBlocksAtMostALease == Spec => []BlockedAtMostALease
BY LockInvariant, PTL DEF LockInv

\* Two runs of a domain whose leases both run are not both inside the publish.
THEOREM LiveLeasesExclude ==
    Spec => [](\A r, s \in Runs : r # s /\ Dom(r) = Dom(s) /\ InPublish(r) /\ InPublish(s)
                                 => ~LeaseLive(r) \/ ~LeaseLive(s))
<1>1. LockInv => \A r, s \in Runs : r # s /\ Dom(r) = Dom(s) /\ InPublish(r) /\ InPublish(s)
                                   => ~LeaseLive(r) \/ ~LeaseLive(s)
  BY DEF LockInv, LeaseHeld, Holds
<1> QED BY <1>1, LockInvariant, PTL

------------------------------------------------------------------------------
(* The order of the canonical rows.                                          *)

Ended(r) == pc[r] \in {"release", "done", "gone"}

\* Only runs past their promote have written a canonical row or are on time.
WritersEnded ==
    /\ \A r \in ontime : Ended(r)
    /\ \A k \in Keys : canonical[k] # NoRow =>
          Ended(canonical[k].run) /\ KeyOf[canonical[k].run] = k
                                  /\ canonical[k].fetched <= clock

\* A run that is about to promote within its lease carries a stamp no older
\* than a row that was promoted on time.
StampsOrdered ==
    \A r \in Runs : pc[r] \in {"stage", "promote"} /\ LeaseLive(r) =>
        LET row == canonical[KeyOf[r]] IN
        row # NoRow /\ row.run \in ontime => row.fetched <= pubNow[r]

OrderInv == LockInv /\ WritersEnded /\ StampsOrdered

\* Nothing is published at first.
LEMMA OrderInvInit == Init => OrderInv
BY LockInvInit DEF Init, OrderInv, WritersEnded, StampsOrdered

\* Every step keeps the order: a promote on time writes a stamp of a run that
\* still owned its domain, and a validate takes a stamp not older than any row.
LEMMA OrderInvStep == OrderInv /\ [Next]_vars => OrderInv'
<1> SUFFICES ASSUME OrderInv, [Next]_vars PROVE OrderInv'
  OBVIOUS
<1> USE DEF OrderInv
<1>1. LockInv' /\ TypeOK /\ TypeOK'
  BY LockInvStep DEF LockInv
<1> USE <1>1
<1>2. CASE UNCHANGED vars \/ Tick
  BY <1>2, TimeAssumption, KeysAssumption
  DEF vars, tables, Tick, WritersEnded, StampsOrdered, Ended, LeaseLive, TypeOK, KvRow
<1>3. ASSUME NEW r \in Runs, Promote(r) PROVE OrderInv'
  <2> DEFINE k == KeyOf[r]
  <2> USE KeysAssumption
  <2>1. /\ pc[r] = "promote" /\ pc' = [pc EXCEPT ![r] = "release"]
        /\ canonical' = [canonical EXCEPT ![k] = Row(r)]
        /\ ontime' = IF LeaseLive(r) THEN ontime \cup {r} ELSE ontime
        /\ UNCHANGED <<clock, lockNow, pubNow>>
    BY <1>3 DEF Promote, Goto, LeaseLive
  <2>2. r \notin ontime /\ \A j \in Keys : canonical[j] # NoRow => canonical[j].run # r
    BY <2>1 DEF WritersEnded, Ended
  <2>3. WritersEnded'
    <3>1. \A s \in ontime' : Ended(s)'
      BY <2>1 DEF WritersEnded, Ended, TypeOK
    <3>2. \A j \in Keys : canonical'[j] # NoRow =>
             pc'[canonical'[j].run] \in {"release", "done", "gone"}
             /\ KeyOf[canonical'[j].run] = j
             /\ canonical'[j].fetched <= clock
      BY <2>1 DEF WritersEnded, Ended, TypeOK, Row, KvRow, LockInv, ClocksPast
    <3> QED BY <3>1, <3>2, <2>1 DEF WritersEnded, Ended
  <2>4. StampsOrdered'
    <3> SUFFICES ASSUME NEW s \in Runs, pc'[s] \in {"stage", "promote"}, LeaseLive(s)',
                        canonical'[KeyOf[s]] # NoRow, canonical'[KeyOf[s]].run \in ontime'
                 PROVE  canonical'[KeyOf[s]].fetched <= pubNow'[s]
      BY DEF StampsOrdered
    <3>1. s # r /\ pc[s] \in {"stage", "promote"} /\ LeaseLive(s)
      BY <2>1 DEF TypeOK, LeaseLive
    <3>2. CASE KeyOf[s] # k
      <4>1. canonical[KeyOf[s]] = canonical'[KeyOf[s]]
        BY <3>2, <2>1 DEF TypeOK
      <4>2. canonical[KeyOf[s]].run \in ontime
        BY <4>1, <2>1, <2>2
      <4> QED BY <4>1, <4>2, <3>1, <2>1 DEF StampsOrdered
    <3>3. CASE KeyOf[s] = k
      <4>1. canonical'[k].run = r
        BY <2>1 DEF TypeOK, Row
      <4>2. LeaseLive(r)
        BY <4>1, <3>3, <2>1, <2>2
      <4>3. Dom(r) = Dom(s) /\ InPublish(r) /\ InPublish(s)
        BY <3>1, <3>3, <2>1 DEF Dom, InPublish
      <4> QED BY <4>2, <4>3, <3>1 DEF LockInv, LeaseHeld, Holds
    <3> QED BY <3>2, <3>3
  <2> QED BY <2>3, <2>4
<1>4. ASSUME NEW r \in Runs, UNCHANGED <<clock, canonical, ontime>>,
             \A s \in Runs \ {r} : pc'[s] = pc[s] /\ lockNow'[s] = lockNow[s]
                                   /\ pubNow'[s] = pubNow[s],
             Ended(r) => Ended(r)',
             pc'[r] \in {"stage", "promote"} =>
                 \/ pubNow'[r] = clock
                 \/ pc[r] \in {"stage", "promote"} /\ UNCHANGED <<lockNow, pubNow>>
      PROVE  OrderInv'
  <2>0. \A s \in Runs : Ended(s) => Ended(s)'
    BY <1>4 DEF Ended
  <2>1. WritersEnded'
    <3>1. \A s \in ontime' : Ended(s)'
      BY <1>4, <2>0 DEF WritersEnded, TypeOK
    <3>2. \A k \in Keys : canonical[k] # NoRow => canonical[k].run \in Runs
      BY DEF TypeOK, KvRow
    <3>3. \A k \in Keys : canonical'[k] # NoRow =>
             pc'[canonical'[k].run] \in {"release", "done", "gone"}
             /\ KeyOf[canonical'[k].run] = k
             /\ canonical'[k].fetched <= clock'
      BY <1>4, <2>0, <3>2 DEF WritersEnded, Ended
    <3> QED BY <3>1, <3>3 DEF WritersEnded, Ended
  <2>2. StampsOrdered'
    <3> SUFFICES ASSUME NEW s \in Runs, pc'[s] \in {"stage", "promote"}, LeaseLive(s)',
                        canonical[KeyOf[s]] # NoRow, canonical[KeyOf[s]].run \in ontime
                 PROVE  canonical[KeyOf[s]].fetched <= pubNow'[s]
      BY <1>4 DEF StampsOrdered
    <3>1. CASE pc[s] \in {"stage", "promote"} /\ lockNow'[s] = lockNow[s] /\ pubNow'[s] = pubNow[s]
      BY <3>1, <1>4 DEF StampsOrdered, LeaseLive
    <3>2. CASE pubNow'[s] = clock
      BY <3>2, KeysAssumption DEF WritersEnded
    <3> QED BY <3>1, <3>2, <1>4
  <2> QED BY <2>1, <2>2
<1>5. ASSUME NEW r \in Runs, Step(r) \/ Abort(r) PROVE OrderInv'
  <2> USE DEF Ended, TypeOK, Steps
  <2>1. CASE ReadClock(r) \/ SelectLock(r) \/ TakeLock(r)
    BY <2>1, <1>4 DEF ReadClock, SelectLock, TakeLock, Goto, tables
  <2>2. CASE SnapshotConflict(r) \/ HeldByAnother(r) \/ AcquireError(r)
    BY <2>2, <1>4 DEF SnapshotConflict, HeldByAnother, AcquireError, Return, Goto, Forget, tables
  <2>3. CASE Validate(r)
    BY <2>3, <1>4 DEF Validate, Goto, tables
  <2>4. CASE Invalid(r) \/ InnerError(r)
    BY <2>4, <1>4 DEF Invalid, InnerError, Fail, Goto, tables
  <2>5. CASE Stage(r)
    BY <2>5, <1>4 DEF Stage, Goto
  <2>6. CASE Release(r)
    BY <2>6, <1>4 DEF Release, Goto, Forget
  <2>7. CASE ReleaseError(r)
    BY <2>7, <1>4 DEF ReleaseError, Goto, Forget, tables
  <2>8. CASE Abort(r)
    BY <2>8, <1>4 DEF Abort, Forget, tables
  <2> QED
    BY <1>3, <1>5, <2>1, <2>2, <2>3, <2>4, <2>5, <2>6, <2>7, <2>8 DEF Step
<1> QED BY <1>2, <1>5 DEF Next

\* PublishOrder of SeedPublish: between runs that keep their leases, the stamps
\* of a canonical row never go back (the promote transaction of
\* atomic_publish_inner).
THEOREM PublishesInOrder == Spec => PublishOrder
<1> DEFINE Ordered ==
      \A k \in Keys :
        /\ canonical[k] # NoRow /\ canonical'[k] # canonical[k]
        /\ {canonical[k].run, canonical'[k].run} \subseteq ontime'
        => canonical[k].fetched <= canonical'[k].fetched
<1>1. OrderInv /\ [Next]_vars => [Ordered]_vars
  <2> SUFFICES ASSUME OrderInv, [Next]_vars, NEW k \in Keys,
                      canonical[k] # NoRow, canonical'[k] # canonical[k],
                      {canonical[k].run, canonical'[k].run} \subseteq ontime'
               PROVE  canonical[k].fetched <= canonical'[k].fetched
    OBVIOUS
  <2>1. PICK r \in Runs : Promote(r)
    BY DEF Next, Step, Tick, vars, tables, ReadClock, SelectLock, TakeLock,
       SnapshotConflict, HeldByAnother, AcquireError, Validate, Invalid, Stage, InnerError,
       Release, ReleaseError, Abort
  <2>2. k = KeyOf[r] /\ canonical'[k] = Row(r) /\ pc[r] = "promote"
    BY <2>1 DEF Promote, Goto, OrderInv, LockInv, TypeOK
  <2>3. r \notin ontime /\ canonical[k].run # r
    BY <2>2 DEF OrderInv, WritersEnded, Ended
  <2>4. LeaseLive(r) /\ canonical[k].run \in ontime
    BY <2>1, <2>2, <2>3 DEF Promote, LeaseLive, Row
  <2> QED BY <2>2, <2>4 DEF OrderInv, StampsOrdered, Row
<1>2. Spec => []OrderInv
  BY OrderInvInit, OrderInvStep, PTL DEF Spec
<1> QED BY <1>1, <1>2, PTL DEF Spec, PublishOrder

------------------------------------------------------------------------------
(* SeedPublish implements LeaseLock.                                         *)

HolderOf == [d \in Domains |-> IF seedLock[d] = NoRow THEN {} ELSE {seedLock[d].run}]
UntilOf == [d \in Domains |-> IF seedLock[d] = NoRow THEN 0 ELSE seedLock[d].expires]
ActiveOf == {r \in Runs : InPublish(r)}

\* The empty lock table is the initial state of LeaseLock.
LEMMA AbstractInit == Init => Lock!LockInit
BY DEF Init, Lock!LockInit, InPublish

\* Under the invariant a write of the lock table is one step of LeaseLock and
\* every other step leaves its variables alone or is its tick.
LEMMA AbstractStep == LockInv /\ [Next]_vars => [Lock!LockNext]_(Lock!lockVars)
<1> SUFFICES ASSUME LockInv, [Next]_vars
             PROVE  Lock!LockNext \/ UNCHANGED <<clock, HolderOf, UntilOf, ActiveOf>>
  BY DEF Lock!lockVars, HolderOf, UntilOf, ActiveOf
<1> USE DEF LockInv
<1>1. ASSUME NEW r \in Runs, TakeLock(r) PROVE Lock!LockNext
  <2> DEFINE d == Dom(r)
  <2> USE DomType, TimeAssumption
  <2>1. /\ seedLock' = [seedLock EXCEPT ![d] = [run |-> r, expires |-> NewExpiry(r)]]
        /\ pc[r] = "decide" /\ seen[r] = seedLock[d] /\ Available(r) /\ UNCHANGED clock
        /\ pc' = [pc EXCEPT ![r] = "validate"] /\ LockInv'
    BY <1>1, LockInvStep DEF TakeLock, Goto, SnapshotHolds, SnapshotCurrent
  <2>2. seedLock'[d] = [run |-> r, expires |-> NewExpiry(r)] /\ seedLock'[d] # NoRow
    <3>1. NewExpiry(r) \in Nat
      BY DEF NewExpiry, TypeOK, LockRow
    <3> QED BY <2>1, <3>1, NoRowAssumption DEF TypeOK
  <2>3. HolderOf' = [HolderOf EXCEPT ![d] = {r}]
    BY <2>1, <2>2 DEF HolderOf, TypeOK
  <2>4. UntilOf' = [UntilOf EXCEPT ![d] = NewExpiry(r)]
    BY <2>1, <2>2 DEF UntilOf, TypeOK
  <2>5. NewExpiry(r) \in 0 .. clock + Lease
    BY <2>1, <2>2 DEF BlockedAtMostALease, TypeOK, LockRow
  <2>6. HolderOf[d] \in {{}, {r}} \/ UntilOf[d] <= clock
    BY <2>1 DEF Available, HolderOf, UntilOf, ClocksPast, TypeOK, LockRow
  <2>7. ActiveOf' = ActiveOf \cup {r}
    BY <2>1 DEF ActiveOf, InPublish, TypeOK
  <2>8. Lock!Grant(d, r)
    BY <2>1, <2>3, <2>4, <2>5, <2>6, <2>7 DEF Lock!Grant, HolderOf, UntilOf, ActiveOf
  <2> QED BY <2>8 DEF Lock!LockNext
\* A run that stops publishing and leaves the lock table alone.
<1>2. ASSUME NEW r \in Runs, InPublish(r), UNCHANGED <<clock, seedLock>>,
             \E to \in {"done", "gone"} : pc' = [pc EXCEPT ![r] = to]
      PROVE  Lock!LockNext
  <2>1. r \in ActiveOf /\ ActiveOf' = ActiveOf \ {r}
    BY <1>2 DEF ActiveOf, InPublish, TypeOK
  <2>2. Lock!Leave(r)
    BY <2>1, <1>2 DEF Lock!Leave, HolderOf, UntilOf, ActiveOf
  <2> QED BY <2>2 DEF Lock!LockNext
<1>3. ASSUME NEW r \in Runs, Release(r) PROVE Lock!LockNext
  <2> DEFINE d == Dom(r)
  <2> USE DomType
  <2>1. /\ seedLock' = AfterRelease(r) /\ UNCHANGED clock
        /\ InPublish(r) /\ pc' = [pc EXCEPT ![r] = "done"]
    BY <1>3 DEF Release, Goto, InPublish
  <2>2. CASE Holds(r)
    <3>1. seedLock' = [seedLock EXCEPT ![d] = NoRow]
      BY <2>1, <2>2 DEF AfterRelease, Holds, TypeOK
    <3>2. HolderOf[d] = {r}
      BY <2>2 DEF HolderOf, Holds
    <3>3. HolderOf' = [HolderOf EXCEPT ![d] = {}]
      BY <3>1 DEF HolderOf, TypeOK
    <3>4. UntilOf' = [UntilOf EXCEPT ![d] = 0]
      BY <3>1 DEF UntilOf, TypeOK
    <3>5. r \in ActiveOf /\ ActiveOf' = ActiveOf \ {r}
      BY <2>1 DEF ActiveOf, InPublish, TypeOK
    <3>6. Lock!Free(d, r)
      BY <2>1, <3>2, <3>3, <3>4, <3>5 DEF Lock!Free, HolderOf, UntilOf, ActiveOf
    <3> QED BY <3>6 DEF Lock!LockNext
  <2>3. CASE ~Holds(r)
    <3>1. seedLock' = seedLock
      BY <2>1, <2>3 DEF AfterRelease, Holds, TypeOK
    <3> QED BY <3>1, <2>1, <1>2
  <2> QED BY <2>2, <2>3
<1>4. ASSUME NEW r \in Runs, ReleaseError(r) PROVE Lock!LockNext
  BY <1>4, <1>2 DEF ReleaseError, Goto, InPublish, tables
<1>5. ASSUME NEW r \in Runs, Abort(r)
      PROVE  Lock!LockNext \/ UNCHANGED <<clock, HolderOf, UntilOf, ActiveOf>>
  <2>1. UNCHANGED <<clock, seedLock>> /\ pc' = [pc EXCEPT ![r] = "gone"]
    BY <1>5 DEF Abort, tables
  <2>2. CASE InPublish(r)
    BY <2>1, <2>2, <1>2
  <2>3. CASE ~InPublish(r)
    BY <2>1, <2>3 DEF HolderOf, UntilOf, ActiveOf, InPublish, TypeOK
  <2> QED BY <2>2, <2>3
<1>6. CASE Tick
  BY <1>6 DEF Tick, tables, Lock!LockNext, Lock!Pass, HolderOf, UntilOf, ActiveOf, InPublish
\* Any other step moves a run within its publish or outside it.
<1>7. ASSUME NEW r \in Runs,
             \/ ReadClock(r) \/ SelectLock(r) \/ SnapshotConflict(r)
             \/ HeldByAnother(r) \/ AcquireError(r) \/ Validate(r) \/ Invalid(r)
             \/ Stage(r) \/ InnerError(r) \/ Promote(r)
      PROVE  UNCHANGED <<clock, HolderOf, UntilOf, ActiveOf>>
  <2>1. UNCHANGED <<clock, seedLock>>
    BY <1>7 DEF ReadClock, SelectLock, SnapshotConflict, HeldByAnother, AcquireError,
       Validate, Invalid, Stage, InnerError, Promote, tables
  <2>2. \E from, to \in Steps :
            /\ pc[r] = from /\ pc' = [pc EXCEPT ![r] = to]
            /\ from \in {"validate", "stage", "promote", "release"}
               <=> to \in {"validate", "stage", "promote", "release"}
    BY <1>7 DEF ReadClock, SelectLock, SnapshotConflict, HeldByAnother, AcquireError,
       Validate, Invalid, Stage, InnerError, Promote, Return, Fail, Goto, Steps
  <2>3. ActiveOf' = ActiveOf
    BY <2>2 DEF ActiveOf, InPublish, TypeOK
  <2> QED BY <2>1, <2>3 DEF HolderOf, UntilOf
<1>8. CASE UNCHANGED vars
  BY <1>8 DEF vars, tables, HolderOf, UntilOf, ActiveOf, InPublish
<1> QED
  BY <1>1, <1>3, <1>4, <1>5, <1>6, <1>7, <1>8 DEF Next, Step

\* ImplementsLeaseLock of SeedPublish: reading the clock, reading the row and
\* writing it in three steps, with a deferred BEGIN, is as good as one atomic
\* grant (acquire_seed_lock), and the DELETE is the holder's own release.
THEOREM LockRefinement == Spec => ImplementsLeaseLock
BY LockInvariant, AbstractInit, AbstractStep, PTL DEF Spec, Lock!LockSpec, ImplementsLeaseLock

------------------------------------------------------------------------------
(* The answers.                                                              *)

\* What a row, or a cycle before it is published, can hold.
Contents == {"rows", "none", "blank"}

DeliveryTypes ==
    /\ reader \in Chains
    /\ stored \in [Slots -> Contents]
    /\ cycle \in [Slots -> [left : Nat, got : Contents]]
    /\ next \in Nat \ {0}

\* Cycles are those of scheduled jobs, and rows made of defaults come from
\* clients that can return them.
RowsExplained ==
    \A i \in Slots : /\ cycle[i].left > 0 => Scheduled(Key(i))
                     /\ "blank" \in {stored[i], cycle[i].got} => reader.slots[i] \in Blankable

HasSlotIn(kind) == \E i \in Slots : reader.slots[i] \in kind

\* The slots whose defaults the handler shows for figures.
Misleading == Blankable \ (Undecodable \cup Partless)

\* The slot has a row the handler makes a part of its answer of.
Feeds(i) == reader.slots[i] \notin Partless /\ stored[i] # "none"

\* What a request being handled has gathered is what some slot of the handler
\* can be to it.
GatheredExplained ==
    /\ "undecodable" \in gathered => HasSlotIn(Undecodable)
    /\ "default" \in gathered => HasSlotIn(Defaulting)
    /\ "row" \in gathered => "part" \in gathered \/ HasSlotIn(Partless)
    /\ "blank" \in gathered => "undecodable" \in gathered \/ HasSlotIn(Misleading)
    /\ "part" \in gathered => \E i \in Slots : Feeds(i)

\* Every answer that is not right has a slot of the handler to blame: one whose
\* stored row lacks a member the handler insists on (502), one that yields it
\* nothing (503 with rows in the store), one that lacks a figure it defaults, or
\* one whose client takes a reply of another shape for rows of defaults.
AnswersExplained ==
    /\ answer.status = "cache_shape" => HasSlotIn(Undecodable)
    /\ answer.status = "bootstrap_upstream_empty" /\ "row" \in answer.holds => HasSlotIn(Partless)
    /\ answer.status = "ok" =>
          /\ "default" \in answer.holds => HasSlotIn(Defaulting)
          /\ "blank" \in answer.holds => HasSlotIn(Misleading)

\* NeverTakenBack with the slot instead of the list.
Kept == good => answer.status \in {"none", "ok", "cache_failure"} \/ HasSlotIn(Undecodable)

\* A handler that has answered 200 has a slot that feeds it, and a request that
\* is past this slot has gathered a part of the answer.
StaysFed ==
    good => \E i \in Slots : Feeds(i) /\ (i < next => "part" \in gathered)

DeliveryInv ==
    /\ DeliveryTypes /\ RowsExplained /\ GatheredExplained
    /\ AnswersExplained /\ StaysFed /\ Kept

LEMMA SlotsAreNumbered ==
    reader \in Chains => /\ Slots = 1..Len(reader.slots) /\ Len(reader.slots) \in Nat
                         /\ \A i \in Slots : reader.slots[i] \in AllSlots
BY SlotsAssumption, LenProperties, ElementOfSeq DEF Slots

LEMMA FoundMeans ==
    ASSUME NEW i \in Slots
    PROVE  /\ "row" \in Found(i) <=> stored[i] # "none"
           /\ "undecodable" \in Found(i) <=> stored[i] # "none" /\ reader.slots[i] \in Undecodable
           /\ "part" \in Found(i) <=> Feeds(i)
           /\ "default" \in Found(i) => reader.slots[i] \in Defaulting
           /\ "blank" \in Found(i) => stored[i] = "blank" /\ reader.slots[i] \notin Partless
BY DEF Found, Feeds

\* A request adds no defaults of its own to a cycle.
LEMMA RequestGets ==
    ASSUME NEW class, NEW c \in [left : Nat, got : Contents], c.left > 0, NEW outcome
    PROVE  /\ AfterRequest(class, c, outcome) \in [left : Nat, got : Contents]
           /\ AfterRequest(class, c, outcome).got = "blank" => "blank" \in {c.got, outcome}
<1> DEFINE both == {c.got, outcome}
           got  == IF "blank" \in both THEN "blank" ELSE IF "rows" \in both THEN "rows" ELSE "none"
           more == IF class = "fallback" /\ outcome # "absent" THEN 0 ELSE c.left - 1
           last == IF more = 0 /\ class = "all" /\ got = "none" THEN "rows" ELSE got
<1>1. more \in Nat
  OBVIOUS
<1>2. got \in Contents /\ last \in Contents
  BY DEF Contents
<1>3. last = "blank" => "blank" \in both
  OBVIOUS
<1>4. AfterRequest(class, c, outcome) = IF outcome = "error" /\ class # "any" THEN Idle
                                        ELSE [left |-> more, got |-> last]
  BY DEF AfterRequest
<1>5. Idle \in [left : Nat, got : Contents] /\ Idle.got # "blank"
  BY DEF Idle, Contents
<1> HIDE DEF more, last, both
<1>6. [left |-> more, got |-> last] \in [left : Nat, got : Contents]
  BY <1>1, <1>2
<1> QED BY <1>3, <1>4, <1>5, <1>6 DEF both

LEMMA RequestStep ==
    ASSUME DeliveryTypes, RowsExplained, NEW i \in Slots, Scheduled(Key(i)),
           NEW c \in [left : Nat, got : Contents], c.left > 0,
           c.got = "blank" => reader.slots[i] \in Blankable,
           Request(i, c), UNCHANGED <<reader, stored>>
    PROVE  /\ cycle' \in [Slots -> [left : Nat, got : Contents]]
           /\ RowsExplained'
<1>1. PICK outcome \in Outcomes(i) :
          cycle' = [cycle EXCEPT ![i] = AfterRequest(Class(i), c, outcome)]
  BY DEF Request
<1> DEFINE new == AfterRequest(Class(i), c, outcome)
<1>2. /\ new \in [left : Nat, got : Contents]
      /\ new.got = "blank" => "blank" \in {c.got, outcome}
  BY RequestGets
<1>3. outcome = "blank" => reader.slots[i] \in Blankable
  BY SlotsAreNumbered DEF Outcomes, Blankable, DeliveryTypes, Key
<1> HIDE DEF new
<1>4. cycle' \in [Slots -> [left : Nat, got : Contents]]
  BY <1>1, <1>2 DEF DeliveryTypes, new
<1>5. RowsExplained'
  <2>1. \A j \in Slots : cycle'[j] = IF j = i THEN new ELSE cycle[j]
    BY <1>1 DEF DeliveryTypes, new
  <2> QED BY <1>2, <1>3, <2>1 DEF RowsExplained, Slots, Key
<1> QED BY <1>4, <1>5

LEMMA DeliveryInitially == DeliveryInit => DeliveryInv
<1> SUFFICES ASSUME DeliveryInit PROVE DeliveryInv
  OBVIOUS
<1>1. DeliveryTypes
  BY DEF DeliveryInit, DeliveryTypes, Idle, Contents
<1>2. RowsExplained /\ GatheredExplained /\ StaysFed
  BY DEF DeliveryInit, RowsExplained, GatheredExplained, StaysFed, Idle
<1>3. AnswersExplained /\ Kept
  BY DEF DeliveryInit, AnswersExplained, Kept, NoAnswer
<1> QED BY <1>1, <1>2, <1>3 DEF DeliveryInv

\* A step of a job never takes a row away, and leaves the request alone.
JobKeeps ==
    /\ DeliveryTypes' /\ RowsExplained'
    /\ UNCHANGED <<reader, next, gathered, answer, good>>
    /\ \A i \in Slots : stored[i] # "none" => stored'[i] # "none"

LEMMA JobStep ==
    ASSUME DeliveryTypes, RowsExplained, NEW i \in MaxSlots, Job(i)
    PROVE  JobKeeps
<1>1. CASE Pass(i) \/ Skip(i)
  <2>1. /\ UNCHANGED <<reader, stored, next, gathered, answer, good>>
        /\ cycle' = cycle \/ cycle' = [cycle EXCEPT ![i] = Idle]
    BY <1>1 DEF Pass, Skip
  <2>2. Idle \in [left : Nat, got : Contents] /\ Idle.got # "blank" /\ ~ Idle.left > 0
    BY DEF Idle, Contents
  <2>3. cycle' \in [Slots -> [left : Nat, got : Contents]]
    BY <2>1, <2>2 DEF DeliveryTypes
  <2>4. \A j \in Slots : cycle'[j] = cycle[j] \/ cycle'[j] = Idle
    BY <2>1 DEF DeliveryTypes
  <2>5. RowsExplained'
    BY <2>1, <2>2, <2>4 DEF RowsExplained, Slots, Key
  <2> QED BY <2>1, <2>3, <2>5 DEF JobKeeps, DeliveryTypes, Slots
<1>2. CASE StartCycle(i)
  <2> DEFINE c == [Idle EXCEPT !.left = Requests(Class(i))]
  <2>1. /\ i \in Slots /\ Scheduled(Key(i)) /\ Request(i, c)
        /\ UNCHANGED <<reader, stored, next, gathered, answer, good>>
    BY <1>2 DEF StartCycle
  <2>2. c \in [left : Nat, got : Contents] /\ c.left > 0 /\ c.got # "blank"
    BY DEF Idle, Requests, Contents
  <2> HIDE DEF c
  <2>3. cycle' \in [Slots -> [left : Nat, got : Contents]] /\ RowsExplained'
    BY <2>1, <2>2, RequestStep
  <2> QED BY <2>1, <2>3 DEF JobKeeps, DeliveryTypes, Slots
<1>3. CASE Fetch(i)
  <2>1. /\ i \in Slots /\ cycle[i].left > 0 /\ Request(i, cycle[i])
        /\ UNCHANGED <<reader, stored, next, gathered, answer, good>>
    BY <1>3 DEF Fetch
  <2>2. cycle[i] \in [left : Nat, got : Contents]
    BY <2>1 DEF DeliveryTypes
  <2>3. Scheduled(Key(i)) /\ (cycle[i].got = "blank" => reader.slots[i] \in Blankable)
    BY <2>1 DEF RowsExplained
  <2>4. cycle' \in [Slots -> [left : Nat, got : Contents]] /\ RowsExplained'
    BY <2>1, <2>2, <2>3, RequestStep
  <2> QED BY <2>1, <2>4 DEF JobKeeps, DeliveryTypes, Slots
<1>4. CASE Publish(i)
  <2>1. /\ i \in Slots /\ cycle[i].got # "none"
        /\ stored' = [stored EXCEPT ![i] = cycle[i].got]
        /\ cycle' = [cycle EXCEPT ![i] = Idle]
        /\ UNCHANGED <<reader, next, gathered, answer, good>>
    BY <1>4 DEF Publish, Loaded
  <2>2. Idle \in [left : Nat, got : Contents] /\ Idle.got # "blank" /\ ~ Idle.left > 0
    BY DEF Idle, Contents
  <2>3. /\ cycle' \in [Slots -> [left : Nat, got : Contents]]
        /\ stored' \in [Slots -> Contents]
    BY <2>1, <2>2 DEF DeliveryTypes
  <2>4. \A j \in Slots : /\ cycle'[j] = cycle[j] \/ cycle'[j] = Idle
                         /\ stored'[j] = IF j = i THEN cycle[i].got ELSE stored[j]
    BY <2>1 DEF DeliveryTypes
  <2>5. RowsExplained'
    BY <2>1, <2>2, <2>4 DEF RowsExplained, Slots, Key
  <2> QED BY <2>1, <2>3, <2>4, <2>5 DEF JobKeeps, DeliveryTypes, Slots
<1> QED BY <1>1, <1>2, <1>3, <1>4 DEF Job

LEMMA JobsKeepAnswers ==
    ASSUME DeliveryInv, JobKeeps
    PROVE  DeliveryInv'
<1> USE DEF DeliveryInv, JobKeeps
<1>1. \A i \in Slots : Feeds(i) => Feeds(i)'
  BY DEF Feeds
<1>2. Slots' = Slots
  BY DEF Slots
<1>3. GatheredExplained'
  BY <1>1, <1>2 DEF GatheredExplained, HasSlotIn
<1>4. AnswersExplained'
  BY DEF AnswersExplained, HasSlotIn, Slots
<1>5. StaysFed'
  BY <1>1, <1>2 DEF StaysFed
<1>6. Kept'
  BY DEF Kept, HasSlotIn, Slots
<1> QED BY <1>3, <1>4, <1>5, <1>6

\* What an answer does to the request: the next one starts at the first slot.
LEMMA ReplyTypes ==
    ASSUME DeliveryInv, NEW status, NEW holds, Reply(status, holds)
    PROVE  DeliveryTypes' /\ RowsExplained' /\ GatheredExplained'
BY DEF DeliveryInv, Reply, jobs, DeliveryTypes, RowsExplained, GatheredExplained, Slots, Key

LEMMA CacheFailureStep ==
    ASSUME DeliveryInv, Reply("cache_failure", {})
    PROVE  DeliveryInv'
<1>1. /\ answer' = [status |-> "cache_failure", holds |-> {}] /\ (good' => good)
      /\ next' = 1 /\ reader' = reader /\ stored' = stored
  BY DEF Reply, jobs
<1>2. AnswersExplained' /\ Kept'
  BY <1>1 DEF AnswersExplained, Kept
<1>3. StaysFed'
  <2>1. ASSUME good PROVE \E i \in Slots : Feeds(i) /\ ~ i < 1
    BY <2>1, SlotsAreNumbered DEF DeliveryInv, StaysFed, DeliveryTypes
  <2> QED BY <1>1, <2>1 DEF StaysFed, Feeds, Slots
<1> QED BY <1>2, <1>3, ReplyTypes DEF DeliveryInv

LEMMA ReadStep ==
    ASSUME DeliveryInv, ~ Read,
           next' = next + 1, gathered' = gathered \cup Found(next), answer' = NoAnswer,
           UNCHANGED <<reader, jobs, calm, good>>
    PROVE  DeliveryInv'
<1>1. next \in Slots /\ reader \in Chains /\ next \in Nat
  <2>1. ~ next > Len(reader.slots) /\ next \in Nat \ {0} /\ reader \in Chains
    BY DEF DeliveryInv, DeliveryTypes, Read
  <2> QED BY <2>1, SlotsAreNumbered
<1>2. DeliveryTypes' /\ RowsExplained'
  BY <1>1 DEF DeliveryInv, jobs, DeliveryTypes, RowsExplained, Slots, Key
<1>3. AnswersExplained' /\ Kept'
  BY DEF NoAnswer, AnswersExplained, Kept
<1>4. reader' = reader /\ stored' = stored /\ (good' => good)
  BY DEF jobs
<1>5. GatheredExplained'
  <2>1. "undecodable" \in gathered' => HasSlotIn(Undecodable)
    BY <1>1, FoundMeans DEF HasSlotIn, DeliveryInv, GatheredExplained
  <2>2. "default" \in gathered' => HasSlotIn(Defaulting)
    BY <1>1, FoundMeans DEF HasSlotIn, DeliveryInv, GatheredExplained
  <2>3. "row" \in gathered' => "part" \in gathered' \/ HasSlotIn(Partless)
    BY <1>1, FoundMeans DEF HasSlotIn, DeliveryInv, GatheredExplained, Feeds
  <2>4. "blank" \in gathered' => "undecodable" \in gathered' \/ HasSlotIn(Misleading)
    <3>1. CASE "blank" \in gathered
      BY <3>1 DEF DeliveryInv, GatheredExplained
    <3>2. CASE "blank" \in Found(next)
      <4>1. stored[next] = "blank" /\ reader.slots[next] \notin Partless
        BY <1>1, <3>2, FoundMeans
      <4>2. reader.slots[next] \in Blankable
        BY <1>1, <4>1 DEF DeliveryInv, RowsExplained
      <4>3. reader.slots[next] \in Undecodable \/ HasSlotIn(Misleading)
        BY <1>1, <4>1, <4>2 DEF HasSlotIn, Misleading
      <4>4. reader.slots[next] \in Undecodable => "undecodable" \in Found(next)
        BY <1>1, <4>1, FoundMeans
      <4> QED BY <4>3, <4>4
    <3> QED BY <3>1, <3>2
  <2>5. "part" \in gathered' => \E i \in Slots : Feeds(i)
    BY <1>1, FoundMeans DEF DeliveryInv, GatheredExplained
  <2> QED BY <1>4, <2>1, <2>2, <2>3, <2>4, <2>5 DEF GatheredExplained, HasSlotIn, Feeds, Slots
<1>6. StaysFed'
  <2>1. ASSUME good, NEW i \in Slots, Feeds(i), i < next => "part" \in gathered, i < next + 1
        PROVE  "part" \in gathered'
    <3>1. i \in Nat
      BY <1>1, SlotsAreNumbered
    <3>2. CASE i < next
      BY <2>1, <3>2
    <3>3. CASE i = next
      BY <1>1, <2>1, <3>3, FoundMeans
    <3> QED BY <1>1, <2>1, <3>1, <3>2, <3>3
  <2> QED BY <1>4, <2>1 DEF DeliveryInv, StaysFed, Feeds, Slots
<1> QED BY <1>2, <1>3, <1>5, <1>6 DEF DeliveryInv

LEMMA AnswerStep ==
    ASSUME DeliveryInv, Answer
    PROVE  DeliveryInv'
<1>1. /\ "undecodable" \in gathered => HasSlotIn(Undecodable)
      /\ "default" \in gathered => HasSlotIn(Defaulting)
      /\ "row" \in gathered => "part" \in gathered \/ HasSlotIn(Partless)
      /\ "blank" \in gathered => "undecodable" \in gathered \/ HasSlotIn(Misleading)
      /\ "part" \in gathered => \E i \in Slots : Feeds(i)
  BY DEF DeliveryInv, GatheredExplained
<1>2. \A i \in Slots : ~ i < 1
  BY SlotsAreNumbered DEF DeliveryInv, DeliveryTypes
<1>3. \A i \in Slots : i > Len(reader.slots) => FALSE
  BY SlotsAreNumbered DEF DeliveryInv, DeliveryTypes
<1>4. CASE "undecodable" \in gathered
  <2>1. Reply("cache_shape", {})
    BY <1>4 DEF Answer
  <2>2. /\ answer' = [status |-> "cache_shape", holds |-> gathered \cap {}]
        /\ (good' => good) /\ next' = 1 /\ reader' = reader /\ stored' = stored
    BY <2>1 DEF Reply, jobs
  <2>3. AnswersExplained' /\ Kept'
    BY <1>1, <1>4, <2>2 DEF AnswersExplained, Kept, HasSlotIn, Slots
  <2>4. StaysFed'
    BY <1>2, <2>2 DEF DeliveryInv, StaysFed, Feeds, Slots
  <2> QED BY <2>1, <2>3, <2>4, ReplyTypes DEF DeliveryInv
<1>5. CASE "undecodable" \notin gathered /\ "part" \notin gathered
  <2>1. Reply("bootstrap_upstream_empty", {"row"}) /\ next > Len(reader.slots)
    BY <1>5 DEF Answer, Read
  <2>2. /\ answer' = [status |-> "bootstrap_upstream_empty", holds |-> gathered \cap {"row"}]
        /\ (good' => good) /\ next' = 1 /\ reader' = reader /\ stored' = stored
    BY <2>1 DEF Reply, jobs
  <2>3. ~ good
    <3>1. ASSUME NEW i \in Slots PROVE i < next
      BY <2>1, SlotsAreNumbered DEF DeliveryInv, DeliveryTypes
    <3> QED BY <1>5, <3>1 DEF DeliveryInv, StaysFed
  <2>4. AnswersExplained' /\ Kept' /\ StaysFed'
    BY <1>1, <1>5, <2>2, <2>3
       DEF AnswersExplained, Kept, StaysFed, HasSlotIn, Slots
  <2> QED BY <2>1, <2>4, ReplyTypes DEF DeliveryInv
<1>6. CASE "undecodable" \notin gathered /\ "part" \in gathered
  <2>1. Reply("ok", {"default", "blank"})
    BY <1>6 DEF Answer
  <2>2. /\ answer' = [status |-> "ok", holds |-> gathered \cap {"default", "blank"}]
        /\ next' = 1 /\ reader' = reader /\ stored' = stored
    BY <2>1 DEF Reply, jobs
  <2>3. AnswersExplained' /\ Kept'
    BY <1>1, <1>6, <2>2 DEF AnswersExplained, Kept, HasSlotIn, Slots
  <2>4. StaysFed'
    BY <1>1, <1>2, <1>6, <2>2 DEF StaysFed, Feeds, Slots
  <2> QED BY <2>1, <2>3, <2>4, ReplyTypes DEF DeliveryInv
<1> QED BY <1>4, <1>5, <1>6

LEMMA DeliveryStep == DeliveryInv /\ [DeliveryNext]_deliveryVars => DeliveryInv'
<1> SUFFICES ASSUME DeliveryInv, [DeliveryNext]_deliveryVars PROVE DeliveryInv'
  OBVIOUS
<1>1. ASSUME NEW i \in MaxSlots, Job(i) PROVE DeliveryInv'
  BY <1>1, JobStep, JobsKeepAnswers DEF DeliveryInv
<1>2. CASE Restart
  <2>1. /\ cycle' = [i \in Slots |-> Idle] /\ next' = 1 /\ gathered' = {}
        /\ UNCHANGED <<reader, stored, left, calm, answer, good>>
    BY <1>2 DEF Restart
  <2>2. Idle \in [left : Nat, got : Contents] /\ Idle.got # "blank" /\ ~ Idle.left > 0
    BY DEF Idle, Contents
  <2>3. DeliveryTypes' /\ RowsExplained'
    BY <2>1, <2>2 DEF DeliveryInv, DeliveryTypes, RowsExplained, Slots, Key
  <2>4. \A i \in Slots : ~ i < 1
    BY SlotsAreNumbered DEF DeliveryInv, DeliveryTypes
  <2>5. GatheredExplained' /\ StaysFed'
    BY <2>1, <2>4 DEF DeliveryInv, GatheredExplained, StaysFed, Feeds, Slots
  <2>6. AnswersExplained' /\ Kept'
    BY <2>1 DEF DeliveryInv, AnswersExplained, Kept, HasSlotIn, Slots
  <2> QED BY <2>3, <2>5, <2>6 DEF DeliveryInv
<1>3. CASE ReadSlot
  BY <1>3, ReadStep, CacheFailureStep DEF ReadSlot
<1>4. CASE Answer
  BY <1>4, AnswerStep
<1>5. CASE Settle \/ UNCHANGED deliveryVars
  <2>1. UNCHANGED <<reader, jobs, next, gathered, answer, good>>
    BY <1>5 DEF Settle, deliveryVars
  <2> QED
    BY <2>1 DEF jobs, DeliveryInv, DeliveryTypes, RowsExplained, GatheredExplained,
                AnswersExplained, StaysFed, Kept,
                HasSlotIn, Feeds, Slots, Key
<1> QED BY <1>1, <1>2, <1>3, <1>4, <1>5 DEF DeliveryNext

LEMMA DeliveryInvariant == DeliverySpec => []DeliveryInv
BY DeliveryInitially, DeliveryStep, PTL DEF DeliverySpec

\* No failed cycle, lost lock or restart costs a handler the answer it had.
THEOREM AnswersStay == DeliverySpec => []NeverTakenBack
<1>1. DeliveryInv => NeverTakenBack
  BY DriftedAssumption DEF DeliveryInv, DeliveryTypes, Kept, NeverTakenBack, HasSlotIn, Slots
<1> QED BY <1>1, DeliveryInvariant, PTL

\* Whatever upstreams reply, jobs publish and rows expire, a wrong answer of a
\* handler comes from a slot at odds with what is stored under its key, and
\* figures no upstream sent only from a client that fills in what it misses.
THEOREM WrongAnswersHaveASlot == DeliverySpec => []AnswersExplained
<1>1. DeliveryInv => AnswersExplained
  BY DEF DeliveryInv
<1> QED BY <1>1, DeliveryInvariant, PTL

==============================================================================
