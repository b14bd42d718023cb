----------------------------- MODULE SeedPublish -----------------------------
(***************************************************************************)
(* Publication of seed data: atomic_publish (pellucid-seeders,             *)
(* atomic_publish.rs) over the seed lock (locks.rs) and the tables         *)
(* seed_lock, kv_envelope and seed_meta of one SQLite file in WAL mode.    *)
(*                                                                         *)
(* Each element of Runs is one call of atomic_publish with its own fresh   *)
(* run id.  Calls come from the tasks of the scheduler and from every      *)
(* process that has the database open, so any number may be under way.     *)
(* A step is what happens between two awaits.  A write statement outside   *)
(* a transaction, and a commit, are atomic; a transaction that begins with *)
(* a read works on the snapshot of that read and its first write is        *)
(* refused when anyone committed in between (BEGIN is deferred; WAL).      *)
(***************************************************************************)
EXTENDS Integers, FiniteSets

CONSTANTS
    Runs,         \* calls of atomic_publish, each its own run id
    Keys,         \* canonical cache keys
    Domains,      \* lock partitions
    KeyOf,        \* the key each run publishes
    DomainOf,     \* the domain each key belongs to
    Lease,        \* DEFAULT_LOCK_LEASE
    MaxClock,     \* bound: the clock stops here
    NoRow         \* the absence of a row

ASSUME KeysAssumption == KeyOf \in [Runs -> Keys] /\ DomainOf \in [Keys -> Domains]
ASSUME TimeAssumption == Lease \in Nat \ {0} /\ MaxClock \in Nat
ASSUME NoRowAssumption == NoRow \notin [run : Runs, expires : Int]
                          /\ NoRow \notin [run : Runs, fetched : Int]

VARIABLES
    clock,        \* wall clock, read with now_ms()
    pc,           \* where each run stands
    lockNow,      \* acquire_seed_lock: now
    seen,         \* acquire_seed_lock: existing
    stale,        \* runs whose read snapshot a later commit has overtaken
    pubNow,       \* atomic_publish_inner: now
    result,       \* what the call returned
    seedLock,     \* table seed_lock
    canonical,    \* kv_envelope: the row of each canonical key
    staging,      \* kv_envelope: the rows <key>:staging:<run_id>
    seedMeta,     \* table seed_meta
    ontime        \* history: the runs that promoted before their lease ended

tables == <<seedLock, canonical, staging, seedMeta>>
vars == <<clock, pc, lockNow, seen, stale, pubNow, result, tables, ontime>>

Dom(r) == DomainOf[KeyOf[r]]
LockRow == [run : Runs, expires : Nat]
KvRow == [run : Runs, fetched : Nat]
Results == {"none", "Published", "AlreadyPublishing", "Validation", "Sqlx", "Busy"}
Steps == {"idle", "begin", "decide", "validate", "stage", "promote", "release",
          "done", "gone"}

TypeOK ==
    /\ clock \in Nat
    /\ pc \in [Runs -> Steps]
    /\ lockNow \in [Runs -> Nat]
    /\ seen \in [Runs -> LockRow \cup {NoRow}]
    /\ stale \subseteq Runs
    /\ pubNow \in [Runs -> Nat]
    /\ result \in [Runs -> Results]
    /\ seedLock \in [Domains -> LockRow \cup {NoRow}]
    /\ canonical \in [Keys -> KvRow \cup {NoRow}]
    /\ staging \subseteq KvRow
    /\ seedMeta \in [Keys -> KvRow \cup {NoRow}]
    /\ ontime \subseteq Runs

Init ==
    /\ clock = 0
    /\ pc = [r \in Runs |-> "idle"]
    /\ lockNow = [r \in Runs |-> 0]
    /\ seen = [r \in Runs |-> NoRow]
    /\ stale = {}
    /\ pubNow = [r \in Runs |-> 0]
    /\ result = [r \in Runs |-> "none"]
    /\ seedLock = [d \in Domains |-> NoRow]
    /\ canonical = [k \in Keys |-> NoRow]
    /\ staging = {}
    /\ seedMeta = [k \in Keys |-> NoRow]
    /\ ontime = {}

Goto(r, from, to) == pc[r] = from /\ pc' = [pc EXCEPT ![r] = to]

\* A call that returns or dies takes its local variables with it.
Forget(r) ==
    /\ lockNow' = [lockNow EXCEPT ![r] = 0]
    /\ seen' = [seen EXCEPT ![r] = NoRow]
    /\ pubNow' = [pubNow EXCEPT ![r] = 0]

Return(r, from, res) ==
    /\ Goto(r, from, "done")
    /\ result' = [result EXCEPT ![r] = res]
    /\ stale' = stale \ {r}
    /\ Forget(r)

\* After the lock is held an error still goes through the release.
Fail(r, from, res) ==
    /\ Goto(r, from, "release")
    /\ result' = [result EXCEPT ![r] = res]
    /\ UNCHANGED <<lockNow, seen, stale, pubNow>>

\* A commit of run r overtakes the snapshot of every other run that has only
\* read so far.
Overtaken(r) == {s \in Runs \ {r} : pc[s] = "decide"}

------------------------------------------------------------------------------
(* Step 1 of atomic_publish: acquire_seed_lock.                              *)

ReadClock(r) ==
    /\ Goto(r, "idle", "begin")
    /\ lockNow' = [lockNow EXCEPT ![r] = clock]
    /\ UNCHANGED <<clock, seen, stale, pubNow, result, tables, ontime>>

\* BEGIN and the SELECT, which fixes the snapshot.
SelectLock(r) ==
    /\ Goto(r, "begin", "decide")
    /\ seen' = [seen EXCEPT ![r] = seedLock[Dom(r)]]
    /\ UNCHANGED <<clock, lockNow, stale, pubNow, result, tables, ontime>>

\* No row, a row of this very run, or a holder whose lease has run out.
Available_StealsLive(r) == TRUE
Available(r) ==
    seen[r] # NoRow => seen[r].run = r \/ seen[r].expires <= lockNow[r]

\* The lease written: a re-entrant call never shortens the one it has.
NewExpiry_Negative(r) == lockNow[r] - Lease
NewExpiry(r) ==
    LET e == lockNow[r] + Lease IN
    IF seen[r] # NoRow /\ seen[r].run = r /\ seen[r].expires > e
    THEN seen[r].expires ELSE e

\* SQLite's check at the first write of a transaction that began with a read.
SnapshotHolds_Never(r) == TRUE
SnapshotHolds(r) == r \notin stale

TakeLock(r) ==
    /\ Goto(r, "decide", "validate")
    /\ Available(r)
    /\ SnapshotHolds(r)
    /\ seedLock' = [seedLock EXCEPT ![Dom(r)] = [run |-> r, expires |-> NewExpiry(r)]]
    /\ seen' = [seen EXCEPT ![r] = NoRow]
    /\ stale' = (stale \cup Overtaken(r)) \ {r}
    /\ UNCHANGED <<clock, lockNow, pubNow, result, canonical, staging, seedMeta, ontime>>

\* The write finds that another commit came first: SQLITE_BUSY, at once.
SnapshotConflict(r) ==
    /\ Available(r)
    /\ ~SnapshotHolds(r)
    /\ Return(r, "decide", "Busy")
    /\ UNCHANGED <<clock, tables, ontime>>

HeldByAnother(r) ==
    /\ ~Available(r)
    /\ Return(r, "decide", "AlreadyPublishing")
    /\ UNCHANGED <<clock, tables, ontime>>

\* Any other failure of the lock transaction (no connection, disk, a writer of
\* another table): nothing was committed.
AcquireError(r) ==
    /\ \E at \in {"begin", "decide"} : Return(r, at, "Sqlx")
    /\ UNCHANGED <<clock, tables, ontime>>

------------------------------------------------------------------------------
(* Steps 2 to 4: atomic_publish_inner.                                       *)

Validate(r) ==
    /\ Goto(r, "validate", "stage")
    /\ pubNow' = [pubNow EXCEPT ![r] = clock]
    /\ UNCHANGED <<clock, lockNow, seen, stale, result, tables, ontime>>

Invalid(r) ==
    /\ Fail(r, "validate", "Validation")
    /\ UNCHANGED <<clock, tables, ontime>>

Row(r) == [run |-> r, fetched |-> pubNow[r]]

Stage(r) ==
    /\ Goto(r, "stage", "promote")
    /\ staging' = staging \cup {Row(r)}
    /\ stale' = stale \cup Overtaken(r)
    /\ UNCHANGED <<clock, lockNow, seen, pubNow, result, seedLock, canonical, seedMeta, ontime>>

\* The staging row could not be written, or the promote transaction failed and
\* was rolled back.
InnerError_KeepsLock(r) ==
    /\ \E at \in {"stage", "promote"} : Return(r, at, "Sqlx")
    /\ UNCHANGED <<clock, tables, ontime>>
InnerError(r) ==
    /\ \E at \in {"stage", "promote"} : Fail(r, at, "Sqlx")
    /\ UNCHANGED <<clock, tables, ontime>>

\* One transaction: canonical row, staging row away, seed_meta row.
Promote(r) ==
    /\ Goto(r, "promote", "release")
    /\ result' = [result EXCEPT ![r] = "Published"]
    /\ canonical' = [canonical EXCEPT ![KeyOf[r]] = Row(r)]
    /\ seedMeta' = [seedMeta EXCEPT ![KeyOf[r]] = Row(r)]
    /\ staging' = staging \ {Row(r)}
    /\ ontime' = IF clock < lockNow[r] + Lease THEN ontime \cup {r} ELSE ontime
    /\ stale' = stale \cup Overtaken(r)
    /\ UNCHANGED <<clock, lockNow, seen, pubNow, seedLock>>

------------------------------------------------------------------------------
(* Step 5: release_seed_lock, whose result atomic_publish ignores.           *)

\* DELETE ... WHERE domain = ? AND run_id = ?
AfterRelease_Unconditional(r) == [seedLock EXCEPT ![Dom(r)] = NoRow]
AfterRelease(r) ==
    [seedLock EXCEPT ![Dom(r)] = IF @ # NoRow /\ @.run = r THEN NoRow ELSE @]

Release(r) ==
    /\ Goto(r, "release", "done")
    /\ seedLock' = AfterRelease(r)
    /\ stale' = IF seedLock' = seedLock THEN stale ELSE stale \cup Overtaken(r)
    /\ Forget(r)
    /\ UNCHANGED <<clock, result, canonical, staging, seedMeta, ontime>>

\* The DELETE failed: the row stays until its lease ends.
ReleaseError(r) ==
    /\ Goto(r, "release", "gone")
    /\ Forget(r)
    /\ UNCHANGED <<clock, stale, result, tables, ontime>>

\* The process dies or the task is aborted (BootedRelay::shutdown aborts the
\* scheduler): what was committed stays and nothing else of the call happens.
Abort(r) ==
    /\ pc[r] \notin {"idle", "done", "gone"}
    /\ pc' = [pc EXCEPT ![r] = "gone"]
    /\ stale' = stale \ {r}
    /\ Forget(r)
    /\ UNCHANGED <<clock, result, tables, ontime>>

Tick ==
    /\ clock < MaxClock
    /\ clock' = clock + 1
    /\ UNCHANGED <<pc, lockNow, seen, stale, pubNow, result, tables, ontime>>

Step(r) ==
    \/ ReadClock(r) \/ SelectLock(r)
    \/ TakeLock(r) \/ SnapshotConflict(r) \/ HeldByAnother(r) \/ AcquireError(r)
    \/ Validate(r) \/ Invalid(r) \/ Stage(r) \/ InnerError(r) \/ Promote(r)
    \/ Release(r) \/ ReleaseError(r)

Next == Tick \/ \E r \in Runs : Step(r) \/ Abort(r)

Spec == Init /\ [][Next]_vars

------------------------------------------------------------------------------
(* Properties.                                                               *)

\* The runs between a successful acquire_seed_lock and their release.
InPublish(r) == pc[r] \in {"validate", "stage", "promote", "release"}
LeaseLive(r) == clock < lockNow[r] + Lease
Holds(r) == seedLock[Dom(r)] # NoRow /\ seedLock[Dom(r)].run = r

\* Nobody takes the domain from a run whose lease is still running: not a run
\* that read the row before, not one that waited between its clock reading and
\* its write, and not the late release of an earlier holder.
LeaseHeld == \A r \in Runs : InPublish(r) /\ LeaseLive(r) => Holds(r)

\* A lock row belongs to a publish under way, or to one that was aborted or
\* whose release failed: every error path of atomic_publish gives it back.
NoLeakedLock ==
    \A d \in Domains : seedLock[d] # NoRow =>
        InPublish(seedLock[d].run) \/ pc[seedLock[d].run] = "gone"

\* What a dead holder can cost: from any moment, no row in the table blocks its
\* domain for longer than one lease.
BlockedAtMostALease ==
    \A d \in Domains : seedLock[d] # NoRow => seedLock[d].expires <= clock + Lease

\* A row written by a run that promoted within its lease is never overwritten,
\* by another run within its own lease, with a row stamped earlier.
PublishOrder ==
    [][\A k \in Keys :
          /\ canonical[k] # NoRow /\ canonical'[k] # canonical[k]
          /\ {canonical[k].run, canonical'[k].run} \subseteq ontime'
          => canonical[k].fetched <= canonical'[k].fetched]_vars

\* The three steps of an acquire and the DELETE of a release are the atomic
\* grant and release of LeaseLock.
Lock == INSTANCE LeaseLock WITH
    holder <- [d \in Domains |-> IF seedLock[d] = NoRow THEN {} ELSE {seedLock[d].run}],
    until <- [d \in Domains |-> IF seedLock[d] = NoRow THEN 0 ELSE seedLock[d].expires],
    active <- {r \in Runs : InPublish(r)}
ImplementsLeaseLock == Lock!LockSpec

==============================================================================
